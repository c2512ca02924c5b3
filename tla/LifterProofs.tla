---------------------------- MODULE LifterProofs -----------------------------
(***************************************************************************)
(* The theorems about lifter_weeperVM, for every set of programs.          *)
(***************************************************************************)
EXTENDS Lifter, FiniteSetTheorems, SequenceTheorems, TLAPS

AtomKinds == {IrKind[o] : o \in DOMAIN IrKind} \cup {"ATM_STORE", "ATM_LOAD", "ATM_COPY"}
Ids == [address : [space : {"SPACE_CONST", "SPACE_REG"}, offset : Nat]]
Atoms == [kind : AtomKinds, offset : Nat, ids : Seq(Ids)]

(***************************************************************************)
(* The inductive invariant.  The array has a cell for each instruction of  *)
(* the program and the cells in use are at most the instructions handled,  *)
(* so no handler meets a full array.                                       *)
(***************************************************************************)
Inv ==
    /\ TypeOK
    /\ pc = "start" => i = 0 /\ atoms = <<>>
    /\ pc # "start" => capacity = Len(asm)
    /\ OffsetsDense

-----------------------------------------------------------------------------
(***************************************************************************)
(* The cell of an instruction is the number of lifted instructions before  *)
(* it: it grows by one at each of them and never exceeds the label.        *)
(***************************************************************************)
LEMMA LiftedFinite ==
    ASSUME NEW k \in Nat
    PROVE  IsFiniteSet(Lifted(k)) /\ Cell(k) \in Nat /\ Cell(k) <= k
<1>1. IsFiniteSet(1 .. k) /\ Cardinality(1 .. k) = k
    <2>1. /\ IsFiniteSet(1 .. k)
          /\ Cardinality(1 .. k) = IF 1 > k THEN 0 ELSE k - 1 + 1
        BY FS_Interval
    <2> QED
        BY <2>1
<1>2. Lifted(k) \in SUBSET (1 .. k)
    BY DEF Lifted
<1>3. IsFiniteSet(Lifted(k)) /\ Cardinality(Lifted(k)) <= k
    BY <1>1, <1>2, FS_Subset
<1> QED
    BY <1>3, FS_CardinalityType DEF Cell

\* The cell is the label itself as long as there was no call.
LEMMA CellFull ==
    ASSUME NEW k \in Nat
    PROVE  Cell(k) = k <=> Lifted(k) = 1 .. k
<1>1. IsFiniteSet(1 .. k) /\ Cardinality(1 .. k) = k
    <2>1. /\ IsFiniteSet(1 .. k)
          /\ Cardinality(1 .. k) = IF 1 > k THEN 0 ELSE k - 1 + 1
        BY FS_Interval
    <2> QED
        BY <2>1
<1>2. Lifted(k) \in SUBSET (1 .. k)
    BY DEF Lifted
<1>3. Cardinality(Lifted(k)) = Cardinality(1 .. k) => Lifted(k) = 1 .. k
    BY <1>1, <1>2, FS_Subset
<1> QED
    BY <1>1, <1>3 DEF Cell

LEMMA CellZero == Cell(0) = 0
<1>1. Lifted(0) = {}
    BY DEF Lifted
<1> QED
    BY <1>1, FS_EmptySet DEF Cell

LEMMA CellStep ==
    ASSUME NEW k \in Nat
    PROVE  /\ asm[k + 1].opcode # "OPCODE_CALL" => Cell(k + 1) = Cell(k) + 1
           /\ asm[k + 1].opcode = "OPCODE_CALL" => Cell(k + 1) = Cell(k)
<1>1. CASE asm[k + 1].opcode # "OPCODE_CALL"
    <2>1. Lifted(k + 1) = Lifted(k) \cup {k + 1}
        BY <1>1 DEF Lifted
    <2>2. k + 1 \notin Lifted(k)
        BY DEF Lifted
    <2> QED
        BY <1>1, <2>1, <2>2, LiftedFinite, FS_AddElement DEF Cell
<1>2. CASE asm[k + 1].opcode = "OPCODE_CALL"
    <2>1. Lifted(k + 1) = Lifted(k)
        BY <1>2 DEF Lifted
    <2> QED
        BY <1>2, <2>1 DEF Cell
<1> QED
    BY <1>1, <1>2

LEMMA CellMonotone ==
    ASSUME NEW k \in Nat, NEW n \in Nat, k <= n
    PROVE  Cell(k) <= Cell(n)
<1>1. Lifted(k) \in SUBSET Lifted(n)
    BY DEF Lifted
<1> QED
    BY <1>1, LiftedFinite, FS_Subset DEF Cell

\* The cell of a lifted instruction among the first n is one in use by then.
LEMMA CellInUse ==
    ASSUME NEW n \in Nat, NEW k \in Lifted(n)
    PROVE  Cell(k - 1) \in Nat /\ Cell(k - 1) + 1 <= Cell(n)
<1>1. k \in 1 .. n /\ k - 1 \in Nat /\ (k - 1) + 1 = k
    BY DEF Lifted
<1>2. Cell(k) = Cell(k - 1) + 1
    <2> asm[(k - 1) + 1].opcode # "OPCODE_CALL"
        BY <1>1 DEF Lifted
    <2> QED
        BY <1>1, CellStep
<1>3. Cell(k) <= Cell(n)
    BY <1>1, CellMonotone
<1> QED
    BY <1>1, <1>2, <1>3, LiftedFinite

-----------------------------------------------------------------------------
\* operand_to_id gives an address.
LEMMA IdType ==
    ASSUME NEW operand \in Operands
    PROVE  Id(operand) \in Ids
<1>1. Address(operand) \in [space : {"SPACE_CONST", "SPACE_REG"}, offset : Nat]
    <2>1. CASE operand.kind = "OPE_IMM"
        <3>1. operand.value \in Nat
            BY <2>1 DEF Operands, Indexed, Plain
        <3> QED
            BY <2>1, <3>1 DEF Address
    <2>2. CASE operand.kind = "OPE_REG"
        <3>1. operand.index.value \in Nat
            BY <2>2 DEF Operands, Indexed, Plain
        <3> QED
            BY <2>2, <3>1 DEF Address
    <2>3. CASE operand.kind \notin {"OPE_IMM", "OPE_REG"}
        BY <2>3 DEF Address
    <2> QED
        BY <2>1, <2>2, <2>3
<1> QED
    BY <1>1 DEF Id, Ids

LEMMA IndexedAreOperands == ASSUME NEW operand \in Operands, operand.kind = "OPE_MEM"
                            PROVE  operand.index \in Operands
BY DEF Operands, Indexed, Plain
-----------------------------------------------------------------------------
(***************************************************************************)
(* The end of a handler keeps the invariant, whatever the kind and the     *)
(* operands, as long as the kind is that of the opcode where it has one.   *)
(***************************************************************************)
LEMMA AddKeeps ==
    ASSUME Inv, pc = "lift", i < Len(asm), Instr.opcode # "OPCODE_CALL",
           NEW kind \in AtomKinds, NEW ids \in Seq(Ids),
           Instr.opcode \in DOMAIN IrKind => kind = IrKind[Instr.opcode],
           Add(kind, ids)
    PROVE  Inv'
<1> DEFINE new == [kind |-> kind, offset |-> index, ids |-> ids]
<1>1. /\ i \in Nat /\ Len(asm) \in Nat /\ i + 1 \in 0 .. Len(asm)
      /\ atoms \in Seq(Atoms) /\ index \in Nat /\ index = Cell(i) /\ capacity = Len(asm)
    BY LenProperties DEF Inv, TypeOK, IsAsm, OffsetsDense, Atoms, AtomKinds, Ids, index
<1>2. index < capacity
    BY <1>1, LiftedFinite
<1>3. new \in Atoms
    BY <1>1 DEF Atoms
<1>4. /\ atoms' = Append(atoms, new) /\ index' = index + 1 /\ stamp' = index + 1
      /\ i' = i + 1 /\ asm' = asm /\ pc' = pc /\ capacity' = capacity
    BY <1>1, <1>2, <1>3, AppendProperties DEF Add, Offset, index
<1>5. /\ atoms' \in Seq(Atoms)
      /\ \A k \in 1 .. index : atoms'[k] = atoms[k]
      /\ atoms'[index + 1] = new
    BY <1>1, <1>3, <1>4, AppendProperties DEF index
<1>6. Cell(i + 1) = index + 1 /\ \A k : Lifted(k)' = Lifted(k) /\ Cell(k)' = Cell(k)
    <2>1. Cell(i + 1) = index + 1
        BY <1>1, CellStep DEF Instr
    <2> QED
        BY <2>1, <1>4 DEF Lifted, Cell
<1>7. TypeOK'
    <2>1. asm' = asm /\ pc' = pc
          /\ index' <= capacity' /\ stamp' \in -1 .. Len(asm) /\ i' \in 0 .. Len(asm)
        BY <1>1, <1>2, <1>4
    <2> QED
        BY <2>1, <1>5 DEF Inv, TypeOK, Atoms, AtomKinds, Ids
<1>9. OffsetsDense'
    <2>1. (index = Cell(i))'
        BY <1>4, <1>6
    <2>2. ASSUME NEW k \in 1 .. index + 1
          PROVE  atoms'[k].offset = k - 1
        <3>1. CASE k \in 1 .. index
            BY <3>1, <1>5 DEF Inv, OffsetsDense
        <3>2. CASE k = index + 1
            BY <3>2, <1>1, <1>5
        <3> QED
            BY <3>1, <3>2, <1>1
    <2>3. ASSUME NEW k \in Lifted(i + 1), asm[k].opcode \in DOMAIN IrKind
          PROVE  atoms'[Cell(k - 1) + 1].kind = IrKind[asm[k].opcode]
        <3>1. CASE k = i + 1
            <4>1. Cell(k - 1) = index
                BY <3>1, <1>1
            <4> QED
                BY <4>1, <3>1, <1>5, <2>3 DEF Instr
        <3>2. CASE k # i + 1
            <4>1. k \in Lifted(i)
                BY <3>2, <2>3, <1>1 DEF Lifted
            <4>2. Cell(k - 1) + 1 \in 1 .. index
                BY <4>1, <1>1, CellInUse
            <4> QED
                BY <4>1, <4>2, <1>5, <2>3 DEF Inv, OffsetsDense
        <3> QED
            BY <3>1, <3>2
    <2>4. stamp' = index' /\ i' = i + 1 /\ capacity' = Len(asm) /\ asm' = asm
        BY <1>1, <1>4
    <2>5. (stamp' = capacity') <=> (i + 1 = Len(asm) /\ Lifted(i + 1) = 1 .. i + 1)
        <3>1. i + 1 \in Nat /\ Cell(i + 1) <= i + 1 /\ i + 1 <= Len(asm) /\ Cell(i + 1) \in Nat
            BY <1>1, LiftedFinite
        <3>2. Cell(i + 1) = i + 1 <=> Lifted(i + 1) = 1 .. i + 1
            BY <3>1, CellFull
        <3>3. stamp' = Cell(i + 1) /\ capacity' = Len(asm) /\ Len(asm) \in Nat
            BY <1>1, <1>4, <1>6
        <3> QED
            BY <3>1, <3>2, <3>3
    <2> HIDE DEF new
    <2> QED
        BY <2>1, <2>2, <2>3, <2>4, <2>5, <1>4, <1>6 DEF OffsetsDense
<1> QED
    BY <1>4, <1>7, <1>9 DEF Inv

-----------------------------------------------------------------------------
LEMMA InvEntered ==
    ASSUME IsAsm(asm), Entry
    PROVE  Inv
<1>1. IsAsm(asm) /\ i = 0 /\ atoms = <<>> /\ index = 0 /\ pc = "start"
      /\ capacity = 0 /\ stamp = -1
    BY EmptySeq DEF Entry, index
<1>2. atoms \in Seq(Atoms)
    BY <1>1
<1>3. TypeOK
    BY <1>1, <1>2 DEF TypeOK, IsAsm, Atoms, AtomKinds, Ids
<1>5. OffsetsDense
    <2>1. Lifted(0) = {}
        BY DEF Lifted
    <2> QED
        BY <1>1, <2>1, CellZero DEF OffsetsDense
<1> QED
    BY <1>1, <1>3, <1>5 DEF Inv

LEMMA InitInv == Init => Inv
BY InvEntered, AsmsAssumption DEF Init

\* The operands of the handler at work are ones operand_to_id knows.
LEMMA Operand ==
    ASSUME Inv, pc = "lift", i < Len(asm)
    PROVE  /\ Instr.opcode \in Opcodes
           /\ Instr.opcode # "OPCODE_CALL" => Instr.arg0 \in Operands
           /\ Instr.opcode \notin {"OPCODE_CALL"} \cup JmpOpcodes => Instr.arg1 \in Operands
<1>1. i + 1 \in 1 .. Len(asm) /\ IsAsm(asm)
    BY DEF Inv, TypeOK, IsAsm
<1> QED
    BY <1>1 DEF IsAsm, Instr

\* One or two operands, as the handlers pass them to add_atomic_operation.
LEMMA IdLists ==
    ASSUME NEW a \in Operands
    PROVE  /\ <<Id(a)>> \in Seq(Ids)
           /\ \A b \in Operands : <<Id(a), Id(b)>> \in Seq(Ids)
<1>1. \A b \in Operands : Id(b) \in Ids
    BY IdType
<1> HIDE DEF Id, Ids
<1> QED
    BY <1>1

\* What opcode_to_ir answers for the opcodes the tables dispatch to it.
LEMMA KindKnown ==
    ASSUME NEW o \in AluOpcodes \cup JmpOpcodes \cup {"OPCODE_CMP"}
    PROVE  o \in DOMAIN IrKind /\ IrKind[o] \in AtomKinds /\ o # "OPCODE_CALL"
<1>1. o \in DOMAIN IrKind /\ o # "OPCODE_CALL"
    BY DEF IrKind, OwnKind, AluOpcodes, JmpOpcodes, CondOpcodes
<1> QED
    BY <1>1 DEF AtomKinds

LEMMA MovKindUnknown == ASSUME NEW o \in MovOpcodes
                        PROVE  o \notin DOMAIN IrKind /\ o # "OPCODE_CALL"
BY DEF IrKind, OwnKind, MovOpcodes, CondOpcodes

LEMMA StepInv == Inv /\ [Next]_vars => Inv'
<1> SUFFICES ASSUME Inv, [Next]_vars
             PROVE  Inv'
    OBVIOUS
<1>1. CASE Start
    <2>1. /\ asm' = asm /\ i' = i /\ atoms' = atoms /\ stamp' = stamp
          /\ capacity' = Len(asm) /\ pc' = "lift" /\ i = 0 /\ atoms = <<>>
        BY <1>1 DEF Start, Cells, Inv
    <2>2. index' <= capacity' /\ index' = index
        <3>1. index = 0 /\ Len(asm) \in Nat
            BY <2>1, EmptySeq DEF index, Inv, TypeOK, IsAsm
        <3> QED
            BY <3>1, <2>1 DEF index
    <2>3. TypeOK'
        BY <2>1, <2>2 DEF Inv, TypeOK
    <2>4. OffsetsDense'
        BY <2>1, <2>2 DEF Inv, OffsetsDense, Cell, Lifted
    <2> QED
        BY <2>1, <2>3, <2>4 DEF Inv
<1>2. CASE LiftMov
    <2>1. pc = "lift" /\ i < Len(asm) /\ Instr.opcode \in MovOpcodes
        BY <1>2 DEF LiftMov, Lifting
    <2>2. Instr.opcode \notin DOMAIN IrKind /\ Instr.opcode # "OPCODE_CALL"
          /\ Instr.arg0 \in Operands /\ Instr.arg1 \in Operands
        BY <2>1, Operand, MovKindUnknown DEF MovOpcodes, JmpOpcodes, CondOpcodes
    <2>3. {"ATM_STORE", "ATM_LOAD", "ATM_COPY"} \in SUBSET AtomKinds
        BY DEF AtomKinds
    <2>4. CASE Instr.arg0.kind = "OPE_MEM"
        <3>1. Add("ATM_STORE", <<Id(Instr.arg1), Id(Instr.arg0.index)>>)
            BY <1>2, <2>4 DEF LiftMov
        <3>2. Instr.arg0.index \in Operands
            BY <2>2, <2>4, IndexedAreOperands
        <3> QED
            BY <2>1, <2>2, <2>3, <3>1, <3>2, IdLists, AddKeeps
    <2>5. CASE Instr.arg0.kind # "OPE_MEM" /\ Instr.arg1.kind = "OPE_MEM"
        <3>1. Add("ATM_LOAD", <<Id(Instr.arg1.index), Id(Instr.arg0)>>)
            BY <1>2, <2>5 DEF LiftMov
        <3>2. Instr.arg1.index \in Operands
            BY <2>2, <2>5, IndexedAreOperands
        <3> QED
            BY <2>1, <2>2, <2>3, <3>1, <3>2, IdLists, AddKeeps
    <2>6. CASE Instr.arg0.kind # "OPE_MEM" /\ Instr.arg1.kind # "OPE_MEM"
        <3>1. Add("ATM_COPY", <<Id(Instr.arg1), Id(Instr.arg0)>>)
            BY <1>2, <2>6 DEF LiftMov
        <3> QED
            BY <2>1, <2>2, <2>3, <3>1, IdLists, AddKeeps
    <2> QED
        BY <2>4, <2>5, <2>6
<1>3. CASE LiftCmp \/ LiftOperation
    <2>1. /\ pc = "lift" /\ i < Len(asm) /\ Instr.opcode \in AluOpcodes \cup {"OPCODE_CMP"}
          /\ AddOpcode(Instr.opcode, <<Id(Instr.arg0), Id(Instr.arg1)>>)
        BY <1>3 DEF LiftCmp, LiftOperation, Lifting
    <2>2. /\ Instr.opcode \in DOMAIN IrKind /\ IrKind[Instr.opcode] \in AtomKinds
          /\ Instr.opcode # "OPCODE_CALL"
        BY <2>1, KindKnown
    <2>3. Instr.opcode \notin JmpOpcodes
        BY <2>1 DEF AluOpcodes, JmpOpcodes, CondOpcodes
    <2>4. Instr.arg0 \in Operands /\ Instr.arg1 \in Operands
        BY <2>1, <2>2, <2>3, Operand
    <2>5. Add(IrKind[Instr.opcode], <<Id(Instr.arg0), Id(Instr.arg1)>>)
        BY <2>1, <2>2 DEF AddOpcode
    <2> QED
        BY <2>1, <2>2, <2>4, <2>5, IdLists, AddKeeps
<1>4. CASE LiftJmp
    <2>1. /\ pc = "lift" /\ i < Len(asm) /\ Instr.opcode \in JmpOpcodes
          /\ AddOpcode(Instr.opcode, <<Id(Instr.arg0)>>)
        BY <1>4 DEF LiftJmp, Lifting
    <2>2. /\ Instr.opcode \in DOMAIN IrKind /\ IrKind[Instr.opcode] \in AtomKinds
          /\ Instr.opcode # "OPCODE_CALL"
        BY <2>1, KindKnown
    <2>3. Instr.arg0 \in Operands
        BY <2>1, <2>2, Operand
    <2>4. Add(IrKind[Instr.opcode], <<Id(Instr.arg0)>>)
        BY <2>1, <2>2 DEF AddOpcode
    <2> QED
        BY <2>1, <2>2, <2>3, <2>4, IdLists, AddKeeps
<1>5. CASE SkipCall
    <2>1. /\ pc = "lift" /\ i < Len(asm) /\ Instr.opcode = "OPCODE_CALL"
          /\ stamp' = index /\ i' = i + 1
          /\ asm' = asm /\ pc' = pc /\ atoms' = atoms /\ capacity' = capacity
          /\ index' = index
        BY <1>5 DEF SkipCall, Lifting, index
    <2>2. i \in Nat /\ Len(asm) \in Nat /\ index = Cell(i) /\ index \in Nat
          /\ index <= Len(asm)
        BY <2>1, LiftedFinite DEF Inv, TypeOK, IsAsm, OffsetsDense
    <2>3. Lifted(i + 1) = Lifted(i) /\ Cell(i + 1) = Cell(i)
        <3>1. Lifted(i + 1) = Lifted(i)
            BY <2>1, <2>2 DEF Lifted, Instr
        <3> QED
            BY <3>1 DEF Cell
    <2>4. TypeOK'
        BY <2>1, <2>2 DEF Inv, TypeOK
    <2>5. OffsetsDense'
        <3>1. \A k : Lifted(k)' = Lifted(k) /\ Cell(k)' = Cell(k)
            BY <2>1 DEF Lifted, Cell
        <3>2. i + 1 \notin Lifted(i + 1) /\ Cell(i) <= i /\ i + 1 <= Len(asm)
            <4>1. i + 1 \notin Lifted(i + 1)
                BY <2>1 DEF Lifted, Instr
            <4>2. Cell(i) <= i
                BY <2>2, LiftedFinite
            <4> QED
                BY <2>1, <2>2, <4>1, <4>2
        <3>3. ~ (i + 1 = Len(asm) /\ Lifted(i + 1) = 1 .. i + 1) /\ stamp' # capacity'
            BY <3>2, <2>1, <2>2 DEF Inv
        <3> QED
            BY <3>1, <3>3, <2>1, <2>2, <2>3 DEF Inv, OffsetsDense
    <2> QED
        BY <2>1, <2>4, <2>5 DEF Inv
<1>6. CASE Return \/ UNCHANGED vars
    <2>1. /\ asm' = asm /\ i' = i /\ atoms' = atoms /\ capacity' = capacity
          /\ stamp' = stamp /\ index' = index
          /\ pc' \in {pc, "done"} /\ (pc = "start" => pc' = "start")
        BY <1>6 DEF Return, vars, index
    <2>2. TypeOK' /\ OffsetsDense'
        BY <2>1 DEF Inv, TypeOK, OffsetsDense, Cell, Lifted
    <2> QED
        BY <2>1, <2>2 DEF Inv
<1> QED
    BY <1>1, <1>2, <1>3, <1>4, <1>5, <1>6 DEF Next

-----------------------------------------------------------------------------
LEMMA Invariance == Spec => []Inv
<1>1. Spec => Init /\ [][Next]_vars
    BY DEF Spec
<1> QED
    BY <1>1, InitInv, StepInv, PTL

(***************************************************************************)
(* lifter_weeperVM handles every program the parser delivers: no handler   *)
(* meets an opcode opcode_to_ir has no case for, no more cells are written *)
(* than the array has, one per instruction, and the stamp lies at most one *)
(* cell past them.                                                         *)
(***************************************************************************)
THEOREM TypeCorrect == Spec => []TypeOK
<1>1. Inv => TypeOK
    BY DEF Inv
<1> QED
    BY <1>1, Invariance, PTL

(***************************************************************************)
(* On every program the cells hold the lifted instructions in program      *)
(* order, cell n with offset n, the stamp of lift_instruction disturbs     *)
(* none of them, and it is past the buffer only when the last instruction  *)
(* of a program without calls has been lifted.                             *)
(***************************************************************************)
THEOREM CellsDense == Spec => []OffsetsDense
<1>1. Inv => OffsetsDense
    BY DEF Inv
<1> QED
    BY <1>1, Invariance, PTL
=============================================================================
