--------------------------- MODULE DecompileProofs ---------------------------
(***************************************************************************)
(* What decompile draws is the listing it was given, and nothing of what   *)
(* the front end allocated is left.  The lexer, the parser, the lifter,    *)
(* get_info_graph and create_graph are those of the other proof modules:   *)
(* each is entered in the state its own invariant starts from, and what it *)
(* returns is what the invariant of the next one supposes of its input.    *)
(*                                                                         *)
(* The back end comes first: its stages, each supposed to begin where the  *)
(* one before it is done, and what is drawn at the end.  Then the front    *)
(* end, and the invariant of the whole.                                    *)
(***************************************************************************)
EXTENDS Decompile, SequenceTheorems, FiniteSetTheorems, FunctionTheorems, TLAPS

LF == INSTANCE LifterProofs WITH Asms <- {}, asm <- program, pc <- lift_pc, i <- lift_i

-----------------------------------------------------------------------------

\* The lifter, get_info_graph and create_graph are those of the proof modules.
LEMMA SameAsm == \A p : Lift!IsAsm(p) <=> LF!IsAsm(p)
BY Zenon DEF Lift!IsAsm, LF!IsAsm, Lift!Opcodes, LF!Opcodes, Lift!MovOpcodes, LF!MovOpcodes,
    Lift!AluOpcodes, LF!AluOpcodes, Lift!JmpOpcodes, LF!JmpOpcodes, Lift!CondOpcodes,
    LF!CondOpcodes, Lift!Operands, LF!Operands, Lift!Indexed, LF!Indexed, Lift!Plain, LF!Plain

LEMMA SameAddress == \A o : Lift!Address(o) = LF!Address(o)
BY Zenon DEF Lift!Address, LF!Address

LEMMA SameOpcodes == /\ Lift!JmpOpcodes = LF!JmpOpcodes /\ Lift!MovOpcodes = LF!MovOpcodes
                     /\ Lift!CondOpcodes = LF!CondOpcodes /\ Lift!AluOpcodes = LF!AluOpcodes
BY Zenon DEF Lift!JmpOpcodes, LF!JmpOpcodes, Lift!MovOpcodes, LF!MovOpcodes,
    Lift!CondOpcodes, LF!CondOpcodes, Lift!AluOpcodes, LF!AluOpcodes

LEMMA SameLiftEntry == Lift!Entry => LF!Entry
BY Zenon DEF Lift!Entry, LF!Entry

LEMMA SameView == ir = LF!View
BY Zenon DEF ir, Lift!View, LF!View, Lift!index, LF!index

LEMMA SameLift == Lift!Next => LF!Next
<1>1. /\ Lift!index = LF!index /\ Lift!index' = LF!index' /\ Lift!Offset = LF!Offset
      /\ Lift!Instr = LF!Instr /\ \A opcodes : Lift!Lifting(opcodes) => LF!Lifting(opcodes)
    BY Zenon DEF Lift!index, LF!index, Lift!Offset, LF!Offset, Lift!Instr, LF!Instr,
        Lift!Lifting, LF!Lifting
<1>2. \A o : Lift!Id(o) = LF!Id(o)
    BY SameAddress, <1>1, Zenon DEF Lift!Id, LF!Id
<1>3. Lift!IrKind = LF!IrKind
    BY Zenon DEF Lift!IrKind, LF!IrKind, Lift!OwnKind, LF!OwnKind, Lift!CondOpcodes, LF!CondOpcodes
<1>4. \A kind, ids : Lift!Add(kind, ids) => LF!Add(kind, ids)
    BY <1>1, Zenon DEF Lift!Add, LF!Add
<1>5. \A op, ids : Lift!AddOpcode(op, ids) => LF!AddOpcode(op, ids)
    BY <1>3, <1>4, Zenon DEF Lift!AddOpcode, LF!AddOpcode
<1>6. Lift!LiftMov => LF!LiftMov
    BY <1>1, <1>2, <1>4, SameOpcodes, Zenon DEF Lift!LiftMov, LF!LiftMov
<1>7. Lift!LiftCmp => LF!LiftCmp
    BY <1>1, <1>2, <1>5, Zenon DEF Lift!LiftCmp, LF!LiftCmp
<1>8. Lift!LiftOperation => LF!LiftOperation
    BY <1>1, <1>2, <1>5, SameOpcodes, Zenon DEF Lift!LiftOperation, LF!LiftOperation
<1>9. Lift!LiftJmp => LF!LiftJmp
    BY <1>1, <1>2, <1>5, SameOpcodes, Zenon DEF Lift!LiftJmp, LF!LiftJmp
<1>10. Lift!SkipCall => LF!SkipCall
    BY <1>1, Zenon DEF Lift!SkipCall, LF!SkipCall
<1>11. Lift!Start => LF!Start
    BY Zenon DEF Lift!Start, LF!Start, Lift!Cells, LF!Cells
<1>12. Lift!Return => LF!Return
    BY Zenon DEF Lift!Return, LF!Return
<1> QED
    BY <1>6, <1>7, <1>8, <1>9, <1>10, <1>11, <1>12, Zenon DEF Lift!Next, LF!Next

-----------------------------------------------------------------------------
(***************************************************************************)
(* What the lifter makes of an instruction is printed as it is written.    *)
(***************************************************************************)
Shows(atom, instr) ==
    /\ Draw!VisitInstruction(atom) = AsWritten(instr)
    /\ instr.opcode = "OPCODE_JMP" <=> atom.kind = "ATM_JMP"
    /\ instr.opcode \in LF!CondOpcodes <=> atom.kind = "ATM_CONDJMP"
    /\ instr.opcode \in LF!JmpOpcodes =>
          atom.ids[1].address.offset = LF!Address(instr.arg0).offset

AtomOf(kind, ids) == [kind |-> kind, offset |-> LF!Offset, ids |-> ids]

LEMMA OperandKinds ==
    ASSUME NEW o \in LF!Operands
    PROVE  \/ o.kind = "OPE_IMM" /\ LF!Address(o) = [space |-> "SPACE_CONST", offset |-> o.value]
           \/ /\ o.kind = "OPE_REG"
              /\ LF!Address(o) = [space |-> "SPACE_REG", offset |-> o.index.value]
           \/ o.kind \in {"OPE_MEM", "OPE_FLAG"}
              /\ LF!Address(o) = [space |-> "SPACE_CONST", offset |-> 0]
<1>1. o.kind \in {"OPE_IMM", "OPE_REG", "OPE_MEM", "OPE_FLAG"}
    BY DEF LF!Operands, LF!Indexed, LF!Plain
<1> QED
    BY <1>1 DEF LF!Address

LEMMA VisitsPlainly ==
    ASSUME NEW o \in LF!Operands
    PROVE  /\ Draw!VisitId(LF!Id(o)) = Plainly(o)
           /\ LF!Id(o).address.offset = LF!Address(o).offset
<1>1. LF!Id(o).address = LF!Address(o)
    BY DEF LF!Id
<1>2. CASE o.kind = "OPE_IMM"
    BY <1>1, <1>2, OperandKinds DEF Draw!VisitId, Plainly
<1>3. CASE o.kind = "OPE_REG"
    BY <1>1, <1>3, OperandKinds DEF Draw!VisitId, Plainly
<1>4. CASE o.kind \in {"OPE_MEM", "OPE_FLAG"}
    BY <1>1, <1>4, OperandKinds DEF Draw!VisitId, Plainly
<1> QED
    BY <1>1, <1>2, <1>3, <1>4, OperandKinds

\* How the printer prints an atomic instruction, by its kind.
LEMMA Visited ==
    ASSUME NEW atom
    PROVE  /\ atom.kind \in DOMAIN Draw!Binary =>
                 Draw!VisitInstruction(atom) =
                    Draw!Text(Draw!Binary[atom.kind],
                              <<Draw!VisitId(atom.ids[1]), Draw!VisitId(atom.ids[2])>>)
           /\ atom.kind \in DOMAIN Draw!Jumps =>
                 Draw!VisitInstruction(atom) =
                    Draw!Text(Draw!Jumps[atom.kind], <<Draw!VisitId(atom.ids[1])>>)
           /\ atom.kind = "ATM_COPY" =>
                 Draw!VisitInstruction(atom) =
                    Draw!Text("COPY", <<Draw!VisitId(atom.ids[2]), Draw!VisitId(atom.ids[1])>>)
           /\ atom.kind = "ATM_LOAD" =>
                 Draw!VisitInstruction(atom) =
                    Draw!Text("LOAD", <<Draw!VisitId(atom.ids[2]), Draw!AtPointer(atom.ids[1])>>)
           /\ atom.kind = "ATM_STORE" =>
                 Draw!VisitInstruction(atom) =
                    Draw!Text("STORE", <<Draw!AtPointer(atom.ids[2]), Draw!VisitId(atom.ids[1])>>)
<1>1. /\ \A kind \in DOMAIN Draw!Binary :
            /\ kind \notin DOMAIN Draw!Jumps
            /\ kind # "ATM_COPY" /\ kind # "ATM_LOAD" /\ kind # "ATM_STORE"
      /\ \A kind \in DOMAIN Draw!Jumps :
            kind # "ATM_COPY" /\ kind # "ATM_LOAD" /\ kind # "ATM_STORE"
    BY DEF Draw!Binary, Draw!Jumps
<1>2. "ATM_COPY" # "ATM_LOAD" /\ "ATM_COPY" # "ATM_STORE" /\ "ATM_LOAD" # "ATM_STORE"
    OBVIOUS
<1>3. CASE atom.kind \in DOMAIN Draw!Binary
    BY <1>1, <1>3, Zenon DEF Draw!VisitInstruction
<1>4. CASE atom.kind \in DOMAIN Draw!Jumps
    BY <1>1, <1>4, Zenon DEF Draw!VisitInstruction
<1>5. CASE atom.kind = "ATM_COPY"
    BY <1>1, <1>2, <1>5, Zenon DEF Draw!VisitInstruction
<1>6. CASE atom.kind = "ATM_LOAD"
    BY <1>1, <1>2, <1>6, Zenon DEF Draw!VisitInstruction
<1>7. CASE atom.kind = "ATM_STORE"
    BY <1>1, <1>2, <1>7, Zenon DEF Draw!VisitInstruction
<1> QED
    BY <1>1, <1>2, <1>3, <1>4, <1>5, <1>6, <1>7, Zenon

\* Operations and comparisons,
LEMMA ShowsBinary ==
    ASSUME NEW instr, instr.opcode \in LF!AluOpcodes \cup {"OPCODE_CMP"},
           instr.arg0 \in LF!Operands, instr.arg1 \in LF!Operands
    PROVE  Shows(AtomOf(LF!IrKind[instr.opcode], <<LF!Id(instr.arg0), LF!Id(instr.arg1)>>), instr)
<1> DEFINE o == instr.opcode
           atom == AtomOf(LF!IrKind[o], <<LF!Id(instr.arg0), LF!Id(instr.arg1)>>)
<1>1. /\ LF!IrKind[o] \in DOMAIN Draw!Binary
      /\ Draw!Binary[LF!IrKind[o]] = WrittenName[o]
      /\ LF!IrKind[o] \notin {"ATM_JMP", "ATM_CONDJMP"}
      /\ o # "OPCODE_JMP" /\ o \notin LF!CondOpcodes /\ o \notin LF!JmpOpcodes
      /\ o \notin LF!MovOpcodes
    BY DEF LF!AluOpcodes, LF!IrKind, LF!OwnKind, LF!CondOpcodes, LF!JmpOpcodes, LF!MovOpcodes,
        Draw!Binary, WrittenName
<1>2. /\ atom.kind = LF!IrKind[o]
      /\ atom.ids[1] = LF!Id(instr.arg0) /\ atom.ids[2] = LF!Id(instr.arg1)
    BY DEF AtomOf
<1>3. AsWritten(instr) =
         [name |-> WrittenName[o], operands |-> <<Plainly(instr.arg0), Plainly(instr.arg1)>>]
    BY <1>1, SameOpcodes, Zenon DEF AsWritten
<1> HIDE DEF atom, o
<1>4. Draw!VisitInstruction(atom) =
         [name |-> WrittenName[o], operands |-> <<Plainly(instr.arg0), Plainly(instr.arg1)>>]
    <2>1. Draw!VisitInstruction(atom) =
             Draw!Text(Draw!Binary[atom.kind],
                       <<Draw!VisitId(atom.ids[1]), Draw!VisitId(atom.ids[2])>>)
        BY <1>1, <1>2, Visited, Zenon
    <2> QED
        BY <2>1, <1>1, <1>2, VisitsPlainly, Zenon DEF Draw!Text
<1> QED
    BY <1>1, <1>2, <1>3, <1>4 DEF Shows, atom, o

\* jumps,
LEMMA ShowsJump ==
    ASSUME NEW instr, instr.opcode \in LF!JmpOpcodes, instr.arg0 \in LF!Operands
    PROVE  Shows(AtomOf(LF!IrKind[instr.opcode], <<LF!Id(instr.arg0)>>), instr)
<1> DEFINE o == instr.opcode
           atom == AtomOf(LF!IrKind[o], <<LF!Id(instr.arg0)>>)
<1>1. /\ \/ o = "OPCODE_JMP" /\ LF!IrKind[o] = "ATM_JMP" /\ o \notin LF!CondOpcodes
         \/ o \in LF!CondOpcodes /\ LF!IrKind[o] = "ATM_CONDJMP" /\ o # "OPCODE_JMP"
      /\ o \notin LF!MovOpcodes
    BY DEF LF!IrKind, LF!OwnKind, LF!CondOpcodes, LF!JmpOpcodes, LF!MovOpcodes
<1>2. atom.kind = LF!IrKind[o] /\ atom.ids[1] = LF!Id(instr.arg0)
    BY DEF AtomOf
<1>3. AsWritten(instr) = [name |-> IF o = "OPCODE_JMP" THEN "JMP" ELSE "CONDJMP",
                          operands |-> <<Plainly(instr.arg0)>>]
    BY <1>1, SameOpcodes, Zenon DEF AsWritten
<1> HIDE DEF atom, o
<1>4. /\ LF!IrKind[o] \in DOMAIN Draw!Jumps /\ LF!IrKind[o] \notin DOMAIN Draw!Binary
      /\ LF!IrKind[o] \notin {"ATM_COPY", "ATM_LOAD", "ATM_STORE"}
      /\ Draw!Jumps[LF!IrKind[o]] = IF o = "OPCODE_JMP" THEN "JMP" ELSE "CONDJMP"
    BY <1>1 DEF Draw!Jumps, Draw!Binary
<1>5. Draw!VisitInstruction(atom) =
         [name |-> IF o = "OPCODE_JMP" THEN "JMP" ELSE "CONDJMP",
          operands |-> <<Plainly(instr.arg0)>>]
    <2>1. Draw!VisitInstruction(atom) =
             Draw!Text(Draw!Jumps[atom.kind], <<Draw!VisitId(atom.ids[1])>>)
        BY <1>2, <1>4, Visited, Zenon
    <2> QED
        BY <2>1, <1>2, <1>4, VisitsPlainly, Zenon DEF Draw!Text
<1> QED
    BY <1>1, <1>2, <1>3, <1>5, VisitsPlainly DEF Shows, atom, o

\* and the three kinds of mov.
LEMMA ShowsMov ==
    ASSUME NEW instr, instr.opcode \in LF!MovOpcodes,
           instr.arg0 \in LF!Operands, instr.arg1 \in LF!Operands
    PROVE  /\ instr.arg0.kind = "OPE_MEM" =>
                 Shows(AtomOf("ATM_STORE", <<LF!Id(instr.arg1), LF!Id(instr.arg0.index)>>), instr)
           /\ instr.arg0.kind # "OPE_MEM" /\ instr.arg1.kind = "OPE_MEM" =>
                 Shows(AtomOf("ATM_LOAD", <<LF!Id(instr.arg1.index), LF!Id(instr.arg0)>>), instr)
           /\ instr.arg0.kind # "OPE_MEM" /\ instr.arg1.kind # "OPE_MEM" =>
                 Shows(AtomOf("ATM_COPY", <<LF!Id(instr.arg1), LF!Id(instr.arg0)>>), instr)
<1>1. /\ instr.opcode # "OPCODE_JMP" /\ instr.opcode \notin LF!CondOpcodes
      /\ instr.opcode \notin LF!JmpOpcodes
    BY DEF LF!CondOpcodes, LF!JmpOpcodes, LF!MovOpcodes
<1>2. ASSUME NEW kind, NEW x, NEW y
      PROVE  /\ AtomOf(kind, <<x, y>>).kind = kind
             /\ AtomOf(kind, <<x, y>>).ids[1] = x /\ AtomOf(kind, <<x, y>>).ids[2] = y
    BY DEF AtomOf
<1>3. \A o \in LF!Operands : o.kind = "OPE_MEM" => o.index \in LF!Operands
    BY LF!IndexedAreOperands, CellsAssumption
<1>4. CASE instr.arg0.kind = "OPE_MEM"
    <2> DEFINE atom == AtomOf("ATM_STORE", <<LF!Id(instr.arg1), LF!Id(instr.arg0.index)>>)
    <2>1. /\ atom.kind = "ATM_STORE" /\ atom.ids[1] = LF!Id(instr.arg1)
          /\ atom.ids[2] = LF!Id(instr.arg0.index)
        BY <1>2
    <2> HIDE DEF atom
    <2>2. Draw!VisitInstruction(atom) =
             Draw!Text("STORE", <<Draw!AtPointer(atom.ids[2]), Draw!VisitId(atom.ids[1])>>)
        BY <2>1, Visited, Zenon
    <2>3. AsWritten(instr) =
             [name |-> "STORE", operands |-> <<Memory(instr.arg0), Plainly(instr.arg1)>>]
        BY <1>1, <1>4, SameOpcodes, Zenon DEF AsWritten
    <2>4. Draw!VisitInstruction(atom) = AsWritten(instr)
        BY <1>3, <1>4, <2>1, <2>2, <2>3, VisitsPlainly, Zenon DEF Draw!Text, Draw!AtPointer, Memory
    <2> QED
        BY <1>1, <1>4, <2>1, <2>4 DEF Shows, atom
<1>5. CASE instr.arg0.kind # "OPE_MEM" /\ instr.arg1.kind = "OPE_MEM"
    <2> DEFINE atom == AtomOf("ATM_LOAD", <<LF!Id(instr.arg1.index), LF!Id(instr.arg0)>>)
    <2>1. /\ atom.kind = "ATM_LOAD" /\ atom.ids[1] = LF!Id(instr.arg1.index)
          /\ atom.ids[2] = LF!Id(instr.arg0)
        BY <1>2
    <2> HIDE DEF atom
    <2>2. Draw!VisitInstruction(atom) =
             Draw!Text("LOAD", <<Draw!VisitId(atom.ids[2]), Draw!AtPointer(atom.ids[1])>>)
        BY <2>1, Visited, Zenon
    <2>3. AsWritten(instr) =
             [name |-> "LOAD", operands |-> <<Plainly(instr.arg0), Memory(instr.arg1)>>]
        BY <1>1, <1>5, SameOpcodes, Zenon DEF AsWritten
    <2>4. Draw!VisitInstruction(atom) = AsWritten(instr)
        BY <1>3, <1>5, <2>1, <2>2, <2>3, VisitsPlainly, Zenon DEF Draw!Text, Draw!AtPointer, Memory
    <2> QED
        BY <1>1, <1>5, <2>1, <2>4 DEF Shows, atom
<1>6. CASE instr.arg0.kind # "OPE_MEM" /\ instr.arg1.kind # "OPE_MEM"
    <2> DEFINE atom == AtomOf("ATM_COPY", <<LF!Id(instr.arg1), LF!Id(instr.arg0)>>)
    <2>1. /\ atom.kind = "ATM_COPY" /\ atom.ids[1] = LF!Id(instr.arg1)
          /\ atom.ids[2] = LF!Id(instr.arg0)
        BY <1>2
    <2> HIDE DEF atom
    <2>2. Draw!VisitInstruction(atom) =
             Draw!Text("COPY", <<Draw!VisitId(atom.ids[2]), Draw!VisitId(atom.ids[1])>>)
        BY <2>1, Visited, Zenon
    <2>3. AsWritten(instr) =
             [name |-> "COPY", operands |-> <<Plainly(instr.arg0), Plainly(instr.arg1)>>]
        BY <1>1, <1>6, SameOpcodes, Zenon DEF AsWritten
    <2>4. Draw!VisitInstruction(atom) = AsWritten(instr)
        BY <2>1, <2>2, <2>3, VisitsPlainly, Zenon DEF Draw!Text
    <2> QED
        BY <1>1, <1>6, <2>1, <2>4 DEF Shows, atom
<1> QED
    BY <1>4, <1>5, <1>6

-----------------------------------------------------------------------------
\* What the parser has handed over.
Parsed == parser_pc \in {"done", "freed"}

(***************************************************************************)
(* The lifter starts where the parser has returned.                        *)
(***************************************************************************)
Lifting ==
    /\ \A k \in LF!Lifted(lift_i) : Shows(atoms[LF!Cell(k - 1) + 1], program[k])
    /\ \A n \in 1 .. LF!index : \E k \in LF!Lifted(lift_i) : n = LF!Cell(k - 1) + 1
    /\ lift_pc = "done" => lift_i = Len(program)

LiftStage ==
    /\ Parsed => LF!Inv /\ Lifting
    /\ ~ Parsed => LF!Entry

\* The end of a handler that has made the right instruction.
LEMMA AddLifts ==
    ASSUME LF!Inv, Lifting, lift_pc = "lift", lift_i < Len(program),
           NEW kind, NEW ids, LF!Add(kind, ids), Shows(AtomOf(kind, ids), LF!Instr),
           LF!Instr.opcode # "OPCODE_CALL"
    PROVE  Lifting'
<1> DEFINE new == AtomOf(kind, ids)
<1>1. /\ atoms' = Append(atoms, new) /\ lift_i' = lift_i + 1 /\ program' = program
      /\ lift_pc' = "lift"
    BY DEF LF!Add, AtomOf
<1>2. /\ lift_i \in Nat /\ LF!index \in Nat /\ LF!index = LF!Cell(lift_i)
      /\ \E S : atoms \in Seq(S)
    <2>1. \E S : atoms \in Seq(S)
        BY Zenon DEF LF!Inv, LF!TypeOK
    <2>2. LF!index \in Nat
        BY <2>1, LenProperties DEF LF!index
    <2> QED
        BY <2>1, <2>2 DEF LF!Inv, LF!TypeOK, LF!OffsetsDense
<1>3. \A n : n \in 1 .. LF!index => atoms'[n] = atoms[n]
    BY <1>1, <1>2 DEF LF!index
<1>4. atoms'[LF!index + 1] = new
    BY <1>1, <1>2 DEF LF!index
<1>5. \A k : LF!Lifted(k)' = LF!Lifted(k) /\ LF!Cell(k)' = LF!Cell(k)
    BY <1>1 DEF LF!Lifted, LF!Cell
<1>6. ASSUME NEW k \in LF!Lifted(lift_i + 1)
      PROVE  Shows(atoms'[LF!Cell(k - 1) + 1], program[k])
    <2>1. CASE k = lift_i + 1
        <3>1. LF!Cell(k - 1) = LF!index /\ program[k] = LF!Instr
            BY <1>2, <2>1 DEF LF!Instr
        <3> QED
            BY <1>4, <3>1
    <2>2. CASE k # lift_i + 1
        <3>1. k \in LF!Lifted(lift_i)
            BY <1>2, <2>2 DEF LF!Lifted
        <3>2. LF!Cell(k - 1) + 1 \in 1 .. LF!index
            BY <1>2, <3>1, LF!CellInUse, CellsAssumption
        <3> QED
            BY <1>3, <3>1, <3>2 DEF Lifting
    <2> QED
        BY <2>1, <2>2
<1>7. ASSUME NEW n \in 1 .. LF!index + 1
      PROVE  \E k \in LF!Lifted(lift_i + 1) : n = LF!Cell(k - 1) + 1
    <2>1. CASE n = LF!index + 1
        <3>1. lift_i + 1 \in LF!Lifted(lift_i + 1) /\ (lift_i + 1) - 1 = lift_i
            BY <1>2 DEF LF!Lifted, LF!Instr
        <3> QED
            BY <1>2, <2>1, <3>1
    <2>2. CASE n # LF!index + 1
        <3>1. n \in 1 .. LF!index
            BY <1>2, <2>2
        <3>2. LF!Lifted(lift_i) \subseteq LF!Lifted(lift_i + 1)
            BY <1>2 DEF LF!Lifted
        <3> QED
            BY <3>1, <3>2 DEF Lifting
    <2> QED
        BY <2>1, <2>2
<1>8. LF!index' = LF!index + 1
    BY <1>1, <1>2 DEF LF!index
<1> QED
    BY <1>1, <1>5, <1>6, <1>7, <1>8 DEF Lifting

\* Every step of the lifter keeps what is lifted as it is written.
LEMMA LiftsStep ==
    ASSUME LF!Inv, Lifting, LF!Next \/ UNCHANGED LF!vars
    PROVE  LF!Inv' /\ Lifting'
<1>0. LF!Inv'
    BY LF!StepInv, CellsAssumption
<1>1. ASSUME LF!LiftMov \/ LF!LiftCmp \/ LF!LiftOperation \/ LF!LiftJmp
      PROVE  /\ lift_pc = "lift" /\ lift_i < Len(program)
             /\ LF!Instr.opcode # "OPCODE_CALL"
             /\ LF!Instr.arg0 \in LF!Operands
             /\ ~ LF!LiftJmp => LF!Instr.arg1 \in LF!Operands
    <2>1. /\ lift_pc = "lift" /\ lift_i < Len(program)
          /\ LF!Instr.opcode
                \in LF!MovOpcodes \cup LF!AluOpcodes \cup LF!JmpOpcodes \cup {"OPCODE_CMP"}
          /\ ~ LF!LiftJmp =>
                LF!Instr.opcode \in LF!MovOpcodes \cup LF!AluOpcodes \cup {"OPCODE_CMP"}
        BY <1>1 DEF LF!LiftMov, LF!LiftCmp, LF!LiftOperation, LF!LiftJmp, LF!Lifting
    <2>2. /\ LF!Instr.opcode # "OPCODE_CALL"
          /\ ~ LF!LiftJmp => LF!Instr.opcode \notin LF!JmpOpcodes
        BY <2>1 DEF LF!MovOpcodes, LF!AluOpcodes, LF!JmpOpcodes, LF!CondOpcodes
    <2> QED
        BY <2>1, <2>2, LF!Operand, CellsAssumption
<1>2. CASE LF!LiftMov
    <2>1. LF!Instr.opcode \in LF!MovOpcodes
        BY <1>2 DEF LF!LiftMov, LF!Lifting
    <2>2. ~ LF!LiftJmp
        BY <2>1 DEF LF!LiftJmp, LF!Lifting, LF!MovOpcodes, LF!JmpOpcodes, LF!CondOpcodes
    <2>3. CASE LF!Instr.arg0.kind = "OPE_MEM"
        <3>1. LF!Add("ATM_STORE", <<LF!Id(LF!Instr.arg1), LF!Id(LF!Instr.arg0.index)>>)
            BY <1>2, <2>3 DEF LF!LiftMov
        <3>2. Shows(AtomOf("ATM_STORE", <<LF!Id(LF!Instr.arg1), LF!Id(LF!Instr.arg0.index)>>),
                    LF!Instr)
            BY <1>1, <1>2, <2>1, <2>2, <2>3, ShowsMov
        <3> QED
            BY <1>0, <1>1, <1>2, <3>1, <3>2, AddLifts
    <2>4. CASE LF!Instr.arg0.kind # "OPE_MEM" /\ LF!Instr.arg1.kind = "OPE_MEM"
        <3>1. LF!Add("ATM_LOAD", <<LF!Id(LF!Instr.arg1.index), LF!Id(LF!Instr.arg0)>>)
            BY <1>2, <2>4 DEF LF!LiftMov
        <3>2. Shows(AtomOf("ATM_LOAD", <<LF!Id(LF!Instr.arg1.index), LF!Id(LF!Instr.arg0)>>),
                    LF!Instr)
            BY <1>1, <1>2, <2>1, <2>2, <2>4, ShowsMov
        <3> QED
            BY <1>0, <1>1, <1>2, <3>1, <3>2, AddLifts
    <2>5. CASE LF!Instr.arg0.kind # "OPE_MEM" /\ LF!Instr.arg1.kind # "OPE_MEM"
        <3>1. LF!Add("ATM_COPY", <<LF!Id(LF!Instr.arg1), LF!Id(LF!Instr.arg0)>>)
            BY <1>2, <2>5 DEF LF!LiftMov
        <3>2. Shows(AtomOf("ATM_COPY", <<LF!Id(LF!Instr.arg1), LF!Id(LF!Instr.arg0)>>), LF!Instr)
            BY <1>1, <1>2, <2>1, <2>2, <2>5, ShowsMov
        <3> QED
            BY <1>0, <1>1, <1>2, <3>1, <3>2, AddLifts
    <2> QED
        BY <1>0, <2>3, <2>4, <2>5
<1>3. CASE LF!LiftCmp \/ LF!LiftOperation
    <2>1. /\ LF!Instr.opcode \in LF!AluOpcodes \cup {"OPCODE_CMP"}
          /\ LF!AddOpcode(LF!Instr.opcode, <<LF!Id(LF!Instr.arg0), LF!Id(LF!Instr.arg1)>>)
        BY <1>3 DEF LF!LiftCmp, LF!LiftOperation, LF!Lifting
    <2>2. ~ LF!LiftJmp
        BY <2>1 DEF LF!LiftJmp, LF!Lifting, LF!AluOpcodes, LF!JmpOpcodes, LF!CondOpcodes
    <2>3. LF!Instr.opcode \in DOMAIN LF!IrKind
        BY <2>1, LF!KindKnown, CellsAssumption
    <2>4. LF!Add(LF!IrKind[LF!Instr.opcode], <<LF!Id(LF!Instr.arg0), LF!Id(LF!Instr.arg1)>>)
        BY <2>1, <2>3 DEF LF!AddOpcode
    <2> QED
        BY <1>0, <1>1, <1>3, <2>1, <2>2, <2>4, ShowsBinary, AddLifts
<1>4. CASE LF!LiftJmp
    <2>1. /\ LF!Instr.opcode \in LF!JmpOpcodes
          /\ LF!AddOpcode(LF!Instr.opcode, <<LF!Id(LF!Instr.arg0)>>)
        BY <1>4 DEF LF!LiftJmp, LF!Lifting
    <2>2. LF!Instr.opcode \in DOMAIN LF!IrKind
        BY <2>1, LF!KindKnown, CellsAssumption
    <2>3. LF!Add(LF!IrKind[LF!Instr.opcode], <<LF!Id(LF!Instr.arg0)>>)
        BY <2>1, <2>2 DEF LF!AddOpcode
    <2> QED
        BY <1>0, <1>1, <1>4, <2>1, <2>3, ShowsJump, AddLifts
<1>5. CASE LF!SkipCall \/ LF!Start \/ LF!Return \/ UNCHANGED LF!vars
    <2>1. /\ program' = program /\ atoms' = atoms
          /\ \/ lift_i' = lift_i
             \/ lift_i' = lift_i + 1 /\ program[lift_i + 1].opcode = "OPCODE_CALL"
          /\ \/ lift_pc' # "done"
             \/ lift_i' = lift_i /\ lift_pc = "done"
             \/ lift_i' = lift_i /\ lift_i >= Len(program)
        BY <1>5 DEF LF!SkipCall, LF!Lifting, LF!Instr, LF!Start, LF!Return, LF!vars
    <2>2. \A k : LF!Lifted(k)' = LF!Lifted(k) /\ LF!Cell(k)' = LF!Cell(k)
        BY <2>1 DEF LF!Lifted, LF!Cell
    <2>3. LF!Lifted(lift_i') = LF!Lifted(lift_i)
        <3>1. lift_i \in Nat
            BY DEF LF!Inv, LF!TypeOK
        <3> QED
            BY <2>1, <3>1 DEF LF!Lifted
    <2>4. LF!index' = LF!index
        BY <2>1 DEF LF!index
    <2>5. lift_pc' = "done" => lift_i' = Len(program')
        <3>1. lift_i \in 0 .. Len(program) /\ Len(program) \in Nat
            BY DEF LF!Inv, LF!TypeOK, LF!IsAsm
        <3>2. lift_pc = "done" => lift_i = Len(program)
            BY DEF Lifting
        <3>3. lift_pc' = "done" => lift_i = Len(program)
            BY <2>1, <3>1, <3>2
        <3>4. program' = program /\ (lift_pc' # "done" \/ lift_i' = lift_i)
            BY <2>1, Zenon
        <3> QED
            BY <3>3, <3>4, Zenon
    <2> QED
        BY <1>0, <2>1, <2>2, <2>3, <2>4, <2>5 DEF Lifting
<1> QED
    BY <1>2, <1>3, <1>4, <1>5 DEF LF!Next

LEMMA LiftEntered ==
    ASSUME LF!IsAsm(program), LF!Entry
    PROVE  LF!Inv /\ Lifting
<1>1. LF!Inv
    BY LF!InvEntered, CellsAssumption
<1>2. LF!Lifted(lift_i) = {} /\ LF!index = 0 /\ lift_pc # "done"
    BY EmptySeq DEF LF!Entry, LF!Lifted, LF!index
<1> QED
    BY <1>1, <1>2 DEF Lifting

LEMMA LiftEnters == (LF!IsAsm(program) /\ LF!Entry => LF!Inv /\ Lifting)'
BY LiftEntered, PTL

\* The stage begins when the parser returns, and nothing but the lifter disturbs it.
LEMMA LiftStageKept ==
    ASSUME LiftStage, UNCHANGED lift_vars, Parsed => Parsed' /\ program' = program,
           (Parsed => LF!IsAsm(program))'
    PROVE  LiftStage'
<1>1. CASE Parsed
    <2>1. UNCHANGED LF!vars
        BY <1>1 DEF LF!vars, lift_vars
    <2> QED
        BY <1>1, <2>1, LiftsStep DEF LiftStage
<1>2. CASE ~ Parsed
    <2>1. LF!Entry'
        BY <1>2 DEF LiftStage, LF!Entry, lift_vars
    <2>2. ASSUME Parsed' PROVE LF!Inv' /\ Lifting'
        BY <2>1, <2>2, LiftEnters
    <2> QED
        BY <2>1, <2>2 DEF LiftStage
<1> QED
    BY <1>1, <1>2

-----------------------------------------------------------------------------
IP == INSTANCE LeadersProofs WITH Programs <- {}, pc <- info_pc, i <- info_i
CP == INSTANCE CfgBuilderProofs WITH Programs <- {}, pc <- cfg_pc

\* get_info_graph and create_graph are those of the proof modules.
LEMMA SameInfoEntry == Info!Entry => IP!Entry
BY Zenon DEF Info!Entry, IP!Entry

LEMMA SameInfo == Info!Next => IP!Next
<1> USE DEF Info!Kind, IP!Kind, Info!Target, IP!Target, Info!Offsets, IP!Offsets
<1>1. Info!Alloc => IP!Alloc
    BY Zenon DEF Info!Alloc, IP!Alloc
<1>2. Info!ScanInstr => IP!ScanInstr
    BY Zenon DEF Info!ScanInstr, IP!ScanInstr, Info!Written, IP!Written
<1>3. \A s : Info!Sorted(s) = IP!Sorted(s)
    BY Zenon DEF Info!Sorted, IP!Sorted, Info!IsKthSmallest, IP!IsKthSmallest,
        Info!Below, IP!Below, Info!UpTo, IP!UpTo, Info!Cardinality, IP!Cardinality
<1>4. Info!Sort => IP!Sort
    BY <1>3, Zenon DEF Info!Sort, IP!Sort
<1>5. Info!Dedup => IP!Dedup
    BY Zenon DEF Info!Dedup, IP!Dedup, Info!IsFresh, IP!IsFresh
<1>6. Info!Truncate => IP!Truncate
    BY Zenon DEF Info!Truncate, IP!Truncate
<1>7. Info!CountEdges => IP!CountEdges
    BY Zenon DEF Info!CountEdges, IP!CountEdges, Info!EdgeRoom, IP!EdgeRoom
<1>8. Info!CountWild => IP!CountWild
    BY Zenon DEF Info!CountWild, IP!CountWild
<1>9. Info!Return => IP!Return
    BY Zenon DEF Info!Return, IP!Return
<1> QED
    BY <1>1, <1>2, <1>4, <1>5, <1>6, <1>7, <1>8, <1>9, Zenon DEF Info!Next, IP!Next

LEMMA SameLeaders == \A p : /\ Cfg!Leaders(p) = CP!Leaders(p) /\ IP!Leaders(p) = CP!Leaders(p)
                            /\ IR!Leaders(p) = CP!Leaders(p)
BY Zenon DEF Cfg!Leaders, CP!Leaders, IP!Leaders, IR!Leaders, Cfg!Kind, CP!Kind, IP!Kind, IR!Kind,
    Cfg!Target, CP!Target, IP!Target, IR!Target, Cfg!Offsets, CP!Offsets, IP!Offsets, IR!Offsets,
    Cfg!IsJump, CP!IsJump, IP!IsJump, IR!IsJump

LEMMA SameSearch == /\ Cfg!Next => CP!Next
                    /\ Cfg!CallNothing => CP!CallNothing
<1> USE DEF Cfg!Kind, CP!Kind, Cfg!Target, CP!Target, Cfg!Offsets, CP!Offsets, Cfg!IsJump, CP!IsJump
<1>1. \A p, l : Cfg!BlockEnd(p, l) = CP!BlockEnd(p, l)
    BY SameLeaders, Zenon DEF Cfg!BlockEnd, CP!BlockEnd, Cfg!IsBlockEnd, CP!IsBlockEnd
<1>2. \A n : Cfg!LastInstr(n) = CP!LastInstr(n) /\ (Cfg!IsLast(n) <=> CP!IsLast(n))
             /\ Cfg!FindNode(n) = CP!FindNode(n)
    BY <1>1, SameLeaders, Zenon DEF Cfg!LastInstr, CP!LastInstr, Cfg!IsLast, CP!IsLast,
        Cfg!FindNode, CP!FindNode
<1>3. \A node, offset, frames :
         Cfg!LinkAndCall(node, offset, frames) => CP!LinkAndCall(node, offset, frames)
    BY <1>2, Zenon DEF Cfg!LinkAndCall, CP!LinkAndCall
<1>4. \A node : Cfg!Enter(node) => CP!Enter(node)
    BY Zenon DEF Cfg!Enter, CP!Enter
<1>5. /\ \A n, br : Cfg!Frame(n, br) = CP!Frame(n, br)
      /\ Cfg!Top = CP!Top /\ Cfg!Pop = CP!Pop /\ (Cfg!EdgeFound <=> CP!EdgeFound)
    BY Zenon DEF Cfg!Frame, CP!Frame, Cfg!Top, CP!Top, Cfg!Pop, CP!Pop, Cfg!EdgeFound, CP!EdgeFound
<1>6. Cfg!CallVisited => CP!CallVisited
    BY Zenon DEF Cfg!CallVisited, CP!CallVisited
<1>7. Cfg!CallJump => CP!CallJump
    BY <1>2, <1>3, <1>4, <1>5, SameLeaders, Zenon DEF Cfg!CallJump, CP!CallJump
<1>8. Cfg!CallFall => CP!CallFall
    BY <1>2, <1>3, <1>4, <1>5, SameLeaders, Zenon DEF Cfg!CallFall, CP!CallFall
<1>9. Cfg!CallEnd => CP!CallEnd
    BY <1>2, <1>4, SameLeaders, Zenon DEF Cfg!CallEnd, CP!CallEnd
<1>10. Cfg!CallNothing => CP!CallNothing
    BY <1>2, SameLeaders, Zenon DEF Cfg!CallNothing, CP!CallNothing
<1>11. /\ Cfg!EdgesFull <=> CP!EdgesFull
       /\ Cfg!TakesFalseBranch <=> CP!TakesFalseBranch
       /\ Cfg!RecordEdge => CP!RecordEdge
    BY <1>2, <1>5, SameLeaders, Zenon DEF Cfg!EdgesFull, CP!EdgesFull, Cfg!EdgeCapacity,
        CP!EdgeCapacity, Cfg!TakesFalseBranch, CP!TakesFalseBranch, Cfg!RecordEdge, CP!RecordEdge,
        Cfg!Cardinality, CP!Cardinality
<1>12. Cfg!ResumeFalse => CP!ResumeFalse
    BY <1>2, <1>3, <1>5, <1>11, Zenon DEF Cfg!ResumeFalse, CP!ResumeFalse
<1>13. Cfg!ResumeUp => CP!ResumeUp
    BY <1>5, <1>11, Zenon DEF Cfg!ResumeUp, CP!ResumeUp
<1>14. Cfg!Finish => CP!Finish
    BY Zenon DEF Cfg!Finish, CP!Finish
<1> QED
    BY <1>6, <1>7, <1>8, <1>9, <1>10, <1>12, <1>13, <1>14, Zenon DEF Cfg!Next, CP!Next

-----------------------------------------------------------------------------
\* The stages of the back end speak of the same IR.
LEMMA SameProgram ==
    \A p : /\ IP!IsProgram(p) <=> CP!IsProgram(p)
           /\ IP!StartsInside(p) <=> CP!StartsInside(p)
           /\ CP!IsBuildable(p) <=> CP!IsProgram(p) /\ CP!StartsInside(p)
BY Zenon DEF IP!IsProgram, CP!IsProgram, IP!StartsInside, CP!StartsInside, CP!IsBuildable,
    IP!Kinds, CP!Kinds, IP!Kind, CP!Kind, IP!Target, CP!Target, IP!Offsets, CP!Offsets,
    IP!IsJump, CP!IsJump

\* What the lifter makes is a program for the back end.
LEMMA IrIsProgram ==
    ASSUME LF!Inv, Lifting
    PROVE  /\ CP!IsProgram(ir) /\ IP!IsProgram(ir)
           /\ ir.index = LF!index /\ LF!index \in Nat /\ LF!index = Len(atoms)
<1>1. /\ LF!index \in Nat /\ lift_i \in 0 .. Len(program) /\ LF!IsAsm(program)
      /\ LF!index = Len(atoms) /\ Len(program) \in Nat
    <2>1. PICK S : atoms \in Seq(S)
        BY Zenon DEF LF!Inv, LF!TypeOK
    <2>2. Len(atoms) \in Nat
        BY <2>1, LenProperties
    <2>3. lift_i \in 0 .. Len(program) /\ LF!IsAsm(program)
        BY Zenon DEF LF!Inv, LF!TypeOK
    <2> QED
        BY <2>2, <2>3 DEF LF!index, LF!IsAsm
<1>2. ir.index = LF!index /\ ir.code = LF!View.code /\ CP!Offsets(ir) = 0 .. LF!index - 1
    BY SameView DEF LF!View, CP!Offsets
<1>3. ASSUME NEW c \in 0 .. LF!index - 1
      PROVE  ir.code[c] \in [kind : CP!Kinds, target : Nat]
    <2> DEFINE atom == atoms[c + 1]
    <2>1. c + 1 \in 1 .. LF!index
        BY <1>1
    <2>2. PICK k \in LF!Lifted(lift_i) : c + 1 = LF!Cell(k - 1) + 1
        BY <2>1 DEF Lifting
    <2>3. Shows(atom, program[k])
        BY <2>2 DEF Lifting
    <2>4. k \in 1 .. Len(program) /\ program[k].opcode # "OPCODE_CALL"
        BY <1>1 DEF LF!Lifted
    <2>5. program[k].arg0 \in LF!Operands
        BY <1>1, <2>4 DEF LF!IsAsm
    <2>6. LF!Address(program[k].arg0).offset \in Nat
        <3>1. \A v \in LF!Operands : /\ v.kind = "OPE_IMM" => v.value \in Nat
                                     /\ v.kind = "OPE_REG" => v.index.value \in Nat
            BY DEF LF!Operands, LF!Indexed, LF!Plain
        <3> QED
            BY <2>5, <3>1, OperandKinds
    <2>7. atom.kind \in {"ATM_JMP", "ATM_CONDJMP"} => atom.ids[1].address.offset \in Nat
        <3>1. atom.kind \in {"ATM_JMP", "ATM_CONDJMP"} => program[k].opcode \in LF!JmpOpcodes
            BY <2>3 DEF Shows, LF!JmpOpcodes
        <3> QED
            BY <2>3, <2>6, <3>1 DEF Shows
    <2>8. ir.code[c] = IF atom.kind \in {"ATM_JMP", "ATM_CONDJMP"}
                       THEN [kind |-> atom.kind, target |-> atom.ids[1].address.offset]
                       ELSE [kind |-> "ATM_OTHER", target |-> 0]
        BY <1>2 DEF LF!View
    <2> HIDE DEF atom
    <2> QED
        BY <2>7, <2>8 DEF CP!Kinds
<1>4. CP!IsProgram(ir)
    <2>1. ir.code = [c \in 0 .. LF!index - 1 |-> ir.code[c]]
        BY <1>2 DEF LF!View
    <2>2. ir.code \in [0 .. LF!index - 1 -> [kind : CP!Kinds, target : Nat]]
        BY <1>3, <2>1
    <2> QED
        BY <1>1, <1>2, <2>2 DEF CP!IsProgram
<1> QED
    BY <1>1, <1>2, <1>4, SameProgram

LEMMA IrKept == atoms' = atoms => ir' = ir
BY DEF ir, Lift!View, Lift!index

-----------------------------------------------------------------------------
\* The stages after the lifter, each begun where the one before it is done.
InfoStage ==
    /\ lift_pc = "done" => IP!IInv
    /\ lift_pc # "done" => IP!Entry

LEMMA InfoEnters == (IP!IsProgram(ir) /\ IP!Entry => IP!IInv)'
<1>1. IP!IsProgram(ir) /\ IP!Entry => IP!IInv
    BY IP!EntryHolds, CellsAssumption
<1> QED
    BY <1>1, PTL

LEMMA IrEntered == (LiftStage /\ lift_pc = "done" => /\ LF!Inv /\ Lifting /\ Parsed
                                                    /\ IP!IsProgram(ir) /\ CP!IsProgram(ir))
<1>1. LF!Entry => lift_pc # "done"
    BY DEF LF!Entry
<1> QED
    BY <1>1, IrIsProgram DEF LiftStage

LEMMA IrEnters == (LiftStage /\ lift_pc = "done" => /\ LF!Inv /\ Lifting /\ Parsed
                                                   /\ IP!IsProgram(ir) /\ CP!IsProgram(ir))'
BY IrEntered, PTL

LEMMA InfoStageKept ==
    ASSUME InfoStage, LiftStage', lift_pc = "done" => UNCHANGED lift_vars,
           UNCHANGED info_vars \/ (lift_pc = "done" /\ IP!Next)
    PROVE  InfoStage'
<1>1. CASE lift_pc = "done"
    <2>1. ir' = ir /\ lift_pc' = "done"
        BY <1>1, IrKept DEF lift_vars
    <2>2. IP!Next \/ UNCHANGED IP!vars
        BY <2>1 DEF IP!vars, info_vars
    <2>3. IP!IInv
        BY <1>1 DEF InfoStage
    <2>4. IP!IInv'
        BY <2>2, <2>3, IP!StepHolds, CellsAssumption
    <2> QED
        BY <2>1, <2>4 DEF InfoStage
<1>2. CASE lift_pc # "done"
    <2>1. IP!Entry'
        BY <1>2 DEF InfoStage, IP!Entry, info_vars
    <2>2. lift_pc' = "done" => IP!IInv'
        BY <2>1, IrEnters, InfoEnters
    <2> QED
        BY <2>1, <2>2 DEF InfoStage
<1> QED
    BY <1>1, <1>2

-----------------------------------------------------------------------------
\* What get_info_graph has returned.
LEMMA ListFacts ==
    ASSUME LiftStage, InfoStage, info_pc = "done"
    PROVE  /\ lift_pc = "done" /\ ir.index \in Nat
           /\ list \in Seq(Nat) /\ Len(list) \in Nat \ {0}
           /\ \A j, k \in 1 .. Len(list) : j < k => list[j] < list[k]
           /\ {list[k] : k \in 1 .. Len(list)} = CP!Leaders(ir)
           /\ ir.index > 0 => CP!IsBuildable(ir)
<1>1. lift_pc = "done"
    BY DEF InfoStage, IP!Entry
<1>2. /\ IP!IInv /\ CP!IsProgram(ir)
    BY <1>1, IrEntered DEF InfoStage
<1>3. /\ \A j, k \in 1 .. Len(list) : j < k => list[j] < list[k]
      /\ {list[k] : k \in 1 .. Len(list)} = CP!Leaders(ir)
      /\ ir.index > 0 => CP!IsBuildable(ir)
    BY <1>2, SameLeaders, SameProgram, Zenon DEF IP!IInv, IP!StartsExact
<1>4. list \in Seq(Nat)
    BY <1>2, Zenon DEF IP!IInv, IP!TypeOK
<1>5. Len(list) \in Nat \ {0}
    <2>1. 0 \in CP!Leaders(ir)
        BY DEF CP!Leaders
    <2>2. Len(list) \in Nat
        BY <1>4, LenProperties
    <2> QED
        BY <1>3, <2>1, <2>2
<1>6. ir.index \in Nat
    BY <1>2 DEF CP!IsProgram
<1> QED
    BY <1>1, <1>3, <1>4, <1>5, <1>6

LEMMA ListDone ==
    ASSUME info_pc = "done", IP!Next
    PROVE  FALSE
BY DEF IP!Next, IP!Alloc, IP!ScanInstr, IP!Sort, IP!Dedup, IP!Truncate, IP!CountEdges,
    IP!CountWild, IP!Return

-----------------------------------------------------------------------------
(***************************************************************************)
(* The nodes that have been made, and none of them linked.                 *)
(***************************************************************************)
NodeOf(k) == Nodes!Node(list[k], IF k < Len(list) THEN list[k + 1] ELSE ir.index)
Unlinked == [l \in CP!Leaders(ir) |-> <<>>]

NodesInv ==
    /\ nodes_pc \in {"allocate", "start", "middle", "done", "exit"}
    /\ node_idx \in Nat \ {0}
    /\ nodes_pc \in {"start", "middle", "done"} =>
          nodes \in Seq([start : Int, size : Int]) /\ Len(nodes) = Len(list)
    /\ nodes_pc \in {"start", "middle"} => succs = Unlinked /\ preds = Unlinked
    /\ nodes_pc \in {"allocate", "start"} => node_idx = 1
    /\ nodes_pc = "middle" => \A k \in 1 .. node_idx : k < Len(list) => nodes[k] = NodeOf(k)
    /\ nodes_pc = "done" => \A k \in 1 .. Len(list) : nodes[k] = NodeOf(k)

NodesStage ==
    /\ info_pc = "done" => NodesInv
    /\ info_pc # "done" => Nodes!Entry

LEMMA NodesEnter ==
    ASSUME Nodes!Entry PROVE NodesInv
BY DEF Nodes!Entry, NodesInv

LEMMA NodesStart == (Nodes!Entry => NodesInv)'
BY NodesEnter, PTL

LEMMA NodeType ==
    ASSUME NEW a \in Int, NEW c \in Int
    PROVE  Nodes!Node(a, c) \in [start : Int, size : Int]
BY DEF Nodes!Node

LEMMA NodesStep ==
    ASSUME LiftStage, InfoStage, info_pc = "done", NodesInv, Nodes!Next
    PROVE  NodesInv'
<1> DEFINE N == [start : Int, size : Int]
<1>1. /\ list \in Seq(Nat) /\ Len(list) \in Nat \ {0} /\ ir.index \in Nat
      /\ {list[k] : k \in 1 .. Len(list)} = CP!Leaders(ir)
      /\ \A k \in 1 .. Len(list) : list[k] \in Int
    <2>1. list \in Seq(Nat)
        BY ListFacts
    <2>2. \A k \in 1 .. Len(list) : list[k] \in Int
        BY <2>1, ElementOfSeq
    <2> QED
        BY <2>2, ListFacts
<1>2. /\ list' = list /\ ir' = ir /\ ir'.index = ir.index
    BY DEF Nodes!Next, Nodes!Allocate, Nodes!StartNode, Nodes!MiddleNode, Nodes!EndNode
<1>3. Unlinked' = Unlinked /\ \A k : NodeOf(k)' = NodeOf(k)
    BY <1>2 DEF Unlinked, NodeOf, CP!Leaders, CP!Offsets, CP!Kind, CP!Target, CP!IsJump
<1>4. \A k \in 1 .. Len(list) : NodeOf(k) \in N
    <2> SUFFICES ASSUME NEW k \in 1 .. Len(list) PROVE NodeOf(k) \in N
        OBVIOUS
    <2>1. (IF k < Len(list) THEN list[k + 1] ELSE ir.index) \in Int
        BY <1>1
    <2>2. list[k] \in Int
        BY <1>1
    <2> QED
        BY <2>1, <2>2, NodeType DEF NodeOf
<1>5. CASE Nodes!Allocate
    <2>1. nodes_pc = "allocate" /\ node_idx' = node_idx
        BY <1>5 DEF Nodes!Allocate
    <2>2. CASE nodes_pc' = "exit"
        BY <2>1, <2>2 DEF NodesInv
    <2>3. CASE nodes_pc' # "exit"
        <3>1. /\ nodes_pc' = "start"
              /\ nodes' = [k \in 1 .. Len(list) |-> Nodes!Blank]
              /\ succs' = [l \in Nodes!Starts |-> <<>>]
              /\ preds' = [l \in Nodes!Starts |-> <<>>]
            BY <1>5, <2>3 DEF Nodes!Allocate
        <3>2. Nodes!Starts = CP!Leaders(ir)
            BY <1>1 DEF Nodes!Starts
        <3>3. nodes' \in Seq(N) /\ Len(nodes') = Len(list)
            BY <1>1, <3>1 DEF Nodes!Blank
        <3>4. succs' = Unlinked' /\ preds' = Unlinked'
            BY <1>3, <3>1, <3>2, Zenon DEF Unlinked
        <3> HIDE DEF N
        <3> QED
            BY <1>2, <2>1, <3>1, <3>3, <3>4 DEF NodesInv, N
    <2> QED
        BY <2>2, <2>3
<1>6. CASE Nodes!StartNode
    <2>1. PICK c \in IF Len(list) > 1 THEN {list[2]} ELSE Garbage :
             nodes' = [nodes EXCEPT ![1] = Nodes!Node(list[1], c)]
        BY <1>6 DEF Nodes!StartNode
    <2>2. /\ nodes_pc = "start" /\ nodes_pc' = "middle" /\ UNCHANGED <<node_idx, succs, preds>>
        BY <1>6 DEF Nodes!StartNode
    <2>3. c \in Int /\ list[1] \in Int
        <3>1. Garbage \subseteq Int
            BY GarbageAssumption
        <3>2. 1 \in 1 .. Len(list) /\ (Len(list) > 1 => 2 \in 1 .. Len(list))
            BY <1>1
        <3>3. list[1] \in Int /\ (Len(list) > 1 => list[2] \in Int)
            BY <1>1, <3>2
        <3>4. CASE Len(list) > 1
            BY <3>3, <3>4
        <3>5. CASE ~ (Len(list) > 1)
            BY <3>1, <3>3, <3>5
        <3> QED
            BY <3>4, <3>5
    <2>4. Nodes!Node(list[1], c) \in N
        BY <2>3, NodeType
    <2>5. nodes \in Seq(N) /\ Len(nodes) = Len(list) /\ node_idx = 1
        BY <2>2 DEF NodesInv
    <2>6. /\ nodes' \in Seq(N) /\ Len(nodes') = Len(list)
          /\ nodes'[1] = Nodes!Node(list[1], c)
        <3> HIDE DEF N
        <3> QED
            BY <1>1, <2>1, <2>4, <2>5, ExceptSeq
    <2>7. 1 < Len(list) => nodes'[1] = NodeOf(1)
        BY <1>1, <2>1, <2>6 DEF NodeOf
    <2>8. \A k \in 1 .. node_idx' : k < Len(list') => nodes'[k] = NodeOf(k)'
        BY <1>2, <1>3, <2>2, <2>5, <2>7
    <2>9. (succs = Unlinked /\ preds = Unlinked)'
        BY <1>3, <2>2 DEF NodesInv
    <2> QED
        BY <1>2, <2>2, <2>5, <2>6, <2>8, <2>9 DEF NodesInv
<1>7. CASE Nodes!MiddleNode
    <2>1. /\ nodes_pc = "middle" /\ nodes_pc' = "middle" /\ node_idx < Len(list) - 1
          /\ node_idx' = node_idx + 1 /\ UNCHANGED <<succs, preds>>
          /\ nodes' = [nodes EXCEPT ![node_idx + 1] =
                          Nodes!Node(list[node_idx + 1], list[node_idx + 2])]
        BY <1>7 DEF Nodes!MiddleNode
    <2>2. /\ nodes \in Seq(N) /\ Len(nodes) = Len(list) /\ node_idx \in Nat \ {0}
        BY <2>1 DEF NodesInv
    <2>3. /\ node_idx + 1 \in 1 .. Len(list) /\ node_idx + 1 < Len(list)
          /\ (node_idx + 1) + 1 = node_idx + 2
        <3>1. node_idx \in Nat /\ Len(list) \in Nat /\ node_idx < Len(list) - 1
            BY <1>1, <2>1, <2>2
        <3> QED
            BY <3>1
    <2>4. Nodes!Node(list[node_idx + 1], list[node_idx + 2]) = NodeOf(node_idx + 1)
        BY <2>3 DEF NodeOf
    <2>5. NodeOf(node_idx + 1) \in N
        BY <1>4, <2>3
    <2>6. /\ nodes' \in Seq(N) /\ Len(nodes') = Len(list)
          /\ \A k \in 1 .. Len(list) :
                nodes'[k] = IF k = node_idx + 1 THEN NodeOf(node_idx + 1) ELSE nodes[k]
        <3> HIDE DEF N
        <3> QED
            BY <2>1, <2>2, <2>3, <2>4, <2>5, ExceptSeq
    <2>7. \A k \in 1 .. node_idx' : k < Len(list') => nodes'[k] = NodeOf(k)'
        <3> SUFFICES ASSUME NEW k \in 1 .. node_idx + 1, k < Len(list)
                     PROVE  nodes'[k] = NodeOf(k)
            BY <1>2, <1>3, <2>1
        <3>1. k \in 1 .. Len(list)
            BY <1>1, <2>2
        <3>2. CASE k = node_idx + 1
            BY <2>6, <3>1, <3>2
        <3>3. CASE k # node_idx + 1
            <4>1. k \in 1 .. node_idx
                BY <2>2, <3>3
            <4>2. nodes[k] = NodeOf(k)
                BY <2>1, <4>1 DEF NodesInv
            <4> QED
                BY <2>6, <3>1, <3>3, <4>2
        <3> QED
            BY <3>2, <3>3
    <2>8. (succs = Unlinked /\ preds = Unlinked)'
        BY <1>3, <2>1 DEF NodesInv
    <2> QED
        BY <1>2, <2>1, <2>2, <2>6, <2>7, <2>8 DEF NodesInv
<1>8. CASE Nodes!EndNode
    <2>1. /\ nodes_pc = "middle" /\ nodes_pc' = "done" /\ node_idx >= Len(list) - 1
          /\ node_idx' = node_idx /\ UNCHANGED <<succs, preds>>
          /\ nodes' = [nodes EXCEPT ![Len(list)] = Nodes!Node(list[Len(list)], ir.index)]
        BY <1>8 DEF Nodes!EndNode
    <2>2. /\ nodes \in Seq(N) /\ Len(nodes) = Len(list) /\ node_idx \in Nat \ {0}
        BY <2>1 DEF NodesInv
    <2>3. Nodes!Node(list[Len(list)], ir.index) = NodeOf(Len(list)) /\ NodeOf(Len(list)) \in N
          /\ Len(list) \in 1 .. Len(list)
        <3>1. Len(list) \in 1 .. Len(list)
            BY <1>1
        <3>2. NodeOf(Len(list)) \in N
            BY <1>4, <3>1
        <3> QED
            BY <1>1, <3>1, <3>2 DEF NodeOf
    <2>6. /\ nodes' \in Seq(N) /\ Len(nodes') = Len(list)
          /\ \A k \in 1 .. Len(list) :
                nodes'[k] = IF k = Len(list) THEN NodeOf(Len(list)) ELSE nodes[k]
        <3> HIDE DEF N
        <3> QED
            BY <2>1, <2>2, <2>3, ExceptSeq
    <2>7. \A k \in 1 .. Len(list') : nodes'[k] = NodeOf(k)'
        <3> SUFFICES ASSUME NEW k \in 1 .. Len(list)
                     PROVE  nodes'[k] = NodeOf(k)
            BY <1>2, <1>3
        <3>2. CASE k = Len(list)
            BY <2>6, <3>2
        <3>3. CASE k # Len(list)
            <4>0. Len(list) \in Nat /\ node_idx \in Nat /\ node_idx >= Len(list) - 1
                BY <1>1, <2>1, <2>2, Zenon
            <4>1. k \in 1 .. node_idx /\ k < Len(list)
                BY <3>3, <4>0
            <4>2. nodes[k] = NodeOf(k)
                BY <2>1, <4>1 DEF NodesInv
            <4>3. nodes'[k] = IF k = Len(list) THEN NodeOf(Len(list)) ELSE nodes[k]
                BY <2>6, Zenon
            <4> QED
                BY <3>3, <4>2, <4>3, Zenon
        <3> QED
            BY <3>2, <3>3
    <2> QED
        BY <1>2, <2>1, <2>2, <2>6, <2>7 DEF NodesInv
<1> QED
    BY <1>5, <1>6, <1>7, <1>8 DEF Nodes!Next

-----------------------------------------------------------------------------
\* The nodes stay while the graph is linked, and the links while it is not.
LEMMA LeadersKept == ir' = ir => CP!Leaders(ir)' = CP!Leaders(ir) /\ Unlinked' = Unlinked
BY DEF Unlinked, CP!Leaders, CP!Offsets, CP!Kind, CP!Target, CP!IsJump

LEMMA NodesStageKept ==
    ASSUME LiftStage, InfoStage, NodesStage,
           info_pc = "done" => UNCHANGED <<lift_vars, info_vars>>,
           \/ UNCHANGED nodes_vars /\ (nodes_pc \in {"start", "middle"} => UNCHANGED links_vars)
           \/ info_pc = "done" /\ Nodes!Next
    PROVE  NodesStage'
<1>1. CASE info_pc = "done"
    <2>1. ir' = ir /\ info_pc' = "done" /\ list' = list
        BY <1>1, IrKept DEF lift_vars, info_vars
    <2>2. NodesInv
        BY <1>1 DEF NodesStage
    <2>3. CASE Nodes!Next
        BY <1>1, <2>1, <2>2, <2>3, NodesStep DEF NodesStage
    <2>4. CASE UNCHANGED nodes_vars /\ (nodes_pc \in {"start", "middle"} => UNCHANGED links_vars)
        <3>1. /\ UNCHANGED <<nodes_pc, node_idx, nodes>>
              /\ nodes_pc \in {"start", "middle"} => UNCHANGED <<succs, preds>>
            BY <2>4 DEF nodes_vars, links_vars
        <3>2. Unlinked' = Unlinked
            BY <2>1, LeadersKept
        <3>3. \A k : NodeOf(k)' = NodeOf(k)
            BY <2>1 DEF NodeOf
        <3>4. NodesInv'
            BY <2>1, <2>2, <3>1, <3>2, <3>3 DEF NodesInv
        <3> QED
            BY <2>1, <3>4 DEF NodesStage
    <2> QED
        BY <2>3, <2>4
<1>2. CASE info_pc # "done"
    <2>1. Nodes!Entry'
        BY <1>2 DEF NodesStage, Nodes!Entry, nodes_vars
    <2> QED
        BY <2>1, NodesStart DEF NodesStage
<1> QED
    BY <1>1, <1>2

LEMMA MadeUnlinked ==
    ASSUME NodesInv, Nodes!Next, nodes_pc' = "done"
    PROVE  succs' = Unlinked' /\ preds' = Unlinked'
<1>1. Nodes!EndNode
    BY DEF Nodes!Next, Nodes!Allocate, Nodes!StartNode, Nodes!MiddleNode
<1>2. /\ nodes_pc = "middle" /\ ir' = ir /\ UNCHANGED <<succs, preds>>
    BY <1>1 DEF Nodes!EndNode
<1> QED
    BY <1>2, LeadersKept DEF NodesInv

LEMMA MadeOnce ==
    ASSUME nodes_pc = "done", Nodes!Next
    PROVE  FALSE
BY DEF Nodes!Next, Nodes!Allocate, Nodes!StartNode, Nodes!MiddleNode, Nodes!EndNode

-----------------------------------------------------------------------------
(***************************************************************************)
(* The search, on the links and the leaders; on no instruction it ends at  *)
(* its first call.                                                         *)
(***************************************************************************)
CfgIdle ==
    /\ cfg_pc = "call" /\ arg = 0 /\ ret = NULL /\ stack = <<>>
    /\ visited = {} /\ header = NULL /\ edges = <<>>

CfgInv ==
    /\ ir.index > 0 => CP!IInv
    /\ ir.index = 0 => cfg_pc \in {"call", "wild"} /\ visited = {}

CfgStage ==
    /\ nodes_pc = "done" => CfgInv
    /\ nodes_pc # "done" => CfgIdle

LEMMA CfgEntered ==
    ASSUME LiftStage, InfoStage, NodesStage, nodes_pc = "done", CfgIdle,
           succs = Unlinked, preds = Unlinked
    PROVE  CfgInv
<1>1. info_pc = "done"
    BY DEF NodesStage, Nodes!Entry
<1>2. ir.index \in Nat /\ (ir.index > 0 => CP!IsBuildable(ir))
    BY <1>1, ListFacts
<1>3. CP!Entry
    BY Zenon DEF CfgIdle, CP!Entry, Unlinked
<1>4. ir.index > 0 => CP!IInv
    BY <1>2, <1>3, CP!EntryHolds, NullAssumption, CellsAssumption
<1> QED
    BY <1>4 DEF CfgInv, CfgIdle

LEMMA CfgEnters == (LiftStage /\ InfoStage /\ NodesStage /\ nodes_pc = "done" /\ CfgIdle
                       /\ succs = Unlinked /\ preds = Unlinked => CfgInv)'
BY CfgEntered, PTL

LEMMA CfgStep ==
    ASSUME LiftStage, InfoStage, info_pc = "done", CfgInv, ir' = ir,
           CP!Next \/ CP!CallNothing \/ UNCHANGED CP!vars
    PROVE  CfgInv'
<1>1. ir.index \in Nat
    BY ListFacts
<1>2. CASE ir.index > 0
    <2>1. CP!IInv /\ CP!IsBuildable(ir)
        BY <1>2, ListFacts DEF CfgInv
    <2>2. ~ CP!CallNothing
        <3> SUFFICES ASSUME CP!CallNothing PROVE FALSE
            OBVIOUS
        <3>1. arg \in CP!Leaders(ir) /\ CP!LastInstr(arg) \notin CP!Offsets(ir)
            BY DEF CP!CallNothing
        <3>2. CP!BlockEnd(ir, arg) \in CP!Offsets(ir)
            BY <2>1, <3>1, CP!BlockEndFacts, NullAssumption, CellsAssumption
        <3> QED
            BY <3>1, <3>2 DEF CP!LastInstr
    <2>3. CP!IInv'
        BY <2>1, <2>2, CP!StepHolds, NullAssumption, CellsAssumption
    <2> QED
        BY <1>2, <2>3 DEF CfgInv
<1>3. CASE ir.index = 0
    <2>1. cfg_pc \in {"call", "wild"} /\ visited = {}
        BY <1>3 DEF CfgInv
    <2>2. \A k : k \notin CP!Offsets(ir)
        BY <1>3 DEF CP!Offsets
    <2>3. ~ CP!Next
        BY <2>1, <2>2 DEF CP!Next, CP!CallVisited, CP!CallJump, CP!CallFall, CP!CallEnd,
            CP!ResumeFalse, CP!ResumeUp, CP!Finish
    <2>4. cfg_pc' \in {"call", "wild"} /\ visited' = visited
        BY <2>1, <2>3 DEF CP!CallNothing, CP!vars
    <2> QED
        BY <1>3, <2>1, <2>4 DEF CfgInv
<1> QED
    BY <1>1, <1>2, <1>3

LEMMA CfgStageKept ==
    ASSUME LiftStage, InfoStage, NodesStage, CfgStage, LiftStage', InfoStage', NodesStage',
           nodes_pc = "done" => UNCHANGED <<lift_vars, info_vars, nodes_vars>>,
           \/ UNCHANGED cfg_vars /\ (nodes_pc = "done" => UNCHANGED links_vars)
           \/ nodes_pc = "done" /\ (CP!Next \/ CP!CallNothing),
           UNCHANGED nodes_vars \/ (info_pc = "done" /\ Nodes!Next)
    PROVE  CfgStage'
<1>1. CASE nodes_pc = "done"
    <2>1. ir' = ir /\ nodes_pc' = "done"
        BY <1>1, IrKept DEF lift_vars, nodes_vars
    <2>2. CfgInv /\ info_pc = "done"
        BY <1>1 DEF CfgStage, NodesStage, Nodes!Entry
    <2>3. CP!Next \/ CP!CallNothing \/ UNCHANGED CP!vars
        BY <1>1, <2>1 DEF CP!vars, cfg_vars, links_vars
    <2>4. CfgInv'
        BY <2>1, <2>2, <2>3, CfgStep
    <2> QED
        BY <2>1, <2>4 DEF CfgStage
<1>2. CASE nodes_pc # "done"
    <2>1. CfgIdle'
        BY <1>2 DEF CfgStage, CfgIdle, cfg_vars
    <2>2. ASSUME nodes_pc' = "done" PROVE CfgInv'
        <3>1. info_pc = "done" /\ Nodes!Next
            BY <1>2, <2>2 DEF nodes_vars
        <3>2. succs' = Unlinked' /\ preds' = Unlinked'
            BY <2>2, <3>1, MadeUnlinked DEF NodesStage
        <3> QED
            BY <2>1, <2>2, <3>2, CfgEnters
    <2> QED
        BY <2>1, <2>2 DEF CfgStage
<1> QED
    BY <1>1, <1>2

-----------------------------------------------------------------------------
(***************************************************************************)
(* The nodes drawn so far; the one at work has the first n entries of its  *)
(* label.  The counter is where the next entry starts in the IR, for the   *)
(* blocks follow each other.                                               *)
(***************************************************************************)
Begin(k) == IF k <= Len(list) THEN list[k] ELSE ir.index

Partly(k, n) ==
    [id |-> Draw!OffsetOf(list[k]),
     arrows |-> [j \in 1 .. Len(succs[list[k]]) |-> Draw!OffsetOf(succs[list[k]][j])],
     label |-> [j \in 1 .. n |-> [number |-> list[k] + j - 1,
                                  text |-> Draw!InstrText(list[k] + j - 1)]]]
Whole(k) == Partly(k, Begin(k + 1) - list[k])

DrawInv ==
    /\ draw_pc \in {"open", "node", "label", "done", "exit"}
    /\ draw_pc = "open" => Draw!Entry
    /\ draw_pc = "node" =>
          /\ draw_i \in 0 .. Len(list) /\ instr_count = Begin(draw_i + 1)
          /\ picture = [k \in 1 .. draw_i |-> Whole(k)]
    /\ draw_pc = "label" =>
          /\ draw_i \in 0 .. Len(list) - 1
          /\ instr_idx \in 0 .. Begin(draw_i + 2) - list[draw_i + 1]
          /\ instr_count = list[draw_i + 1] + instr_idx
          /\ picture = [k \in 1 .. draw_i + 1 |->
                           IF k <= draw_i THEN Whole(k) ELSE Partly(k, instr_idx)]
    /\ draw_pc = "done" => picture = [k \in 1 .. Len(list) |-> Whole(k)]

DrawStage ==
    /\ cfg_pc = "done" => DrawInv
    /\ cfg_pc # "done" => Draw!Entry

\* The first k cells, and one more.
LEMMA AppendCell ==
    ASSUME NEW n \in Nat, NEW f, DOMAIN f = 1 .. n, f = [k \in 1 .. n |-> f[k]], NEW x
    PROVE  Append(f, x) = [k \in 1 .. n + 1 |-> IF k <= n THEN f[k] ELSE x] /\ Len(f) = n
<1> DEFINE S == {f[k] : k \in 1 .. n} \cup {x}
<1>1. f \in Seq(S) /\ x \in S
    BY DEF S
<1>2. Len(f) = n
    BY <1>1, LenProperties
<1> HIDE DEF S
<1>3. /\ Append(f, x) \in Seq(S) /\ Len(Append(f, x)) = n + 1
      /\ \A k \in 1 .. n : Append(f, x)[k] = f[k]
      /\ Append(f, x)[n + 1] = x
    BY <1>1, <1>2, AppendProperties
<1>4. Append(f, x) = [k \in 1 .. n + 1 |-> Append(f, x)[k]]
    BY <1>3, LenProperties
<1> QED
    BY <1>2, <1>3, <1>4

\* The nodes in their order are the blocks in theirs.
LEMMA GraphFacts ==
    ASSUME LiftStage, InfoStage, NodesStage, CfgStage, cfg_pc = "done"
    PROVE  /\ lift_pc = "done" /\ info_pc = "done" /\ nodes_pc = "done"
           /\ ir.index \in Nat \ {0} /\ CP!IInv /\ CP!IsBuildable(ir)
           /\ Len(list) \in Nat \ {0} /\ Len(nodes) = Len(list)
           /\ \A k \in 1 .. Len(list) :
                 /\ list[k] \in 0 .. ir.index /\ list[k] \in CP!Leaders(ir)
                 /\ nodes[k].start = list[k] /\ nodes[k].size = Begin(k + 1) - list[k]
                 /\ Begin(k) = list[k] /\ Begin(k + 1) \in Nat /\ list[k] <= Begin(k + 1)
           /\ list[1] = 0 /\ Begin(Len(list) + 1) = ir.index
           /\ \A j, k \in 1 .. Len(list) : j < k => list[j] < list[k]
           /\ \A l \in CP!Leaders(ir) : \E k \in 1 .. Len(list) : l = list[k]
           /\ succs \in [CP!Leaders(ir) -> Seq(CP!Leaders(ir))]
<1>1. nodes_pc = "done"
    BY DEF CfgStage, CfgIdle
<1>2. info_pc = "done" /\ NodesInv
    BY <1>1 DEF NodesStage, Nodes!Entry
<1>3. /\ lift_pc = "done" /\ ir.index \in Nat
      /\ list \in Seq(Nat) /\ Len(list) \in Nat \ {0}
      /\ \A j, k \in 1 .. Len(list) : j < k => list[j] < list[k]
      /\ {list[k] : k \in 1 .. Len(list)} = CP!Leaders(ir)
      /\ ir.index > 0 => CP!IsBuildable(ir)
    BY <1>2, ListFacts
<1>4. ir.index # 0 /\ CP!IInv /\ CP!IsBuildable(ir)
    BY <1>1, <1>3 DEF CfgStage, CfgInv
<1>5. /\ CP!Leaders(ir) \in SUBSET (0 .. ir.index) /\ 0 \in CP!Leaders(ir)
    BY <1>4, CP!LeaderFacts, NullAssumption, CellsAssumption
<1>6. /\ Len(nodes) = Len(list)
      /\ \A k \in 1 .. Len(list) : nodes[k] = NodeOf(k)
    BY <1>1, <1>2 DEF NodesInv
<1>7. ASSUME NEW k \in 1 .. Len(list)
      PROVE  /\ list[k] \in 0 .. ir.index /\ list[k] \in CP!Leaders(ir)
             /\ nodes[k].start = list[k] /\ nodes[k].size = Begin(k + 1) - list[k]
             /\ Begin(k) = list[k] /\ Begin(k + 1) \in Nat /\ list[k] <= Begin(k + 1)
    <2>1. list[k] \in CP!Leaders(ir)
        BY <1>3
    <2>2. list[k] \in 0 .. ir.index
        BY <1>5, <2>1
    <2>3. CASE k < Len(list)
        <3>1. k + 1 \in 1 .. Len(list) /\ k + 1 <= Len(list)
            BY <1>3, <2>3
        <3>2. list[k + 1] \in 0 .. ir.index
            BY <1>3, <1>5, <3>1
        <3>3. list[k] < list[k + 1]
            BY <1>3, <3>1
        <3>4. nodes[k] = [start |-> list[k], size |-> list[k + 1] - list[k]]
            BY <1>6, <2>3 DEF NodeOf, Nodes!Node
        <3>5. Begin(k) = list[k] /\ Begin(k + 1) = list[k + 1]
            BY <3>1 DEF Begin
        <3> QED
            BY <1>3, <2>1, <2>2, <3>2, <3>3, <3>4, <3>5
    <2>4. CASE ~ (k < Len(list))
        <3>1. Begin(k) = list[k] /\ Begin(k + 1) = ir.index
            BY <1>3, <2>4 DEF Begin
        <3>2. nodes[k] = [start |-> list[k], size |-> ir.index - list[k]]
            BY <1>6, <2>4 DEF NodeOf, Nodes!Node
        <3> QED
            BY <1>3, <2>1, <2>2, <3>1, <3>2
    <2> QED
        BY <2>3, <2>4
<1>8. list[1] = 0 /\ Begin(Len(list) + 1) = ir.index
    <2>1. PICK k \in 1 .. Len(list) : list[k] = 0
        BY <1>3, <1>5
    <2>2. 1 \in 1 .. Len(list) /\ list[1] \in Nat
        BY <1>3, <1>7
    <2>3. ~ (1 < k)
        BY <1>3, <2>1, <2>2
    <2> QED
        BY <1>3, <2>1, <2>3 DEF Begin
<1>9. succs \in [CP!Leaders(ir) -> Seq(CP!Leaders(ir))]
    BY <1>4, Zenon DEF CP!IInv, CP!TypeOK, CP!Nodes
<1>10. \A l \in CP!Leaders(ir) : \E k \in 1 .. Len(list) : l = list[k]
    BY <1>3
<1> QED
    BY <1>1, <1>2, <1>3, <1>4, <1>6, <1>7, <1>8, <1>9, <1>10

LEMMA DrawEntered == Draw!Entry => DrawInv
BY DEF Draw!Entry, DrawInv

LEMMA DrawEnters == (Draw!Entry => DrawInv)'
BY DrawEntered, PTL

\* The picture speaks of what the printer leaves alone.
LEMMA PartlyKept ==
    ASSUME UNCHANGED <<atoms, stamp, list, succs>>
    PROVE  /\ ir' = ir /\ \A k : Begin(k)' = Begin(k) /\ Whole(k)' = Whole(k)
           /\ \A k, n : Partly(k, n)' = Partly(k, n)
<1>1. ir' = ir
    BY IrKept
<1>2. \A k : Begin(k)' = Begin(k)
    BY <1>1 DEF Begin
<1>3. \A c : Draw!OffsetOf(c)' = Draw!OffsetOf(c) /\ Draw!InstrText(c)' = Draw!InstrText(c)
    BY DEF Draw!OffsetOf, Draw!InstrText, Draw!VisitInstruction, Draw!VisitId, Draw!AtPointer
<1>4. \A k, n : Partly(k, n)' = Partly(k, n)
    BY <1>3, Zenon DEF Partly
<1>5. \A k : Whole(k)' = Whole(k)
    BY <1>2, <1>4, Zenon DEF Whole
<1> QED
    BY <1>1, <1>2, <1>4, <1>5

\* A cell more in the label.
Labelled(node, x) == [node EXCEPT !.label = Append(@, x)]

LEMMA Relabelled ==
    \A a, c, d, x : Labelled([id |-> a, arrows |-> c, label |-> d], x)
                      = [id |-> a, arrows |-> c, label |-> Append(d, x)]
BY DEF Labelled

LEMMA PartlyLabelled ==
    ASSUME NEW k, NEW n, NEW x
    PROVE  Labelled(Partly(k, n), x)
              = [id |-> Partly(k, n).id, arrows |-> Partly(k, n).arrows,
                 label |-> Append(Partly(k, n).label, x)]
<1>1. Partly(k, n) = [id |-> Partly(k, n).id, arrows |-> Partly(k, n).arrows,
                      label |-> Partly(k, n).label]
    BY DEF Partly
<1>2. Labelled([id |-> Partly(k, n).id, arrows |-> Partly(k, n).arrows,
                label |-> Partly(k, n).label], x)
         = [id |-> Partly(k, n).id, arrows |-> Partly(k, n).arrows,
            label |-> Append(Partly(k, n).label, x)]
    BY Relabelled, Zenon
<1> QED
    BY <1>1, <1>2

LEMMA PartlyGrows ==
    ASSUME NEW k, NEW n \in Nat,
           NEW x, x = [number |-> list[k] + n, text |-> Draw!InstrText(list[k] + n)],
           list[k] \in Nat
    PROVE  Labelled(Partly(k, n), x) = Partly(k, n + 1)
<1> DEFINE entry(j) == [number |-> list[k] + j - 1, text |-> Draw!InstrText(list[k] + j - 1)]
           f == [j \in 1 .. n |-> entry(j)]
<1>1. Append(f, x) = [j \in 1 .. n + 1 |-> IF j <= n THEN f[j] ELSE x]
    <2>1. DOMAIN f = 1 .. n /\ f = [j \in 1 .. n |-> f[j]]
        OBVIOUS
    <2> HIDE DEF f
    <2> QED
        BY <2>1, AppendCell
<1>2. ASSUME NEW j \in 1 .. n + 1 PROVE (IF j <= n THEN f[j] ELSE x) = entry(j)
    <2>1. CASE j <= n
        BY <2>1
    <2>2. CASE ~ (j <= n)
        <3>1. list[k] + j - 1 = list[k] + n
            BY <2>2
        <3> QED
            BY <2>2, <3>1
    <2> QED
        BY <2>1, <2>2
<1>3. Append(f, x) = [j \in 1 .. n + 1 |-> entry(j)]
    <2> HIDE DEF f, entry
    <2> QED
        BY <1>1, <1>2, Zenon
<1> HIDE DEF f, entry
<1>4. Partly(k, n).label = f
    BY DEF Partly, f, entry
<1>5. Labelled(Partly(k, n), x)
         = [id |-> Partly(k, n).id, arrows |-> Partly(k, n).arrows, label |-> Append(f, x)]
    BY <1>4, PartlyLabelled, Zenon
<1>6. Partly(k, n + 1) = [id |-> Partly(k, n).id, arrows |-> Partly(k, n).arrows,
                          label |-> [j \in 1 .. n + 1 |-> entry(j)]]
    BY DEF Partly, entry
<1> QED
    BY <1>3, <1>5, <1>6, Zenon

LEMMA DrawStep ==
    ASSUME LiftStage, InfoStage, NodesStage, CfgStage, cfg_pc = "done", DrawInv, Draw!Next,
           list' = list
    PROVE  DrawInv'
<1>0. /\ Len(list) \in Nat \ {0} /\ Len(nodes) = Len(list) /\ ir.index \in Nat
      /\ \A k \in 1 .. Len(list) :
            /\ list[k] \in Nat
            /\ nodes[k].start = list[k] /\ nodes[k].size = Begin(k + 1) - list[k]
            /\ Begin(k) = list[k] /\ Begin(k + 1) \in Nat /\ list[k] <= Begin(k + 1)
      /\ list[1] = 0
    <2>1. ASSUME NEW k \in 1 .. Len(list) PROVE list[k] \in Nat
        <3>1. list[k] \in 0 .. ir.index /\ ir.index \in Nat
            BY GraphFacts
        <3> QED
            BY <3>1
    <2>2. \A k \in 1 .. Len(list) :
             /\ nodes[k].start = list[k] /\ nodes[k].size = Begin(k + 1) - list[k]
             /\ Begin(k) = list[k] /\ Begin(k + 1) \in Nat /\ list[k] <= Begin(k + 1)
        BY GraphFacts, Zenon
    <2>3. Len(list) \in Nat \ {0} /\ Len(nodes) = Len(list) /\ ir.index \in Nat /\ list[1] = 0
        BY GraphFacts
    <2> QED
        BY <2>1, <2>2, <2>3, Zenon
<1>1. /\ UNCHANGED <<atoms, stamp, list, succs>>
      /\ \A k : Begin(k)' = Begin(k) /\ Whole(k)' = Whole(k)
      /\ \A k, n : Partly(k, n)' = Partly(k, n)
    BY PartlyKept DEF Draw!Next, Draw!Open, Draw!DrawNode, Draw!DrawInstr, Draw!EndLabel, Draw!Close
<1>2. CASE Draw!Open
    <2>1. /\ draw_pc = "open" /\ draw_pc' \in {"node", "exit"}
          /\ UNCHANGED <<draw_i, instr_idx, instr_count, picture>>
        BY <1>2 DEF Draw!Open
    <2>2. draw_i = 0 /\ instr_count = 0 /\ picture = <<>>
        BY <2>1 DEF DrawInv, Draw!Entry
    <2>3. <<>> = [k \in 1 .. 0 |-> Whole(k)]
        OBVIOUS
    <2>4. Begin(1) = 0
        BY <1>0
    <2> QED
        BY <1>0, <1>1, <2>1, <2>2, <2>3, <2>4 DEF DrawInv
<1>3. CASE Draw!DrawNode
    <2> DEFINE k == draw_i + 1
    <2>1. /\ draw_pc = "node" /\ draw_i < Len(nodes) /\ draw_pc' = "label" /\ instr_idx' = 0
          /\ UNCHANGED <<draw_i, instr_count>>
          /\ picture' = Append(picture,
                [id |-> Draw!OffsetOf(Draw!b.start),
                 arrows |-> [j \in 1 .. Len(succs[Draw!b.start]) |->
                                Draw!OffsetOf(succs[Draw!b.start][j])],
                 label |-> <<>>])
        BY <1>3 DEF Draw!DrawNode
    <2>2. /\ draw_i \in 0 .. Len(list) /\ instr_count = Begin(k)
          /\ picture = [m \in 1 .. draw_i |-> Whole(m)]
        BY <2>1 DEF DrawInv
    <2>3. /\ draw_i \in 0 .. Len(list) - 1 /\ k \in 1 .. Len(list) /\ draw_i \in Nat
        BY <1>0, <2>1, <2>2
    <2>4. Draw!b.start = list[k]
        BY <1>0, <2>3 DEF Draw!b
    <2>5. picture' = Append(picture, Partly(k, 0))
        <3>1. [j \in 1 .. 0 |-> [number |-> list[k] + j - 1,
                                 text |-> Draw!InstrText(list[k] + j - 1)]] = <<>>
            OBVIOUS
        <3> HIDE DEF k
        <3> QED
            BY <2>1, <2>4, <3>1, Zenon DEF Partly
    <2>6. picture' = [m \in 1 .. k |-> IF m <= draw_i THEN Whole(m) ELSE Partly(m, 0)]
        <3>1. picture' = [m \in 1 .. k |-> IF m <= draw_i THEN picture[m] ELSE Partly(k, 0)]
            <4>1. DOMAIN picture = 1 .. draw_i /\ picture = [m \in 1 .. draw_i |-> picture[m]]
                BY <2>2
            <4> QED
                BY <2>3, <2>5, <4>1, AppendCell
        <3>2. \A m \in 1 .. k : (IF m <= draw_i THEN picture[m] ELSE Partly(k, 0))
                                  = (IF m <= draw_i THEN Whole(m) ELSE Partly(m, 0))
            <4> SUFFICES ASSUME NEW m \in 1 .. k
                         PROVE  (IF m <= draw_i THEN picture[m] ELSE Partly(k, 0))
                                  = (IF m <= draw_i THEN Whole(m) ELSE Partly(m, 0))
                OBVIOUS
            <4>1. CASE m <= draw_i
                <5>1. m \in 1 .. draw_i
                    BY <2>3, <4>1
                <5> QED
                    BY <2>2, <4>1, <5>1
            <4>2. CASE ~ (m <= draw_i)
                <5>1. m = k
                    BY <2>3, <4>2
                <5> QED
                    BY <4>2, <5>1
            <4> QED
                BY <4>1, <4>2
        <3> HIDE DEF k
        <3> QED
            BY <3>1, <3>2, Zenon
    <2>7. instr_count' = list[k] + 0 /\ 0 \in 0 .. Begin(k + 1) - list[k] /\ k + 1 = draw_i + 2
        BY <1>0, <2>1, <2>2, <2>3
    <2> QED
        BY <1>1, <2>1, <2>3, <2>6, <2>7 DEF DrawInv
<1>4. CASE Draw!DrawInstr
    <2> DEFINE k == draw_i + 1
    <2>1. /\ draw_pc = "label" /\ instr_idx < Draw!b.size /\ draw_pc' = "label"
          /\ instr_idx' = instr_idx + 1 /\ instr_count' = instr_count + 1 /\ draw_i' = draw_i
          /\ picture' = [picture EXCEPT ![Len(picture)].label =
                Append(@, [number |-> instr_count,
                           text |-> Draw!InstrText(Draw!b.start + instr_idx)])]
        BY <1>4 DEF Draw!DrawInstr
    <2>2. /\ draw_i \in 0 .. Len(list) - 1
          /\ instr_idx \in 0 .. Begin(draw_i + 2) - list[k]
          /\ instr_count = list[k] + instr_idx
          /\ picture = [m \in 1 .. k |-> IF m <= draw_i THEN Whole(m) ELSE Partly(m, instr_idx)]
        BY <2>1 DEF DrawInv
    <2>3. /\ k \in 1 .. Len(list) /\ draw_i \in Nat /\ k \in Nat /\ k + 1 = draw_i + 2
          /\ ~ (k <= draw_i)
        BY <1>0, <2>2
    <2>4. /\ Draw!b.start = list[k] /\ Draw!b.size = Begin(k + 1) - list[k]
          /\ list[k] \in Nat /\ Begin(k + 1) \in Nat
        BY <1>0, <2>3 DEF Draw!b
    <2>5. instr_idx \in Nat /\ instr_idx + 1 \in 0 .. Begin(draw_i + 2) - list[k]
        <3>1. instr_idx \in Nat
            BY <2>2
        <3>2. instr_idx < Begin(draw_i + 2) - list[k] /\ Begin(draw_i + 2) \in Nat
            BY <2>1, <2>3, <2>4, Zenon
        <3> HIDE DEF k
        <3> QED
            BY <2>4, <3>1, <3>2
    <2>6. Len(picture) = k /\ DOMAIN picture = 1 .. k /\ picture[k] = Partly(k, instr_idx)
        <3>1. DOMAIN picture = 1 .. k
            BY <2>2
        <3>2. picture = [m \in 1 .. k |-> picture[m]]
            BY <2>2
        <3>3. Len(picture) = k
            BY <2>3, <3>1, <3>2, AppendCell
        <3>4. k \in 1 .. k
            BY <2>3
        <3> QED
            BY <2>2, <2>3, <3>1, <3>3, <3>4
    <2> DEFINE x == [number |-> list[k] + instr_idx, text |-> Draw!InstrText(list[k] + instr_idx)]
    <2>7. picture' = [picture EXCEPT ![k] = Labelled(Partly(k, instr_idx), x)]
        <3>1. picture' = [picture EXCEPT ![k].label = Append(@, x)]
            BY <2>1, <2>2, <2>4, <2>6, Zenon
        <3> HIDE DEF x
        <3> QED
            BY <2>6, <3>1 DEF Labelled
    <2>8. picture' = [picture EXCEPT ![k] = Partly(k, instr_idx + 1)]
        BY <2>4, <2>5, <2>7, PartlyGrows
    <2>9. picture' = [m \in 1 .. k |-> IF m <= draw_i THEN Whole(m) ELSE Partly(m, instr_idx + 1)]
        <3>1. picture' = [m \in 1 .. k |-> IF m = k THEN Partly(k, instr_idx + 1) ELSE picture[m]]
            BY <2>6, <2>8
        <3>2. \A m \in 1 .. k : (IF m = k THEN Partly(k, instr_idx + 1) ELSE picture[m])
                                  = (IF m <= draw_i THEN Whole(m) ELSE Partly(m, instr_idx + 1))
            <4> SUFFICES ASSUME NEW m \in 1 .. k
                         PROVE  (IF m = k THEN Partly(k, instr_idx + 1) ELSE picture[m])
                                  = (IF m <= draw_i THEN Whole(m) ELSE Partly(m, instr_idx + 1))
                OBVIOUS
            <4>1. CASE m = k
                BY <2>3, <4>1
            <4>2. CASE m # k
                <5>1. m <= draw_i
                    BY <2>3, <4>2
                <5> QED
                    BY <2>2, <4>2, <5>1
            <4> QED
                BY <4>1, <4>2
        <3> HIDE DEF k
        <3> QED
            BY <3>1, <3>2, Zenon
    <2>10. instr_count' = list[k] + instr_idx'
        <3>1. /\ instr_count' = (list[k] + instr_idx) + 1 /\ instr_idx' = instr_idx + 1
              /\ list[k] \in Nat /\ instr_idx \in Nat
            BY <2>1, <2>2, <2>4, <2>5, Zenon
        <3> HIDE DEF k
        <3> QED
            BY <3>1
    <2> QED
        BY <1>1, <2>1, <2>2, <2>5, <2>9, <2>10 DEF DrawInv
<1>5. CASE Draw!EndLabel
    <2> DEFINE k == draw_i + 1
    <2>1. /\ draw_pc = "label" /\ instr_idx >= Draw!b.size /\ draw_pc' = "node"
          /\ draw_i' = draw_i + 1 /\ UNCHANGED <<instr_count, picture>>
        BY <1>5 DEF Draw!EndLabel
    <2>2. /\ draw_i \in 0 .. Len(list) - 1
          /\ instr_idx \in 0 .. Begin(draw_i + 2) - list[k]
          /\ instr_count = list[k] + instr_idx
          /\ picture = [m \in 1 .. k |-> IF m <= draw_i THEN Whole(m) ELSE Partly(m, instr_idx)]
        BY <2>1 DEF DrawInv
    <2>3. /\ k \in 1 .. Len(list) /\ draw_i \in Nat /\ k + 1 = draw_i + 2
          /\ k \in 0 .. Len(list)
        BY <1>0, <2>2
    <2>4. /\ Draw!b.size = Begin(k + 1) - list[k] /\ list[k] \in Nat /\ Begin(k + 1) \in Nat
        BY <1>0, <2>3 DEF Draw!b
    <2>5. instr_idx = Begin(k + 1) - list[k]
        BY <2>1, <2>2, <2>3, <2>4
    <2>6. instr_count' = Begin(k + 1)
        BY <2>1, <2>2, <2>4, <2>5
    <2>7. picture' = [m \in 1 .. k |-> Whole(m)]
        <3>1. \A m \in 1 .. k : (IF m <= draw_i THEN Whole(m) ELSE Partly(m, instr_idx)) = Whole(m)
            <4> SUFFICES ASSUME NEW m \in 1 .. k
                         PROVE  (IF m <= draw_i THEN Whole(m) ELSE Partly(m, instr_idx)) = Whole(m)
                OBVIOUS
            <4>1. m <= draw_i \/ m = k
                BY <2>3
            <4> QED
                BY <2>5, <4>1 DEF Whole
        <3> HIDE DEF k
        <3> QED
            BY <2>1, <2>2, <3>1, Zenon
    <2> QED
        BY <1>1, <2>1, <2>3, <2>6, <2>7 DEF DrawInv
<1>6. CASE Draw!Close
    <2>1. /\ draw_pc = "node" /\ draw_i >= Len(nodes) /\ draw_pc' = "done" /\ picture' = picture
        BY <1>6 DEF Draw!Close
    <2>2. draw_i = Len(list) /\ picture = [m \in 1 .. draw_i |-> Whole(m)]
        BY <1>0, <2>1 DEF DrawInv
    <2> QED
        BY <1>1, <2>1, <2>2 DEF DrawInv
<1> QED
    BY <1>2, <1>3, <1>4, <1>5, <1>6 DEF Draw!Next

LEMMA DrawStageKept ==
    ASSUME LiftStage, InfoStage, NodesStage, CfgStage, DrawStage,
           cfg_pc = "done" => UNCHANGED <<lift_vars, info_vars, nodes_vars, links_vars, cfg_vars>>,
           UNCHANGED draw_vars \/ (cfg_pc = "done" /\ Draw!Next)
    PROVE  DrawStage'
<1>1. CASE cfg_pc = "done"
    <2>1. /\ cfg_pc' = "done" /\ UNCHANGED <<atoms, stamp, list, succs>>
        BY <1>1 DEF lift_vars, info_vars, links_vars, cfg_vars
    <2>2. CASE Draw!Next
        BY <1>1, <2>1, <2>2, DrawStep DEF DrawStage
    <2>3. CASE UNCHANGED draw_vars
        <3>1. UNCHANGED <<draw_pc, draw_i, instr_idx, instr_count, picture>>
            BY <2>3 DEF draw_vars
        <3>2. /\ \A k : Begin(k)' = Begin(k) /\ Whole(k)' = Whole(k)
              /\ \A k, n : Partly(k, n)' = Partly(k, n)
            BY <2>1, PartlyKept
        <3>3. DrawInv
            BY <1>1 DEF DrawStage
        <3>4. DrawInv'
            BY <2>1, <3>1, <3>2, <3>3 DEF DrawInv, Draw!Entry
        <3> QED
            BY <2>1, <3>4 DEF DrawStage
    <2> QED
        BY <2>2, <2>3
<1>2. CASE cfg_pc # "done"
    <2>1. Draw!Entry'
        BY <1>2 DEF DrawStage, Draw!Entry, draw_vars
    <2> QED
        BY <2>1, DrawEnters DEF DrawStage
<1> QED
    BY <1>1, <1>2

-----------------------------------------------------------------------------
(***************************************************************************)
(* The stages of the back end: each has its own invariant where the one    *)
(* before it is done, and is as it was entered until then.  What they are  *)
(* given is the source.                                                    *)
(***************************************************************************)
Stages ==
    /\ Parsed => program = source /\ LF!IsAsm(source)
    /\ LiftStage /\ InfoStage /\ NodesStage /\ CfgStage /\ DrawStage

\* The counts of the lifter's module are those of this one.
LEMMA SameCells == \A k : LF!Cell(k) = Cardinality(LF!Lifted(k))
BY Zenon DEF LF!Cell, LF!Cardinality, Cardinality

LEMMA SameFiniteness == \A some : LF!IsFiniteSet(some) <=> IsFiniteSet(some)
BY Zenon DEF LF!IsFiniteSet, IsFiniteSet

\* The last stage is not left.
LEMMA DrawnStages ==
    ASSUME Stages, draw_pc = "done"
    PROVE  cfg_pc = "done" /\ DrawInv
BY DEF Stages, DrawStage, Draw!Entry

(***************************************************************************)
(* When the picture is drawn, the IR holds the source without its calls,   *)
(* each instruction in the cell of its place.                              *)
(***************************************************************************)
LEMMA Places ==
    ASSUME Stages, lift_pc = "done"
    PROVE  /\ Lifted = LF!Lifted(Len(source)) /\ End = LF!index /\ ir.index = LF!index
           /\ \A k \in Lifted : Place(k) \in 0 .. ir.index - 1 /\ At(k) = Place(k) + 1
           /\ \A k \in Lifted : Shows(atoms[Place(k) + 1], source[k])
           /\ \A c \in 0 .. ir.index - 1 : \E k \in Lifted : c = Place(k)
           /\ IsFiniteSet(Lifted) /\ ir.index \in Nat
<1>1. LF!Inv /\ Lifting /\ Parsed
    BY DEF Stages, LiftStage, LF!Entry
<1>2. program = source /\ LF!IsAsm(source)
    BY <1>1 DEF Stages
<1>3. lift_i = Len(source) /\ Len(source) \in Nat
    BY <1>1, <1>2 DEF Lifting, LF!IsAsm
<1>4. Lifted = LF!Lifted(Len(source))
    BY <1>2 DEF Lifted, LF!Lifted
<1>5. /\ IsFiniteSet(Lifted) /\ End = LF!Cell(Len(source)) /\ End \in Nat
    BY <1>3, <1>4, LF!LiftedFinite, SameCells, SameFiniteness, CellsAssumption DEF End
<1>6. LF!index = LF!Cell(Len(source))
    BY <1>1, <1>3 DEF LF!Inv, LF!OffsetsDense
<1>7. ir.index = LF!index
    BY SameView DEF LF!View
<1>8. ASSUME NEW k \in Lifted
      PROVE  /\ Place(k) = LF!Cell(k - 1) /\ Place(k) \in 0 .. ir.index - 1
             /\ At(k) = Place(k) + 1
    <2>1. k \in 1 .. Len(source) /\ k - 1 \in Nat /\ (k - 1) + 1 = k
        BY DEF Lifted
    <2>2. /\ {j \in Lifted : j <= k - 1} = LF!Lifted(k - 1)
          /\ {j \in Lifted : j <= k} = LF!Lifted(k)
        BY <1>2, <1>3, <2>1 DEF Lifted, LF!Lifted
    <2>3. Place(k) = LF!Cell(k - 1) /\ At(k) = LF!Cell(k)
        BY <2>2, SameCells, Zenon DEF Place, At
    <2>4. LF!Cell(k - 1) \in Nat /\ LF!Cell(k - 1) + 1 <= LF!Cell(Len(source))
        BY <1>3, <1>4, LF!CellInUse, CellsAssumption
    <2>5. program[(k - 1) + 1].opcode # "OPCODE_CALL"
        BY <1>2, <2>1 DEF Lifted
    <2>6. LF!Cell((k - 1) + 1) = LF!Cell(k - 1) + 1
        BY <2>1, <2>5, LF!CellStep, CellsAssumption
    <2> QED
        BY <1>5, <1>6, <1>7, <2>1, <2>3, <2>4, <2>6
<1>9. ASSUME NEW k \in Lifted
      PROVE  Shows(atoms[Place(k) + 1], source[k])
    BY <1>1, <1>2, <1>3, <1>4, <1>8 DEF Lifting
<1>10. ASSUME NEW c \in 0 .. ir.index - 1
       PROVE  \E k \in Lifted : c = Place(k)
    <2>1. c + 1 \in 1 .. LF!index
        BY <1>5, <1>6, <1>7
    <2>2. PICK k \in Lifted : c + 1 = LF!Cell(k - 1) + 1
        BY <1>1, <1>3, <1>4, <2>1 DEF Lifting
    <2>3. Place(k) = LF!Cell(k - 1) /\ Place(k) \in Int
        BY <1>8
    <2> QED
        BY <2>2, <2>3
<1> QED
    BY <1>4, <1>5, <1>6, <1>7, <1>8, <1>9, <1>10

\* A cell's offset is its place; so is that of the cell behind the last.
LEMMA OffsetsKnown ==
    ASSUME Stages, lift_pc = "done", ir.index \in Nat \ {0}
    PROVE  \A l \in 0 .. ir.index : Draw!OffsetOf(l) = l
<1>1. LF!Inv /\ Lifting
    BY DEF Stages, LiftStage, LF!Entry
<1>2. /\ LF!index = LF!Cell(lift_i) /\ ir.index = LF!index /\ ir.index = Len(atoms)
      /\ \A k \in 1 .. Len(atoms) : atoms[k].offset = k - 1
      /\ lift_i > 0 => stamp = Len(atoms)
    BY <1>1, SameView DEF LF!Inv, LF!OffsetsDense, LF!View, LF!index
<1>3. lift_i > 0
    <2>1. lift_i \in Nat /\ (lift_i = 0 => LF!Cell(lift_i) = 0)
        BY <1>1, LF!CellZero, CellsAssumption DEF LF!Inv, LF!TypeOK
    <2> QED
        BY <1>2, <2>1
<1> QED
    BY <1>2, <1>3 DEF Draw!OffsetOf

-----------------------------------------------------------------------------
(***************************************************************************)
(* The finished picture.  Each cell of the IR is in the block of one start *)
(* and is the entry of that node with its place for a number.              *)
(***************************************************************************)
Pictured ==
    /\ DOMAIN picture = 1 .. Len(list)
    /\ \A m \in 1 .. Len(list) :
          /\ picture[m].id = list[m]
          /\ DOMAIN picture[m].label = 1 .. Begin(m + 1) - list[m]
          /\ \A j \in 1 .. Begin(m + 1) - list[m] :
                picture[m].label[j] = [number |-> list[m] + j - 1,
                                       text |-> Draw!InstrText(list[m] + j - 1)]
          /\ Arrows(m) = {succs[list[m]][k] : k \in 1 .. Len(succs[list[m]])}

\* A node of the picture, field by field.
LEMMA WholeCell ==
    \A m : /\ Whole(m).id = Draw!OffsetOf(list[m])
           /\ Whole(m).arrows =
                 [j \in 1 .. Len(succs[list[m]]) |-> Draw!OffsetOf(succs[list[m]][j])]
           /\ Whole(m).label =
                 [j \in 1 .. Begin(m + 1) - list[m] |->
                     [number |-> list[m] + j - 1, text |-> Draw!InstrText(list[m] + j - 1)]]
BY DEF Whole, Partly

LEMMA PictureDone ==
    ASSUME Stages, draw_pc = "done"
    PROVE  Pictured
<1>1. /\ cfg_pc = "done" /\ picture = [k \in 1 .. Len(list) |-> Whole(k)]
    BY DrawnStages DEF DrawInv
<1>2. /\ lift_pc = "done" /\ ir.index \in Nat \ {0}
      /\ \A k \in 1 .. Len(list) : list[k] \in 0 .. ir.index /\ list[k] \in CP!Leaders(ir)
      /\ succs \in [CP!Leaders(ir) -> Seq(CP!Leaders(ir))] /\ CP!IsBuildable(ir)
    BY <1>1, GraphFacts DEF Stages
<1>3. \A l \in 0 .. ir.index : Draw!OffsetOf(l) = l
    BY <1>2, OffsetsKnown
<1>4. CP!Leaders(ir) \subseteq 0 .. ir.index
    BY <1>2, CP!LeaderFacts, NullAssumption, CellsAssumption
<1>5. ASSUME NEW m \in 1 .. Len(list)
      PROVE  /\ picture[m].id = list[m]
             /\ DOMAIN picture[m].label = 1 .. Begin(m + 1) - list[m]
             /\ \A j \in 1 .. Begin(m + 1) - list[m] :
                   picture[m].label[j] = [number |-> list[m] + j - 1,
                                          text |-> Draw!InstrText(list[m] + j - 1)]
             /\ Arrows(m) = {succs[list[m]][k] : k \in 1 .. Len(succs[list[m]])}
    <2>1. picture[m] = Whole(m)
        BY <1>1
    <2>2. /\ picture[m].id = Draw!OffsetOf(list[m])
          /\ picture[m].arrows =
                [j \in 1 .. Len(succs[list[m]]) |-> Draw!OffsetOf(succs[list[m]][j])]
          /\ picture[m].label =
                [j \in 1 .. Begin(m + 1) - list[m] |->
                    [number |-> list[m] + j - 1, text |-> Draw!InstrText(list[m] + j - 1)]]
        BY <2>1, WholeCell
    <2>3. \A j \in 1 .. Len(succs[list[m]]) : succs[list[m]][j] \in 0 .. ir.index
        BY <1>2, <1>4
    <2>4. \A j \in 1 .. Len(succs[list[m]]) : picture[m].arrows[j] = succs[list[m]][j]
        BY <1>3, <2>2, <2>3, Zenon
    <2>5. DOMAIN picture[m].arrows = 1 .. Len(succs[list[m]])
        BY <2>2, Zenon
    <2>6. Arrows(m) = {succs[list[m]][k] : k \in 1 .. Len(succs[list[m]])}
        BY <2>4, <2>5 DEF Arrows
    <2>7. picture[m].id = list[m]
        BY <1>2, <1>3, <2>2
    <2> QED
        BY <2>2, <2>6, <2>7, Zenon
<1> QED
    BY <1>1, <1>5, Zenon DEF Pictured

\* The last start not behind a cell is that of its block.
LEMMA InBlock ==
    ASSUME NEW n \in Nat, NEW s, n > 0, s[1] = 0,
           \A k \in 1 .. n : s[k] \in Nat,
           NEW c \in Nat
    PROVE  \E m \in 1 .. n : s[m] <= c /\ (m = n \/ c < s[m + 1])
<1> DEFINE Later == {m \in 1 .. n : m = n \/ c < s[m + 1]}
<1>1. n \in Later /\ Later \in SUBSET Nat
    OBVIOUS
<1>2. PICK m \in Later : \A x \in Later : m <= x
    <2> HIDE DEF Later
    <2> QED
        BY <1>1, CP!NatHasLeast, NullAssumption, CellsAssumption
<1>3. CASE m = 1
    BY <1>2, <1>3
<1>4. CASE m # 1
    <2>1. m - 1 \in 1 .. n /\ m - 1 # n /\ m - 1 \notin Later /\ (m - 1) + 1 = m
        BY <1>2, <1>4
    <2>2. ~ (c < s[m])
        BY <2>1
    <2> QED
        BY <1>2, <2>2
<1> QED
    BY <1>3, <1>4

\* The nodes, and their order, once the picture is drawn.
LEMMA DrawnGraph ==
    ASSUME Stages, draw_pc = "done"
    PROVE  /\ lift_pc = "done" /\ cfg_pc = "done" /\ Pictured
           /\ ir.index \in Nat \ {0} /\ Len(list) \in Nat \ {0}
           /\ \A m \in 1 .. Len(list) :
                 /\ list[m] \in 0 .. ir.index /\ list[m] \in CP!Leaders(ir)
                 /\ Begin(m + 1) \in 0 .. ir.index /\ list[m] <= Begin(m + 1)
                 /\ m < Len(list) => Begin(m + 1) = list[m + 1]
           /\ list[1] = 0 /\ Begin(Len(list) + 1) = ir.index
           /\ \A m, n \in 1 .. Len(list) : m < n => list[m] < list[n] /\ Begin(m + 1) <= list[n]
           /\ \A l \in CP!Leaders(ir) : \E k \in 1 .. Len(list) : l = list[k]
           /\ succs \in [CP!Leaders(ir) -> Seq(CP!Leaders(ir))]
<1>1. cfg_pc = "done" /\ Pictured
    BY DrawnStages, PictureDone
<1>2. /\ lift_pc = "done" /\ ir.index \in Nat \ {0} /\ Len(list) \in Nat \ {0}
      /\ \A k \in 1 .. Len(list) :
            /\ list[k] \in 0 .. ir.index /\ list[k] \in CP!Leaders(ir)
            /\ Begin(k + 1) \in Nat /\ list[k] <= Begin(k + 1)
      /\ list[1] = 0 /\ Begin(Len(list) + 1) = ir.index
      /\ \A j, k \in 1 .. Len(list) : j < k => list[j] < list[k]
      /\ \A l \in CP!Leaders(ir) : \E k \in 1 .. Len(list) : l = list[k]
      /\ succs \in [CP!Leaders(ir) -> Seq(CP!Leaders(ir))]
    BY <1>1, GraphFacts DEF Stages
<1>3. ASSUME NEW m \in 1 .. Len(list)
      PROVE  /\ Begin(m + 1) \in 0 .. ir.index
             /\ m < Len(list) => Begin(m + 1) = list[m + 1]
    <2>1. CASE m = Len(list)
        BY <1>2, <2>1
    <2>2. CASE m # Len(list)
        <3>1. m + 1 \in 1 .. Len(list) /\ m + 1 <= Len(list)
            BY <1>2, <2>2
        <3> QED
            BY <1>2, <3>1 DEF Begin
    <2> QED
        BY <2>1, <2>2
<1>4. ASSUME NEW m \in 1 .. Len(list), NEW n \in 1 .. Len(list), m < n
      PROVE  Begin(m + 1) <= list[n]
    <2>1. m + 1 \in 1 .. Len(list) /\ m < Len(list) /\ (m + 1 < n \/ m + 1 = n)
        BY <1>2, <1>4
    <2>2. Begin(m + 1) = list[m + 1]
        BY <1>3, <2>1
    <2>3. list[m + 1] \in 0 .. ir.index /\ list[n] \in 0 .. ir.index
        BY <1>2, <2>1
    <2>4. list[m + 1] < list[n] \/ list[m + 1] = list[n]
        BY <1>2, <2>1
    <2> QED
        BY <2>2, <2>3, <2>4
<1> QED
    BY <1>1, <1>2, <1>3, <1>4

\* The entries, by node and line.
LEMMA EntryFacts ==
    ASSUME Stages, draw_pc = "done"
    PROVE  /\ \A e \in Entries :
                 \E m \in 1 .. Len(list) : \E j \in 1 .. Begin(m + 1) - list[m] : e = <<m, j>>
           /\ \A m \in 1 .. Len(list) : \A j \in 1 .. Begin(m + 1) - list[m] :
                 /\ <<m, j>> \in Entries
                 /\ EntryAt(<<m, j>>) = [number |-> list[m] + j - 1,
                                         text |-> Draw!InstrText(list[m] + j - 1)]
                 /\ EntryAt(<<m, j>>).number = list[m] + j - 1
<1>1. /\ DOMAIN picture = 1 .. Len(list)
      /\ \A m \in 1 .. Len(list) :
          /\ DOMAIN picture[m].label = 1 .. Begin(m + 1) - list[m]
          /\ \A j \in 1 .. Begin(m + 1) - list[m] :
                picture[m].label[j] = [number |-> list[m] + j - 1,
                                       text |-> Draw!InstrText(list[m] + j - 1)]
    BY DrawnGraph DEF Pictured
<1>2. \A e \in Entries :
         \E m \in 1 .. Len(list) : \E j \in 1 .. Begin(m + 1) - list[m] : e = <<m, j>>
    BY <1>1, Zenon DEF Entries
<1>3. ASSUME NEW m \in 1 .. Len(list), NEW j \in 1 .. Begin(m + 1) - list[m]
      PROVE  /\ <<m, j>> \in Entries
             /\ EntryAt(<<m, j>>) = [number |-> list[m] + j - 1,
                                     text |-> Draw!InstrText(list[m] + j - 1)]
    <2>1. \A n \in DOMAIN picture : \A k \in DOMAIN picture[n].label : <<n, k>> \in Entries
        BY DEF Entries
    <2>2. EntryAt(<<m, j>>) = picture[m].label[j]
        BY DEF EntryAt
    <2>3. m \in DOMAIN picture /\ j \in DOMAIN picture[m].label
        BY <1>1, Zenon
    <2> QED
        BY <1>1, <2>1, <2>2, <2>3, Zenon
<1>4. ASSUME NEW m \in 1 .. Len(list), NEW j \in 1 .. Begin(m + 1) - list[m]
      PROVE  EntryAt(<<m, j>>).number = list[m] + j - 1
    <2>1. \A x, y : [number |-> x, text |-> y].number = x
        OBVIOUS
    <2>2. EntryAt(<<m, j>>) = [number |-> list[m] + j - 1,
                               text |-> Draw!InstrText(list[m] + j - 1)]
        BY <1>3, Zenon
    <2> QED
        BY <2>1, <2>2
<1> QED
    BY <1>2, <1>3, <1>4, Zenon

\* A number is in one of two intervals that do not meet.
LEMMA OneBlock ==
    \A b1, b2, l1, l2, c \in Int :
       c < b1 /\ c < b2 /\ l1 <= c /\ l2 <= c => ~ (b1 <= l2) /\ ~ (b2 <= l1)
OBVIOUS

\* Each cell has one entry.
LEMMA EntriesCells ==
    ASSUME Stages, draw_pc = "done"
    PROVE  /\ \A e \in Entries : EntryAt(e).number \in 0 .. ir.index - 1
           /\ \A d, e \in Entries : EntryAt(d).number = EntryAt(e).number => d = e
           /\ \A c \in 0 .. ir.index - 1 : \E e \in Entries :
                 EntryAt(e) = [number |-> c, text |-> Draw!InstrText(c)]
<1>1. ASSUME NEW m \in 1 .. Len(list), NEW j \in 1 .. Begin(m + 1) - list[m]
      PROVE  /\ list[m] + j - 1 \in 0 .. ir.index - 1
             /\ list[m] <= list[m] + j - 1 /\ list[m] + j - 1 < Begin(m + 1)
    <2>1. list[m] \in 0 .. ir.index /\ Begin(m + 1) \in 0 .. ir.index /\ ir.index \in Nat
        BY DrawnGraph
    <2> QED
        BY <2>1
<1>2. ASSUME NEW e \in Entries
      PROVE  EntryAt(e).number \in 0 .. ir.index - 1
    <2>1. PICK m \in 1 .. Len(list) : \E j \in 1 .. Begin(m + 1) - list[m] : e = <<m, j>>
        BY EntryFacts
    <2>2. PICK j \in 1 .. Begin(m + 1) - list[m] : e = <<m, j>>
        BY <2>1
    <2> QED
        BY <1>1, <2>2, EntryFacts
<1>3. ASSUME NEW m \in 1 .. Len(list), NEW j \in 1 .. Begin(m + 1) - list[m],
             NEW n \in 1 .. Len(list), NEW k \in 1 .. Begin(n + 1) - list[n],
             list[m] + j - 1 = list[n] + k - 1
      PROVE  m = n /\ j = k
    <2>0. /\ \A l \in 1 .. Len(list) : list[l] \in 0 .. ir.index /\ Begin(l + 1) \in 0 .. ir.index
          /\ \A k1, k2 \in 1 .. Len(list) : k1 < k2 => Begin(k1 + 1) <= list[k2]
        BY DrawnGraph, Zenon
    <2>1. /\ list[m] \in Int /\ list[n] \in Int /\ Begin(m + 1) \in Int /\ Begin(n + 1) \in Int
          /\ m < n => Begin(m + 1) <= list[n]
          /\ n < m => Begin(n + 1) <= list[m]
        BY <2>0
    <2> DEFINE c == list[m] + j - 1
               d == list[n] + k - 1
    <2>2. /\ c \in Int /\ c < Begin(m + 1) /\ list[m] <= c
          /\ d \in Int /\ d < Begin(n + 1) /\ list[n] <= d
        BY <1>1
    <2>3. c = d
        BY <1>3
    <2>4. m = n
        <3> HIDE DEF c, d
        <3>1. c < Begin(n + 1) /\ list[n] <= c
            BY <2>2, <2>3, Zenon
        <3>2. ~ (Begin(m + 1) <= list[n]) /\ ~ (Begin(n + 1) <= list[m])
            BY <2>1, <2>2, <3>1, OneBlock, Zenon
        <3>3. ~ (m < n) /\ ~ (n < m)
            BY <2>1, <3>2, Zenon
        <3> QED
            BY <3>3
    <2> QED
        BY <1>3, <2>1, <2>4
<1>4. ASSUME NEW d \in Entries, NEW e \in Entries, EntryAt(d).number = EntryAt(e).number
      PROVE  d = e
    <2>1. PICK m \in 1 .. Len(list) : \E j \in 1 .. Begin(m + 1) - list[m] : d = <<m, j>>
        BY EntryFacts
    <2>2. PICK j \in 1 .. Begin(m + 1) - list[m] : d = <<m, j>>
        BY <2>1
    <2>3. PICK n \in 1 .. Len(list) : \E k \in 1 .. Begin(n + 1) - list[n] : e = <<n, k>>
        BY EntryFacts
    <2>4. PICK k \in 1 .. Begin(n + 1) - list[n] : e = <<n, k>>
        BY <2>3
    <2>5. EntryAt(d).number = list[m] + j - 1 /\ EntryAt(e).number = list[n] + k - 1
        BY <2>2, <2>4, EntryFacts, Zenon
    <2>6. list[m] + j - 1 = list[n] + k - 1
        BY <1>4, <2>5, Zenon
    <2>7. m = n /\ j = k
        BY <1>3, <2>6, Zenon
    <2> QED
        BY <2>2, <2>4, <2>7, Zenon
<1>5. ASSUME NEW c \in 0 .. ir.index - 1
      PROVE  \E e \in Entries : EntryAt(e) = [number |-> c, text |-> Draw!InstrText(c)]
    <2>1. /\ Len(list) \in Nat /\ Len(list) > 0 /\ list[1] = 0 /\ c \in Nat
          /\ \A k \in 1 .. Len(list) : list[k] \in Nat
        BY DrawnGraph
    <2>2. PICK m \in 1 .. Len(list) : list[m] <= c /\ (m = Len(list) \/ c < list[m + 1])
        BY <2>1, InBlock
    <2>3. c < Begin(m + 1)
        <3>1. CASE m = Len(list)
            BY <3>1, DrawnGraph
        <3>2. CASE m # Len(list)
            <4>1. m < Len(list)
                BY <2>1, <3>2
            <4>2. Begin(m + 1) = list[m + 1]
                BY <4>1, DrawnGraph
            <4> QED
                BY <2>2, <3>2, <4>2
        <3> QED
            BY <3>1, <3>2
    <2>4. list[m] \in Nat /\ Begin(m + 1) \in Nat
        BY DrawnGraph
    <2>5. c - list[m] + 1 \in 1 .. Begin(m + 1) - list[m] /\ list[m] + (c - list[m] + 1) - 1 = c
        BY <2>1, <2>2, <2>3, <2>4
    <2>6. /\ <<m, c - list[m] + 1>> \in Entries
          /\ EntryAt(<<m, c - list[m] + 1>>) =
                [number |-> list[m] + (c - list[m] + 1) - 1,
                 text |-> Draw!InstrText(list[m] + (c - list[m] + 1) - 1)]
        BY <2>5, EntryFacts
    <2> QED
        BY <2>5, <2>6, Zenon
<1> QED
    BY <1>2, <1>4, <1>5, Zenon

\* So there are as many entries as cells.
LEMMA EntriesCounted ==
    ASSUME Stages, draw_pc = "done"
    PROVE  Cardinality(Entries) = ir.index
<1> DEFINE Cells == 0 .. ir.index - 1
           F == [e \in Entries |-> EntryAt(e).number]
<1>1. F \in [Entries -> Cells]
    BY EntriesCells
<1>2. \A d, e \in Entries : F[d] = F[e] => d = e
    BY EntriesCells, Zenon
<1>3. \A c \in Cells : \E e \in Entries : F[e] = c
    <2> SUFFICES ASSUME NEW c \in Cells PROVE \E e \in Entries : F[e] = c
        OBVIOUS
    <2>1. PICK e \in Entries : EntryAt(e) = [number |-> c, text |-> Draw!InstrText(c)]
        BY EntriesCells
    <2>2. F[e] = c
        BY <2>1
    <2> QED
        BY <2>2
<1>4. IsFiniteSet(Cells) /\ Cardinality(Cells) = ir.index
    <2>1. ir.index \in Nat \ {0}
        BY DrawnGraph
    <2>2. \A n \in Nat : IsFiniteSet(0 .. n - 1) /\ Cardinality(0 .. n - 1) = n
        BY FS_Interval
    <2> QED
        BY <2>1, <2>2
<1> HIDE DEF F, Cells
<1>5. F \in Bijection(Entries, Cells)
    BY <1>1, <1>2, <1>3, Fun_IsBij
<1>6. ExistsBijection(Cells, Entries)
    BY <1>5, Fun_ExistsBij, Fun_ExistsBijSymmetric
<1> QED
    BY <1>4, <1>6, FS_Bijection

(***************************************************************************)
(* So every lifted instruction has its entry, and every arrow its node.    *)
(***************************************************************************)
LEMMA DrawnKept == Stages => Drawn
<1> SUFFICES ASSUME Stages, draw_pc = "done" PROVE Drawn
    BY DEF Drawn
<1>1. /\ lift_pc = "done" /\ Pictured /\ ir.index \in Nat \ {0} /\ Len(list) \in Nat
      /\ \A m \in 1 .. Len(list) : list[m] \in 0 .. ir.index /\ list[m] \in CP!Leaders(ir)
      /\ \A m, n \in 1 .. Len(list) : m < n => list[m] < list[n]
      /\ \A l \in CP!Leaders(ir) : \E k \in 1 .. Len(list) : l = list[k]
      /\ succs \in [CP!Leaders(ir) -> Seq(CP!Leaders(ir))]
    BY DrawnGraph, Zenon
<1>2. /\ End = ir.index
      /\ \A k \in Lifted : /\ Place(k) \in 0 .. ir.index - 1
                           /\ Shows(atoms[Place(k) + 1], source[k])
    BY <1>1, Places
<1>3. Cardinality(Entries) = Cardinality(Lifted)
    BY <1>2, EntriesCounted DEF End
<1>4. ASSUME NEW k \in Lifted
      PROVE  \E e \in Entries :
                EntryAt(e) = [number |-> Place(k), text |-> AsWritten(source[k])]
    <2>1. PICK e \in Entries :
             EntryAt(e) = [number |-> Place(k), text |-> Draw!InstrText(Place(k))]
        BY <1>2, EntriesCells
    <2>2. Len(atoms) = ir.index
        BY SameView DEF LF!View, LF!index
    <2>3. Draw!InstrText(Place(k)) = Draw!VisitInstruction(atoms[Place(k) + 1])
        BY <1>1, <1>2, <2>2 DEF Draw!InstrText
    <2>4. Draw!InstrText(Place(k)) = AsWritten(source[k])
        BY <1>2, <2>3, Zenon DEF Shows
    <2> QED
        BY <2>1, <2>4, Zenon
<1>5. ASSUME NEW m \in DOMAIN picture, NEW n \in DOMAIN picture, picture[m].id = picture[n].id
      PROVE  m = n
    <2>1. m \in 1 .. Len(list) /\ n \in 1 .. Len(list) /\ list[m] = list[n]
        BY <1>1, <1>5, Zenon DEF Pictured
    <2>2. list[m] \in Int /\ ~ (list[m] < list[n]) /\ ~ (list[n] < list[m])
        BY <1>1, <2>1
    <2>3. ~ (m < n) /\ ~ (n < m)
        BY <1>1, <2>1, <2>2
    <2> QED
        BY <1>1, <2>1, <2>3
<1>6. ASSUME NEW m \in DOMAIN picture, NEW id \in Arrows(m)
      PROVE  id \in {picture[n].id : n \in DOMAIN picture}
    <2>1. m \in 1 .. Len(list) /\ list[m] \in CP!Leaders(ir)
        BY <1>1, Zenon DEF Pictured
    <2>2. PICK k \in 1 .. Len(succs[list[m]]) : id = succs[list[m]][k]
        <3>1. Arrows(m) = {succs[list[m]][k] : k \in 1 .. Len(succs[list[m]])}
            BY <1>1, <2>1, Zenon DEF Pictured
        <3>2. id \in {succs[list[m]][k] : k \in 1 .. Len(succs[list[m]])}
            BY <3>1
        <3> QED
            BY <3>2
    <2>3. succs[list[m]] \in Seq(CP!Leaders(ir))
        BY <1>1, <2>1
    <2>4. id \in CP!Leaders(ir)
        BY <2>2, <2>3
    <2>5. PICK n \in 1 .. Len(list) : id = list[n]
        BY <1>1, <2>4
    <2>6. n \in DOMAIN picture /\ picture[n].id = id
        BY <1>1, <2>5, Zenon DEF Pictured
    <2> QED
        BY <2>6
<1> QED
    BY <1>3, <1>4, <1>5, <1>6, Zenon DEF Drawn

-----------------------------------------------------------------------------
\* The IR is read here as in the proofs about the graph.
LEMMA SameReading == \A p : /\ IR!Executable(p) = CP!Executable(p)
                            /\ IR!JumpsEndBlocks(p) <=> CP!JumpsEndBlocks(p)
<1> USE DEF IR!Kind, CP!Kind, IR!Target, CP!Target, IR!Offsets, CP!Offsets, IR!IsJump, CP!IsJump
<1>1. \A p, k : IR!InstrNext(p, k) = CP!InstrNext(p, k)
    BY Zenon DEF IR!InstrNext, CP!InstrNext
<1>2. \A p, some : IR!FlowClosed(p, some) <=> CP!FlowClosed(p, some)
    BY <1>1, Zenon DEF IR!FlowClosed, CP!FlowClosed
<1>3. \A p : IR!Executable(p) = CP!Executable(p)
    BY <1>2, Zenon DEF IR!Executable, CP!Executable
<1>4. \A p : IR!JumpsEndBlocks(p) <=> CP!JumpsEndBlocks(p)
    BY SameLeaders, Zenon DEF IR!JumpsEndBlocks, CP!JumpsEndBlocks
<1> QED
    BY <1>3, <1>4, Zenon

(***************************************************************************)
(* The flow that is written is that of the IR, cell by cell, where the     *)
(* labels are the places of what they label.                               *)
(***************************************************************************)
LEMMA CellFlow ==
    ASSUME Stages, lift_pc = "done", NEW k \in Lifted
    PROVE  /\ source[k].opcode = "OPCODE_JMP" <=> CP!Kind(ir, Place(k)) = "ATM_JMP"
           /\ source[k].opcode \in Lift!CondOpcodes <=> CP!Kind(ir, Place(k)) = "ATM_CONDJMP"
           /\ CP!IsJump(ir, Place(k)) =>
                 k \in Jumping /\ CP!Target(ir, Place(k)) = TargetOf(k)
           /\ At(k) = Place(k) + 1
<1> DEFINE atom == atoms[Place(k) + 1]
<1>1. /\ Place(k) \in 0 .. ir.index - 1 /\ Shows(atom, source[k])
      /\ At(k) = Place(k) + 1 /\ ir.index = LF!index
    BY Places, Zenon
<1>2. ir.code[Place(k)] = IF atom.kind \in {"ATM_JMP", "ATM_CONDJMP"}
                          THEN [kind |-> atom.kind, target |-> atom.ids[1].address.offset]
                          ELSE [kind |-> "ATM_OTHER", target |-> 0]
    BY <1>1, SameView DEF LF!View
<1>3. /\ source[k].opcode = "OPCODE_JMP" <=> atom.kind = "ATM_JMP"
      /\ source[k].opcode \in Lift!CondOpcodes <=> atom.kind = "ATM_CONDJMP"
      /\ source[k].opcode \in Lift!JmpOpcodes => atom.ids[1].address.offset = TargetOf(k)
    BY <1>1, SameOpcodes, SameAddress, Zenon DEF Shows, TargetOf
<1>4. /\ CP!Kind(ir, Place(k)) = "ATM_JMP" <=> atom.kind = "ATM_JMP"
      /\ CP!Kind(ir, Place(k)) = "ATM_CONDJMP" <=> atom.kind = "ATM_CONDJMP"
      /\ CP!IsJump(ir, Place(k)) => CP!Target(ir, Place(k)) = atom.ids[1].address.offset
    <2> HIDE DEF atom
    <2> QED
        BY <1>2 DEF CP!Kind, CP!Target, CP!IsJump
<1>5. Lift!JmpOpcodes = {"OPCODE_JMP"} \cup Lift!CondOpcodes
    BY DEF Lift!JmpOpcodes, Lift!CondOpcodes
<1>6. CP!IsJump(ir, Place(k)) => source[k].opcode \in Lift!JmpOpcodes
    BY <1>3, <1>4, <1>5, Zenon DEF CP!IsJump
<1> QED
    BY <1>3, <1>4, <1>1, <1>6, Zenon DEF Jumping

LEMMA WrittenFlow ==
    ASSUME Stages, lift_pc = "done", LabelsAgree, NEW k \in Lifted
    PROVE  WrittenNext(k) \ {End} = CP!InstrNext(ir, Place(k)) \ {End}
<1> DEFINE c == Place(k)
<1>1. c \in 0 .. ir.index - 1 /\ ir.index \in Nat /\ End = ir.index
    BY Places
<1>2. At(k) = c + 1
    BY CellFlow
<1>3. CP!IsJump(ir, c) => At(TargetOf(k)) = CP!Target(ir, c)
    BY CellFlow, Zenon DEF LabelsAgree
<1>4. CASE source[k].opcode = "OPCODE_JMP"
    <2>1. CP!Kind(ir, c) = "ATM_JMP"
        BY <1>4, CellFlow
    <2> HIDE DEF c
    <2>2. CP!InstrNext(ir, c) = {CP!Target(ir, c)} /\ CP!IsJump(ir, c)
        BY <2>1 DEF CP!InstrNext, CP!IsJump
    <2>3. source[k].opcode \notin Lift!CondOpcodes
        BY <1>4 DEF Lift!CondOpcodes
    <2>4. WrittenNext(k) = {At(TargetOf(k))}
        BY <1>4, <2>3, Zenon DEF WrittenNext
    <2> QED
        BY <1>3, <2>2, <2>4, Zenon DEF c
<1>5. CASE source[k].opcode \in Lift!CondOpcodes
    <2>1. CP!Kind(ir, c) = "ATM_CONDJMP"
        BY <1>5, CellFlow
    <2> HIDE DEF c
    <2>2. CP!InstrNext(ir, c) = {CP!Target(ir, c), c + 1} /\ CP!IsJump(ir, c)
        BY <2>1 DEF CP!InstrNext, CP!IsJump
    <2>3. source[k].opcode # "OPCODE_JMP"
        BY <1>5 DEF Lift!CondOpcodes
    <2>4. WrittenNext(k) = {At(TargetOf(k)), At(k)}
        BY <1>5, <2>3, Zenon DEF WrittenNext
    <2> QED
        BY <1>2, <1>3, <2>2, <2>4, Zenon DEF c
<1>6. CASE source[k].opcode # "OPCODE_JMP" /\ source[k].opcode \notin Lift!CondOpcodes
    <2>1. CP!Kind(ir, c) # "ATM_JMP" /\ CP!Kind(ir, c) # "ATM_CONDJMP"
        BY <1>6, CellFlow
    <2>2. WrittenNext(k) = {At(k)}
        BY <1>6, Zenon DEF WrittenNext
    <2> HIDE DEF c
    <2>3. CP!InstrNext(ir, c) = {c + 1} \cap CP!Offsets(ir)
        BY <2>1, Zenon DEF CP!InstrNext
    <2>4. c + 1 = ir.index \/ c + 1 \in CP!Offsets(ir)
        BY <1>1 DEF CP!Offsets
    <2>5. ir.index \notin CP!Offsets(ir)
        BY <1>1 DEF CP!Offsets
    <2> QED
        BY <1>1, <1>2, <2>2, <2>3, <2>4, <2>5 DEF c
<1> QED
    BY <1>4, <1>5, <1>6

-----------------------------------------------------------------------------
(***************************************************************************)
(* The flow that is drawn is that of the IR: along a label, and where it   *)
(* ends along the arrows, which are the links of a block that can be       *)
(* reached.                                                                *)
(***************************************************************************)
LEMMA FirstNumbers ==
    ASSUME Stages, draw_pc = "done", NEW n \in 1 .. Len(list)
    PROVE  FirstNumber(n) = list[n]
<1>1. /\ lift_pc = "done" /\ Len(list) \in Nat /\ ir.index \in Nat
      /\ list[n] \in 0 .. ir.index /\ Begin(n + 1) \in 0 .. ir.index /\ list[n] <= Begin(n + 1)
      /\ n < Len(list) => Begin(n + 1) = list[n + 1]
      /\ Begin(Len(list) + 1) = ir.index
    BY DrawnGraph
<1>2. End = ir.index
    BY <1>1, Places
<1>3. /\ picture[n].label =
            [j \in 1 .. Begin(n + 1) - list[n] |->
                [number |-> list[n] + j - 1, text |-> Draw!InstrText(list[n] + j - 1)]]
    <2>1. picture[n] = Whole(n)
        BY DrawnStages DEF DrawInv
    <2> QED
        BY <2>1, WholeCell
<1>4. CASE Begin(n + 1) = list[n]
    <2>1. n = Len(list)
        <3> SUFFICES ASSUME n # Len(list) PROVE FALSE
            OBVIOUS
        <3>1. n < Len(list) /\ n + 1 \in 1 .. Len(list) /\ n < n + 1
            BY <1>1
        <3>2. list[n] < list[n + 1] /\ list[n + 1] = list[n]
            BY <1>1, <1>4, <3>1, DrawnGraph
        <3> QED
            BY <1>1, <3>2
    <2>2. picture[n].label = <<>>
        <3>1. 1 .. Begin(n + 1) - list[n] = {}
            BY <1>1, <1>4
        <3> QED
            BY <1>3, <3>1
    <2> QED
        BY <1>1, <1>2, <1>4, <2>1, <2>2 DEF FirstNumber
<1>5. CASE Begin(n + 1) # list[n]
    <2>1. 1 \in 1 .. Begin(n + 1) - list[n]
        BY <1>1, <1>5
    <2>2. picture[n].label # <<>> /\ picture[n].label[1].number = list[n] + 1 - 1
        BY <1>3, <2>1
    <2> QED
        BY <1>1, <2>2 DEF FirstNumber
<1> QED
    BY <1>4, <1>5

\* The starts in their order, once more, without what is drawn of them.
LEMMA StartFacts ==
    ASSUME Stages, draw_pc = "done"
    PROVE  /\ Len(list) \in Nat /\ ir.index \in Nat \ {0}
           /\ \A m \in 1 .. Len(list) :
                 /\ list[m] \in Nat /\ list[m] <= ir.index /\ list[m] \in CP!Leaders(ir)
                 /\ Begin(m + 1) \in Nat /\ Begin(m + 1) <= ir.index /\ list[m] <= Begin(m + 1)
                 /\ m < Len(list) => Begin(m + 1) = list[m + 1]
           /\ Begin(Len(list) + 1) = ir.index
           /\ \A m, n \in 1 .. Len(list) : m < n => list[m] < list[n] /\ Begin(m + 1) <= list[n]
           /\ \A l \in CP!Leaders(ir) : \E n \in 1 .. Len(list) : l = list[n]
<1>1. ASSUME NEW m \in 1 .. Len(list)
      PROVE  /\ list[m] \in Nat /\ list[m] <= ir.index /\ list[m] \in CP!Leaders(ir)
             /\ Begin(m + 1) \in Nat /\ Begin(m + 1) <= ir.index /\ list[m] <= Begin(m + 1)
             /\ m < Len(list) => Begin(m + 1) = list[m + 1]
    BY DrawnGraph
<1>2. /\ Len(list) \in Nat /\ ir.index \in Nat \ {0}
    BY DrawnGraph
<1>3. /\ Begin(Len(list) + 1) = ir.index
      /\ \A m, n \in 1 .. Len(list) : m < n => list[m] < list[n] /\ Begin(m + 1) <= list[n]
      /\ \A l \in CP!Leaders(ir) : \E n \in 1 .. Len(list) : l = list[n]
    BY DrawnGraph, Zenon
<1> QED
    BY <1>1, <1>2, <1>3, Zenon

\* No start lies inside a block.
LEMMA NoStartInside ==
    ASSUME Stages, draw_pc = "done", NEW m \in 1 .. Len(list), NEW l \in CP!Leaders(ir)
    PROVE  l <= list[m] \/ l >= Begin(m + 1)
<1>1. PICK n \in 1 .. Len(list) : l = list[n]
    BY StartFacts, Zenon
<1>2. /\ list[n] \in Nat /\ list[m] \in Nat /\ Begin(m + 1) \in Nat /\ Len(list) \in Nat
      /\ n < m => list[n] < list[m]
      /\ m < n => Begin(m + 1) <= list[n]
    BY StartFacts, Zenon
<1>3. n < m \/ n = m \/ m < n
    BY <1>2
<1> QED
    BY <1>1, <1>2, <1>3

\* Within a block the label goes on as the flow does.
LEMMA AlongLabel ==
    ASSUME Stages, draw_pc = "done", CP!JumpsEndBlocks(ir), CP!IsProgram(ir),
           NEW m \in 1 .. Len(list), NEW j \in 1 .. Begin(m + 1) - list[m],
           j # Begin(m + 1) - list[m]
    PROVE  PictureNext(<<m, j>>) = CP!InstrNext(ir, list[m] + j - 1)
<1> DEFINE c == list[m] + j - 1
<1>1. /\ list[m] \in Nat /\ Begin(m + 1) \in Nat /\ Begin(m + 1) <= ir.index /\ ir.index \in Nat
    BY StartFacts, Zenon
<1>2. /\ j + 1 \in 1 .. Begin(m + 1) - list[m] /\ c \in 0 .. ir.index - 1 /\ c + 1 < ir.index
      /\ list[m] < c + 1 /\ c + 1 < Begin(m + 1) /\ list[m] + (j + 1) - 1 = c + 1
      /\ c + 1 \in 0 .. ir.index - 1
    <2>1. \A a, b, z \in Nat : \A x \in 1 .. b - a :
             b <= z /\ x # b - a =>
                /\ x + 1 \in 1 .. b - a /\ a + x - 1 \in 0 .. z - 1 /\ a + x - 1 + 1 < z
                /\ a < a + x - 1 + 1 /\ a + x - 1 + 1 < b /\ a + (x + 1) - 1 = a + x - 1 + 1
                /\ a + x - 1 + 1 \in 0 .. z - 1
        OBVIOUS
    <2> QED
        BY <1>1, <2>1, Zenon
<1>3. PictureNext(<<m, j>>) = {c + 1}
    <2>1. <<m, j + 1>> \in Entries /\ EntryAt(<<m, j + 1>>).number = list[m] + (j + 1) - 1
        BY <1>2, EntryFacts
    <2>2. <<m, j>>[1] = m /\ <<m, j>>[2] = j
        OBVIOUS
    <2> HIDE DEF c
    <2> QED
        BY <1>2, <2>1, <2>2, Zenon DEF PictureNext
<1>4. c + 1 \notin CP!Leaders(ir)
    <2> HIDE DEF c
    <2> SUFFICES ASSUME c + 1 \in CP!Leaders(ir) PROVE FALSE
        OBVIOUS
    <2>1. c + 1 <= list[m] \/ c + 1 >= Begin(m + 1)
        BY NoStartInside
    <2> QED
        BY <1>1, <1>2, <2>1
<1>5. ~ CP!IsJump(ir, c)
    <2>1. c \in CP!Offsets(ir)
        BY <1>2 DEF CP!Offsets
    <2> HIDE DEF c
    <2> QED
        BY <1>2, <1>4, <2>1 DEF CP!JumpsEndBlocks
<1>6. c + 1 \in CP!Offsets(ir)
    <2> HIDE DEF c
    <2> QED
        BY <1>2 DEF CP!Offsets
<1>7. CP!InstrNext(ir, c) = {c + 1}
    <2> HIDE DEF c
    <2>1. CP!InstrNext(ir, c) = {c + 1} \cap CP!Offsets(ir)
        BY <1>5 DEF CP!InstrNext, CP!IsJump
    <2> QED
        BY <1>6, <2>1
<1> QED
    BY <1>3, <1>7

\* A block ends where the next one begins.
LEMMA EndOfBlock ==
    ASSUME Stages, draw_pc = "done", CP!IsBuildable(ir), NEW m \in 1 .. Len(list)
    PROVE  CP!BlockEnd(ir, list[m]) = Begin(m + 1) - 1
<1> DEFINE e == CP!BlockEnd(ir, list[m])
<1>1. /\ list[m] \in Nat /\ list[m] <= ir.index /\ list[m] \in CP!Leaders(ir)
      /\ Begin(m + 1) \in Nat /\ Begin(m + 1) <= ir.index /\ list[m] <= Begin(m + 1)
      /\ m < Len(list) => Begin(m + 1) = list[m + 1]
      /\ Begin(Len(list) + 1) = ir.index /\ ir.index \in Nat \ {0} /\ Len(list) \in Nat
    BY StartFacts, Zenon
<1>2. /\ e \in CP!Offsets(ir)
      /\ e = ir.index - 1 \/ e + 1 \in CP!Leaders(ir)
      /\ \A l \in CP!Leaders(ir) : l > list[m] => e < l
      /\ list[m] <= e \/ list[m] = ir.index
      /\ list[m] = ir.index => e = ir.index - 1
    BY <1>1, CP!BlockEndFacts, NullAssumption, CellsAssumption
<1>3. e \in 0 .. ir.index - 1
    BY <1>2 DEF CP!Offsets
<1> HIDE DEF e
<1>4. e + 1 <= list[m] \/ e + 1 >= Begin(m + 1)
    <2>1. CASE e = ir.index - 1
        BY <1>1, <2>1
    <2>2. CASE e + 1 \in CP!Leaders(ir)
        BY <2>2, NoStartInside
    <2> QED
        BY <1>2, <2>1, <2>2
<1>5. CASE m < Len(list)
    <2>1. m + 1 \in 1 .. Len(list) /\ m < m + 1
        BY <1>1, <1>5
    <2>2. list[m + 1] \in CP!Leaders(ir) /\ list[m] < list[m + 1]
        BY <2>1, StartFacts, Zenon
    <2>3. e < Begin(m + 1) /\ list[m] < Begin(m + 1)
        BY <1>1, <1>2, <1>5, <2>2
    <2>4. list[m] # ir.index
        BY <1>1, <2>3
    <2> QED
        BY <1>1, <1>2, <1>3, <1>4, <2>3, <2>4 DEF e
<1>6. CASE ~ (m < Len(list))
    <2>1. Begin(m + 1) = ir.index
        <3>1. m = Len(list)
            BY <1>1, <1>6
        <3> QED
            BY <1>1, <3>1
    <2> QED
        BY <1>1, <1>2, <1>3, <1>4, <2>1 DEF e
<1> QED
    BY <1>5, <1>6

\* The block of an instruction that can be executed can be reached.
LEMMA BlockReached ==
    ASSUME Stages, draw_pc = "done", CP!IsBuildable(ir), CP!JumpsEndBlocks(ir),
           NEW m \in 1 .. Len(list), NEW c \in CP!Executable(ir),
           list[m] <= c, c < Begin(m + 1)
    PROVE  list[m] \in CP!Reachable(ir)
<1>1. c \in UNION {CP!Block(ir, l) : l \in CP!Reachable(ir)}
    BY CP!FlowCovered, NullAssumption, CellsAssumption
<1>2. PICK l \in CP!Reachable(ir) : c \in CP!Block(ir, l)
    BY <1>1
<1>3. l \in CP!Leaders(ir)
    BY DEF CP!Reachable
<1>4. PICK n \in 1 .. Len(list) : l = list[n]
    BY <1>3, StartFacts, Zenon
<1>5. CP!BlockEnd(ir, l) = Begin(n + 1) - 1
    BY <1>4, EndOfBlock
<1>6. c \in list[n] .. Begin(n + 1) - 1
    BY <1>2, <1>4, <1>5 DEF CP!Block
<1>7. /\ list[n] \in Nat /\ list[m] \in Nat /\ Begin(m + 1) \in Nat /\ Begin(n + 1) \in Nat
      /\ Len(list) \in Nat
      /\ n < m => Begin(n + 1) <= list[m]
      /\ m < n => Begin(m + 1) <= list[n]
    BY StartFacts, Zenon
<1>8. c \in Nat /\ list[n] <= c /\ c < Begin(n + 1)
    BY <1>6, <1>7
<1>9. ~ (n < m) /\ ~ (m < n)
    BY <1>7, <1>8
<1>10. n = m
    BY <1>7, <1>9
<1> QED
    BY <1>4, <1>10

\* Where the label ends, the arrows lead to what follows the block.
LEMMA AlongArrows ==
    ASSUME Stages, draw_pc = "done", CP!IsBuildable(ir), CP!CfgExact,
           NEW m \in 1 .. Len(list), NEW j \in 1 .. Begin(m + 1) - list[m],
           j = Begin(m + 1) - list[m], list[m] \in CP!Reachable(ir)
    PROVE  PictureNext(<<m, j>>) = CP!InstrNext(ir, list[m] + j - 1)
<1> DEFINE l == list[m]
<1>1. /\ l \in Nat /\ Begin(m + 1) \in Nat /\ l \in CP!Leaders(ir) /\ cfg_pc = "done"
      /\ Pictured
    BY StartFacts, DrawnGraph, Zenon
<1>2. l + j - 1 = Begin(m + 1) - 1
    BY <1>1
<1>3. CP!InstrNext(ir, l + j - 1) = CP!BlockNext(ir, l)
    <2>1. CP!BlockEnd(ir, l) = Begin(m + 1) - 1
        BY EndOfBlock
    <2> QED
        BY <1>2, <2>1, Zenon DEF CP!BlockNext
<1>4. CP!RangeOf(succs[l]) = CP!BlockNext(ir, l)
    <2>1. l \in CP!Nodes
        BY <1>1 DEF CP!Nodes
    <2>2. succs[l] = CP!Follows(l)
        BY <1>1, <2>1, Zenon DEF CP!CfgExact
    <2>3. CP!RangeOf(CP!Follows(l)) = CP!BlockNext(ir, l)
        BY <2>1, CP!BlockFacts, NullAssumption, CellsAssumption
    <2> QED
        BY <2>2, <2>3
<1>5. Arrows(m) = CP!RangeOf(succs[l])
    BY <1>1, Zenon DEF Pictured, CP!RangeOf
<1>6. CP!RangeOf(succs[l]) \subseteq CP!Leaders(ir)
    BY <1>1, <1>4, CP!BlockNextFacts, NullAssumption, CellsAssumption
<1>7. <<m, j + 1>> \notin Entries
    <2> SUFFICES ASSUME <<m, j + 1>> \in Entries PROVE FALSE
        OBVIOUS
    <2>1. PICK n \in 1 .. Len(list) :
             \E k \in 1 .. Begin(n + 1) - list[n] : <<m, j + 1>> = <<n, k>>
        BY EntryFacts
    <2>2. j + 1 \in 1 .. Begin(m + 1) - list[m]
        BY <2>1
    <2> QED
        BY <1>1, <2>2
<1>8. PictureNext(<<m, j>>) =
         {FirstNumber(n) : n \in {n \in DOMAIN picture : picture[n].id \in Arrows(m)}}
    <2>1. <<m, j>>[1] = m /\ <<m, j>>[2] = j
        OBVIOUS
    <2> QED
        BY <1>7, <2>1, Zenon DEF PictureNext
<1>9. DOMAIN picture = 1 .. Len(list) /\ \A n \in 1 .. Len(list) : picture[n].id = list[n]
    BY <1>1, Zenon DEF Pictured
<1>10. \A n \in 1 .. Len(list) : FirstNumber(n) = list[n]
    BY FirstNumbers
<1>11. PictureNext(<<m, j>>) = {list[n] : n \in {n \in 1 .. Len(list) : list[n] \in Arrows(m)}}
    BY <1>8, <1>9, <1>10
<1>12. \A x \in Arrows(m) : \E n \in 1 .. Len(list) : x = list[n]
    BY <1>5, <1>6, StartFacts
<1>13. PictureNext(<<m, j>>) = Arrows(m)
    BY <1>11, <1>12
<1> QED
    BY <1>3, <1>4, <1>5, <1>13, Zenon

\* Both together, from the entry of an instruction that can be executed.
LEMMA FlowDrawnKept == Stages => FlowDrawn
<1> SUFFICES ASSUME Stages, draw_pc = "done", LabelsAgree, IR!JumpsEndBlocks(ir),
                    NEW k \in Lifted, Place(k) \in IR!Executable(ir),
                    NEW e \in Entries, EntryAt(e).number = Place(k)
             PROVE  PictureNext(e) \ {End} = WrittenNext(k) \ {End}
    BY DEF FlowDrawn
<1> DEFINE c == Place(k)
<1>1. /\ lift_pc = "done" /\ cfg_pc = "done" /\ CP!IsBuildable(ir) /\ CP!IInv
      /\ CP!JumpsEndBlocks(ir) /\ c \in CP!Executable(ir)
    <2>1. cfg_pc = "done"
        BY DrawnStages
    <2>2. lift_pc = "done" /\ CP!IsBuildable(ir) /\ CP!IInv
        BY <2>1, GraphFacts DEF Stages
    <2> QED
        BY <2>1, <2>2, SameReading
<1>2. CP!CfgExact
    BY <1>1, CP!LinksExact, NullAssumption, CellsAssumption
<1>3. PICK m \in 1 .. Len(list) : \E j \in 1 .. Begin(m + 1) - list[m] : e = <<m, j>>
    BY EntryFacts
<1>4. PICK j \in 1 .. Begin(m + 1) - list[m] : e = <<m, j>>
    BY <1>3
<1>5. c = list[m] + j - 1
    BY <1>4, EntryFacts
<1> HIDE DEF c
<1>6. PictureNext(e) = CP!InstrNext(ir, c)
    <2>1. CASE j # Begin(m + 1) - list[m]
        <3>1. CP!IsProgram(ir)
            BY <1>1 DEF CP!IsBuildable
        <3> QED
            BY <1>1, <1>4, <1>5, <2>1, <3>1, AlongLabel
    <2>2. CASE j = Begin(m + 1) - list[m]
        <3>1. list[m] \in Nat /\ Begin(m + 1) \in Nat
            BY StartFacts, Zenon
        <3>2. list[m] <= c /\ c < Begin(m + 1)
            BY <1>5, <3>1
        <3>3. list[m] \in CP!Reachable(ir)
            BY <1>1, <3>2, BlockReached
        <3> QED
            BY <1>1, <1>2, <1>4, <1>5, <2>2, <3>3, AlongArrows
    <2> QED
        BY <2>1, <2>2
<1>7. WrittenNext(k) \ {End} = CP!InstrNext(ir, c) \ {End}
    <2>1. WrittenNext(k) \ {End} = CP!InstrNext(ir, Place(k)) \ {End}
        BY <1>1, WrittenFlow
    <2> QED
        BY <2>1 DEF c
<1> QED
    BY <1>6, <1>7

-----------------------------------------------------------------------------
\* The front end.
LP == INSTANCE LexerProofs WITH Texts <- {}, pc <- lexer_pc
PP == INSTANCE ParserProofs WITH TokenLists <- {}, pc <- parser_pc

-----------------------------------------------------------------------------
\* Two instances of a module define the same.
LEMMA SameLines == \A p : Parser!Lines(p) = PP!Lines(p)
<1>1. Parser!Written = PP!Written
    BY Zenon DEF Parser!Written, PP!Written, Parser!Trees, PP!Trees, Parser!Tree, PP!Tree,
                 Parser!Bracketed, PP!Bracketed, Parser!Word, PP!Word,
                 Parser!OperandToken, PP!OperandToken
<1>2. \A i : Parser!LineOperands(i) = PP!LineOperands(i)
    BY <1>1, Zenon DEF Parser!LineOperands, PP!LineOperands, Parser!Word, PP!Word,
                       Parser!JmpOpcodes, PP!JmpOpcodes, Parser!CondOpcodes, PP!CondOpcodes
<1>3. \A i : Parser!Line(i) = PP!Line(i)
    BY <1>2, Zenon DEF Parser!Line, PP!Line, Parser!Word, PP!Word, Parser!Mnemonic, PP!Mnemonic
<1>4. \A s : Parser!FlattenSeq(s) = PP!FlattenSeq(s)
    BY Zenon DEF Parser!FlattenSeq, PP!FlattenSeq
<1> QED
    BY <1>3, <1>4 DEF Parser!Lines, PP!Lines

LEMMA SameFreed == \A p : Parser!FreedBy(p) = PP!FreedBy(p)
BY Zenon DEF Parser!FreedBy, PP!FreedBy, Parser!FreedOf, PP!FreedOf, Parser!Freed, PP!Freed,
             Parser!Trees, PP!Trees, Parser!Tree, PP!Tree

LEMMA SameInstructions == Parser!Instructions = PP!Instructions
BY Zenon DEF Parser!Instructions, PP!Instructions, Parser!Trees, PP!Trees, Parser!Tree, PP!Tree,
             Parser!Opcodes, PP!Opcodes, Parser!JmpOpcodes, PP!JmpOpcodes,
             Parser!CondOpcodes, PP!CondOpcodes, Parser!MovOpcodes, PP!MovOpcodes,
             Parser!AluOpcodes, PP!AluOpcodes

LEMMA SameText == \A t : Lexer!IsText(t) <=> LP!IsText(t)
BY Zenon DEF Lexer!IsText, LP!IsText, Lexer!Lexemes, LP!Lexemes, Lexer!Punctuation, LP!Punctuation

LEMMA SameWords == /\ Lexer!Punctuation = LP!Punctuation
                   /\ Lexer!Keyword = LP!Keyword
                   /\ \A lexeme : Lexer!IsToken(lexeme) <=> LP!IsToken(lexeme)
BY Zenon DEF Lexer!Punctuation, LP!Punctuation, Lexer!Keyword, LP!Keyword,
             Lexer!IsToken, LP!IsToken

LEMMA SameEntry == (Lexer!Entry => LP!Entry) /\ (Parser!Entry => PP!Entry)
BY Zenon DEF Lexer!Entry, LP!Entry, Lexer!Zeroed, LP!Zeroed, Lexer!Token, LP!Token,
             Lexer!KindOrder, LP!KindOrder, Parser!Entry, PP!Entry

\* A step of the lexer,
LEMMA SameLex == Lexer!Lex => LP!Lex
<1>1. \A token : Lexer!AddToken(token) => LP!AddToken(token)
    <2>1. Lexer!Room = LP!Room
        BY Zenon DEF Lexer!Room, LP!Room, Lexer!Full, LP!Full, Lexer!Doubled, LP!Doubled, Lexer!Added, LP!Added,
                     Lexer!Fresh, LP!Fresh, Lexer!Token, LP!Token
    <2> QED
        BY <2>1, Zenon DEF Lexer!AddToken, LP!AddToken, Lexer!Full, LP!Full,
                            Lexer!Doubled, LP!Doubled
<1>2. Lexer!Advance => LP!Advance
    BY Zenon DEF Lexer!Advance, LP!Advance, Lexer!Here, LP!Here, Lexer!NewLine, LP!NewLine
<1>3. \A class : Lexer!At(class) => LP!At(class)
    BY Zenon DEF Lexer!At, LP!At, Lexer!Here, LP!Here
<1>4. Lexer!SkipBlank \/ Lexer!SkipUnknown => LP!SkipBlank \/ LP!SkipUnknown
    BY <1>2, <1>3, Zenon DEF Lexer!SkipBlank, LP!SkipBlank, Lexer!SkipUnknown, LP!SkipUnknown,
                             Lexer!Skip, LP!Skip
<1>5. Lexer!AddChar => LP!AddChar
    BY <1>1, <1>2, <1>3, Zenon DEF Lexer!AddChar, LP!AddChar, Lexer!Here, LP!Here,
        Lexer!Token, LP!Token, Lexer!Punctuation, LP!Punctuation
<1>6. Lexer!AddInteger => LP!AddInteger
    BY <1>1, <1>2, <1>3, Zenon DEF Lexer!AddInteger, LP!AddInteger, Lexer!Here, LP!Here,
        Lexer!Token, LP!Token
<1>7. Lexer!AddKeyword => LP!AddKeyword
    BY <1>1, <1>2, <1>3, SameWords, Zenon DEF Lexer!AddKeyword, LP!AddKeyword, Lexer!Here, LP!Here,
        Lexer!WordToken, LP!WordToken, Lexer!Token, LP!Token
<1>8. Lexer!RejectWord => LP!RejectWord
    BY <1>3, SameWords, Zenon DEF Lexer!RejectWord, LP!RejectWord, Lexer!Here, LP!Here
<1>9. Lexer!Return => LP!Return
    BY Zenon DEF Lexer!Return, LP!Return
<1> QED
    BY <1>4, <1>5, <1>6, <1>7, <1>8, <1>9, Zenon DEF Lexer!Lex, LP!Lex

\* of the parser,
LEMMA SameParse == Parser!Parse => PP!Parse
<1>1. /\ Parser!OpMnemonics = PP!OpMnemonics /\ Parser!JmpMnemonics = PP!JmpMnemonics
      /\ Parser!OpcodeOf = PP!OpcodeOf /\ Parser!OperandKinds = PP!OperandKinds
      /\ Parser!KindOrder = PP!KindOrder /\ Parser!JmpOpcodes = PP!JmpOpcodes
    BY Zenon DEF Parser!OpMnemonics, PP!OpMnemonics, Parser!JmpMnemonics, PP!JmpMnemonics,
        Parser!OpcodeOf, PP!OpcodeOf, Parser!OperandKinds, PP!OperandKinds,
        Parser!KindOrder, PP!KindOrder, Parser!JmpOpcodes, PP!JmpOpcodes,
        Parser!CondOpcodes, PP!CondOpcodes
<1>2. Parser!Kinds = PP!Kinds /\ \A kind : Parser!JmpOpcode(kind) = PP!JmpOpcode(kind)
    BY Zenon DEF Parser!Kinds, PP!Kinds, Parser!JmpOpcode, PP!JmpOpcode, Parser!Number, PP!Number,
        Parser!KindOrder, PP!KindOrder, Parser!OpcodeOrder, PP!OpcodeOrder
<1>3. /\ Parser!AtInstruction => PP!AtInstruction
      /\ \A items : Parser!Pending(items) => PP!Pending(items)
      /\ Parser!IsShown <=> PP!IsShown
      /\ Parser!Shown = PP!Shown
      /\ Parser!Exit => PP!Exit
      /\ Parser!Accept => PP!Accept
    BY Zenon DEF Parser!AtInstruction, PP!AtInstruction, Parser!Pending, PP!Pending,
        Parser!IsShown, PP!IsShown, Parser!Shown, PP!Shown, Parser!Exit, PP!Exit,
        Parser!Accept, PP!Accept
<1>4. \A code, asks : Parser!Begin(code, asks) => PP!Begin(code, asks)
    BY <1>3, Zenon DEF Parser!Begin, PP!Begin
<1>5. Parser!Start => PP!Start
    BY Zenon DEF Parser!Start, PP!Start
<1>6. Parser!ReadWild => PP!ReadWild
    BY <1>2, <1>3, Zenon DEF Parser!ReadWild, PP!ReadWild, Parser!NeedsToken, PP!NeedsToken
<1>7. Parser!ParseOp => PP!ParseOp
    BY <1>1, <1>3, <1>4, Zenon DEF Parser!ParseOp, PP!ParseOp
<1>8. Parser!ParseJmp => PP!ParseJmp
    BY <1>1, <1>2, <1>3, <1>4, Zenon DEF Parser!ParseJmp, PP!ParseJmp
<1>9. Parser!ParseCall => PP!ParseCall
    BY <1>1, <1>3, <1>4, Zenon DEF Parser!ParseCall, PP!ParseCall
<1>10. Parser!NoParser => PP!NoParser
    BY <1>1, <1>3, Zenon DEF Parser!NoParser, PP!NoParser
<1>11. Parser!Callee => PP!Callee
    BY <1>3, Zenon DEF Parser!Callee, PP!Callee, Parser!CalleeAsks, PP!CalleeAsks
<1>12. Parser!Expect => PP!Expect
    BY <1>2, <1>3, Zenon DEF Parser!Expect, PP!Expect
<1>13. \A kinds : Parser!Operand(kinds) => PP!Operand(kinds)
    BY <1>3, Zenon DEF Parser!Operand, PP!Operand
<1>14. Parser!OperandImm => PP!OperandImm
    BY <1>3, <1>13, Zenon DEF Parser!OperandImm, PP!OperandImm
<1>15. Parser!OperandFlag => PP!OperandFlag
    BY <1>13, Zenon DEF Parser!OperandFlag, PP!OperandFlag
<1>16. Parser!OperandIndexed => PP!OperandIndexed
    BY <1>3, <1>13, Zenon DEF Parser!OperandIndexed, PP!OperandIndexed
<1>17. Parser!OperandWrong => PP!OperandWrong
    BY <1>1, <1>3, Zenon DEF Parser!OperandWrong, PP!OperandWrong
<1>18. Parser!CloseOperand => PP!CloseOperand
    BY <1>3, Zenon DEF Parser!CloseOperand, PP!CloseOperand,
        Parser!Front, PP!Front, Parser!Last, PP!Last
<1>19. Parser!Store => PP!Store
    BY <1>1, <1>3, Zenon DEF Parser!Store, PP!Store, Parser!Built, PP!Built
<1>20. Parser!Return => PP!Return
    BY Zenon DEF Parser!Return, PP!Return
<1> QED
    BY <1>5, <1>6, <1>7, <1>8, <1>9, <1>10, <1>11, <1>12, <1>14, <1>15, <1>16, <1>17, <1>18,
       <1>19, <1>20, Zenon DEF Parser!Parse, PP!Parse

LEMMA SameFree == Parser!FreeAsm => PP!FreeAsm
BY SameFreed, Zenon DEF Parser!FreeAsm, PP!FreeAsm

LEMMA SameCount == \A S : LP!Cardinality(S) = Cardinality(S) /\ PP!Cardinality(S) = Cardinality(S)
BY Zenon DEF LP!Cardinality, PP!Cardinality, Cardinality

-----------------------------------------------------------------------------
(***************************************************************************)
(* The hand over: the listing of the source is what the lexer returns.     *)
(***************************************************************************)
Given == \E s \in Sources : source = s.program /\ text = s.text

LEMMA GivenListing ==
    ASSUME Given
    PROVE  /\ LP!IsText(text) /\ Len(text) \in Nat
           /\ source \in Seq(PP!Instructions)
           /\ Brackets(PP!Lines(source)) <= Depth
           /\ Len(PP!Lines(source)) = LP!Count(Len(text))
           /\ \A n \in LP!Read(Len(text)) :
                 /\ PP!Lines(source)[LP!Count(n + 1)] = WordOf(text[n + 1])
                 /\ text[n + 1].class = "word" => text[n + 1].word \in DOMAIN LP!Keyword
<1>1. PICK s \in Sources : source = s.program /\ text = s.text
    BY DEF Given
<1>2. /\ Lexer!IsText(text) /\ source \in Seq(Parser!Instructions)
      /\ Brackets(Parser!Lines(source)) <= Depth /\ IsListing(text, source)
    BY <1>1, SourcesAssumption
<1>3. /\ LP!IsText(text) /\ source \in Seq(PP!Instructions)
      /\ Brackets(PP!Lines(source)) <= Depth /\ Parser!Lines(source) = PP!Lines(source)
    BY <1>2, SameText, SameInstructions, SameLines
<1>4. Len(text) \in Nat
    BY <1>3, LenProperties DEF LP!IsText
<1> DEFINE R == {n \in 0 .. Len(text) - 1 : Lexer!IsToken(text[n + 1])}
<1>5. R = LP!Read(Len(text))
    BY SameWords DEF LP!Read
<1>6. ASSUME NEW n \in R PROVE {m \in R : m <= n} = LP!Read(n + 1)
    BY <1>4, SameWords DEF LP!Read
<1>7. /\ Cardinality(R) = LP!Count(Len(text))
      /\ \A n \in R : Cardinality({m \in R : m <= n}) = LP!Count(n + 1)
    BY <1>5, <1>6, SameCount DEF LP!Count
<1>8. /\ Cardinality(R) = Len(PP!Lines(source))
      /\ \A n \in R : /\ text[n + 1].class = "word" => text[n + 1].word \in DOMAIN Lexer!Keyword
                      /\ PP!Lines(source)[Cardinality({m \in R : m <= n})] = WordOf(text[n + 1])
    BY <1>2, <1>3, Zenon DEF IsListing
<1> HIDE DEF R
<1>9. DOMAIN Lexer!Keyword = DOMAIN LP!Keyword
    BY SameWords
<1> QED
    BY <1>3, <1>4, <1>5, <1>7, <1>8, <1>9

\* No word and no punctuation is a number.
LEMMA NotNumbers ==
    /\ \A c \in DOMAIN LP!Punctuation :
          LP!Punctuation[c] \in LP!Kinds /\ LP!Punctuation[c] # "TK_IMMEDIATE"
    /\ \A w \in DOMAIN LP!Keyword : LP!Keyword[w] \in LP!Kinds /\ LP!Keyword[w] # "TK_IMMEDIATE"
    /\ "TK_IMMEDIATE" \in LP!Kinds /\ "unwritten" \notin LP!Kinds
<1>0. Len(LP!KindOrder) = 36
    BY LP!KindCount, CellsAssumption
<1>1. /\ \A c \in DOMAIN LP!Punctuation : LP!Punctuation[c] \in LP!Kinds
      /\ \A w \in DOMAIN LP!Keyword : LP!Keyword[w] \in LP!Kinds
    BY LP!PunctuationKinds, LP!KeywordKinds, CellsAssumption
<1>2. ASSUME NEW w \in DOMAIN LP!Keyword PROVE LP!Keyword[w] # "TK_IMMEDIATE"
    BY DEF LP!Keyword
<1>3. ASSUME NEW c \in DOMAIN LP!Punctuation PROVE LP!Punctuation[c] # "TK_IMMEDIATE"
    BY DEF LP!Punctuation
<1>4. "TK_IMMEDIATE" \in LP!Kinds
    <2>1. LP!KindOrder[32] = "TK_IMMEDIATE"
        BY DEF LP!KindOrder
    <2>2. 32 \in 1 .. Len(LP!KindOrder)
        BY <1>0
    <2> QED
        BY <2>1, <2>2, Zenon DEF LP!Kinds
<1>5. "unwritten" \notin LP!Kinds
    <2>1. \A k \in 1 .. 36 : LP!KindOrder[k] # "unwritten"
        BY DEF LP!KindOrder
    <2> QED
        BY <2>1, <1>0, Zenon DEF LP!Kinds
<1> QED
    BY <1>1, <1>2, <1>3, <1>4, <1>5

\* What the parser sees of a token is what the grammar sees of the lexeme.
LEMMA TokenSeen ==
    ASSUME LP!IsText(text), NEW n \in LP!Read(Len(text)),
           text[n + 1].class = "word" => text[n + 1].word \in DOMAIN LP!Keyword
    PROVE  /\ PP!Seen(LP!TokenOf(n)) = WordOf(text[n + 1])
           /\ LP!TokenOf(n).kind \in LP!Kinds
           /\ LP!TokenOf(n).kind = WordOf(text[n + 1]).kind
<1> DEFINE lexeme == text[n + 1]
<1>1. lexeme \in LP!Lexemes /\ LP!IsToken(lexeme)
    <2>1. text \in Seq(LP!Lexemes) /\ Len(text) \in Nat
        BY LenProperties DEF LP!IsText
    <2>2. n + 1 \in 1 .. Len(text) /\ LP!IsToken(lexeme)
        BY <2>1 DEF LP!Read
    <2> QED
        BY <2>1, <2>2, ElementOfSeq
<1> HIDE DEF lexeme
<1>2. CASE lexeme.class = "char"
    <2>1. lexeme.char \in DOMAIN LP!Punctuation
        BY <1>1, <1>2 DEF LP!Lexemes
    <2>2. LP!TokenOf(n) = LP!Token(LP!Punctuation[lexeme.char], 0, FALSE)
        BY <1>2 DEF LP!TokenOf, lexeme
    <2>3. WordOf(lexeme) = PP!Word(LP!Punctuation[lexeme.char])
        BY <1>2, SameWords DEF WordOf, Parser!Word, PP!Word
    <2> QED
        BY <2>1, <2>2, <2>3, NotNumbers DEF PP!Seen, PP!Word, LP!Token, lexeme
<1>3. CASE lexeme.class = "number"
    <2>1. LP!TokenOf(n) = LP!Token("TK_IMMEDIATE", lexeme.number, FALSE)
        BY <1>3 DEF LP!TokenOf, lexeme
    <2>2. WordOf(lexeme) = [kind |-> "TK_IMMEDIATE", value |-> lexeme.number]
        BY <1>3 DEF WordOf
    <2> QED
        BY <2>1, <2>2, NotNumbers DEF PP!Seen, LP!Token, lexeme
<1>4. CASE lexeme.class = "word"
    <2>1. lexeme.word \in DOMAIN LP!Keyword
        BY <1>4 DEF lexeme
    <2>2. LP!TokenOf(n) = LP!Token(LP!Keyword[lexeme.word], n, TRUE)
        BY <1>4 DEF LP!TokenOf, lexeme
    <2>3. WordOf(lexeme) = PP!Word(LP!Keyword[lexeme.word])
        BY <1>4, SameWords DEF WordOf, Parser!Word, PP!Word
    <2> QED
        BY <2>1, <2>2, <2>3, NotNumbers DEF PP!Seen, PP!Word, LP!Token, lexeme
<1> QED
    BY <1>1, <1>2, <1>3, <1>4 DEF LP!IsToken

LEMMA HandOver ==
    ASSUME Given, LP!Inv, LP!Handed, PP!Entry, lexer_pc = "done"
    PROVE  PP!Reading /\ PP!Follows(source)
<1> DEFINE words == PP!Lines(source)
           n_tokens == token_index
<1>1. /\ tokens \in Seq(LP!Cells) /\ Len(tokens) \in Nat /\ token_index \in 0 .. Len(tokens)
      /\ nb_instructions \in Nat /\ nb_instructions >= 1
      /\ token_index = LP!Count(Len(text))
      /\ \A c \in 1 .. token_index :
            \E n \in LP!Read(Len(text)) : c = LP!Count(n + 1) /\ tokens[c] = LP!TokenOf(n)
      /\ \A c \in token_index + 1 .. Len(tokens) : tokens[c].kind \in {"MN_MOV", "unwritten"}
    BY LP!Returned, CellsAssumption
<1>2. LP!Cells = PP!Cells
    BY Zenon DEF LP!Cells, PP!Cells, LP!Kinds, PP!Kinds, LP!KindOrder, PP!KindOrder
<1>3. ASSUME NEW c \in 1 .. token_index
      PROVE  /\ PP!Seen(tokens[c]) = words[c]
             /\ tokens[c].kind # "unwritten" /\ tokens[c].kind = words[c].kind
    <2>1. PICK n \in LP!Read(Len(text)) : c = LP!Count(n + 1) /\ tokens[c] = LP!TokenOf(n)
        BY <1>1
    <2>2. /\ words[c] = WordOf(text[n + 1])
          /\ text[n + 1].class = "word" => text[n + 1].word \in DOMAIN LP!Keyword
        BY <2>1, GivenListing
    <2>3. /\ PP!Seen(tokens[c]) = words[c]
          /\ tokens[c].kind \in LP!Kinds /\ tokens[c].kind = words[c].kind
        BY <2>1, <2>2, TokenSeen, GivenListing
    <2> QED
        BY <2>3, NotNumbers
<1>4. token_index = Len(words)
    BY <1>1, GivenListing
<1>5. PP!Listed(source, token_index)
    BY <1>1, <1>3, <1>4 DEF PP!Listed
<1>6. PP!Opened(tokens, Len(tokens)) <= Depth
    <2>1. {c \in 1 .. Len(tokens) : tokens[c].kind = "TK_L_SQ_BRACKET"}
             = {c \in 1 .. Len(words) : words[c].kind = "TK_L_SQ_BRACKET"}
        <3>1. ASSUME NEW c \in 1 .. Len(tokens), tokens[c].kind = "TK_L_SQ_BRACKET"
              PROVE  c \in 1 .. token_index
            BY <1>1, <3>1
        <3> HIDE DEF words
        <3>2. \A c \in 1 .. token_index : c \in 1 .. Len(tokens)
            BY <1>1
        <3> QED
            BY <1>3, <1>4, <3>1, <3>2
    <2> QED
        BY <2>1, GivenListing, SameCount DEF PP!Opened, Brackets
<1>7. PP!Reading
    <2>1. PP!EndInv
        BY <1>1, <1>2, <1>3, PP!EndEntered, LevelsAssumption
    <2>2. PP!PlaceInv
        BY <1>1, <1>2, <1>6, PP!PlaceEntered, LevelsAssumption
    <2> QED
        BY <2>1, <2>2 DEF PP!Reading
<1>8. PP!Follows(source)
    BY <1>1, <1>5, PP!FollowsInit, LevelsAssumption
<1> QED
    BY <1>7, <1>8

-----------------------------------------------------------------------------
(***************************************************************************)
(* The inductive invariant: before the hand over, the lexer's; after it,   *)
(* the parser's on the listing of the source, and every string left is     *)
(* owned by a cell, which the parser does not write.                       *)
(***************************************************************************)
Lexing ==
    /\ PP!Entry /\ LP!Inv /\ LP!Handed
    /\ lexer_pc \in {"lex", "done", "wild"}

Owned ==
    IF lexer_pc = "freed" THEN strings = {}
    ELSE /\ nb_tokens = Len(tokens)
         /\ strings = {tokens[c].value : c \in LP!Owning}

Parsing ==
    /\ parser_pc # "start" /\ lexer_pc \in {"done", "freed"}
    /\ PP!Reading
    /\ \E p \in Seq(PP!Instructions) : source = p /\ PP!Follows(p)
    /\ Owned
    /\ parser_pc = "freed" => lexer_pc = "freed"

FrontInv == Given /\ (Lexing \/ Parsing)

LEMMA InitFront == FrontInit => FrontInv
<1> SUFFICES ASSUME FrontInit PROVE FrontInv
    OBVIOUS
<1>1. Given /\ LP!Entry /\ PP!Entry
    BY SameEntry DEF FrontInit, Given
<1>2. LP!Inv /\ LP!Handed
    BY <1>1, GivenListing, LP!InvEntered, LP!HandedEntered, CellsAssumption
<1>3. lexer_pc = "lex"
    BY <1>1 DEF LP!Entry
<1> QED
    BY <1>1, <1>2, <1>3 DEF FrontInv, Lexing

\* No step writes the text or the source.
LEMMA GivenKept == Given /\ [FrontNext]_front_vars => Given'
<1> SUFFICES ASSUME Given, [FrontNext]_front_vars PROVE Given'
    OBVIOUS
<1>1. ASSUME LexerStep PROVE UNCHANGED <<source, text>>
    BY <1>1, SameLex DEF LexerStep, LP!Lex, LP!SkipBlank, LP!SkipUnknown, LP!Skip, LP!AddChar,
        LP!AddInteger, LP!AddKeyword, LP!RejectWord, LP!Return
<1>2. ASSUME FreeTokens PROVE UNCHANGED <<source, text>>
    BY <1>2 DEF FreeTokens, Lexer!FreeTokens
<1>3. UNCHANGED <<source, text>>
    BY <1>1, <1>2 DEF FrontNext, ParserStep, FreeAsm, front_vars, lexer_vars
<1> QED
    BY <1>3 DEF Given

\* The lexer works before the hand over only, and rejects no word of a listing.
LEMMA LexerKeeps ==
    ASSUME FrontInv, LexerStep
    PROVE  Lexing'
<1>1. LP!Lex /\ lexer_pc = "lex" /\ UNCHANGED <<source, parser_vars>>
    BY SameLex DEF LexerStep, LP!Lex, LP!SkipBlank, LP!SkipUnknown, LP!Skip, LP!At, LP!AddChar,
        LP!AddInteger, LP!AddKeyword, LP!RejectWord, LP!Return
<1>2. Given /\ PP!Entry /\ LP!Inv /\ LP!Handed
    BY <1>1 DEF FrontInv, Lexing, Parsing
<1>3. LP!Inv' /\ LP!Handed'
    BY <1>1, <1>2, LP!StepInv, LP!HandedStep, CellsAssumption DEF LP!Next
<1>4. PP!Entry'
    BY <1>1, <1>2 DEF PP!Entry, parser_vars
<1>5. ~ LP!RejectWord
    <2> SUFFICES ASSUME LP!RejectWord PROVE FALSE
        OBVIOUS
    <2>1. /\ pos < Len(text) /\ text[pos + 1].class = "word"
          /\ text[pos + 1].word \notin DOMAIN LP!Keyword
        BY DEF LP!RejectWord, LP!At, LP!Here
    <2>2. Len(text) \in Nat /\ pos \in 0 .. Len(text) - 1
        <3>1. Len(text) \in Nat /\ pos \in 0 .. Len(text)
            BY <1>2, GivenListing DEF LP!Inv, LP!TypeOK
        <3> QED
            BY <2>1, <3>1
    <2>3. pos \in LP!Read(Len(text))
        BY <2>1, <2>2 DEF LP!Read, LP!IsToken
    <2> QED
        BY <1>2, <2>1, <2>3, GivenListing
<1>6. lexer_pc' \in {"lex", "done", "wild"}
    BY <1>1, <1>5 DEF LP!Lex, LP!SkipBlank, LP!SkipUnknown, LP!Skip, LP!AddChar, LP!AddInteger,
        LP!AddKeyword, LP!AddToken, LP!Return
<1> QED
    BY <1>3, <1>4, <1>6 DEF Lexing

\* What the parser leaves alone.
LEMMA ParserLeaves ==
    ASSUME PP!Parse
    PROVE  tokens' = tokens /\ nb_instructions' = nb_instructions
           /\ parser_pc' \notin {"start", "freed"} /\ parser_pc # "freed"
<1>1. ASSUME NEW kinds, PP!Operand(kinds)
      PROVE  tokens' = tokens /\ nb_instructions' = nb_instructions
             /\ parser_pc' \notin {"start", "freed"} /\ parser_pc # "freed"
    BY <1>1 DEF PP!Operand, PP!Pending
<1> QED
    BY <1>1 DEF PP!Parse, PP!Start, PP!ReadWild, PP!NeedsToken, PP!ParseOp, PP!ParseJmp,
        PP!ParseCall, PP!Begin, PP!NoParser, PP!AtInstruction, PP!Pending, PP!Exit, PP!Callee,
        PP!Expect, PP!OperandImm, PP!OperandFlag, PP!OperandIndexed, PP!OperandWrong,
        PP!CloseOperand, PP!Store, PP!Return

\* A step of the parser, or one that leaves it alone, keeps to the listing.
LEMMA ReadingKept ==
    ASSUME PP!Reading, [PP!Next]_PP!vars, source' = source,
           \E p \in Seq(PP!Instructions) : source = p /\ PP!Follows(p)
    PROVE  /\ PP!Reading'
           /\ (\E p \in Seq(PP!Instructions) : source = p /\ PP!Follows(p))'
<1>1. PICK p \in Seq(PP!Instructions) : source = p /\ PP!Follows(p)
    OBVIOUS
<1>2. PP!Reading' /\ PP!Follows(p)'
    BY <1>1, PP!FollowsNext, LevelsAssumption
<1>3. source' = p
    BY <1>1
<1> QED
    BY <1>2, <1>3

\* The parser takes the list over at its first step.
LEMMA ParserKeeps ==
    ASSUME FrontInv, ParserStep
    PROVE  Parsing'
<1>1. /\ PP!Parse /\ lexer_pc = "done" /\ lexer_pc' = "done" /\ strings' = strings
      /\ source' = source /\ nb_tokens' = nb_tokens
    BY SameParse DEF ParserStep, lexer_vars
<1>2. tokens' = tokens /\ parser_pc' \notin {"start", "freed"}
    BY <1>1, ParserLeaves
<1>3. /\ PP!Reading /\ Owned
      /\ \E p \in Seq(PP!Instructions) : source = p /\ PP!Follows(p)
    <2>1. CASE Lexing
        <3>1. PP!Reading /\ PP!Follows(source) /\ source \in Seq(PP!Instructions)
            BY <1>1, <2>1, HandOver, GivenListing DEF Lexing, FrontInv
        <3>2. Owned
            <4>1. LP!OneOwner /\ LP!CellsCounted
                BY <2>1 DEF Lexing, LP!Inv
            <4>2. strings = {tokens[c].value : c \in LP!Owning}
                BY <1>1, <4>1, LP!OwnersBefore, CellsAssumption
            <4> QED
                BY <1>1, <4>1, <4>2 DEF LP!CellsCounted, Owned
        <3> QED
            BY <3>1, <3>2
    <2>2. CASE Parsing
        BY <2>2 DEF Parsing
    <2> QED
        BY <2>1, <2>2 DEF FrontInv
<1>4. /\ PP!Reading'
      /\ (\E p \in Seq(PP!Instructions) : source = p /\ PP!Follows(p))'
    BY <1>1, <1>3, ReadingKept DEF PP!Next
<1>5. Owned'
    BY <1>1, <1>2, <1>3 DEF Owned, LP!Owning
<1> QED
    BY <1>1, <1>2, <1>4, <1>5 DEF Parsing

\* free_tokens frees by the cells, which are those the lexer returned.
LEMMA FreesKeep ==
    ASSUME FrontInv, FreeTokens \/ FreeAsm
    PROVE  Parsing'
<1>1. Parsing
    BY DEF FrontInv, Lexing, FreeTokens, FreeAsm, PP!Entry
<1>2. CASE FreeTokens
    <2>1. /\ parser_pc = "done" /\ lexer_pc = "done" /\ lexer_pc' = "freed"
          /\ strings' = strings \ {tokens[c].value : c \in Lexer!Owners}
          /\ UNCHANGED <<source, tokens, token_index, nb_instructions, parser_vars>>
        BY <1>2 DEF FreeTokens, Lexer!FreeTokens
    <2>2. strings' = {}
        BY <1>1, <2>1 DEF Parsing, Owned, Lexer!Owners, LP!Owning
    <2>3. UNCHANGED PP!vars
        BY <2>1 DEF PP!vars, parser_vars
    <2>4. /\ PP!Reading'
          /\ (\E p \in Seq(PP!Instructions) : source = p /\ PP!Follows(p))'
        BY <1>1, <2>1, <2>3, ReadingKept DEF Parsing
    <2>5. parser_pc' = "done"
        BY <2>1 DEF parser_vars
    <2> QED
        BY <2>1, <2>2, <2>4, <2>5 DEF Parsing, Owned
<1>3. CASE FreeAsm
    <2>1. PP!FreeAsm /\ lexer_pc = "freed" /\ UNCHANGED <<source, lexer_vars>>
        BY <1>3, SameFree DEF FreeAsm
    <2>2. parser_pc' = "freed" /\ lexer_pc' = "freed" /\ strings' = strings
          /\ nb_tokens' = nb_tokens
        BY <2>1 DEF PP!FreeAsm, lexer_vars
    <2>3. /\ PP!Reading'
          /\ (\E p \in Seq(PP!Instructions) : source = p /\ PP!Follows(p))'
        BY <1>1, <2>1, ReadingKept DEF Parsing, PP!Next
    <2> QED
        BY <1>1, <2>1, <2>2, <2>3 DEF Parsing, Owned
<1> QED
    BY <1>2, <1>3

LEMMA FrontStays ==
    ASSUME FrontInv, UNCHANGED front_vars
    PROVE  Lexing' \/ Parsing'
<1>1. UNCHANGED LP!vars /\ UNCHANGED PP!vars
      /\ UNCHANGED <<source, lexer_pc, strings, tokens, nb_tokens, parser_pc>>
    BY DEF front_vars, lexer_vars, list_vars, parser_vars, LP!vars, PP!vars
<1>2. CASE Lexing
    <2>1. LP!Inv' /\ LP!Handed'
        BY <1>1, <1>2, LP!StepInv, LP!HandedStep, CellsAssumption DEF Lexing
    <2>2. PP!Entry'
        BY <1>1, <1>2 DEF Lexing, PP!Entry, PP!vars
    <2> QED
        BY <1>1, <1>2, <2>1, <2>2 DEF Lexing
<1>3. CASE Parsing
    <2>1. /\ PP!Reading'
          /\ (\E p \in Seq(PP!Instructions) : source = p /\ PP!Follows(p))'
        BY <1>1, <1>3, ReadingKept DEF Parsing
    <2> QED
        BY <1>1, <1>3, <2>1 DEF Parsing, Owned, LP!Owning
<1> QED
    BY <1>2, <1>3 DEF FrontInv

LEMMA StepFront == FrontInv /\ [FrontNext]_front_vars => FrontInv'
<1> SUFFICES ASSUME FrontInv, [FrontNext]_front_vars PROVE FrontInv'
    OBVIOUS
<1>1. Given'
    BY GivenKept DEF FrontInv
<1>2. Lexing' \/ Parsing'
    BY LexerKeeps, ParserKeeps, FreesKeep, FrontStays DEF FrontNext
<1> QED
    BY <1>1, <1>2 DEF FrontInv

LEMMA FrontHolds == FrontSpec => []FrontInv
BY InitFront, StepFront, PTL DEF FrontSpec

-----------------------------------------------------------------------------
LEMMA DeliveredKept == FrontInv => Delivered
<1> SUFFICES ASSUME FrontInv, parser_pc \in {"done", "freed"}
             PROVE  /\ nb_instructions <= Len(source)
                    /\ program = SubSeq(source, 1, nb_instructions)
    BY DEF Delivered
<1>1. Parsing
    BY DEF FrontInv, Lexing, PP!Entry
<1>2. PICK p \in Seq(PP!Instructions) : source = p /\ PP!Follows(p)
    BY <1>1 DEF Parsing
<1> QED
    BY <1>2 DEF PP!Follows, PP!First

LEMMA AcceptedKept == FrontInv => Accepted
<1> SUFFICES ASSUME FrontInv, parser_pc \in {"exit", "wild"} \/ lexer_pc = "exit"
             PROVE  nb_instructions > Len(source)
    BY DEF Accepted
<1>1. Parsing /\ parser_pc \in {"exit", "wild"}
    BY DEF FrontInv, Lexing, Parsing, PP!Entry
<1>2. PICK p \in Seq(PP!Instructions) : source = p /\ PP!Follows(p)
    BY <1>1 DEF Parsing
<1> QED
    BY <1>1, <1>2 DEF PP!Follows

LEMMA AllFreedKept == FrontInv => AllFreed
<1> SUFFICES ASSUME FrontInv, parser_pc = "freed" PROVE strings = {} /\ live = 0
    BY DEF AllFreed
<1>1. Parsing
    BY DEF FrontInv, Lexing, PP!Entry
<1> QED
    BY <1>1 DEF Parsing, Owned, PP!Reading, PP!PlaceInv

(***************************************************************************)
(* For every program, in every layout of its listing: where the parser     *)
(* returns, its program is the beginning of the source, as many            *)
(* instructions as the lexer counted line ends.                            *)
(***************************************************************************)
THEOREM SourceDelivered == FrontSpec => []Delivered
BY FrontHolds, DeliveredKept, PTL

(***************************************************************************)
(* A listing is refused, or read beyond its tokens, only when more         *)
(* instructions were counted than it has.                                  *)
(***************************************************************************)
THEOREM ListingAccepted == FrontSpec => []Accepted
BY FrontHolds, AcceptedKept, PTL

(***************************************************************************)
(* The two frees of decompile (ccg.c:162-163) leave no string and no       *)
(* operand of any program allocated.                                       *)
(***************************************************************************)
THEOREM NothingLeft == FrontSpec => []AllFreed
BY FrontHolds, AllFreedKept, PTL

-----------------------------------------------------------------------------
(***************************************************************************)
(* The count of the lexer: the line ends it has read, and one; in the end  *)
(* it is the number of instructions of the source.                         *)
(***************************************************************************)
Ends(n) == Cardinality({k \in 1 .. n : text[k] = LP!NewLine})

Counted ==
    /\ lexer_pc = "lex" => nb_instructions = 1 + Ends(pos)
    /\ lexer_pc \in {"done", "freed"} => nb_instructions = Len(source)

LEMMA EndsFacts ==
    /\ Ends(0) = 0
    /\ \A n \in Nat : /\ Ends(n) \in Nat
                      /\ Ends(n + 1) = IF text[n + 1] = LP!NewLine THEN Ends(n) + 1 ELSE Ends(n)
<1> DEFINE E(n) == {k \in 1 .. n : text[k] = LP!NewLine}
<1>1. Ends(0) = 0
    <2>1. E(0) = {}
        OBVIOUS
    <2> QED
        BY <2>1, FS_EmptySet DEF Ends
<1>2. ASSUME NEW n \in Nat
      PROVE  /\ Ends(n) \in Nat
             /\ Ends(n + 1) = IF text[n + 1] = LP!NewLine THEN Ends(n) + 1 ELSE Ends(n)
    <2>1. IsFiniteSet(E(n))
        <3>1. E(n) \in SUBSET (1 .. n) /\ IsFiniteSet(1 .. n)
            BY FS_Interval
        <3> HIDE DEF E
        <3> QED
            BY <3>1, FS_Subset
    <2>2. E(n + 1) = IF text[n + 1] = LP!NewLine THEN E(n) \cup {n + 1} ELSE E(n)
        OBVIOUS
    <2>3. n + 1 \notin E(n)
        OBVIOUS
    <2>4. Ends(n) = Cardinality(E(n)) /\ Ends(n + 1) = Cardinality(E(n + 1))
        BY DEF Ends
    <2> HIDE DEF E
    <2> QED
        BY <2>1, <2>2, <2>3, <2>4, FS_AddElement, FS_CardinalityType
<1> QED
    BY <1>1, <1>2

\* One line for each instruction.
LEMMA EndsOfListing == Given => Ends(Len(text)) = Len(source) - 1 /\ LF!IsAsm(source)
<1> SUFFICES ASSUME Given PROVE Ends(Len(text)) = Len(source) - 1 /\ LF!IsAsm(source)
    OBVIOUS
<1>1. PICK s \in Sources : source = s.program /\ text = s.text
    BY DEF Given
<1>2. /\ Cardinality({n \in 1 .. Len(text) : text[n] = Lexer!NewLine}) = Len(source) - 1
      /\ Lift!IsAsm(source)
    BY <1>1, LinesAssumption
<1>3. Lexer!NewLine = LP!NewLine
    BY DEF Lexer!NewLine, LP!NewLine
<1> QED
    BY <1>2, <1>3, SameAsm DEF Ends

LEMMA CountedInit == FrontInit => Counted
<1> SUFFICES ASSUME FrontInit PROVE Counted
    OBVIOUS
<1>1. LP!Entry
    BY SameEntry DEF FrontInit
<1> QED
    BY <1>1, EndsFacts DEF LP!Entry, Counted

LEMMA CountedStep == FrontInv /\ Counted /\ [FrontNext]_front_vars => Counted'
<1> SUFFICES ASSUME FrontInv, Counted, [FrontNext]_front_vars PROVE Counted'
    OBVIOUS
<1>0. Given /\ Given'
    BY GivenKept DEF FrontInv
<1>1. CASE LexerStep
    <2>1. /\ LP!Lex /\ lexer_pc = "lex" /\ text' = text /\ source' = source
        BY <1>1, SameLex DEF LexerStep, LP!Lex, LP!SkipBlank, LP!SkipUnknown, LP!Skip, LP!At,
            LP!AddChar, LP!AddInteger, LP!AddKeyword, LP!RejectWord, LP!Return
    <2>2. /\ pos \in 0 .. Len(text) /\ Len(text) \in Nat
        BY <2>1, GivenListing DEF FrontInv, Lexing, Parsing, LP!Inv, LP!TypeOK
    <2>4. \/ lexer_pc' \in {"lex", "wild"} /\ LP!Advance
          \/ lexer_pc' = "exit"
          \/ lexer_pc' = "done" /\ pos >= Len(text) /\ nb_instructions' = nb_instructions
        BY <2>1 DEF LP!Lex, LP!SkipBlank, LP!SkipUnknown, LP!Skip, LP!At,
            LP!AddChar, LP!AddInteger, LP!AddKeyword, LP!AddToken, LP!RejectWord, LP!Return
    <2>5. CASE lexer_pc' \in {"lex", "wild"} /\ LP!Advance
        <3>1. /\ pos' = pos + 1 /\ pos \in Nat
              /\ nb_instructions' = IF text[pos + 1] = LP!NewLine THEN nb_instructions + 1
                                                                  ELSE nb_instructions
            BY <2>2, <2>5 DEF LP!Advance, LP!Here
        <3>2. Ends(pos)' = Ends(pos + 1)
            BY <2>1, <3>1 DEF Ends
        <3>4. nb_instructions = 1 + Ends(pos)
            BY <2>1 DEF Counted
        <3>5. nb_instructions' = 1 + Ends(pos + 1)
            BY <3>1, <3>4, EndsFacts
        <3> QED
            BY <2>5, <3>2, <3>5 DEF Counted
    <2>6. CASE lexer_pc' = "exit"
        BY <2>6 DEF Counted
    <2>7. CASE lexer_pc' = "done" /\ pos >= Len(text) /\ nb_instructions' = nb_instructions
        <3>1. pos = Len(text)
            BY <2>2, <2>7
        <3>2. nb_instructions = 1 + (Len(source) - 1) /\ LF!IsAsm(source)
            BY <1>0, <2>1, <3>1, EndsOfListing DEF Counted
        <3> QED
            BY <2>1, <2>7, <3>2 DEF Counted, LF!IsAsm
    <2> QED
        BY <2>4, <2>5, <2>6, <2>7
<1>2. CASE ~ LexerStep
    <2>1. /\ UNCHANGED <<nb_instructions, source>>
          /\ \/ lexer_pc' = lexer_pc
             \/ lexer_pc = "done" /\ lexer_pc' = "freed"
          /\ lexer_pc = "lex" => UNCHANGED <<text, pos>>
        <3>1. CASE ParserStep
            BY <3>1, SameParse, ParserLeaves DEF ParserStep, lexer_vars
        <3>2. CASE FreeTokens
            BY <3>2 DEF FreeTokens, Lexer!FreeTokens
        <3>3. CASE FreeAsm
            BY <3>3 DEF FreeAsm, Parser!FreeAsm, lexer_vars
        <3>4. CASE UNCHANGED front_vars
            BY <3>4 DEF front_vars, lexer_vars, list_vars
        <3> QED
            BY <1>2, <3>1, <3>2, <3>3, <3>4 DEF FrontNext
    <2> QED
        BY <2>1 DEF Counted, Ends
<1> QED
    BY <1>1, <1>2

\* So what the parser hands over is the source.
LEMMA WholeSource == FrontInv /\ Counted /\ Parsed => program = source /\ LF!IsAsm(source)
<1> SUFFICES ASSUME FrontInv, Counted, Parsed PROVE program = source /\ LF!IsAsm(source)
    OBVIOUS
<1>1. program = SubSeq(source, 1, nb_instructions)
    BY DeliveredKept DEF Parsed, Delivered
<1>2. lexer_pc \in {"done", "freed"}
    BY DEF FrontInv, Lexing, Parsing, PP!Entry, Parsed
<1>3. source \in Seq(PP!Instructions) /\ LF!IsAsm(source)
    BY GivenListing, EndsOfListing DEF FrontInv
<1>4. SubSeq(source, 1, Len(source)) = source
    BY <1>3, SubSeqFull
<1> QED
    BY <1>1, <1>2, <1>3, <1>4 DEF Counted

-----------------------------------------------------------------------------
\* What the parser has handed over stays.
LEMMA ParserDone ==
    ASSUME PP!Parse
    PROVE  parser_pc # "done"
<1>1. ASSUME NEW kinds, PP!Operand(kinds)
      PROVE  parser_pc # "done"
    BY <1>1 DEF PP!Operand, PP!Pending
<1> QED
    BY <1>1 DEF PP!Parse, PP!Start, PP!ReadWild, PP!NeedsToken, PP!ParseOp, PP!ParseJmp,
        PP!ParseCall, PP!Begin, PP!NoParser, PP!AtInstruction, PP!Pending, PP!Exit, PP!Callee,
        PP!Expect, PP!OperandImm, PP!OperandFlag, PP!OperandIndexed, PP!OperandWrong,
        PP!CloseOperand, PP!Store, PP!Return

LEMMA ParsedKept ==
    ASSUME Parsed, [FrontNext]_front_vars
    PROVE  Parsed' /\ program' = program
<1>1. CASE LexerStep
    BY <1>1 DEF LexerStep, parser_vars, Parsed
<1>2. CASE ParserStep
    <2>1. PP!Parse
        BY <1>2, SameParse DEF ParserStep
    <2> QED
        BY <2>1, ParserDone, ParserLeaves DEF Parsed
<1>3. CASE FreeTokens
    BY <1>3 DEF FreeTokens, parser_vars, Parsed
<1>4. CASE FreeAsm
    BY <1>4, SameFree DEF FreeAsm, PP!FreeAsm, Parsed
<1>5. CASE UNCHANGED front_vars
    BY <1>5 DEF front_vars, parser_vars, Parsed
<1> QED
    BY <1>1, <1>2, <1>3, <1>4, <1>5 DEF FrontNext

LEMMA WholeNext == (FrontInv /\ Counted /\ Parsed => program = source /\ LF!IsAsm(source))'
BY WholeSource, PTL

-----------------------------------------------------------------------------
(***************************************************************************)
(* The invariant of the whole: that of the front end, and those of the     *)
(* stages of the back end.                                                 *)
(***************************************************************************)
Inv ==
    /\ FrontInv /\ Counted
    /\ LiftStage /\ InfoStage /\ NodesStage /\ CfgStage /\ DrawStage

LEMMA InitInv == Init => Inv
<1> SUFFICES ASSUME Init PROVE Inv
    OBVIOUS
<1>1. FrontInv /\ Counted
    BY InitFront, CountedInit DEF Init
<1>2. LiftStage /\ lift_pc = "start"
    <2>1. LF!Entry
        BY SameLiftEntry DEF Init
    <2>2. PP!Entry
        BY SameEntry DEF Init, FrontInit
    <2>3. parser_pc = "start" /\ lift_pc = "start"
        BY <2>1, <2>2 DEF PP!Entry, LF!Entry
    <2> QED
        BY <2>1, <2>3 DEF LiftStage, Parsed
<1>3. InfoStage /\ info_pc = "alloc"
    BY <1>2, SameInfoEntry DEF Init, InfoStage, IP!Entry
<1>4. NodesStage /\ nodes_pc = "allocate"
    BY <1>3 DEF Init, NodesStage, Nodes!Entry
<1>5. CfgStage /\ cfg_pc = "call"
    BY <1>4 DEF Init, CfgStage, Cfg!Entry, CfgIdle
<1>6. DrawStage
    BY <1>5 DEF Init, DrawStage
<1> QED
    BY <1>1, <1>2, <1>3, <1>4, <1>5, <1>6 DEF Inv

\* Who moves what.
LEMMA Moves ==
    ASSUME [Next]_vars
    PROVE  /\ [FrontNext]_front_vars
           /\ UNCHANGED lift_vars \/ (Parsed /\ UNCHANGED front_vars /\ LF!Next)
           /\ UNCHANGED info_vars \/ (lift_pc = "done" /\ IP!Next)
           /\ UNCHANGED nodes_vars \/ (info_pc = "done" /\ Nodes!Next)
           /\ \/ UNCHANGED links_vars
              \/ info_pc = "done" /\ Nodes!Next
              \/ nodes_pc = "done" /\ (CP!Next \/ CP!CallNothing)
           /\ UNCHANGED cfg_vars \/ (nodes_pc = "done" /\ (CP!Next \/ CP!CallNothing))
           /\ UNCHANGED draw_vars \/ (cfg_pc = "done" /\ Draw!Next)
<1>1. CASE ReadFile \/ ReadTokens \/ ReadProgram \/ DropTokens \/ DropAsm \/ FreeText
           \/ UNCHANGED vars
    <2>1. [FrontNext]_front_vars /\ UNCHANGED back_vars
        BY <1>1 DEF ReadFile, ReadTokens, ReadProgram, DropTokens, DropAsm, FreeText, FrontNext,
            vars
    <2> QED
        BY <2>1 DEF back_vars
<1>2. CASE LifterStep
    BY <1>2, SameLift DEF LifterStep, Parsed
<1>3. CASE FindStarts
    BY <1>3, SameInfo DEF FindStarts
<1>4. CASE MakeNodes
    BY <1>4 DEF MakeNodes
<1>5. CASE Search \/ SearchNothing
    BY <1>5, SameSearch DEF Search, SearchNothing
<1>6. CASE DrawGraph
    BY <1>6 DEF DrawGraph
<1> QED
    BY <1>1, <1>2, <1>3, <1>4, <1>5, <1>6 DEF Next

LEMMA StepInv == Inv /\ [Next]_vars => Inv'
<1> SUFFICES ASSUME Inv, [Next]_vars PROVE Inv'
    OBVIOUS
<1>0. /\ FrontInv /\ Counted
      /\ LiftStage /\ InfoStage /\ NodesStage /\ CfgStage /\ DrawStage
    BY DEF Inv
<1>1. FrontInv' /\ Counted'
    BY <1>0, Moves, StepFront, CountedStep
<1>2. lift_pc = "done" => UNCHANGED lift_vars
    <2>1. lift_pc = "done" => ~ LF!Next
        BY DEF LF!Next, LF!Start, LF!LiftMov, LF!LiftCmp, LF!LiftOperation, LF!LiftJmp,
            LF!SkipCall, LF!Return, LF!Lifting
    <2> QED
        BY <2>1, Moves
<1>3. info_pc = "done" => lift_pc = "done" /\ UNCHANGED <<lift_vars, info_vars>>
    BY <1>0, <1>2, ListFacts, ListDone, Moves
<1>4. nodes_pc = "done" => info_pc = "done" /\ UNCHANGED <<lift_vars, info_vars, nodes_vars>>
    <2>1. nodes_pc = "done" => info_pc = "done"
        BY <1>0 DEF NodesStage, Nodes!Entry
    <2> QED
        BY <1>3, <2>1, MadeOnce, Moves
<1>5. cfg_pc = "done" => UNCHANGED <<lift_vars, info_vars, nodes_vars, links_vars, cfg_vars>>
    <2>1. cfg_pc = "done" => nodes_pc = "done"
        BY <1>0 DEF CfgStage, CfgIdle
    <2>2. cfg_pc = "done" => ~ CP!Next /\ ~ CP!CallNothing
        BY DEF CP!Next, CP!CallVisited, CP!CallJump, CP!CallFall, CP!CallEnd, CP!ResumeFalse,
            CP!ResumeUp, CP!Finish, CP!CallNothing
    <2>3. nodes_pc = "done" => ~ Nodes!Next
        BY MadeOnce
    <2> QED
        BY <1>4, <2>1, <2>2, <2>3, Moves
<1>6. LiftStage'
    <2>1. CASE UNCHANGED lift_vars
        <3>1. Parsed => Parsed' /\ program' = program
            BY Moves, ParsedKept
        <3>2. (Parsed => LF!IsAsm(program))'
            BY <1>1, WholeNext
        <3> QED
            BY <1>0, <2>1, <3>1, <3>2, LiftStageKept
    <2>2. CASE Parsed /\ UNCHANGED front_vars /\ LF!Next
        <3>1. LF!Inv' /\ Lifting'
            BY <1>0, <2>2, LiftsStep DEF LiftStage
        <3>2. Parsed'
            BY <2>2 DEF Parsed, front_vars, parser_vars
        <3> QED
            BY <3>1, <3>2 DEF LiftStage
    <2> QED
        BY <2>1, <2>2, Moves
<1>7. InfoStage'
    <2>1. UNCHANGED info_vars \/ (lift_pc = "done" /\ IP!Next)
        BY Moves
    <2> QED
        BY <1>0, <1>2, <1>6, <2>1, InfoStageKept
<1>8. NodesStage'
    <2>1. \/ UNCHANGED nodes_vars /\ (nodes_pc \in {"start", "middle"} => UNCHANGED links_vars)
          \/ info_pc = "done" /\ Nodes!Next
        BY Moves
    <2> QED
        BY <1>0, <1>3, <2>1, NodesStageKept
<1>9. CfgStage'
    <2>1. \/ UNCHANGED cfg_vars /\ (nodes_pc = "done" => UNCHANGED links_vars)
          \/ nodes_pc = "done" /\ (CP!Next \/ CP!CallNothing)
        <3>1. nodes_pc = "done" => ~ Nodes!Next
            BY MadeOnce
        <3> QED
            BY <3>1, Moves
    <2>2. UNCHANGED nodes_vars \/ (info_pc = "done" /\ Nodes!Next)
        BY Moves
    <2> QED
        BY <1>0, <1>4, <1>6, <1>7, <1>8, <2>1, <2>2, CfgStageKept
<1>10. DrawStage'
    <2>1. UNCHANGED draw_vars \/ (cfg_pc = "done" /\ Draw!Next)
        BY Moves
    <2> QED
        BY <1>0, <1>5, <1>9, <2>1, DrawStageKept
<1> QED
    BY <1>1, <1>6, <1>7, <1>8, <1>9, <1>10 DEF Inv

LEMMA Invariance == Spec => []Inv
BY InitInv, StepInv, PTL DEF Spec

LEMMA StagesHold == Inv => Stages
BY WholeSource DEF Inv, Stages

(***************************************************************************)
(* Whatever the listing with one instruction to a line, and with whatever  *)
(* the operating system answers, what decompile has drawn shows every      *)
(* instruction but the calls once, under the number of its place and as it *)
(* was written, each node once, and no arrow that leads nowhere.           *)
(***************************************************************************)
THEOREM PictureComplete == Spec => []Drawn
BY DrawnKept, StagesHold, Invariance, PTL

(***************************************************************************)
(* Where every jump has a label that is the place of what it labels, and   *)
(* no jump stands inside a block, the picture leads from every instruction *)
(* that can be executed, along its node or the arrows of it, to exactly    *)
(* those that follow it in the listing; the end of the program is left out *)
(* of the comparison.                                                      *)
(***************************************************************************)
THEOREM FlowPictured == Spec => []FlowDrawn
BY FlowDrawnKept, StagesHold, Invariance, PTL
=============================================================================
