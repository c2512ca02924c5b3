------------------------------ MODULE Listing -------------------------------
(***************************************************************************)
(* The reference the parser is held against: how an instruction is         *)
(* written, as the tokens of its line.                                     *)
(***************************************************************************)
EXTENDS Tokens, WeeperAsm, SequencesExt

CONSTANT Depth  \* the levels of brackets that are told apart

ASSUME DepthAssumption == Depth \in Nat

\* The mnemonic of each opcode.
Mnemonic ==
    [OPCODE_MOV |-> "MN_MOV", OPCODE_ADD |-> "MN_ADD", OPCODE_SUB |-> "MN_SUB",
     OPCODE_REM |-> "MN_REM", OPCODE_AND |-> "MN_AND", OPCODE_OR |-> "MN_OR",
     OPCODE_XOR |-> "MN_XOR", OPCODE_SHL |-> "MN_SHL", OPCODE_SHR |-> "MN_SHR",
     OPCODE_JNZ |-> "MN_JNZ", OPCODE_JA |-> "MN_JA", OPCODE_JE |-> "MN_JE",
     OPCODE_JL |-> "MN_JL", OPCODE_JMP |-> "MN_JMP", OPCODE_CMP |-> "MN_CMP",
     OPCODE_MOVB |-> "MN_MOVB", OPCODE_CALL |-> "MN_CALL"]

\* A token as the grammar sees it: the value counts in an immediate only.
Word(kind) == [kind |-> kind]
Seen(cell) == IF cell.kind = "TK_IMMEDIATE" THEN [kind |-> cell.kind, value |-> cell.value]
                                            ELSE Word(cell.kind)

Bracketed(kind, words) ==
    <<Word(kind), Word("TK_L_SQ_BRACKET")>> \o words \o <<Word("TK_R_SQ_BRACKET")>>

Trees == Tree[Depth]

OperandToken == [OPE_REG |-> "TK_REGISTER", OPE_MEM |-> "TK_MEMORY"]

Written[o \in Trees] ==
    IF o.kind \in {"OPE_REG", "OPE_MEM"}
    THEN Bracketed(OperandToken[o.kind], Written[o.index])
    ELSE IF o.kind = "OPE_FLAG"
         THEN <<Word("TK_FLAG")>>
         ELSE <<[kind |-> "TK_IMMEDIATE", value |-> o.value]>>

\* A conditional jump on a register is written with its target second.
LineOperands(instr) ==
    IF instr.opcode = "OPCODE_JNZ"
    THEN Written[instr.arg1] \o <<Word("TK_COMMA")>> \o Written[instr.arg0]
    ELSE IF instr.opcode \in JmpOpcodes
         THEN Written[instr.arg0]
         ELSE Written[instr.arg0] \o <<Word("TK_COMMA")>> \o Written[instr.arg1]

Line(instr) ==
    IF instr.opcode = "OPCODE_CALL"
    THEN <<Word("MN_CALL"),
           Word(IF instr.call_name = "CALL_READ" THEN "FUNC_READ" ELSE "FUNC_PUTCHAR"),
           Word("TK_L_PARENTH"), Word("TK_R_PARENTH")>>
    ELSE <<Word(Mnemonic[instr.opcode])>> \o LineOperands(instr)

Lines(program) == FlattenSeq([k \in 1 .. Len(program) |-> Line(program[k])])
=============================================================================
