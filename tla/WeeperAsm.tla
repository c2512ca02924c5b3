----------------------------- MODULE WeeperAsm ------------------------------
(***************************************************************************)
(* The assembly program (ASM_weeperVM.h) that the parser builds and the    *)
(* lifter reads: a sequence of instructions, each with an opcode and       *)
(* operands, which are trees.                                              *)
(***************************************************************************)
EXTENDS Integers, Sequences

\* The opcodes in the order of the enumeration, on which a cast relies.
OpcodeOrder ==
    <<"OPCODE_MOV", "OPCODE_ADD", "OPCODE_SUB", "OPCODE_MUL", "OPCODE_REM", "OPCODE_AND",
      "OPCODE_OR", "OPCODE_XOR", "OPCODE_SHL", "OPCODE_SHR", "OPCODE_JNZ", "OPCODE_JA",
      "OPCODE_JE", "OPCODE_JL", "OPCODE_JMP", "OPCODE_CMP", "OPCODE_MOVB", "OPCODE_CALL">>

MovOpcodes == {"OPCODE_MOV", "OPCODE_MOVB"}
AluOpcodes == {"OPCODE_ADD", "OPCODE_SUB", "OPCODE_XOR", "OPCODE_AND",
               "OPCODE_SHL", "OPCODE_SHR", "OPCODE_OR", "OPCODE_REM"}
CondOpcodes == {"OPCODE_JNZ", "OPCODE_JA", "OPCODE_JE", "OPCODE_JL"}
JmpOpcodes == CondOpcodes \cup {"OPCODE_JMP"}

\* OPCODE_MUL is missing: the parser refuses mul (parser_weeperVM.c:212-224).
Opcodes == MovOpcodes \cup AluOpcodes \cup JmpOpcodes \cup {"OPCODE_CMP", "OPCODE_CALL"}

\* The operands whose trees have at most d levels of brackets.
Tree[d \in Nat] ==
    [kind : {"OPE_IMM"}, value : Nat] \cup [kind : {"OPE_FLAG"}]
      \cup IF d = 0 THEN {} ELSE [kind : {"OPE_REG", "OPE_MEM"}, index : Tree[d - 1]]

(***************************************************************************)
(* The operands the lifter supposes: an index is an operand itself; that   *)
(* of a register is an immediate, for its value is read without looking at *)
(* its kind.                                                               *)
(***************************************************************************)
Plain == [kind : {"OPE_IMM"}, value : Nat]
Indexed == Plain \cup [kind : {"OPE_REG"}, index : Plain] \cup [kind : {"OPE_FLAG"}]
Operands == Indexed \cup [kind : {"OPE_MEM"}, index : Indexed]

IsAsm(p) ==
    /\ Len(p) \in Nat \ {0}
    /\ \A k \in 1 .. Len(p) :
          /\ p[k].opcode \in Opcodes
          /\ p[k].opcode # "OPCODE_CALL" => p[k].arg0 \in Operands
          /\ p[k].opcode \notin {"OPCODE_CALL"} \cup JmpOpcodes => p[k].arg1 \in Operands
=============================================================================
