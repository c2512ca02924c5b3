----------------------------- MODULE SmallAsms ------------------------------
(***************************************************************************)
(* The assembly programs of at most n instructions for the model-checking  *)
(* runs: every opcode, the operand shapes lift_mov tells apart, jumps to   *)
(* the labels 0 .. n - 1 and through a register, calls.                    *)
(***************************************************************************)
EXTENDS Integers

LOCAL Imm(v) == [kind |-> "OPE_IMM", value |-> v]
LOCAL Reg(v) == [kind |-> "OPE_REG", index |-> Imm(v)]
LOCAL Mem(o) == [kind |-> "OPE_MEM", index |-> o]

LOCAL Op(o, a, b) == [opcode |-> o, arg0 |-> a, arg1 |-> b]
LOCAL Jump(o, a) == [opcode |-> o, arg0 |-> a]

LOCAL Instrs(n) ==
    {Op("OPCODE_MOV", Reg(1), Imm(2)), Op("OPCODE_MOV", Mem(Reg(1)), Mem(Imm(2))),
     Op("OPCODE_MOVB", Reg(2), Mem(Reg(1))), Op("OPCODE_CMP", Reg(1), [kind |-> "OPE_FLAG"]),
     [opcode |-> "OPCODE_CALL"]}
      \cup {Op(o, Reg(1), Imm(2)) :
              o \in {"OPCODE_ADD", "OPCODE_SUB", "OPCODE_XOR", "OPCODE_AND",
                     "OPCODE_SHL", "OPCODE_SHR", "OPCODE_OR", "OPCODE_REM"}}
      \cup {Jump(o, a) : o \in {"OPCODE_JNZ", "OPCODE_JA", "OPCODE_JE", "OPCODE_JL",
                                "OPCODE_JMP"},
                         a \in {Imm(v) : v \in 0 .. n - 1} \cup {Reg(1)}}

AsmsUpTo(n) == UNION {[1 .. m -> Instrs(n)] : m \in 1 .. n}
=============================================================================
