---------------------------- MODULE DecompileMC -----------------------------
(***************************************************************************)
(* Decompile on the listings, each instruction on a line of its own, of    *)
(* programs of at most three instructions of the control forms, or two of  *)
(* all forms.                                                              *)
(***************************************************************************)
EXTENDS Decompile

Spell == INSTANCE Spelling WITH Keyword <- Lexer!Keyword,
                                Punctuation <- Lexer!Punctuation

Imm(v) == [kind |-> "OPE_IMM", value |-> v]
Reg(v) == [kind |-> "OPE_REG", index |-> Imm(v)]
Mem(o) == [kind |-> "OPE_MEM", index |-> o]

Op(o, x, y) == [opcode |-> o, arg0 |-> x, arg1 |-> y]

\* Labels go one further than right behind the last of three instructions.
Control ==
    {[opcode |-> "OPCODE_JMP", arg0 |-> Imm(v)] : v \in 0 .. 4}
      \cup {Op("OPCODE_JNZ", Imm(v), Reg(7)) : v \in 0 .. 4}
      \cup {Op("OPCODE_SUB", Reg(8), Imm(9)),
            [opcode |-> "OPCODE_CALL", call_name |-> "CALL_READ"]}

Data ==
    {Op("OPCODE_MOV", Reg(5), Imm(6)), Op("OPCODE_MOV", Mem(Reg(5)), Reg(6)),
     Op("OPCODE_MOVB", Reg(5), Mem(Imm(6))), Op("OPCODE_CMP", Reg(5), [kind |-> "OPE_FLAG"]),
     [opcode |-> "OPCODE_JE", arg0 |-> Reg(1)]}

Small == UNION {[1 .. n -> Control] : n \in 1 .. 3} \cup UNION {[1 .. n -> Control \cup Data] : n \in 1 .. 2}

MCSources == {[program |-> p, text |-> Spell!LineByLine(p)] : p \in Small}
=============================================================================
