--------------------------- MODULE SmallListings ----------------------------
(***************************************************************************)
(* Small programs, and lists of tokens around their listings, for the      *)
(* model-checking runs.                                                    *)
(***************************************************************************)
EXTENDS Listing, FiniteSets

LOCAL Imm(v) == [kind |-> "OPE_IMM", value |-> v]
LOCAL Reg(o) == [kind |-> "OPE_REG", index |-> o]
LOCAL Mem(o) == [kind |-> "OPE_MEM", index |-> o]
LOCAL Flags == [kind |-> "OPE_FLAG"]

LOCAL Op(o, a, b) == [opcode |-> o, arg0 |-> a, arg1 |-> b]
LOCAL Jump(o, a) == [opcode |-> o, arg0 |-> a]
LOCAL Call(f) == [opcode |-> "OPCODE_CALL", call_name |-> f]

\* Instructions of every form; what is in brackets is told apart.
Forms ==
    {Op("OPCODE_MOV", Reg(Imm(1)), Imm(2)), Op("OPCODE_JNZ", Imm(0), Reg(Imm(1))),
     Jump("OPCODE_JMP", Imm(1)), Call("CALL_READ")}

\* One instruction for each mnemonic the parser knows.
AllOpcodes ==
    {Op(o, Mem(Reg(Imm(1))), Flags) : o \in {"OPCODE_CMP"} \cup MovOpcodes \cup AluOpcodes}
      \cup {Jump(o, Imm(0)) : o \in JmpOpcodes \ {"OPCODE_JNZ"}}
      \cup {Call("CALL_PUTCHAR"), Op("OPCODE_JNZ", Reg(Imm(2)), Flags)}

SmallPrograms == {<<i>> : i \in AllOpcodes} \cup UNION {[1 .. n -> Forms] : n \in 1 .. 2}

\* The words an edit puts in: one that is wrong almost everywhere, mul, which
\* has a token and no parser, and two that may fit.
LOCAL Odd == {Word("TK_FLAG"), Word("TK_COMMA"), Word("MN_MUL"), Word("TK_REGISTER")}

\* The listings with at most one word dropped, doubled, replaced or added.
Edits(s) ==
    {s} \cup {RemoveAt(s, k) : k \in 1 .. Len(s)} \cup {InsertAt(s, k, s[k]) : k \in 1 .. Len(s)}
      \cup {ReplaceAt(s, k, w) : k \in 1 .. Len(s), w \in Odd} \cup {Append(s, w) : w \in Odd}

LOCAL Owns(kind) ==
    kind \notin {"TK_COMMA", "TK_L_PARENTH", "TK_R_PARENTH", "TK_L_SQ_BRACKET",
                 "TK_R_SQ_BRACKET", "TK_IMMEDIATE"}

\* The cells of a word sequence, as the lexer fills them in.
CellsOf(s) ==
    [c \in 1 .. Len(s) |->
       Token(s[c].kind,
             IF s[c].kind = "TK_IMMEDIATE" THEN s[c].value ELSE IF Owns(s[c].kind) THEN c ELSE 0,
             Owns(s[c].kind))]

\* What follows the tokens: cells of calloc, cells of realloc, or none.
Rests == {<<>>, <<Zeroed>>, <<Zeroed, Zeroed, Zeroed>>, <<Fresh(FALSE)>>}

ListsAround(programs, counts) ==
    {[tokens |-> CellsOf(s) \o rest, token_index |-> Len(s), nb_instructions |-> n] :
        s \in UNION {Edits(Lines(p)) : p \in programs}, rest \in Rests, n \in counts}
=============================================================================
