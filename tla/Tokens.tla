------------------------------- MODULE Tokens -------------------------------
(***************************************************************************)
(* The tokens (token_weeperVM.h) that the lexer writes and the parser      *)
(* reads, and the cells of the array that holds them.                      *)
(***************************************************************************)
EXTENDS Integers, Sequences

\* The kinds in the order of the enumeration: kind number 0 comes first.
KindOrder ==
    <<"MN_MOV", "MN_ADD", "MN_SUB", "MN_MUL", "MN_REM", "MN_AND", "MN_OR", "MN_XOR",
      "MN_SHL", "MN_SHR", "MN_JNZ", "MN_JA", "MN_JE", "MN_JL", "MN_JMP", "MN_CONDJMP",
      "MN_CMP", "MN_MOVB", "MN_CALL", "MN_COUNT", "TK_COMMA", "TK_PIPE", "TK_EQUAL",
      "TK_JUMP_ARROW", "TK_LOGICAL_AND", "TK_L_PARENTH", "TK_R_PARENTH",
      "TK_L_SQ_BRACKET", "TK_R_SQ_BRACKET", "FUNC_PUTCHAR", "FUNC_READ", "TK_IMMEDIATE",
      "TK_REGISTER", "TK_MEMORY", "TK_FLAG", "TK_LABEL">>

Kinds == {KindOrder[k] : k \in 1 .. Len(KindOrder)}

Number(kind) == CHOOSE k \in 1 .. Len(KindOrder) : KindOrder[k] = kind

(***************************************************************************)
(* A cell has a kind, a value (the number of an immediate, the identity of *)
(* the string of a word) and the flag that it owns the string.  calloc     *)
(* leaves the kind number 0; what realloc adds has no kind one can name.   *)
(***************************************************************************)
Token(kind, value, own) == [kind |-> kind, value |-> value, ownstr |-> own]

\* Fault: the enumeration begins with the operands.
ZeroedOperand == Token("TK_IMMEDIATE", 0, FALSE)

Zeroed == Token(KindOrder[1], 0, FALSE)
Fresh(own) == Token("unwritten", 0, own)

Cells == [kind : Kinds \cup {"unwritten"}, value : Nat, ownstr : BOOLEAN]
=============================================================================
