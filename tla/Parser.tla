------------------------------- MODULE Parser -------------------------------
(***************************************************************************)
(* parser_weeperVM (parser_weeperVM.c): recursive descent over the tokens, *)
(* as many instructions as the lexer counted.  The pending C calls are the *)
(* variable todo: what they will still ask for, the innermost call first,  *)
(*   a kind of token   expect_token                                        *)
(*   "operand"         parse_operand                                       *)
(*   "OPE_REG", ...    the return of a parse_operand with the index it got *)
(*   "callee"          the function of parse_call                          *)
(*   "return"          the end of parse_instruction                        *)
(* args are the operands that calls have returned and nobody has stored.   *)
(* Left out: the failure of malloc, messages, the offset of an instruction *)
(* (its place in the program).                                             *)
(***************************************************************************)
EXTENDS Listing

CONSTANT TokenLists  \* what the lexer may deliver

\* The brackets opened in the first n cells: no operand is nested deeper.
Opened(cells, n) == Cardinality({c \in 1 .. n : cells[c].kind = "TK_L_SQ_BRACKET"})

ASSUME ListsAssumption ==
    \A l \in TokenLists :
       /\ l.tokens \in Seq(Cells)
       /\ l.token_index \in 0 .. Len(l.tokens)
       /\ \A c \in 1 .. l.token_index : l.tokens[c].kind # "unwritten"
       /\ Opened(l.tokens, Len(l.tokens)) <= Depth
       /\ l.nb_instructions \in Nat \ {0}

VARIABLES
    tokens,           \* tokenList->tokens, of nb_tokens cells
    token_index,      \* tokenList->token_index
    nb_instructions,
    pc,               \* "start", "parse", "done", "freed", "exit" after an error, or
                      \* "wild" once a token was read that was never written
    program,          \* program->instructions up to instr_idx
    todo,
    args,
    opcode,           \* of the instruction being parsed
    live,             \* the number of operands allocated and not freed
    last              \* the tokens of the lexer: token_index before the parser resets it

vars == <<tokens, token_index, nb_instructions, pc, program, todo, args, opcode, live, last>>

-----------------------------------------------------------------------------
\* The dispatch tables of parse_instruction.
OpMnemonics == {"MN_MOV", "MN_MOVB", "MN_CMP", "MN_ADD", "MN_SUB", "MN_XOR", "MN_AND",
                "MN_SHL", "MN_SHR", "MN_OR", "MN_REM"}
JmpMnemonics == {"MN_JNZ", "MN_JA", "MN_JE", "MN_JL", "MN_JMP"}

\* token_to_opcode.
OpcodeOf ==
    [MN_MOV |-> "OPCODE_MOV", MN_ADD |-> "OPCODE_ADD", MN_SUB |-> "OPCODE_SUB",
     MN_MUL |-> "OPCODE_MUL", MN_REM |-> "OPCODE_REM", MN_AND |-> "OPCODE_AND",
     MN_OR |-> "OPCODE_OR", MN_XOR |-> "OPCODE_XOR", MN_SHL |-> "OPCODE_SHL",
     MN_SHR |-> "OPCODE_SHR", MN_JNZ |-> "OPCODE_JNZ", MN_JA |-> "OPCODE_JA",
     MN_JE |-> "OPCODE_JE", MN_JL |-> "OPCODE_JL", MN_MOVB |-> "OPCODE_MOVB",
     MN_CMP |-> "OPCODE_CMP", MN_JMP |-> "OPCODE_JMP", MN_CALL |-> "OPCODE_CALL"]

\* Fault: the two enumerations list ja and je in different orders.
JmpOpcodeSwapped(mnemonic) ==
    OpcodeOrder[CASE mnemonic = "MN_JA" -> Number("MN_JE")
                  [] mnemonic = "MN_JE" -> Number("MN_JA")
                  [] OTHER -> Number(mnemonic)]

\* parse_jmp stores the number of the token as the opcode.
JmpOpcode(mnemonic) == OpcodeOrder[Number(mnemonic)]

Entry ==
    /\ pc = "start"
    /\ program = <<>> /\ todo = <<>> /\ args = <<>>
    /\ opcode = "none"
    /\ live = 0
    /\ last = 0

Init ==
    /\ \E l \in TokenLists :
          /\ tokens = l.tokens
          /\ token_index = l.token_index
          /\ nb_instructions = l.nb_instructions
    /\ Entry

Start ==
    /\ pc = "start"
    /\ last' = token_index
    /\ token_index' = 0
    /\ pc' = "parse"
    /\ UNCHANGED <<tokens, nb_instructions, program, todo, args, opcode, live>>

AtInstruction == pc = "parse" /\ todo = <<>> /\ Len(program) < nb_instructions
Pending(items) == pc = "parse" /\ todo # <<>> /\ Head(todo) \in items
NeedsToken == AtInstruction \/ Pending(Kinds \cup {"operand", "callee"})

\* show_next_token: the cell it returns, if something was ever written there.
IsShown == token_index < Len(tokens) /\ tokens[token_index + 1].kind # "unwritten"
Shown == tokens[token_index + 1]

Accept == token_index' = token_index + 1

Exit ==
    /\ pc' = "exit"
    /\ UNCHANGED <<tokens, token_index, nb_instructions, program, todo, args, opcode, live, last>>

ReadWild ==
    /\ NeedsToken /\ ~IsShown
    /\ pc' = "wild"
    /\ UNCHANGED <<tokens, token_index, nb_instructions, program, todo, args, opcode, live, last>>

Begin(code, asks) ==
    /\ Accept
    /\ opcode' = code
    /\ todo' = asks
    /\ UNCHANGED <<tokens, nb_instructions, pc, program, args, live, last>>

ParseOp ==
    /\ AtInstruction /\ IsShown /\ Shown.kind \in OpMnemonics
    /\ Begin(OpcodeOf[Shown.kind], <<"operand", "TK_COMMA", "operand", "return">>)

ParseJmp ==
    /\ AtInstruction /\ IsShown /\ Shown.kind \in JmpMnemonics
    /\ Begin(JmpOpcode(Shown.kind),
             IF Shown.kind = "MN_JNZ" THEN <<"operand", "TK_COMMA", "operand", "return">>
                                      ELSE <<"operand", "return">>)

ParseCall ==
    /\ AtInstruction /\ IsShown /\ Shown.kind = "MN_CALL"
    /\ Begin(OpcodeOf["MN_CALL"], <<"callee", "return">>)

NoParser ==
    /\ AtInstruction /\ IsShown
    /\ Shown.kind \notin OpMnemonics \cup JmpMnemonics \cup {"MN_CALL"}
    /\ Exit

\* Fault: a call is supposed to have an argument.
CalleeAsksArgument == <<"TK_L_PARENTH", "operand", "TK_R_PARENTH">>

CalleeAsks == <<"TK_L_PARENTH", "TK_R_PARENTH">>

\* The call name waits in args for the end of the instruction.
Callee ==
    /\ Pending({"callee"}) /\ IsShown
    /\ IF Shown.kind \in {"FUNC_PUTCHAR", "FUNC_READ"}
       THEN /\ Accept
            /\ todo' = CalleeAsks \o Tail(todo)
            /\ args' = <<IF Shown.kind = "FUNC_READ" THEN "CALL_READ" ELSE "CALL_PUTCHAR">>
            /\ UNCHANGED <<tokens, nb_instructions, pc, program, opcode, live, last>>
       ELSE Exit

\* expect_token.
Expect ==
    /\ Pending(Kinds) /\ IsShown
    /\ IF Shown.kind = Head(todo)
       THEN /\ Accept
            /\ todo' = Tail(todo)
            /\ UNCHANGED <<tokens, nb_instructions, pc, program, args, opcode, live, last>>
       ELSE Exit

-----------------------------------------------------------------------------
\* parse_operand allocates an operand and fills it according to the next token.
Operand(kinds) ==
    /\ Pending({"operand"}) /\ IsShown
    /\ Shown.kind \in kinds
    /\ Accept
    /\ live' = live + 1
    /\ UNCHANGED <<tokens, nb_instructions, pc, program, opcode, last>>

OperandImm ==
    /\ Operand({"TK_IMMEDIATE"})
    /\ args' = Append(args, [kind |-> "OPE_IMM", value |-> Shown.value])
    /\ todo' = Tail(todo)

OperandFlag ==
    /\ Operand({"TK_FLAG"})
    /\ args' = Append(args, [kind |-> "OPE_FLAG"])
    /\ todo' = Tail(todo)

OperandIndexed ==
    /\ Operand({"TK_REGISTER", "TK_MEMORY"})
    /\ todo' = <<"TK_L_SQ_BRACKET", "operand", "TK_R_SQ_BRACKET",
                 IF Shown.kind = "TK_REGISTER" THEN "OPE_REG" ELSE "OPE_MEM">> \o Tail(todo)
    /\ UNCHANGED args

OperandKinds == {"TK_IMMEDIATE", "TK_REGISTER", "TK_MEMORY", "TK_FLAG"}

OperandWrong ==
    /\ Pending({"operand"}) /\ IsShown
    /\ Shown.kind \notin OperandKinds
    /\ Exit

\* A parse_operand returns with the index its inner call gave it.
CloseOperand ==
    /\ Pending({"OPE_REG", "OPE_MEM"})
    /\ args' = Append(Front(args), [kind |-> Head(todo), index |-> Last(args)])
    /\ todo' = Tail(todo)
    /\ UNCHANGED <<tokens, token_index, nb_instructions, pc, program, opcode, live, last>>

\* Fault: the jump on a register keeps its operands as they are written.
BuiltInOrder ==
    CASE opcode = "OPCODE_CALL" -> [opcode |-> opcode, call_name |-> args[1]]
      [] opcode \in JmpOpcodes -> [opcode |-> opcode, arg0 |-> args[1]]
      [] OTHER -> [opcode |-> opcode, arg0 |-> args[1], arg1 |-> args[2]]

\* The instruction as parse_call, parse_jmp or parse_op has filled it in.
Built ==
    CASE opcode = "OPCODE_CALL" -> [opcode |-> opcode, call_name |-> args[1]]
      [] opcode = "OPCODE_JNZ" -> [opcode |-> opcode, arg0 |-> args[2], arg1 |-> args[1]]
      [] opcode \in JmpOpcodes \ {"OPCODE_JNZ"} -> [opcode |-> opcode, arg0 |-> args[1]]
      [] OTHER -> [opcode |-> opcode, arg0 |-> args[1], arg1 |-> args[2]]

Store ==
    /\ Pending({"return"})
    /\ program' = Append(program, Built)
    /\ todo' = Tail(todo)
    /\ args' = <<>>
    /\ UNCHANGED <<tokens, token_index, nb_instructions, pc, opcode, live, last>>

Return ==
    /\ pc = "parse" /\ todo = <<>> /\ Len(program) >= nb_instructions
    /\ pc' = "done"
    /\ UNCHANGED <<tokens, token_index, nb_instructions, program, todo, args, opcode, live, last>>

Parse ==
    \/ Start \/ ReadWild \/ ParseOp \/ ParseJmp \/ ParseCall \/ NoParser \/ Callee \/ Expect
    \/ OperandImm \/ OperandFlag \/ OperandIndexed \/ OperandWrong \/ CloseOperand
    \/ Store \/ Return

\* free_asm_operand: the operands it frees, itself and its index.
Freed[o \in Trees] ==
    IF o.kind \in {"OPE_REG", "OPE_MEM"} THEN 1 + Freed[o.index] ELSE 1

\* free_asm_instruction: a call has no operands, a jump may have no second one.
FreedOf(instr) ==
    IF instr.opcode = "OPCODE_CALL" THEN 0
    ELSE Freed[instr.arg0] + IF "arg1" \in DOMAIN instr THEN Freed[instr.arg1] ELSE 0

\* The loop of free_asm_weeperVM.
FreedBy(instrs) ==
    LET freed[n \in 0 .. Len(instrs)] ==
          IF n = 0 THEN 0 ELSE freed[n - 1] + FreedOf(instrs[n])
    IN  freed[Len(instrs)]

FreeAsm ==
    /\ pc = "done"
    /\ live' = live - FreedBy(program)
    /\ pc' = "freed"
    /\ UNCHANGED <<tokens, token_index, nb_instructions, program, todo, args, opcode, last>>

Next == Parse \/ FreeAsm

\* One thread, no blocking call.
Fairness == WF_vars(Next)

Spec == Init /\ [][Next]_vars /\ Fairness

-----------------------------------------------------------------------------
Instructions ==
    [opcode : {"OPCODE_CALL"}, call_name : {"CALL_PUTCHAR", "CALL_READ"}]
      \cup [opcode : JmpOpcodes \ {"OPCODE_JNZ"}, arg0 : Trees]
      \cup [opcode : (Opcodes \ (JmpOpcodes \cup {"OPCODE_CALL"})) \cup {"OPCODE_JNZ"},
            arg0 : Trees, arg1 : Trees]

(***************************************************************************)
(* Every instruction has the operands of its opcode, and every token that  *)
(* is taken lies in the array: accept_token (parser_weeperVM.c:115) never  *)
(* comes to its error, for the token was looked at before.                 *)
(***************************************************************************)
TypeOK ==
    /\ tokens \in Seq(Cells) /\ token_index \in 0 .. Len(tokens)
    /\ nb_instructions \in Nat
    /\ pc \in {"start", "parse", "done", "freed", "exit", "wild"}
    /\ program \in Seq(Instructions)
    /\ Len(args) <= 2
    /\ live \in Nat
    /\ last \in 0 .. Len(tokens)

(***************************************************************************)
(* After each instruction (parser_weeperVM.c:172) the tokens taken so far  *)
(* are the listing of the program so far: nothing is skipped, taken twice  *)
(* or put in another place.                                                *)
(***************************************************************************)
PrintsBack ==
    pc \in {"parse", "done"} /\ todo = <<>> =>
       Lines(program) = [c \in 1 .. token_index |-> Seen(tokens[c])]

(***************************************************************************)
(* Nothing tells the parser where the tokens end, for it resets            *)
(* token_index (parser_weeperVM.c:136): two cells as calloc left them stop *)
(* it before it reads what was never written or makes an instruction of    *)
(* what the lexer did not write.                                           *)
(***************************************************************************)
StopsAtEnd ==
    /\ pc \in {"parse", "done", "exit", "wild"}
    /\ last + 2 <= Len(tokens) /\ \A c \in {last + 1, last + 2} : tokens[c] = Zeroed
    => pc # "wild" /\ (pc = "done" => token_index <= last)
=============================================================================
