------------------------------ MODULE Frontend ------------------------------
(***************************************************************************)
(* The first half of decompile (ccg.c:130-167): the lexer, then the parser *)
(* on the same list and with the lexer's count, then the frees.  The text  *)
(* is the listing of a program, its source, in some layout.                *)
(***************************************************************************)
EXTENDS Integers, Sequences, FiniteSets

CONSTANTS
    Sources,          \* records of a text and the program it is the listing of
    InitialCells,     \* the cells of a new token list
    Depth             \* the levels of brackets that are told apart

VARIABLES
    source,           \* the program, which the code does not know
    text, pos, tokens, nb_tokens, token_index, nb_instructions, strings, lexer_pc,
    parser_pc, program, todo, args, opcode, live, last

lexer_vars == <<text, pos, nb_tokens, strings, lexer_pc>>
parser_vars == <<parser_pc, program, todo, args, opcode, live, last>>
list_vars == <<tokens, token_index, nb_instructions>>
front_vars == <<source, lexer_vars, list_vars, parser_vars>>

Lexer == INSTANCE Lexer WITH Texts <- {}, pc <- lexer_pc
Parser == INSTANCE Parser WITH TokenLists <- {}, pc <- parser_pc

\* What the grammar sees of a lexeme.
WordOf(lexeme) ==
    CASE lexeme.class = "char" -> Parser!Word(Lexer!Punctuation[lexeme.char])
      [] lexeme.class = "number" -> [kind |-> "TK_IMMEDIATE", value |-> lexeme.number]
      [] lexeme.class = "word" -> Parser!Word(Lexer!Keyword[lexeme.word])

(***************************************************************************)
(* The text is the listing of the program, in some layout: but for what is *)
(* no token, it is the words of the lines in their order.                  *)
(***************************************************************************)
IsListing(layout, asm) ==
    LET Read == {n \in 0 .. Len(layout) - 1 : Lexer!IsToken(layout[n + 1])}
        words == Parser!Lines(asm)
    IN  /\ \A n \in Read :
              layout[n + 1].class = "word" => layout[n + 1].word \in DOMAIN Lexer!Keyword
        /\ Cardinality(Read) = Len(words)
        /\ \A n \in Read : words[Cardinality({m \in Read : m <= n})] = WordOf(layout[n + 1])

\* No operand is nested deeper than there are brackets in its program.
Brackets(words) == Cardinality({c \in 1 .. Len(words) : words[c].kind = "TK_L_SQ_BRACKET"})

ASSUME SourcesAssumption ==
    \A s \in Sources :
       /\ Lexer!IsText(s.text)
       /\ s.program \in Seq(Parser!Instructions)
       /\ Brackets(Parser!Lines(s.program)) <= Depth
       /\ IsListing(s.text, s.program)
ASSUME CellsAssumption == InitialCells \in Nat \ {0}
ASSUME LevelsAssumption == Depth \in Nat

-----------------------------------------------------------------------------
FrontInit ==
    /\ \E s \in Sources : source = s.program /\ text = s.text
    /\ Lexer!Entry
    /\ Parser!Entry

LexerStep ==
    /\ Lexer!Lex
    /\ UNCHANGED <<source, parser_vars>>

ParserStep ==
    /\ lexer_pc = "done"
    /\ Parser!Parse
    /\ UNCHANGED <<source, lexer_vars>>

\* free_tokens runs when nothing reads the tokens any more, free_asm after it.
FreeTokens ==
    /\ parser_pc = "done"
    /\ Lexer!FreeTokens
    /\ UNCHANGED <<source, parser_vars>>

FreeAsm ==
    /\ lexer_pc = "freed"
    /\ Parser!FreeAsm
    /\ UNCHANGED <<source, lexer_vars>>

FrontNext == LexerStep \/ ParserStep \/ FreeTokens \/ FreeAsm

\* One thread, no blocking call.
FrontFairness == WF_front_vars(FrontNext)

FrontSpec == FrontInit /\ [][FrontNext]_front_vars /\ FrontFairness

-----------------------------------------------------------------------------
(***************************************************************************)
(* What the parser delivers depends on the layout by the count of line     *)
(* ends only (lexer_weeperVM.c:262): wherever lines are broken, it is the  *)
(* beginning of the source, as many instructions as were counted.          *)
(***************************************************************************)
Delivered ==
    parser_pc \in {"done", "freed"} =>
       /\ nb_instructions <= Len(source)
       /\ program = SubSeq(source, 1, nb_instructions)

(***************************************************************************)
(* The parser refuses a listing, or reads what was never written, only     *)
(* when more instructions were counted than there are: with an empty line, *)
(* an instruction on two lines, or an end behind the last line             *)
(* (lexer_weeperVM.c:294, parser_weeperVM.c:170).                          *)
(***************************************************************************)
Accepted ==
    (parser_pc \in {"exit", "wild"} \/ lexer_pc = "exit") => nb_instructions > Len(source)

(***************************************************************************)
(* decompile (ccg.c:162-163) leaves no string and no operand, though the   *)
(* parser has moved token_index and may have stopped before the end of the *)
(* tokens.                                                                 *)
(***************************************************************************)
AllFreed ==
    parser_pc = "freed" => strings = {} /\ live = 0

(***************************************************************************)
(* Lexer, parser and the frees of decompile come to their end on every     *)
(* listing, or one of them exits.                                          *)
(***************************************************************************)
Termination ==
    <>(parser_pc \in {"freed", "exit", "wild"} \/ lexer_pc \in {"exit", "wild"})
=============================================================================
