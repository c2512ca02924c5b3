------------------------------- MODULE Lexer --------------------------------
(***************************************************************************)
(* lexer_weeperVM (lexer_weeperVM.c): the text is cut into lexemes, each   *)
(* becomes at most one token in an array that doubles when it is full, and *)
(* the instructions are counted by the line ends.  free_tokens_weeperVM    *)
(* frees the strings at the end, by the flags of the cells.                *)
(*                                                                         *)
(* A string is named by the position of its word in the text.  Left out:   *)
(* lines and columns, which only messages use; the failure of malloc.      *)
(***************************************************************************)
EXTENDS Tokens, FiniteSets

CONSTANTS
    Texts,        \* the texts, sequences of lexemes
    InitialCells  \* the cells of a new list, 256 in init_token_list

\* canAddKeywordToken: the words that are tokens.
Keyword ==
    [mov |-> "MN_MOV", add |-> "MN_ADD", sub |-> "MN_SUB", mul |-> "MN_MUL",
     mod |-> "MN_REM", and |-> "MN_AND", or |-> "MN_OR", xor |-> "MN_XOR",
     shl |-> "MN_SHL", shr |-> "MN_SHR", ja |-> "MN_JA", je |-> "MN_JE",
     jl |-> "MN_JL", jmp |-> "MN_JMP", jif |-> "MN_JNZ", cmp |-> "MN_CMP",
     movb |-> "MN_MOVB", call |-> "MN_CALL", reg |-> "TK_REGISTER",
     mem |-> "TK_MEMORY", flags |-> "TK_FLAG", putchar |-> "FUNC_PUTCHAR",
     read |-> "FUNC_READ"]

Punctuation ==
    [c \in {",", "(", ")", "[", "]"} |->
        CASE c = "," -> "TK_COMMA"
          [] c = "(" -> "TK_L_PARENTH"
          [] c = ")" -> "TK_R_PARENTH"
          [] c = "[" -> "TK_L_SQ_BRACKET"
          [] c = "]" -> "TK_R_SQ_BRACKET"]

(***************************************************************************)
(* The lexemes: what the loop takes off the text in one round.  Words and  *)
(* numbers are as long as they can be, so that a word is followed by       *)
(* neither, nor a number by a number.                                      *)
(***************************************************************************)
NewLine == [class |-> "newline"]
Lexemes ==
    [class : {"blank", "newline", "unknown"}] \cup [class : {"char"}, char : DOMAIN Punctuation]
      \cup [class : {"number"}, number : Nat] \cup [class : {"word"}, word : STRING]

IsText(t) ==
    /\ t \in Seq(Lexemes)
    /\ \A k \in 1 .. Len(t) - 1 :
          /\ t[k].class = "word" => t[k + 1].class \notin {"word", "number"}
          /\ t[k].class = "number" => t[k + 1].class # "number"

ASSUME TextsAssumption == \A t \in Texts : IsText(t)
ASSUME CellsAssumption == InitialCells \in Nat \ {0}

VARIABLES
    text,             \* the text
    pos,              \* the lexemes taken off it
    tokens,           \* tokenList->tokens, the array that is allocated
    nb_tokens,        \* tokenList->nb_tokens, the number of cells it is taken to have
    token_index,      \* tokenList->token_index
    nb_instructions,  \* *nb_instructions
    strings,          \* the strings of extract_sub_string not yet freed
    pc                \* "lex", "done", "freed", "exit" after an error, or "wild"
                      \* once a cell outside the array has been read

vars == <<text, pos, tokens, nb_tokens, token_index, nb_instructions, strings, pc>>

-----------------------------------------------------------------------------
\* The locals and the list when lexer_weeperVM enters its loop.
Entry ==
    /\ pos = 0
    /\ tokens = [c \in 1 .. InitialCells |-> Zeroed]
    /\ nb_tokens = InitialCells
    /\ token_index = 0
    /\ nb_instructions = 1
    /\ strings = {}
    /\ pc = "lex"

Init == text \in Texts /\ Entry

Here == text[pos + 1]
At(class) == pc = "lex" /\ pos < Len(text) /\ Here.class = class

Advance ==
    /\ pos' = pos + 1
    /\ nb_instructions' = IF Here = NewLine THEN nb_instructions + 1 ELSE nb_instructions

\* Fault: the test lets one token too many into the array.
FullLate == token_index > nb_tokens

Full == token_index >= nb_tokens

Doubled == 2 * nb_tokens

\* Fault: the loop over the new cells is missing.
AddedAsIs(cell) == cell

\* The loop over the cells that realloc added.
Added(cell) == [cell EXCEPT !.ownstr = FALSE]

\* Fault: the larger array is a new one.
RoomNew ==
    IF Full THEN {[c \in 1 .. Doubled |-> Zeroed]} ELSE {tokens}

\* Fault: realloc is called before the number is doubled.
RoomSame == {tokens}

\* The arrays addToken may write to: realloc adds cells with anything in them,
\* up to the doubled number.
Room ==
    LET new == 1 .. Doubled - Len(tokens)
    IN  IF Full
        THEN {tokens \o [c \in new |-> Added(Fresh(own[c]))] : own \in [new -> BOOLEAN]}
        ELSE {tokens}

(***************************************************************************)
(* addToken.  When realloc fails, the number of cells is doubled already,  *)
(* and the list is freed by that number over the old array.                *)
(***************************************************************************)
AddToken(token) ==
    /\ nb_tokens' = IF Full THEN Doubled ELSE nb_tokens
    /\ \/ /\ \E list \in Room : tokens' = [list EXCEPT ![token_index + 1] = token]
          /\ token_index' = token_index + 1
          /\ UNCHANGED pc
       \/ /\ Full
          /\ pc' = "wild"
          /\ UNCHANGED <<tokens, token_index>>

Skip(class) ==
    /\ At(class)
    /\ Advance
    /\ UNCHANGED <<text, tokens, nb_tokens, token_index, strings, pc>>

SkipBlank == Skip("blank") \/ Skip("newline")

\* A character of no token is reported and dropped.
SkipUnknown == Skip("unknown")

AddChar ==
    /\ At("char")
    /\ AddToken(Token(Punctuation[Here.char], 0, FALSE))
    /\ Advance
    /\ UNCHANGED <<text, strings>>

AddInteger ==
    /\ At("number")
    /\ AddToken(Token("TK_IMMEDIATE", Here.number, FALSE))
    /\ Advance
    /\ UNCHANGED <<text, strings>>

WordToken == Token(Keyword[Here.word], pos, TRUE)

AddKeyword ==
    /\ At("word") /\ Here.word \in DOMAIN Keyword
    /\ strings' = strings \cup {pos}
    /\ AddToken(WordToken)
    /\ Advance
    /\ UNCHANGED text

RejectWord ==
    /\ At("word") /\ Here.word \notin DOMAIN Keyword
    /\ strings' = strings \cup {pos}
    /\ pc' = "exit"
    /\ UNCHANGED <<text, pos, tokens, nb_tokens, token_index, nb_instructions>>

\* Fault: the loop waits for one more lexeme.
ReturnLate ==
    /\ pc = "lex" /\ pos > Len(text)
    /\ pc' = "done"
    /\ UNCHANGED <<text, pos, tokens, nb_tokens, token_index, nb_instructions, strings>>

Return ==
    /\ pc = "lex" /\ pos >= Len(text)
    /\ pc' = "done"
    /\ UNCHANGED <<text, pos, tokens, nb_tokens, token_index, nb_instructions, strings>>

Lex ==
    SkipBlank \/ SkipUnknown \/ AddChar \/ AddInteger \/ AddKeyword \/ RejectWord \/ Return

\* Fault: the loop ends at the current token.
OwnersRead == {c \in 1 .. token_index : tokens[c].ownstr}

\* The cells whose string free_tokens_weeperVM frees.
Owners == {c \in 1 .. nb_tokens : tokens[c].ownstr}

FreeTokens ==
    /\ pc = "done"
    /\ strings' = strings \ {tokens[c].value : c \in Owners}
    /\ pc' = "freed"
    /\ UNCHANGED <<text, pos, tokens, nb_tokens, token_index, nb_instructions>>

Next == Lex \/ FreeTokens

\* One thread, no blocking call.
Fairness == WF_vars(Next)

Spec == Init /\ [][Next]_vars /\ Fairness

-----------------------------------------------------------------------------
\* What the lexer holds, and that every token is in a cell.
TypeOK ==
    /\ IsText(text)
    /\ pos \in 0 .. Len(text)
    /\ tokens \in Seq(Cells)
    /\ nb_tokens \in Nat
    /\ token_index \in 0 .. Len(tokens)
    /\ nb_instructions \in 1 .. pos + 1
    /\ strings \subseteq 0 .. Len(text)
    /\ pc \in {"lex", "done", "freed", "exit", "wild"}

(***************************************************************************)
(* The number the list keeps is that of the cells allocated, through every *)
(* growth, but after a realloc that failed: addToken has doubled the       *)
(* number before (lexer_weeperVM.c:76), and free_tokens_weeperVM takes the *)
(* old array for one of twice its cells.  The array is the one of          *)
(* init_token_list doubled some times, and no more often than the tokens   *)
(* need.                                                                   *)
(***************************************************************************)
CellsCounted ==
    /\ IF pc = "wild"
       THEN nb_tokens = 2 * Len(tokens) /\ token_index = Len(tokens)
       ELSE nb_tokens = Len(tokens)
    /\ \E k \in 0 .. token_index : Len(tokens) = InitialCells * 2 ^ k
    /\ Len(tokens) = InitialCells \/ Len(tokens) < 2 * token_index

\* The token a lexeme stands for, if it stands for one; n is its position.
IsToken(lexeme) == lexeme.class \in {"char", "number", "word"}
TokenOf(n) ==
    LET lexeme == text[n + 1]
    IN  CASE lexeme.class = "char" -> Token(Punctuation[lexeme.char], 0, FALSE)
          [] lexeme.class = "number" -> Token("TK_IMMEDIATE", lexeme.number, FALSE)
          [] lexeme.class = "word" -> Token(Keyword[lexeme.word], n, TRUE)

(***************************************************************************)
(* The cells below token_index are the tokens of the text read so far, in  *)
(* order: growth (lexer_weeperVM.c:73-91) loses none, and none is written  *)
(* outside the array.                                                      *)
(***************************************************************************)
TokensKept ==
    LET Read == {n \in 0 .. pos - 1 : IsToken(text[n + 1])}
    IN  pc # "wild" =>
          /\ token_index = Cardinality(Read)
          /\ token_index <= Len(tokens)
          /\ \A n \in Read : tokens[Cardinality({m \in Read : m <= n})] = TokenOf(n)

\* The cells that own a string, and the string of a word that got into no cell,
\* refused or come to a full array that could not grow.
Owning == {c \in 1 .. Len(tokens) : tokens[c].ownstr}
Unplaced == CASE pc = "exit" -> {pos} [] pc = "wild" -> {pos - 1} [] OTHER -> {}

(***************************************************************************)
(* A cell that says it owns a string was written, the ones never written   *)
(* are walked too by free_tokens_weeperVM (lexer_weeperVM.c:14); no two    *)
(* cells own the same string; and the strings owned are those allocated,   *)
(* all of them until they are freed, but the one in hand when the lexer    *)
(* gave up.                                                                *)
(***************************************************************************)
OneOwner ==
    /\ \A c \in Owning : c <= token_index
    /\ \A c, d \in Owning : tokens[c].value = tokens[d].value => c = d
    /\ strings \ Unplaced = IF pc = "freed" THEN {} ELSE {tokens[c].value : c \in Owning}

(***************************************************************************)
(* lexer_weeperVM.c:86 announces the "initialization of the new structs":  *)
(* no cell is left with whatever realloc put there.                        *)
(***************************************************************************)
NewCellsInitialised == \A c \in 1 .. Len(tokens) : tokens[c].kind # "unwritten"
=============================================================================
