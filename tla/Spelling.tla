------------------------------ MODULE Spelling ------------------------------
(***************************************************************************)
(* How the words of a listing are spelled as lexemes, for the              *)
(* model-checking runs: the lexer's tables read backwards.                 *)
(***************************************************************************)
EXTENDS Listing

CONSTANTS Keyword, Punctuation   \* the lexer's tables

\* The word of each kind of token that has one, and its character otherwise.
Spelled(word) ==
    IF word.kind = "TK_IMMEDIATE" THEN [class |-> "number", number |-> word.value]
    ELSE IF \E w \in DOMAIN Keyword : Keyword[w] = word.kind
    THEN [class |-> "word", word |-> CHOOSE w \in DOMAIN Keyword : Keyword[w] = word.kind]
    ELSE [class |-> "char",
          char |-> CHOOSE c \in DOMAIN Punctuation : Punctuation[c] = word.kind]

Blank == [class |-> "blank"]
Mnemonics == {Mnemonic[o] : o \in DOMAIN Mnemonic}

\* The lexemes of words on one line, a blank around each mnemonic.
OnOneLine(words) ==
    FlattenSeq([k \in 1 .. Len(words) |->
       IF words[k].kind \in Mnemonics THEN <<Blank, Spelled(words[k]), Blank>>
                                      ELSE <<Spelled(words[k])>>])

\* The listing of a program, each instruction on a line of its own.
LineByLine(program) ==
    FlattenSeq([k \in 1 .. Len(program) |->
       (IF k = 1 THEN <<>> ELSE <<[class |-> "newline"]>>) \o OnOneLine(Line(program[k]))])
=============================================================================
