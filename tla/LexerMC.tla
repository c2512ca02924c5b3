------------------------------ MODULE LexerMC -------------------------------
(***************************************************************************)
(* Lexer on every text of at most MaxLen lexemes from a small alphabet.    *)
(***************************************************************************)
EXTENDS Lexer

CONSTANT MaxLen

Alphabet ==
    {[class |-> "blank"], NewLine, [class |-> "unknown"], [class |-> "char", char |-> ","],
     [class |-> "number", number |-> 7]}
      \cup [class : {"word"}, word : {"mov", "reg", "label"}]

MCTexts == {t \in UNION {[1 .. n -> Alphabet] : n \in 0 .. MaxLen} : IsText(t)}
=============================================================================
