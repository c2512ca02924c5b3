----------------------------- MODULE FrontendMC -----------------------------
(***************************************************************************)
(* Frontend on the listings of programs of one or two instructions, with   *)
(* up to as many line ends and unknown characters as the program has       *)
(* instructions, at any places.                                            *)
(***************************************************************************)
EXTENDS Frontend

LOCAL INSTANCE SmallListings
Spell == INSTANCE Spelling WITH Keyword <- Lexer!Keyword, Punctuation <- Lexer!Punctuation

Broken(t) ==
    {InsertAt(t, k, b) : k \in 1 .. Len(t) + 1, b \in {Lexer!NewLine, [class |-> "unknown"]}}

Layouts[n \in Nat, p \in SmallPrograms] ==
    IF n = 0 THEN {Spell!OnOneLine(Lines(p))}
    ELSE Layouts[n - 1, p] \cup UNION {Broken(t) : t \in Layouts[n - 1, p]}

MCSources ==
    UNION {{[program |-> p, text |-> t] : t \in Layouts[Len(p), p]} : p \in SmallPrograms}
=============================================================================
