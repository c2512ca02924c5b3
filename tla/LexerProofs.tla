----------------------------- MODULE LexerProofs -----------------------------
(***************************************************************************)
(* The theorems about lexer_weeperVM, for every set of texts and every     *)
(* size of a new list.                                                     *)
(***************************************************************************)
EXTENDS Lexer, FiniteSetTheorems, SequenceTheorems, WellFoundedInduction, TLAPS

LEMMA KindCount == Len(KindOrder) = 36
BY DEF KindOrder

LEMMA KeywordKinds ==
    ASSUME NEW w \in DOMAIN Keyword
    PROVE  Keyword[w] \in Kinds
<1>1. \E k \in 1 .. 36 : KindOrder[k] = Keyword[w]
    BY DEF Keyword, KindOrder
<1> QED
    BY <1>1, KindCount DEF Kinds

LEMMA PunctuationKinds ==
    ASSUME NEW c \in DOMAIN Punctuation
    PROVE  Punctuation[c] \in Kinds
<1> DEFINE Chars == {",", "(", ")", "[", "]"}
<1>1. DOMAIN Punctuation = Chars
    BY DEF Punctuation
<1>2. Punctuation[c] \in {"TK_COMMA", "TK_L_PARENTH", "TK_R_PARENTH",
                          "TK_L_SQ_BRACKET", "TK_R_SQ_BRACKET"}
    <2>1. CASE c = ","
        <3>1. Punctuation[","] = "TK_COMMA"
            BY Zenon DEF Punctuation
        <3> QED
            BY <2>1, <3>1
    <2>2. CASE c = "("
        <3>1. Punctuation["("] = "TK_L_PARENTH"
            BY Zenon DEF Punctuation
        <3> QED
            BY <2>2, <3>1
    <2>3. CASE c = ")"
        <3>1. Punctuation[")"] = "TK_R_PARENTH"
            BY Zenon DEF Punctuation
        <3> QED
            BY <2>3, <3>1
    <2>4. CASE c = "["
        <3>1. Punctuation["["] = "TK_L_SQ_BRACKET"
            BY Zenon DEF Punctuation
        <3> QED
            BY <2>4, <3>1
    <2>5. CASE c = "]"
        <3>1. Punctuation["]"] = "TK_R_SQ_BRACKET"
            BY Zenon DEF Punctuation
        <3> QED
            BY <2>5, <3>1
    <2> QED
        BY <1>1, <2>1, <2>2, <2>3, <2>4, <2>5
<1>3. \E k \in 1 .. 36 : KindOrder[k] = Punctuation[c]
    BY <1>2 DEF KindOrder
<1> QED
    BY <1>3, KindCount DEF Kinds

\* The tokens addToken is called with, and the cells nobody wrote, are cells.
LEMMA CellTypes ==
    /\ Zeroed \in Cells /\ ~Zeroed.ownstr
    /\ \A own \in BOOLEAN : /\ Added(Fresh(own)) \in Cells /\ ~Added(Fresh(own)).ownstr
                            /\ Added(Fresh(own)).kind = "unwritten"
    /\ \A kind \in Kinds : \A v \in Nat :
          /\ Token(kind, v, FALSE) \in Cells /\ Token(kind, v, TRUE) \in Cells
          /\ Token(kind, v, TRUE).ownstr /\ Token(kind, v, TRUE).value = v
          /\ ~Token(kind, v, FALSE).ownstr
<1>1. KindOrder[1] \in Kinds
    BY KindCount DEF Kinds
<1>2. ASSUME NEW own \in BOOLEAN
      PROVE  /\ Added(Fresh(own)) \in Cells /\ ~Added(Fresh(own)).ownstr
             /\ Added(Fresh(own)).kind = "unwritten"
    <2>1. CASE own = TRUE
        BY <2>1 DEF Added, Fresh, Token, Cells
    <2>2. CASE own = FALSE
        BY <2>2 DEF Added, Fresh, Token, Cells
    <2> QED
        BY <2>1, <2>2
<1>3. \A kind \in Kinds : \A v \in Nat :
          /\ Token(kind, v, FALSE) \in Cells /\ Token(kind, v, TRUE) \in Cells
          /\ Token(kind, v, TRUE).ownstr /\ Token(kind, v, TRUE).value = v
          /\ ~Token(kind, v, FALSE).ownstr
    BY DEF Token, Cells
<1>4. Zeroed \in Cells /\ ~Zeroed.ownstr
    BY <1>1, <1>3 DEF Zeroed
<1> QED
    BY <1>2, <1>3, <1>4

-----------------------------------------------------------------------------
(***************************************************************************)
(* The inductive invariant.  A list is never empty, so that doubling it    *)
(* makes room, and the strings owned are those of words read already, so   *)
(* that the next word's is a new one.                                      *)
(***************************************************************************)
OwnersOld == \A c \in Owning : tokens[c].value < pos

Inv ==
    /\ TypeOK
    /\ Len(tokens) > 0
    /\ CellsCounted
    /\ TokensKept
    /\ OneOwner
    /\ pc \in {"lex", "done"} => OwnersOld

-----------------------------------------------------------------------------
(***************************************************************************)
(* The lexemes that are tokens among the first p, and how many they are.   *)
(***************************************************************************)
Read(p) == {n \in 0 .. p - 1 : IsToken(text[n + 1])}
Count(p) == Cardinality(Read(p))

LEMMA ReadFinite ==
    ASSUME NEW p \in Nat
    PROVE  IsFiniteSet(Read(p)) /\ Count(p) \in Nat
<1>1. IsFiniteSet(0 .. p - 1)
    BY FS_Interval
<1>2. Read(p) \in SUBSET (0 .. p - 1)
    BY DEF Read
<1>3. IsFiniteSet(Read(p))
    BY <1>1, <1>2, FS_Subset
<1> QED
    BY <1>3, FS_CardinalityType DEF Count

LEMMA CountZero == Read(0) = {} /\ Count(0) = 0
<1>1. Read(0) = {}
    BY DEF Read
<1> QED
    BY <1>1, FS_EmptySet DEF Count

LEMMA CountStep ==
    ASSUME NEW p \in Nat
    PROVE  /\ IsToken(text[p + 1]) =>
                 Read(p + 1) = Read(p) \cup {p} /\ Count(p + 1) = Count(p) + 1
           /\ ~IsToken(text[p + 1]) => Read(p + 1) = Read(p) /\ Count(p + 1) = Count(p)
<1> HIDE DEF IsToken
<1>1. CASE IsToken(text[p + 1])
    <2>1. Read(p + 1) = Read(p) \cup {p}
        BY <1>1 DEF Read
    <2>2. p \notin Read(p)
        BY DEF Read
    <2> QED
        BY <1>1, <2>1, <2>2, ReadFinite, FS_AddElement DEF Count
<1>2. CASE ~IsToken(text[p + 1])
    <2>1. Read(p + 1) = Read(p)
        BY <1>2 DEF Read
    <2> QED
        BY <1>2, <2>1 DEF Count
<1> QED
    BY <1>1, <1>2

LEMMA CountMonotone ==
    ASSUME NEW p \in Nat, NEW q \in Nat, p <= q
    PROVE  Count(p) <= Count(q)
<1>1. Read(p) \in SUBSET Read(q)
    BY DEF Read
<1> QED
    BY <1>1, ReadFinite, FS_Subset DEF Count

\* The token of a lexeme is in the cell whose number counts it.
LEMMA CountInside ==
    ASSUME NEW p \in Nat, NEW n \in Read(p)
    PROVE  Count(n + 1) \in 1 .. Count(p)
<1>1. n \in Nat /\ n + 1 <= p /\ IsToken(text[n + 1])
    BY DEF Read
<1>2. Count(n + 1) = Count(n) + 1 /\ Count(n) \in Nat
    BY <1>1, CountStep, ReadFinite
<1>3. Count(n + 1) <= Count(p) /\ Count(p) \in Nat
    BY <1>1, CountMonotone, ReadFinite
<1> QED
    BY <1>2, <1>3

\* TokensKept by these counts.
KeptAt(list, p) == \A n \in Read(p) : list[Count(n + 1)] = TokenOf(n)

LEMMA KeptByCounts ==
    pos \in Nat =>
       (TokensKept <=>
           (pc # "wild" =>
              /\ token_index = Count(pos)
              /\ token_index <= Len(tokens)
              /\ KeptAt(tokens, pos)))
<1> SUFFICES ASSUME pos \in Nat
             PROVE  TokensKept <=>
                       (pc # "wild" =>
                          /\ token_index = Count(pos)
                          /\ token_index <= Len(tokens)
                          /\ KeptAt(tokens, pos))
    OBVIOUS
<1>1. \A n \in Read(pos) : {m \in Read(pos) : m <= n} = Read(n + 1)
    BY DEF Read
<1> HIDE DEF TokenOf, IsToken
<1>2. Read(pos) = {n \in 0 .. pos - 1 : IsToken(text[n + 1])}
    BY DEF Read
<1> QED
    BY <1>1, <1>2 DEF TokensKept, KeptAt, Count
-----------------------------------------------------------------------------
(***************************************************************************)
(* A power of two doubles with its exponent: the subsets of 1 .. k + 1 are *)
(* those without k + 1 and as many with it.                                *)
(***************************************************************************)
LEMMA TwoExp ==
    ASSUME NEW k \in Nat
    PROVE  2 ^ k \in Nat /\ 2 ^ (k + 1) = 2 * 2 ^ k
<1> DEFINE Without == SUBSET (1 .. k)
           With == {s \cup {k + 1} : s \in Without}
           Add == [s \in Without |-> s \cup {k + 1}]
<1>1. /\ IsFiniteSet(Without) /\ Cardinality(Without) = 2 ^ k
      /\ Cardinality(SUBSET (1 .. k + 1)) = 2 ^ (k + 1)
    <2>1. /\ IsFiniteSet(1 .. k) /\ Cardinality(1 .. k) = k
          /\ IsFiniteSet(1 .. k + 1) /\ Cardinality(1 .. k + 1) = k + 1
        BY FS_Interval
    <2> QED
        BY <2>1, FS_SUBSET
<1>2. SUBSET (1 .. k + 1) = Without \cup With
    <2>1. ASSUME NEW s \in SUBSET (1 .. k + 1) PROVE s \in Without \cup With
        <3>1. CASE k + 1 \notin s
            BY <3>1
        <3>2. CASE k + 1 \in s
            <4>1. s \ {k + 1} \in Without /\ s = (s \ {k + 1}) \cup {k + 1}
                BY <3>2
            <4> QED
                BY <4>1
        <3> QED
            BY <3>1, <3>2
    <2>2. \A s \in Without : s \in SUBSET (1 .. k + 1) /\ s \cup {k + 1} \in SUBSET (1 .. k + 1)
        <3>1. 1 .. k \subseteq 1 .. k + 1 /\ k + 1 \in 1 .. k + 1
            OBVIOUS
        <3> QED
            BY <3>1, Zenon
    <2>3. Without \cup With \subseteq SUBSET (1 .. k + 1)
        <3>1. ASSUME NEW t \in Without \cup With PROVE t \in SUBSET (1 .. k + 1)
            <4>1. CASE t \in Without
                BY <4>1, <2>2, Zenon
            <4>2. CASE t \in With
                <5>1. PICK s \in Without : t = s \cup {k + 1}
                    BY <4>2, Zenon
                <5> QED
                    BY <5>1, <2>2, Zenon
            <4> QED
                BY <4>1, <4>2, Zenon
        <3> QED
            BY <3>1, Zenon
    <2>4. SUBSET (1 .. k + 1) \subseteq Without \cup With
        BY <2>1, Zenon
    <2> QED
        BY <2>3, <2>4, Zenon
<1>3. Without \cap With = {}
    <2>1. \A s \in Without : k + 1 \notin s
        OBVIOUS
    <2> QED
        BY <2>1
<1>4. Add \in Bijection(Without, With)
    <2>1. \A s, t \in Without : s \cup {k + 1} = t \cup {k + 1} => s = t
        <3>1. \A s \in Without : s = (s \cup {k + 1}) \ {k + 1}
            OBVIOUS
        <3> QED
            BY <3>1
    <2>2. Add \in Injection(Without, With)
        <3>1. Add \in [Without -> With] /\ DOMAIN Add = Without
            BY Zenon
        <3>2. \A s \in Without : Add[s] = s \cup {k + 1}
            BY Zenon
        <3> HIDE DEF Without, With, Add
        <3> QED
            BY <2>1, <3>1, <3>2, Zenon DEF Injection, IsInjective
    <2>3. Add \in Surjection(Without, With)
        BY Zenon DEF Surjection
    <2> QED
        BY <2>2, <2>3, Zenon DEF Bijection
<1>5. IsFiniteSet(With) /\ Cardinality(With) = Cardinality(Without)
    BY <1>1, <1>4, FS_Bijection DEF ExistsBijection
<1>6. Cardinality(Without \cup With) = Cardinality(Without) + Cardinality(With)
    <2>1. Cardinality(Without \cap With) = 0
        BY <1>3, FS_EmptySet
    <2>2. /\ Cardinality(Without \cup With)
               = Cardinality(Without) + Cardinality(With) - Cardinality(Without \cap With)
          /\ Cardinality(Without) \in Nat /\ Cardinality(With) \in Nat
        BY <1>1, <1>5, FS_Union, FS_CardinalityType
    <2> QED
        BY <2>1, <2>2
<1>7. 2 ^ k \in Nat /\ 2 ^ (k + 1) = 2 ^ k + 2 ^ k
    BY <1>1, <1>2, <1>5, <1>6, FS_CardinalityType
<1> QED
    BY <1>7

\* Before a token is added: the cells owned are below token_index.
LEMMA CellsBefore ==
    ASSUME Inv, pc = "lex"
    PROVE  /\ tokens \in Seq(Cells) /\ token_index \in 0 .. Len(tokens) /\ Len(tokens) \in Nat
           /\ Len(tokens) > 0 /\ nb_tokens = Len(tokens)
           /\ \A c \in 1 .. Len(tokens) : c > token_index => ~tokens[c].ownstr
<1>1. /\ tokens \in Seq(Cells) /\ token_index \in 0 .. Len(tokens) /\ Len(tokens) \in Nat
      /\ Len(tokens) > 0 /\ nb_tokens = Len(tokens)
    BY LenProperties DEF Inv, TypeOK, CellsCounted
<1>2. \A c \in Owning : c <= token_index
    BY DEF Inv, OneOwner
<1> QED
    BY <1>1, <1>2 DEF Owning

(***************************************************************************)
(* addToken writes the token behind the others, keeps them, leaves no new  *)
(* cell that claims a string, and the number is that of the cells; or the  *)
(* array is full and realloc fails.                                        *)
(***************************************************************************)
LEMMA AddTokenEffect ==
    ASSUME Inv, pc = "lex", NEW token \in Cells, AddToken(token)
    PROVE  \/ /\ tokens' \in Seq(Cells) /\ Len(tokens') > 0
              /\ token_index' = token_index + 1 /\ token_index + 1 <= Len(tokens')
              /\ tokens'[token_index + 1] = token
              /\ \A c \in 1 .. token_index : tokens'[c] = tokens[c]
              /\ \A c \in 1 .. Len(tokens') : c > token_index + 1 =>
                    /\ ~tokens'[c].ownstr
                    /\ tokens'[c].kind = "unwritten" \/ (c <= Len(tokens) /\ tokens'[c] = tokens[c])
              /\ pc' = pc
              /\ nb_tokens' = Len(tokens')
              /\ \/ Len(tokens') = Len(tokens)
                 \/ Len(tokens') = 2 * Len(tokens) /\ token_index = Len(tokens)
           \/ /\ pc' = "wild" /\ token_index = Len(tokens)
              /\ tokens' = tokens /\ token_index' = token_index
              /\ nb_tokens' = 2 * Len(tokens)
<1>1. /\ tokens \in Seq(Cells) /\ token_index \in 0 .. Len(tokens) /\ Len(tokens) \in Nat
      /\ Len(tokens) > 0 /\ nb_tokens = Len(tokens)
      /\ \A c \in 1 .. Len(tokens) : c > token_index => ~tokens[c].ownstr
    BY CellsBefore
<1>2. ASSUME NEW list \in Room
      PROVE  /\ list \in Seq(Cells) /\ Len(list) \in Nat /\ token_index < Len(list)
             /\ \A c \in 1 .. token_index : list[c] = tokens[c]
             /\ \A c \in 1 .. Len(list) : c > token_index =>
                   /\ ~list[c].ownstr
                   /\ list[c].kind = "unwritten" \/ (c <= Len(tokens) /\ list[c] = tokens[c])
             /\ IF Full THEN Len(list) = 2 * Len(tokens) /\ token_index = Len(tokens)
                ELSE Len(list) = Len(tokens)
    <2>1. CASE ~Full
        BY <2>1, <1>1 DEF Room, Full
    <2>2. CASE Full
        <3>0. 1 .. Doubled - Len(tokens) = 1 .. Len(tokens)
            BY <1>1 DEF Doubled
        <3>1. PICK own \in [1 .. Len(tokens) -> BOOLEAN] :
                 list = tokens \o [c \in 1 .. Len(tokens) |-> Added(Fresh(own[c]))]
            BY <2>2, <3>0, Zenon DEF Room
        <3> DEFINE more == [c \in 1 .. Len(tokens) |-> Added(Fresh(own[c]))]
        <3>2. \A c \in 1 .. Len(tokens) :
                 more[c] \in Cells /\ ~more[c].ownstr /\ more[c].kind = "unwritten"
            BY CellTypes
        <3>3. more \in Seq(Cells) /\ Len(more) = Len(tokens)
            <4> HIDE DEF Added, Fresh, Cells
            <4>1. more \in [1 .. Len(tokens) -> Cells]
                BY <3>2
            <4> QED
                BY <4>1, <1>1, LenProperties
        <3> HIDE DEF more
        <3>4. list = tokens \o more
            BY <3>1 DEF more
        <3>5. /\ list \in Seq(Cells) /\ Len(list) = Len(tokens) + Len(tokens)
              /\ \A c \in 1 .. Len(tokens) + Len(tokens) :
                    list[c] = IF c <= Len(tokens) THEN tokens[c] ELSE more[c - Len(tokens)]
            <4>1. /\ tokens \o more \in Seq(Cells)
                  /\ Len(tokens \o more) = Len(tokens) + Len(more)
                  /\ \A c \in 1 .. Len(tokens) + Len(more) :
                        (tokens \o more)[c]
                           = IF c <= Len(tokens) THEN tokens[c] ELSE more[c - Len(tokens)]
                BY <3>3, <1>1, ConcatProperties
            <4> QED
                BY <4>1, <3>3, <3>4, Zenon
        <3>6. token_index = Len(tokens)
            BY <2>2, <1>1 DEF Full
        <3>7. /\ token_index < Len(list) /\ Len(list) = 2 * Len(tokens)
              /\ \A c \in 1 .. token_index : list[c] = tokens[c]
            BY <3>5, <3>6, <1>1
        <3>8. \A c \in 1 .. Len(list) : c > token_index =>
                 ~list[c].ownstr /\ list[c].kind = "unwritten"
            <4> SUFFICES ASSUME NEW c \in 1 .. Len(list), c > token_index
                         PROVE  ~list[c].ownstr /\ list[c].kind = "unwritten"
                OBVIOUS
            <4>1. list[c] = more[c - Len(tokens)] /\ c - Len(tokens) \in 1 .. Len(tokens)
                BY <3>5, <3>6, <1>1
            <4> QED
                BY <4>1, <3>2
        <3>9. list \in Seq(Cells) /\ Len(list) \in Nat
            BY <3>5, <1>1
        <3> QED
            BY <2>2, <3>6, <3>7, <3>8, <3>9, Zenon
    <2> QED
        BY <2>1, <2>2
<1>3. CASE \E list \in Room : /\ tokens' = [list EXCEPT ![token_index + 1] = token]
                              /\ token_index' = token_index + 1 /\ pc' = pc
    <2>1. PICK list \in Room : tokens' = [list EXCEPT ![token_index + 1] = token]
        BY <1>3
    <2>2. tokens' \in Seq(Cells) /\ Len(tokens') = Len(list)
        BY <2>1, <1>1, <1>2, ExceptSeq
    <2>3. \A c \in 1 .. Len(list) :
             tokens'[c] = IF c = token_index + 1 THEN token ELSE list[c]
        BY <2>1, <1>2, ExceptSeq
    <2>4. /\ nb_tokens' = Len(tokens')
          /\ \/ Len(tokens') = Len(tokens)
             \/ Len(tokens') = 2 * Len(tokens) /\ token_index = Len(tokens)
        BY <1>1, <1>2, <2>2 DEF AddToken, Doubled
    <2> QED
        BY <1>1, <1>2, <1>3, <2>2, <2>3, <2>4
<1>4. CASE Full /\ pc' = "wild" /\ tokens' = tokens /\ token_index' = token_index
    BY <1>4, <1>1 DEF Full, AddToken, Doubled
<1> QED
    BY <1>3, <1>4 DEF AddToken

\* The number and the cells keep together when a token is added.
LEMMA CountedStep ==
    ASSUME Inv, pc = "lex", NEW token \in Cells, AddToken(token)
    PROVE  CellsCounted'
<1>1. /\ tokens \in Seq(Cells) /\ token_index \in 0 .. Len(tokens) /\ Len(tokens) \in Nat
      /\ Len(tokens) > 0 /\ nb_tokens = Len(tokens)
    BY CellsBefore
<1>2. /\ \E k \in 0 .. token_index : Len(tokens) = InitialCells * 2 ^ k
      /\ Len(tokens) = InitialCells \/ Len(tokens) < 2 * token_index
    BY DEF Inv, CellsCounted
<1>3. CASE pc' = "wild" /\ token_index = Len(tokens) /\ tokens' = tokens
           /\ token_index' = token_index /\ nb_tokens' = 2 * Len(tokens)
    BY <1>2, <1>3 DEF CellsCounted
<1>4. CASE token_index' = token_index + 1 /\ pc' = pc /\ nb_tokens' = Len(tokens')
           /\ \/ Len(tokens') = Len(tokens)
              \/ Len(tokens') = 2 * Len(tokens) /\ token_index = Len(tokens)
    <2>1. PICK k \in 0 .. token_index : Len(tokens) = InitialCells * 2 ^ k
        BY <1>2
    <2>2. k \in 0 .. token_index' /\ k + 1 \in 0 .. token_index' /\ k \in Nat
        BY <1>1, <1>4, <2>1
    <2>3. Len(tokens') = InitialCells * 2 ^ k \/ Len(tokens') = InitialCells * 2 ^ (k + 1)
        <3>1. 2 ^ k \in Nat /\ 2 ^ (k + 1) = 2 * 2 ^ k
            BY <2>2, TwoExp
        <3>2. 2 * (InitialCells * 2 ^ k) = InitialCells * (2 * 2 ^ k)
            BY <3>1, CellsAssumption
        <3>3. Len(tokens') = 2 * Len(tokens) => Len(tokens') = InitialCells * 2 ^ (k + 1)
            BY <2>1, <3>1, <3>2, Zenon
        <3> QED
            BY <1>4, <2>1, <3>3, Zenon
    <2>4. \E n \in 0 .. token_index' : Len(tokens') = InitialCells * 2 ^ n
        BY <2>2, <2>3, Zenon
    <2>5. Len(tokens') = InitialCells \/ Len(tokens') < 2 * token_index'
        BY <1>1, <1>2, <1>4
    <2> QED
        BY <1>4, <2>4, <2>5 DEF CellsCounted
<1> QED
    BY <1>3, <1>4, AddTokenEffect

-----------------------------------------------------------------------------
LEMMA AdvanceEffect ==
    ASSUME TypeOK, pos < Len(text), Advance, text' = text
    PROVE  /\ pos \in Nat /\ pos' = pos + 1 /\ pos' \in 0 .. Len(text')
           /\ nb_instructions' \in 1 .. pos' + 1
<1>1. Len(text) \in Nat
    BY LenProperties DEF TypeOK, IsText
<1>2. nb_instructions' = nb_instructions \/ nb_instructions' = nb_instructions + 1
    BY DEF Advance
<1> QED
    BY <1>1, <1>2 DEF TypeOK, Advance

\* Read and TokenOf only look at the text.
LEMMA ReadSame ==
    ASSUME text' = text
    PROVE  \A p : Read(p)' = Read(p) /\ Count(p)' = Count(p) /\ TokenOf(p)' = TokenOf(p)
BY DEF Read, Count, TokenOf

\* While the lexer works, the strings allocated are those owned.
LEMMA OwnersBefore ==
    ASSUME OneOwner, pc \in {"lex", "done"}
    PROVE  /\ strings = {tokens[c].value : c \in Owning}
           /\ \A c \in Owning : c <= token_index
           /\ \A c, d \in Owning : tokens[c].value = tokens[d].value => c = d
<1>1. Unplaced = {} /\ pc # "freed"
    BY DEF Unplaced
<1> QED
    BY <1>1 DEF OneOwner

(***************************************************************************)
(* A lexeme that becomes a token keeps the invariant.                      *)
(***************************************************************************)
LEMMA TokenStep ==
    ASSUME Inv, pc = "lex", pos < Len(text), IsToken(Here), text' = text, Advance,
           NEW token \in Cells, token = TokenOf(pos), AddToken(token),
           token.ownstr => strings' = strings \cup {pos} /\ token.value = pos,
           ~token.ownstr => strings' = strings
    PROVE  Inv'
<1>1. /\ TypeOK /\ Len(tokens) > 0 /\ OwnersOld /\ OneOwner /\ Len(text) \in Nat
      /\ IsText(text) /\ tokens \in Seq(Cells) /\ Len(tokens) \in Nat
      /\ token_index \in 0 .. Len(tokens) /\ pos \in Nat
      /\ token_index = Count(pos) /\ KeptAt(tokens, pos)
    <2>1. /\ TypeOK /\ Len(tokens) > 0 /\ OwnersOld /\ OneOwner /\ Len(text) \in Nat
          /\ IsText(text) /\ tokens \in Seq(Cells) /\ Len(tokens) \in Nat
          /\ token_index \in 0 .. Len(tokens) /\ pos \in Nat
        BY LenProperties DEF Inv, TypeOK, IsText
    <2>2. TokensKept
        BY DEF Inv
    <2> QED
        BY <2>1, <2>2, KeptByCounts
<1>2. pos' = pos + 1 /\ pos' \in 0 .. Len(text') /\ nb_instructions' \in 1 .. pos' + 1
    BY <1>1, AdvanceEffect
<1>3. strings \subseteq strings' /\ strings' \subseteq 0 .. Len(text)
    BY <1>1 DEF TypeOK
<1>o. /\ strings = {tokens[c].value : c \in Owning}
      /\ \A c \in Owning : c <= token_index
      /\ \A c, d \in Owning : tokens[c].value = tokens[d].value => c = d
    BY <1>1, OwnersBefore
<1>v. \A c \in Owning : tokens[c].value \in Nat /\ tokens[c].value < pos
    <2> SUFFICES ASSUME NEW c \in Owning
                 PROVE  tokens[c].value \in Nat /\ tokens[c].value < pos
        OBVIOUS
    <2>1. tokens[c] \in Cells
        BY <1>1, ElementOfSeq DEF Owning
    <2> QED
        BY <2>1, <1>1 DEF OwnersOld, Cells
<1>c. CellsCounted'
    BY CountedStep
<1>4. CASE /\ tokens' \in Seq(Cells) /\ Len(tokens') > 0
           /\ token_index' = token_index + 1 /\ token_index + 1 <= Len(tokens')
           /\ tokens'[token_index + 1] = token
           /\ \A c \in 1 .. token_index : tokens'[c] = tokens[c]
           /\ \A c \in 1 .. Len(tokens') : c > token_index + 1 => ~tokens'[c].ownstr
           /\ pc' = pc /\ nb_tokens' = Len(tokens')
    <2>0. Len(tokens') \in Nat
        BY <1>4, LenProperties
    <2>1. TypeOK'
        BY <1>1, <1>2, <1>3, <1>4, <2>0 DEF TypeOK
    <2>2. TokensKept'
        <3>1. Read(pos + 1) = Read(pos) \cup {pos} /\ Count(pos + 1) = token_index + 1
            BY <1>1, CountStep DEF Here
        <3>2. \A n \in Read(pos + 1) : tokens'[Count(n + 1)] = TokenOf(n)
            <4> SUFFICES ASSUME NEW n \in Read(pos + 1)
                         PROVE  tokens'[Count(n + 1)] = TokenOf(n)
                OBVIOUS
            <4>1. CASE n = pos
                BY <4>1, <3>1, <1>4
            <4>2. CASE n \in Read(pos)
                <5>1. Count(n + 1) \in 1 .. token_index
                    BY <4>2, <1>1, CountInside
                <5> QED
                    BY <4>2, <5>1, <1>1, <1>4 DEF KeptAt
            <4> QED
                BY <4>1, <4>2, <3>1
        <3>3. KeptAt(tokens, pos)'
            BY <3>2, <1>2, ReadSame DEF KeptAt
        <3>4. (token_index = Count(pos))' /\ (token_index <= Len(tokens))'
            BY <3>1, <1>2, <1>4, ReadSame
        <3>5. (pos \in Nat)'
            BY <1>1, <1>2
        <3> QED
            BY <3>3, <3>4, <3>5, KeptByCounts, PTL
    <2>3. \A c \in Owning : /\ c \in Owning' /\ c \in 1 .. token_index
                            /\ tokens'[c] = tokens[c]
        <3> SUFFICES ASSUME NEW c \in Owning
                     PROVE  c \in Owning' /\ c \in 1 .. token_index /\ tokens'[c] = tokens[c]
            OBVIOUS
        <3>1. c \in 1 .. Len(tokens) /\ tokens[c].ownstr /\ c <= token_index
            BY <1>o DEF Owning
        <3>2. c \in 1 .. token_index /\ c \in 1 .. Len(tokens')
            BY <3>1, <1>1, <1>4, <2>0
        <3> QED
            BY <3>1, <3>2, <1>4 DEF Owning
    <2>4. Owning' = Owning \cup {c \in {token_index + 1} : token.ownstr}
        <3>1. ASSUME NEW c \in Owning'
              PROVE  c \in Owning \/ (c = token_index + 1 /\ token.ownstr)
            <4>1. c \in 1 .. Len(tokens') /\ tokens'[c].ownstr /\ c <= token_index + 1
                BY <3>1, <1>1, <1>4, <2>0 DEF Owning
            <4>2. CASE c = token_index + 1
                BY <4>1, <4>2, <1>4
            <4>3. CASE c <= token_index
                <5>1. c \in 1 .. token_index /\ c \in 1 .. Len(tokens)
                    BY <4>1, <4>3, <1>1
                <5> QED
                    BY <4>1, <5>1, <1>4 DEF Owning
            <4> QED
                BY <4>1, <4>2, <4>3, <1>1
        <3>2. token.ownstr => token_index + 1 \in Owning'
            <4>1. token_index + 1 \in 1 .. Len(tokens')
                BY <1>1, <1>4, <2>0
            <4> QED
                BY <4>1, <1>4 DEF Owning
        <3> QED
            BY <3>1, <3>2, <2>3
    <2>5. token.ownstr => token.value = pos /\ token.value \notin strings /\ pos \in Nat
        BY <1>1, <1>o, <1>v
    <2>6. /\ \A c \in Owning' : c <= token_index'
          /\ \A c \in Owning' : tokens'[c].value < pos'
        <3> SUFFICES ASSUME NEW c \in Owning'
                     PROVE  c <= token_index' /\ tokens'[c].value < pos'
            OBVIOUS
        <3>1. CASE c \in Owning
            BY <3>1, <2>3, <1>v, <1>1, <1>2, <1>4
        <3>2. CASE c = token_index + 1 /\ token.ownstr
            BY <3>2, <2>5, <1>1, <1>2, <1>4
        <3> QED
            BY <3>1, <3>2, <2>4
    <2>7. \A c, d \in Owning' : tokens'[c].value = tokens'[d].value => c = d
        <3> SUFFICES ASSUME NEW c \in Owning', NEW d \in Owning',
                            tokens'[c].value = tokens'[d].value
                     PROVE  c = d
            OBVIOUS
        <3>1. \A e \in Owning' : \/ e \in Owning /\ tokens'[e].value \in strings
                                       /\ tokens'[e] = tokens[e]
                                 \/ e = token_index + 1 /\ tokens'[e].value \notin strings
            <4> SUFFICES ASSUME NEW e \in Owning'
                         PROVE  \/ e \in Owning /\ tokens'[e].value \in strings
                                      /\ tokens'[e] = tokens[e]
                                \/ e = token_index + 1 /\ tokens'[e].value \notin strings
                OBVIOUS
            <4>1. CASE e \in Owning
                BY <4>1, <2>3, <1>o
            <4>2. CASE e = token_index + 1 /\ token.ownstr
                BY <4>2, <2>5, <1>4
            <4> QED
                BY <4>1, <4>2, <2>4
        <3> QED
            BY <3>1, <1>o
    <2>8. strings' = {tokens'[c].value : c \in Owning'}
        <3>1. {tokens'[c].value : c \in Owning} = strings
            BY <2>3, <1>o
        <3>2. CASE token.ownstr
            <4>1. strings' = strings \cup {pos} /\ tokens'[token_index + 1].value = pos
                BY <3>2, <1>4
            <4>2. Owning' = Owning \cup {token_index + 1}
                BY <3>2, <2>4
            <4> QED
                BY <3>1, <4>1, <4>2, Zenon
        <3>3. CASE ~token.ownstr
            <4>1. strings' = strings /\ Owning' = Owning
                BY <3>3, <2>4
            <4> QED
                BY <3>1, <4>1
        <3> QED
            BY <3>2, <3>3
    <2>9. OneOwner'
        <3>1. Unplaced' = {} /\ pc' # "freed"
            BY <1>4 DEF Unplaced
        <3> QED
            BY <2>6, <2>7, <2>8, <3>1 DEF OneOwner
    <2> QED
        BY <1>4, <1>c, <2>1, <2>2, <2>6, <2>9 DEF Inv, OwnersOld
<1>5. CASE pc' = "wild" /\ token_index = Len(tokens) /\ tokens' = tokens
           /\ token_index' = token_index /\ nb_tokens' = 2 * Len(tokens)
    <2>1. TypeOK'
        BY <1>1, <1>2, <1>3, <1>5 DEF TypeOK
    <2>2. TokensKept'
        BY <1>5 DEF TokensKept
    <2>3. Owning' = Owning /\ Unplaced' = {pos} /\ pos \notin strings
        BY <1>1, <1>2, <1>5, <1>o, <1>v DEF Owning, Unplaced
    <2>4. strings' \ {pos} = strings
        BY <2>3
    <2>5. OneOwner'
        BY <1>5, <1>o, <2>3, <2>4 DEF OneOwner
    <2> QED
        BY <1>1, <1>5, <1>c, <2>1, <2>2, <2>5 DEF Inv
<1> QED
    BY <1>4, <1>5, AddTokenEffect

-----------------------------------------------------------------------------
LEMMA InvEntered ==
    ASSUME IsText(text), Entry
    PROVE  Inv
<1>1. /\ Len(text) \in Nat /\ pos = 0 /\ token_index = 0 /\ nb_tokens = InitialCells
      /\ nb_instructions = 1 /\ strings = {} /\ pc = "lex"
    BY LenProperties DEF Entry, IsText
<1>2. tokens \in Seq(Cells) /\ Len(tokens) = InitialCells /\ Len(tokens) \in Nat \ {0}
      /\ \A c \in 1 .. Len(tokens) : ~tokens[c].ownstr
    <2>1. tokens \in [1 .. InitialCells -> Cells] /\ InitialCells \in Nat
        BY CellTypes, CellsAssumption DEF Entry
    <2>2. tokens \in Seq(Cells) /\ Len(tokens) = InitialCells
        BY <2>1, LenProperties
    <2> QED
        BY <2>2, CellTypes, CellsAssumption DEF Entry
<1>3. TypeOK
    BY <1>1, <1>2, CellsAssumption DEF TypeOK
<1>4. TokensKept
    <2>1. KeptAt(tokens, 0)
        BY CountZero DEF KeptAt
    <2> QED
        BY <1>1, <1>2, <2>1, CountZero, KeptByCounts
<1>5. OneOwner /\ OwnersOld
    <2>1. Owning = {} /\ Unplaced = {}
        BY <1>1, <1>2 DEF Owning, Unplaced
    <2> QED
        BY <1>1, <2>1 DEF OneOwner, OwnersOld
<1>6. CellsCounted
    <2>1. nb_tokens = InitialCells
        BY DEF Entry
    <2>2. InitialCells = InitialCells * 2 ^ 0
        BY CellsAssumption
    <2>3. 0 \in 0 .. token_index
        BY <1>1
    <2>4. \E k \in 0 .. token_index : Len(tokens) = InitialCells * 2 ^ k
        BY <1>2, <2>2, <2>3, Zenon
    <2> QED
        BY <1>1, <1>2, <2>1, <2>4 DEF CellsCounted
<1> QED
    BY <1>2, <1>3, <1>4, <1>5, <1>6 DEF Inv

LEMMA InitInv == Init => Inv
BY InvEntered, TextsAssumption DEF Init

\* The lexeme at work is one the lexer knows.
LEMMA HereIsLexeme ==
    ASSUME TypeOK, pos < Len(text)
    PROVE  Here \in Lexemes /\ pos \in Nat
<1>1. text \in Seq(Lexemes) /\ pos \in 0 .. Len(text) /\ Len(text) \in Nat
    BY LenProperties DEF TypeOK, IsText
<1> QED
    BY <1>1, ElementOfSeq DEF Here

\* What the lexer adds for a lexeme is the token the lexeme stands for.
LEMMA TokenHere ==
    /\ Here.class = "char" => IsToken(Here) /\ TokenOf(pos) = Token(Punctuation[Here.char], 0, FALSE)
    /\ Here.class = "number" => IsToken(Here) /\ TokenOf(pos) = Token("TK_IMMEDIATE", Here.number, FALSE)
    /\ Here.class = "word" => IsToken(Here) /\ TokenOf(pos) = WordToken
<1>1. ASSUME Here.class = "char"
      PROVE  TokenOf(pos) = Token(Punctuation[Here.char], 0, FALSE)
    BY <1>1 DEF TokenOf, Here
<1>2. ASSUME Here.class = "number"
      PROVE  TokenOf(pos) = Token("TK_IMMEDIATE", Here.number, FALSE)
    BY <1>2 DEF TokenOf, Here
<1>3. ASSUME Here.class = "word"
      PROVE  TokenOf(pos) = WordToken
    BY <1>3 DEF TokenOf, Here, WordToken
<1> QED
    BY <1>1, <1>2, <1>3 DEF IsToken

LEMMA StepInv == Inv /\ [Next]_vars => Inv'
<1> SUFFICES ASSUME Inv, [Next]_vars
             PROVE  Inv'
    OBVIOUS
<1>1. TypeOK /\ Len(tokens) > 0 /\ CellsCounted /\ TokensKept /\ OneOwner
    BY DEF Inv
<1>2. ASSUME NEW class \in {"blank", "newline", "unknown"}, Skip(class)
      PROVE  Inv'
    <2>1. /\ pc = "lex" /\ pos < Len(text) /\ Here.class = class /\ Advance
          /\ text' = text /\ tokens' = tokens /\ token_index' = token_index
          /\ nb_tokens' = nb_tokens /\ strings' = strings /\ pc' = pc
        BY <1>2 DEF Skip, At
    <2>2. pos \in Nat /\ pos' = pos + 1 /\ pos' \in 0 .. Len(text')
          /\ nb_instructions' \in 1 .. pos' + 1
        BY <1>1, <2>1, AdvanceEffect
    <2>3. TypeOK'
        BY <1>1, <2>1, <2>2 DEF TypeOK
    <2>4. TokensKept'
        <3>1. Read(pos + 1) = Read(pos) /\ Count(pos + 1) = Count(pos)
            BY <1>2, <2>1, <2>2, CountStep DEF IsToken, Here
        <3>2. /\ token_index = Count(pos) /\ token_index <= Len(tokens)
              /\ KeptAt(tokens, pos)
            BY <1>1, <2>1, <2>2, KeptByCounts
        <3>3. (token_index = Count(pos))' /\ (token_index <= Len(tokens))'
            BY <2>1, <2>2, <3>1, <3>2, ReadSame
        <3>4. KeptAt(tokens, pos)'
            BY <2>1, <2>2, <3>1, <3>2, ReadSame DEF KeptAt
        <3>5. (pos \in Nat)'
            BY <2>2
        <3> QED
            BY <3>3, <3>4, <3>5, KeptByCounts, PTL
    <2>5. OneOwner' /\ OwnersOld' /\ CellsCounted'
        <3>1. Owning' = Owning /\ Unplaced = {} /\ Unplaced' = {}
            BY <2>1 DEF Owning, Unplaced
        <3>2. \A c \in Owning : tokens[c].value \in Nat /\ tokens[c].value < pos
            <4> SUFFICES ASSUME NEW c \in Owning
                         PROVE  tokens[c].value \in Nat /\ tokens[c].value < pos
                OBVIOUS
            <4>1. tokens[c] \in Cells
                BY <1>1, ElementOfSeq DEF TypeOK, Owning
            <4> QED
                BY <4>1, <2>1 DEF Inv, OwnersOld, Cells
        <3>3. OwnersOld'
            BY <3>1, <3>2, <2>1, <2>2 DEF OwnersOld
        <3>4. CellsCounted'
            BY <1>1, <2>1 DEF CellsCounted
        <3> QED
            BY <1>1, <2>1, <3>1, <3>3, <3>4 DEF OneOwner
    <2> QED
        BY <1>1, <2>1, <2>3, <2>4, <2>5 DEF Inv
<1>3. CASE AddChar
    <2> DEFINE token == Token(Punctuation[Here.char], 0, FALSE)
    <2>1. /\ pc = "lex" /\ pos < Len(text) /\ Here.class = "char"
          /\ AddToken(token) /\ Advance /\ text' = text /\ strings' = strings
        BY <1>3 DEF AddChar, At
    <2>2. Here \in Lexemes
        BY <1>1, <2>1, HereIsLexeme
    <2>3. Here.char \in DOMAIN Punctuation
        BY <2>1, <2>2 DEF Lexemes
    <2>4. token \in Cells /\ ~token.ownstr
        BY <2>3, PunctuationKinds, CellTypes
    <2>5. IsToken(Here) /\ token = TokenOf(pos)
        BY <2>1, TokenHere
    <2> HIDE DEF token
    <2> QED
        BY <2>1, <2>4, <2>5, TokenStep
<1>4. CASE AddInteger
    <2> DEFINE token == Token("TK_IMMEDIATE", Here.number, FALSE)
    <2>1. /\ pc = "lex" /\ pos < Len(text) /\ Here.class = "number"
          /\ AddToken(token) /\ Advance /\ text' = text /\ strings' = strings
        BY <1>4 DEF AddInteger, At
    <2>2. Here \in Lexemes
        BY <1>1, <2>1, HereIsLexeme
    <2>3. Here.number \in Nat
        BY <2>1, <2>2 DEF Lexemes
    <2>4. token \in Cells /\ ~token.ownstr
        <3>1. "TK_IMMEDIATE" \in Kinds
            <4>1. KindOrder[32] = "TK_IMMEDIATE"
                BY DEF KindOrder
            <4> QED
                BY <4>1, KindCount DEF Kinds
        <3> QED
            BY <2>3, <3>1, CellTypes
    <2>5. IsToken(Here) /\ token = TokenOf(pos)
        BY <2>1, TokenHere
    <2> HIDE DEF token
    <2> QED
        BY <2>1, <2>4, <2>5, TokenStep
<1>5. CASE AddKeyword
    <2>1. /\ pc = "lex" /\ pos < Len(text) /\ Here.class = "word"
          /\ Here.word \in DOMAIN Keyword /\ AddToken(WordToken) /\ Advance
          /\ text' = text /\ strings' = strings \cup {pos}
        BY <1>5 DEF AddKeyword, At
    <2>2. pos \in Nat
        BY <1>1, <2>1, HereIsLexeme
    <2>3. WordToken \in Cells /\ WordToken.ownstr /\ WordToken.value = pos
        BY <2>1, <2>2, KeywordKinds, CellTypes DEF WordToken
    <2>4. IsToken(Here) /\ WordToken = TokenOf(pos)
        BY <2>1, TokenHere
    <2> QED
        BY <2>1, <2>3, <2>4, TokenStep
<1>6. CASE RejectWord
    <2>1. /\ pc = "lex" /\ pos < Len(text) /\ strings' = strings \cup {pos} /\ pc' = "exit"
          /\ text' = text /\ pos' = pos /\ tokens' = tokens /\ token_index' = token_index
          /\ nb_tokens' = nb_tokens /\ nb_instructions' = nb_instructions
        BY <1>6 DEF RejectWord, At
    <2>2. TypeOK' /\ CellsCounted'
        BY <1>1, <2>1 DEF TypeOK, CellsCounted
    <2>3. TokensKept'
        BY <1>1, <2>1 DEF TokensKept, TokenOf
    <2>4. OneOwner'
        <3>1. /\ strings = {tokens[c].value : c \in Owning}
              /\ \A c \in Owning : c <= token_index
              /\ \A c, d \in Owning : tokens[c].value = tokens[d].value => c = d
            BY <1>1, <2>1, OwnersBefore
        <3>2. Owning' = Owning /\ Unplaced' = {pos}
            BY <2>1 DEF Owning, Unplaced
        <3>3. pos \notin strings
            <4> SUFFICES ASSUME NEW c \in Owning, tokens[c].value = pos
                         PROVE  FALSE
                BY <3>1
            <4>1. pos < pos /\ pos \in Nat
                BY <1>1, <2>1 DEF Inv, OwnersOld, TypeOK
            <4> QED
                BY <4>1
        <3>4. strings' \ {pos} = strings
            BY <2>1, <3>3
        <3> QED
            BY <2>1, <3>1, <3>2, <3>4 DEF OneOwner
    <2> QED
        BY <1>1, <2>1, <2>2, <2>3, <2>4 DEF Inv
<1>7. CASE Return
    <2>1. /\ pc = "lex" /\ pc' = "done" /\ text' = text /\ pos' = pos /\ tokens' = tokens
          /\ token_index' = token_index /\ nb_instructions' = nb_instructions
          /\ nb_tokens' = nb_tokens /\ strings' = strings
        BY <1>7 DEF Return
    <2>2. TypeOK' /\ OwnersOld' /\ CellsCounted'
        BY <1>1, <2>1 DEF TypeOK, OwnersOld, Owning, CellsCounted, Inv
    <2>3. TokensKept'
        BY <1>1, <2>1 DEF TokensKept, TokenOf
    <2>4. OneOwner'
        BY <1>1, <2>1 DEF OneOwner, Owning, Unplaced
    <2> QED
        BY <1>1, <2>1, <2>2, <2>3, <2>4 DEF Inv
<1>8. CASE FreeTokens
    <2>1. /\ pc = "done" /\ pc' = "freed" /\ text' = text /\ pos' = pos /\ tokens' = tokens
          /\ token_index' = token_index /\ nb_instructions' = nb_instructions
          /\ nb_tokens' = nb_tokens /\ strings' = strings \ {tokens[c].value : c \in Owners}
        BY <1>8 DEF FreeTokens
    <2>2. TypeOK' /\ CellsCounted'
        BY <1>1, <2>1 DEF TypeOK, CellsCounted
    <2>3. TokensKept'
        BY <1>1, <2>1 DEF TokensKept, TokenOf
    <2>4. OneOwner'
        <3>1. Owners = Owning
            BY <1>1, <2>1 DEF Owners, Owning, CellsCounted
        <3>2. strings' = {}
            BY <1>1, <2>1, <3>1, OwnersBefore
        <3> QED
            BY <1>1, <2>1, <3>2 DEF OneOwner, Owning, Unplaced
    <2> QED
        BY <1>1, <2>1, <2>2, <2>3, <2>4 DEF Inv
<1>9. CASE UNCHANGED vars
    <2>1. /\ pc' = pc /\ text' = text /\ pos' = pos /\ tokens' = tokens
          /\ token_index' = token_index /\ nb_instructions' = nb_instructions
          /\ nb_tokens' = nb_tokens /\ strings' = strings
        BY <1>9 DEF vars
    <2>2. TypeOK' /\ CellsCounted' /\ TokensKept'
        BY <1>1, <2>1 DEF TypeOK, CellsCounted, TokensKept, TokenOf
    <2>3. OneOwner' /\ OwnersOld' = OwnersOld
        BY <1>1, <2>1 DEF OneOwner, OwnersOld, Owning, Unplaced
    <2> QED
        BY <1>1, <2>1, <2>2, <2>3 DEF Inv
<1> QED
    BY <1>2, <1>3, <1>4, <1>5, <1>6, <1>7, <1>8, <1>9
       DEF Next, Lex, SkipBlank, SkipUnknown

-----------------------------------------------------------------------------
LEMMA Invariance == Spec => []Inv
<1>1. Spec => Init /\ [][Next]_vars
    BY DEF Spec
<1> QED
    BY <1>1, InitInv, StepInv, PTL

(***************************************************************************)
(* On every text the lexer's state has its type, and token_index never     *)
(* passes the cells of the array.                                          *)
(***************************************************************************)
THEOREM TypeCorrect == Spec => []TypeOK
<1>1. Inv => TypeOK
    BY DEF Inv
<1> QED
    BY <1>1, Invariance, PTL

(***************************************************************************)
(* On every text and from every size of a new list, nb_tokens is the       *)
(* number of cells allocated, but for a realloc that failed, where it is   *)
(* twice that number; the cells are those of init_token_list doubled, and  *)
(* the last doubling was needed.                                           *)
(***************************************************************************)
THEOREM NumberIsThatOfTheCells == Spec => []CellsCounted
<1>1. Inv => CellsCounted
    BY DEF Inv
<1> QED
    BY <1>1, Invariance, PTL

(***************************************************************************)
(* On every text, through every growth, the cells below token_index are    *)
(* the tokens of the text read so far, in order.                           *)
(***************************************************************************)
THEOREM NoTokenLost == Spec => []TokensKept
<1>1. Inv => TokensKept
    BY DEF Inv
<1> QED
    BY <1>1, Invariance, PTL

(***************************************************************************)
(* At every step, each cell that claims a string was written and no other  *)
(* cell claims that string, whatever realloc left in the cells it added;   *)
(* and the strings allocated are those claimed, none once they are freed,  *)
(* with one more at most when the lexer gave up: the word it refused, or   *)
(* the one realloc failed for.                                             *)
(***************************************************************************)
THEOREM StringsOwned == Spec => []OneOwner
<1>1. Inv => OneOwner
    BY DEF Inv
<1> QED
    BY <1>1, Invariance, PTL

-----------------------------------------------------------------------------
(***************************************************************************)
(* What the parser gets from a lexer that is done: it has come to the end  *)
(* of the text, and behind the tokens there are only cells as calloc or    *)
(* realloc left them.                                                      *)
(***************************************************************************)
RestBlank == \A c \in 1 .. Len(tokens) : c > token_index => tokens[c].kind \in {Zeroed.kind, "unwritten"}

Handed ==
    /\ RestBlank
    /\ pc \in {"done", "freed"} => pos = Len(text)

LEMMA TokenHanded ==
    ASSUME Inv, RestBlank, pc = "lex", NEW token \in Cells, AddToken(token)
    PROVE  RestBlank' /\ pc' \notin {"done", "freed"}
<1>1. tokens \in Seq(Cells) /\ token_index \in 0 .. Len(tokens) /\ Len(tokens) \in Nat
    BY LenProperties DEF Inv, TypeOK
<1>2. CASE /\ tokens' \in Seq(Cells)
           /\ token_index' = token_index + 1
           /\ \A c \in 1 .. Len(tokens') : c > token_index + 1 =>
                 tokens'[c].kind = "unwritten" \/ (c <= Len(tokens) /\ tokens'[c] = tokens[c])
           /\ pc' = pc
    <2>1. Len(tokens') \in Nat
        BY <1>2, LenProperties
    <2>2. RestBlank'
        <3> SUFFICES ASSUME NEW c \in 1 .. Len(tokens'), c > token_index'
                     PROVE  tokens'[c].kind \in {Zeroed.kind, "unwritten"}
            BY DEF RestBlank
        <3>1. c > token_index + 1 /\ c > token_index
            BY <1>1, <1>2
        <3>2. tokens'[c].kind = "unwritten" \/ (c <= Len(tokens) /\ tokens'[c] = tokens[c])
            BY <1>2, <3>1
        <3>3. c <= Len(tokens) => c \in 1 .. Len(tokens)
            BY <1>1, <2>1
        <3> QED
            BY <3>1, <3>2, <3>3 DEF RestBlank
    <2> QED
        BY <1>2, <2>2
<1>3. CASE pc' = "wild" /\ tokens' = tokens /\ token_index' = token_index
    BY <1>3 DEF RestBlank
<1> QED
    BY <1>2, <1>3, AddTokenEffect

LEMMA HandedEntered == Entry => Handed
<1> SUFFICES ASSUME Entry PROVE Handed
    OBVIOUS
<1>1. /\ tokens = [c \in 1 .. InitialCells |-> Zeroed] /\ Len(tokens) = InitialCells
      /\ pc = "lex"
    BY CellsAssumption DEF Entry
<1> QED
    BY <1>1 DEF Handed, RestBlank

LEMMA HandedInit == Init => Handed
BY HandedEntered DEF Init

LEMMA HandedStep == Inv /\ Handed /\ [Next]_vars => Handed'
<1> SUFFICES ASSUME Inv, Handed, [Next]_vars
             PROVE  Handed'
    OBVIOUS
<1>1. TypeOK /\ RestBlank
    BY DEF Inv, Handed
<1>2. ASSUME NEW class \in {"blank", "newline", "unknown"}, Skip(class)
      PROVE  Handed'
    BY <1>1, <1>2 DEF Skip, At, Handed, RestBlank
<1>3. CASE AddChar
    <2> DEFINE token == Token(Punctuation[Here.char], 0, FALSE)
    <2>1. /\ pc = "lex" /\ pos < Len(text) /\ Here.class = "char"
          /\ AddToken(token) /\ text' = text /\ strings' = strings
        BY <1>3 DEF AddChar, At
    <2>2. token \in Cells
        BY <1>1, <2>1, HereIsLexeme, PunctuationKinds, CellTypes DEF Lexemes
    <2> HIDE DEF token
    <2> QED
        BY <1>1, <2>1, <2>2, TokenHanded DEF Handed
<1>4. CASE AddInteger
    <2> DEFINE token == Token("TK_IMMEDIATE", Here.number, FALSE)
    <2>1. /\ pc = "lex" /\ pos < Len(text) /\ Here.class = "number"
          /\ AddToken(token) /\ text' = text /\ strings' = strings
        BY <1>4 DEF AddInteger, At
    <2>2. "TK_IMMEDIATE" \in Kinds
        <3>1. KindOrder[32] = "TK_IMMEDIATE"
            BY DEF KindOrder
        <3> QED
            BY <3>1, KindCount DEF Kinds
    <2>3. token \in Cells
        BY <1>1, <2>1, <2>2, HereIsLexeme, CellTypes DEF Lexemes
    <2> HIDE DEF token
    <2> QED
        BY <1>1, <2>1, <2>3, TokenHanded DEF Handed
<1>5. CASE AddKeyword
    <2>1. /\ pc = "lex" /\ pos < Len(text) /\ Here.word \in DOMAIN Keyword
          /\ AddToken(WordToken) /\ text' = text /\ strings' = strings \cup {pos}
        BY <1>5 DEF AddKeyword, At
    <2>2. pos \in Nat
        BY <1>1, <2>1, HereIsLexeme
    <2>3. WordToken \in Cells /\ WordToken.ownstr /\ WordToken.value = pos
        BY <2>1, <2>2, KeywordKinds, CellTypes DEF WordToken
    <2> QED
        BY <1>1, <2>1, <2>3, TokenHanded DEF Handed
<1>6. CASE RejectWord
    BY <1>1, <1>6 DEF RejectWord, Handed, RestBlank
<1>7. CASE Return
    <2>1. pos = Len(text)
        BY <1>1, <1>7, LenProperties DEF Return, TypeOK, IsText
    <2> QED
        BY <1>1, <1>7, <2>1 DEF Return, At, Handed, RestBlank
<1>8. CASE FreeTokens
    BY <1>1, <1>8 DEF FreeTokens, Handed, RestBlank
<1>9. CASE UNCHANGED vars
    BY <1>9 DEF Handed, vars, RestBlank
<1> QED
    BY <1>2, <1>3, <1>4, <1>5, <1>6, <1>7, <1>8, <1>9
       DEF Next, Lex, SkipBlank, SkipUnknown

(***************************************************************************)
(* free_tokens_weeperVM leaves no string of the text allocated.            *)
(***************************************************************************)
THEOREM NothingLeaks == Spec => [](pc = "freed" => strings = {})
<1>1. Inv => (pc = "freed" => strings = {})
    BY DEF Inv, OneOwner, Unplaced
<1> QED
    BY <1>1, Invariance, PTL

\* A set of numbers that is not empty has a least one.
LEMMA NatHasLeast ==
    ASSUME NEW S \in SUBSET Nat, S # {}
    PROVE  \E m \in S : \A x \in S : m <= x
<1>1. \E m \in S : \A x \in S : ~ (<<x, m>> \in OpToRel(<, Nat))
    BY WFMin, NatLessThanWellFounded, Zenon
<1>2. \E m \in S : \A x \in S : ~ (x < m)
    BY <1>1, Zenon DEF OpToRel
<1> QED
    BY <1>2

\* Each cell up to the count is that of a token.
LEMMA EveryCell ==
    ASSUME NEW p \in Nat, NEW c \in 1 .. Count(p)
    PROVE  \E n \in Read(p) : Count(n + 1) = c
<1> DEFINE Enough == {n \in Nat : n <= p /\ c <= Count(n)}
<1>1. Count(0) = 0 /\ Count(p) \in Nat
    BY CountZero, ReadFinite
<1>2. p \in Enough /\ 0 \notin Enough
    BY <1>1
<1>3. PICK m \in Enough : \A x \in Enough : m <= x
    BY <1>2, NatHasLeast
<1>4. PICK n \in Nat : m = n + 1 /\ n < p /\ n \notin Enough
    <2>1. m \in Nat /\ m # 0 /\ m <= p
        BY <1>2, <1>3
    <2>2. m - 1 \in Nat /\ m = (m - 1) + 1 /\ m - 1 < p
        BY <2>1
    <2>3. m - 1 \notin Enough
        BY <1>3, <2>1
    <2> QED
        BY <2>2, <2>3
<1>5. Count(n) \in Nat /\ Count(n + 1) \in Nat /\ Count(n) < c /\ Count(n + 1) >= c
    BY <1>3, <1>4, ReadFinite
<1>6. IsToken(text[n + 1]) /\ Count(n + 1) = Count(n) + 1
    <2> HIDE DEF IsToken
    <2> QED
        BY <1>5, CountStep
<1>7. Count(n + 1) = c
    BY <1>5, <1>6
<1> QED
    BY <1>4, <1>6, <1>7 DEF Read

\* What lexer_weeperVM returns: a token in each cell for a lexeme of the text, and
\* blank cells behind them.
LEMMA Returned ==
    ASSUME Inv, Handed, pc = "done"
    PROVE  /\ tokens \in Seq(Cells) /\ Len(tokens) \in Nat /\ token_index \in 0 .. Len(tokens)
           /\ nb_instructions \in Nat /\ nb_instructions >= 1
           /\ Len(text) \in Nat /\ token_index = Count(Len(text))
           /\ \A c \in 1 .. token_index :
                 \E n \in Read(Len(text)) : c = Count(n + 1) /\ tokens[c] = TokenOf(n)
           /\ \A c \in token_index + 1 .. Len(tokens) : tokens[c].kind \in {"MN_MOV", "unwritten"}
<1>1. /\ tokens \in Seq(Cells) /\ Len(tokens) \in Nat /\ token_index \in 0 .. Len(tokens)
      /\ nb_instructions \in Nat /\ nb_instructions >= 1 /\ Len(text) \in Nat
    BY LenProperties DEF Inv, TypeOK, IsText
<1>2. pos = Len(text) /\ RestBlank
    BY DEF Handed
<1>3. token_index = Count(Len(text)) /\ KeptAt(tokens, Len(text))
    BY <1>1, <1>2, KeptByCounts DEF Inv
<1>4. ASSUME NEW c \in 1 .. token_index
      PROVE  \E n \in Read(Len(text)) : c = Count(n + 1) /\ tokens[c] = TokenOf(n)
    <2>1. PICK n \in Read(Len(text)) : Count(n + 1) = c
        BY <1>1, <1>3, EveryCell
    <2>2. tokens[Count(n + 1)] = TokenOf(n)
        BY <1>3 DEF KeptAt
    <2> QED
        BY <2>1, <2>2
<1>5. ASSUME NEW c \in token_index + 1 .. Len(tokens)
      PROVE  tokens[c].kind \in {"MN_MOV", "unwritten"}
    <2>1. c \in 1 .. Len(tokens) /\ c > token_index
        BY <1>1
    <2>2. Zeroed.kind = "MN_MOV"
        BY DEF Zeroed, Token, KindOrder
    <2> QED
        BY <1>2, <2>1, <2>2 DEF RestBlank
<1> QED
    BY <1>1, <1>3, <1>4, <1>5
=============================================================================
