---------------------------- MODULE ParserProofs ----------------------------
(***************************************************************************)
(* The theorems about parser_weeperVM, for every list of tokens and every  *)
(* count of instructions.                                                  *)
(***************************************************************************)
EXTENDS Parser, SequenceTheorems, FiniteSetTheorems, WellFoundedInduction, TLAPS

-----------------------------------------------------------------------------
(***************************************************************************)
(* The end of the tokens.  What the pending calls ask for, and never a     *)
(* mnemonic: where they meet one, the parser exits.                        *)
(***************************************************************************)
Asked == {"operand", "callee", "return", "OPE_REG", "OPE_MEM", "TK_COMMA", "TK_L_PARENTH",
          "TK_R_PARENTH", "TK_L_SQ_BRACKET", "TK_R_SQ_BRACKET"}

\* The parser has not come further than the cell behind the tokens, and it
\* has taken that one for the mnemonic of an instruction with operands.
BeforeEnd ==
    \/ token_index <= last
    \/ token_index = last + 1 /\ pc \in {"parse", "exit"} /\ todo # <<>> /\ todo[1] = "operand"

ListOK ==
    /\ tokens \in Seq(Cells)
    /\ token_index \in 0 .. Len(tokens) /\ last \in 0 .. Len(tokens)
    /\ \A c \in 1 .. (IF pc = "start" THEN token_index ELSE last) : tokens[c].kind # "unwritten"

EndInv ==
    /\ ListOK
    /\ pc \in {"start", "parse", "done", "freed", "exit", "wild"}
    /\ todo \in Seq(Asked)
    /\ pc \in {"start", "done", "freed"} => todo = <<>>
    /\ pc \notin {"start", "freed"} /\ last + 2 <= Len(tokens)
         /\ (\A c \in {last + 1, last + 2} : tokens[c] = Zeroed)
       => pc # "wild" /\ BeforeEnd

LEMMA ZeroedKind == Zeroed.kind = "MN_MOV" /\ Zeroed \in Cells
BY DEF Zeroed, Token, KindOrder, Cells, Kinds

LEMMA EndEntered ==
    ASSUME Entry, tokens \in Seq(Cells), token_index \in 0 .. Len(tokens),
           \A c \in 1 .. token_index : tokens[c].kind # "unwritten"
    PROVE  EndInv
<1>1. pc = "start" /\ todo = <<>> /\ last = 0
    BY DEF Entry
<1>2. Len(tokens) \in Nat
    BY LenProperties
<1> QED
    BY <1>1, <1>2 DEF EndInv, ListOK

LEMMA EndInit == Init => EndInv
<1> SUFFICES ASSUME Init PROVE EndInv
    OBVIOUS
<1>1. PICK l \in TokenLists : tokens = l.tokens /\ token_index = l.token_index
    BY DEF Init
<1>2. /\ tokens \in Seq(Cells) /\ token_index \in 0 .. Len(tokens)
      /\ \A c \in 1 .. token_index : tokens[c].kind # "unwritten"
    BY <1>1, ListsAssumption
<1> QED
    BY <1>2, EndEntered DEF Init

\* What the first of the pending calls asks for, and what is asked after it.
LEMMA AskedFacts ==
    ASSUME todo \in Seq(Asked), todo # <<>>
    PROVE  /\ Len(todo) \in Nat \ {0} /\ Head(todo) = todo[1] /\ todo[1] \in Asked
           /\ Tail(todo) \in Seq(Asked)
<1> DEFINE A == Asked
<1> HIDE DEF A
<1>1. todo \in Seq(A)
    BY DEF A
<1>2. Len(todo) \in Nat \ {0} /\ Head(todo) \in A /\ Tail(todo) \in Seq(A)
    BY <1>1, HeadTailProperties, EmptySeq, LenProperties
<1>3. Head(todo) = todo[1]
    BY <1>1
<1> QED
    BY <1>2, <1>3 DEF A

(***************************************************************************)
(* A token is only taken where it is asked for: at the place behind the    *)
(* tokens only by an instruction that begins.                              *)
(***************************************************************************)
LEMMA TakesBeforeEnd ==
    ASSUME EndInv, pc = "parse", IsShown, token_index' = token_index + 1,
           pc' = "parse", tokens' = tokens, last' = last,
           todo' \in Seq(Asked),
           \/ /\ todo = <<>>
              /\ Shown.kind = "MN_MOV" => todo' # <<>> /\ todo'[1] = "operand"
           \/ todo # <<>> /\ Shown.kind # "MN_MOV"
    PROVE  EndInv'
<1>1. /\ token_index \in Nat /\ Len(tokens) \in Nat /\ last \in 0 .. Len(tokens)
      /\ token_index < Len(tokens) /\ ListOK
    BY LenProperties DEF EndInv, ListOK, IsShown
<1>2. ListOK'
    BY <1>1 DEF ListOK
<1>3. ASSUME last + 2 <= Len(tokens), \A c \in {last + 1, last + 2} : tokens[c] = Zeroed
      PROVE  BeforeEnd'
    <2>1. BeforeEnd
        BY <1>3 DEF EndInv
    <2>2. CASE token_index < last
        BY <2>2, <1>1 DEF BeforeEnd
    <2>3. CASE token_index = last
        <3>1. Shown.kind = "MN_MOV"
            BY <2>3, <1>1, <1>3, ZeroedKind DEF Shown
        <3> QED
            BY <2>3, <3>1, <1>1 DEF BeforeEnd
    <2>4. CASE token_index = last + 1
        <3>1. todo # <<>>
            BY <2>1, <2>4, <1>1 DEF BeforeEnd
        <3>2. Shown.kind = "MN_MOV"
            <4>1. token_index + 1 = last + 2
                BY <2>4, <1>1
            <4> QED
                BY <4>1, <1>3, ZeroedKind DEF Shown
        <3> QED
            BY <3>1, <3>2
    <2> QED
        BY <2>1, <2>2, <2>3, <2>4, <1>1 DEF BeforeEnd
<1> QED
    BY <1>2, <1>3 DEF EndInv

\* Steps that take no token and leave what is asked for, or its rest.
LEMMA StopsBeforeEnd ==
    ASSUME EndInv, pc = "parse", pc' = "exit",
           UNCHANGED <<tokens, token_index, todo, last>>
    PROVE  EndInv'
<1>1. ListOK'
    BY DEF EndInv, ListOK
<1>2. BeforeEnd => BeforeEnd'
    BY DEF BeforeEnd
<1> QED
    BY <1>1, <1>2 DEF EndInv

LEMMA GoesOnBeforeEnd ==
    ASSUME EndInv, pc = "parse", pc' = "parse", todo # <<>>, Head(todo) # "operand",
           todo' = Tail(todo), UNCHANGED <<tokens, token_index, last>>
    PROVE  EndInv'
<1>1. Head(todo) = todo[1] /\ todo' \in Seq(Asked)
    BY AskedFacts DEF EndInv
<1>2. ListOK'
    BY DEF EndInv, ListOK
<1>3. BeforeEnd => BeforeEnd'
    BY <1>1 DEF BeforeEnd
<1> QED
    BY <1>1, <1>2, <1>3 DEF EndInv

\* Nothing the pending calls ask for is a mnemonic.
LEMMA PendingFacts ==
    ASSUME EndInv, NEW K, Pending(K)
    PROVE  /\ pc = "parse" /\ todo # <<>> /\ Head(todo) \in K /\ Head(todo) = todo[1]
           /\ Head(todo) # "MN_MOV" /\ Tail(todo) \in Seq(Asked)
BY AskedFacts DEF EndInv, Pending, Asked

LEMMA BeginsBeforeEnd ==
    ASSUME EndInv, ParseOp \/ ParseJmp \/ ParseCall
    PROVE  EndInv'
<1>1. /\ pc = "parse" /\ todo = <<>> /\ IsShown /\ token_index' = token_index + 1
      /\ pc' = pc /\ tokens' = tokens /\ last' = last
    BY DEF ParseOp, ParseJmp, ParseCall, AtInstruction, Begin, Accept
<1>2. /\ todo' \in Seq(Asked)
      /\ Shown.kind = "MN_MOV" => todo' # <<>> /\ todo'[1] = "operand"
    <2>1. CASE ParseOp
        <3>1. todo' = <<"operand", "TK_COMMA", "operand", "return">>
            BY <2>1 DEF ParseOp, Begin
        <3>2. <<"operand", "TK_COMMA", "operand", "return">> \in Seq(Asked)
            BY DEF Asked
        <3>3. todo' # <<>> /\ todo'[1] = "operand"
            BY <3>1
        <3> QED
            BY <3>1, <3>2, <3>3
    <2>2. CASE ParseJmp
        <3>1. todo' = <<"operand", "TK_COMMA", "operand", "return">> \/ todo' = <<"operand", "return">>
            BY <2>2 DEF ParseJmp, Begin
        <3>2. <<"operand", "TK_COMMA", "operand", "return">> \in Seq(Asked)
            BY DEF Asked
        <3>3. <<"operand", "return">> \in Seq(Asked)
            BY DEF Asked
        <3>4. todo' # <<>> /\ todo'[1] = "operand"
            BY <3>1
        <3> QED
            BY <3>1, <3>2, <3>3, <3>4
    <2>3. CASE ParseCall
        <3>1. todo' = <<"callee", "return">> /\ Shown.kind = "MN_CALL"
            BY <2>3 DEF ParseCall, Begin
        <3> QED
            BY <3>1 DEF Asked
    <2> QED
        BY <2>1, <2>2, <2>3
<1> QED
    BY <1>1, <1>2, TakesBeforeEnd

LEMMA AsksBeforeEnd ==
    ASSUME EndInv, Callee \/ Expect
    PROVE  EndInv'
<1>1. CASE Exit
    <2>1. pc = "parse"
        BY DEF Callee, Expect, Pending
    <2> QED
        BY <1>1, <2>1, StopsBeforeEnd DEF Exit
<1>2. CASE Callee /\ ~ Exit
    <2>1. /\ Pending({"callee"}) /\ IsShown /\ Shown.kind \in {"FUNC_PUTCHAR", "FUNC_READ"}
          /\ token_index' = token_index + 1 /\ todo' = CalleeAsks \o Tail(todo)
          /\ pc' = pc /\ tokens' = tokens /\ last' = last
        BY <1>2 DEF Callee, Accept
    <2>2. CalleeAsks \in Seq(Asked)
        BY DEF CalleeAsks, Asked
    <2>3. pc = "parse" /\ todo # <<>> /\ Tail(todo) \in Seq(Asked)
        BY <2>1, PendingFacts
    <2>4. todo' \in Seq(Asked)
        BY <2>1, <2>2, <2>3, ConcatProperties
    <2> QED
        BY <2>1, <2>3, <2>4, TakesBeforeEnd
<1>3. CASE Expect /\ ~ Exit
    <2>1. /\ Pending(Kinds) /\ IsShown /\ Shown.kind = Head(todo)
          /\ token_index' = token_index + 1 /\ todo' = Tail(todo)
          /\ pc' = pc /\ tokens' = tokens /\ last' = last
        BY <1>3 DEF Expect, Accept
    <2>2. pc = "parse" /\ todo # <<>> /\ Tail(todo) \in Seq(Asked) /\ Head(todo) # "MN_MOV"
        BY <2>1, PendingFacts
    <2> QED
        BY <2>1, <2>2, TakesBeforeEnd
<1> QED
    BY <1>1, <1>2, <1>3

LEMMA OperandsBeforeEnd ==
    ASSUME EndInv, OperandImm \/ OperandFlag \/ OperandIndexed
    PROVE  EndInv'
<1>1. /\ Pending({"operand"}) /\ IsShown /\ Shown.kind # "MN_MOV"
      /\ token_index' = token_index + 1 /\ pc' = pc /\ tokens' = tokens /\ last' = last
    BY DEF OperandImm, OperandFlag, OperandIndexed, Operand, Accept
<1>2. pc = "parse" /\ todo # <<>> /\ Tail(todo) \in Seq(Asked)
    BY <1>1, PendingFacts
<1>3. todo' \in Seq(Asked)
    <2>1. CASE OperandImm \/ OperandFlag
        BY <1>2, <2>1 DEF OperandImm, OperandFlag
    <2>2. CASE OperandIndexed
        <3> DEFINE inner == <<"TK_L_SQ_BRACKET", "operand", "TK_R_SQ_BRACKET",
                              IF Shown.kind = "TK_REGISTER" THEN "OPE_REG" ELSE "OPE_MEM">>
        <3>1. inner \in Seq(Asked)
            BY DEF Asked
        <3>2. todo' = inner \o Tail(todo)
            BY <2>2 DEF OperandIndexed
        <3> QED
            BY <1>2, <3>1, <3>2, ConcatProperties
    <2> QED
        BY <2>1, <2>2
<1> QED
    BY <1>1, <1>2, <1>3, TakesBeforeEnd

LEMMA NothingWildBeforeEnd ==
    ASSUME EndInv, ReadWild
    PROVE  EndInv'
<1>1. /\ pc = "parse" /\ ~ IsShown /\ pc' = "wild"
      /\ UNCHANGED <<tokens, token_index, todo, last>>
    BY DEF ReadWild, NeedsToken, AtInstruction, Pending
<1>2. ListOK'
    BY <1>1 DEF EndInv, ListOK
<1>3. ASSUME last + 2 <= Len(tokens), \A c \in {last + 1, last + 2} : tokens[c] = Zeroed
      PROVE  FALSE
    <2>1. BeforeEnd /\ ListOK
        BY <1>1, <1>3 DEF EndInv
    <2>2. token_index \in Nat /\ last \in Nat /\ Len(tokens) \in Nat
        BY <2>1, LenProperties DEF ListOK
    <2>3. token_index < Len(tokens)
        BY <1>3, <2>1, <2>2 DEF BeforeEnd
    <2>4. tokens[token_index + 1].kind # "unwritten"
        <3>1. CASE token_index < last
            BY <1>1, <2>1, <2>2, <3>1 DEF ListOK
        <3>2. CASE token_index \in {last, last + 1}
            <4>1. token_index + 1 \in {last + 1, last + 2}
                BY <2>2, <3>2
            <4> QED
                BY <1>3, <4>1, ZeroedKind
        <3> QED
            BY <2>1, <2>2, <3>1, <3>2 DEF BeforeEnd
    <2> QED
        BY <1>1, <2>3, <2>4 DEF IsShown
<1> QED
    BY <1>1, <1>2, <1>3 DEF EndInv

LEMMA EndStep == EndInv /\ [Next]_vars => EndInv'
<1> SUFFICES ASSUME EndInv, [Next]_vars PROVE EndInv'
    OBVIOUS
<1>1. CASE Start
    <2>1. /\ pc = "start" /\ pc' = "parse" /\ last' = token_index /\ token_index' = 0
          /\ tokens' = tokens /\ todo' = todo
        BY <1>1 DEF Start
    <2>2. ListOK /\ Len(tokens) \in Nat
        BY LenProperties DEF EndInv, ListOK
    <2>3. ListOK' /\ BeforeEnd'
        BY <2>1, <2>2 DEF ListOK, BeforeEnd
    <2> QED
        BY <2>1, <2>3 DEF EndInv
<1>2. CASE ReadWild
    BY <1>2, NothingWildBeforeEnd
<1>3. CASE ParseOp \/ ParseJmp \/ ParseCall
    BY <1>3, BeginsBeforeEnd
<1>4. CASE NoParser \/ OperandWrong
    <2>1. pc = "parse" /\ Exit
        BY <1>4 DEF NoParser, OperandWrong, AtInstruction, Pending
    <2> QED
        BY <2>1, StopsBeforeEnd DEF Exit
<1>5. CASE Callee \/ Expect
    BY <1>5, AsksBeforeEnd
<1>6. CASE OperandImm \/ OperandFlag \/ OperandIndexed
    BY <1>6, OperandsBeforeEnd
<1>7. CASE CloseOperand \/ Store
    <2>1. /\ Pending({"OPE_REG", "OPE_MEM", "return"}) /\ pc' = pc /\ todo' = Tail(todo)
          /\ UNCHANGED <<tokens, token_index, last>>
        BY <1>7 DEF CloseOperand, Store, Pending
    <2> QED
        BY <2>1, PendingFacts, GoesOnBeforeEnd
<1>8. CASE Return \/ FreeAsm \/ UNCHANGED vars
    <2>1. /\ UNCHANGED <<tokens, token_index, todo, last>>
          /\ \/ pc = "parse" /\ todo = <<>> /\ pc' = "done"
             \/ pc = "done" /\ pc' = "freed"
             \/ pc' = pc
        BY <1>8 DEF Return, FreeAsm, vars
    <2>2. ListOK'
        BY <2>1 DEF EndInv, ListOK
    <2>3. BeforeEnd => BeforeEnd'
        BY <2>1 DEF EndInv, BeforeEnd
    <2> QED
        BY <2>1, <2>2, <2>3 DEF EndInv
<1> QED
    BY <1>1, <1>2, <1>3, <1>4, <1>5, <1>6, <1>7, <1>8 DEF Next, Parse

(***************************************************************************)
(* Two cells as calloc left them stop the parser behind the tokens of      *)
(* every list, whatever is in it: it reads nothing that was never written, *)
(* and returns only if it made no instruction of those cells.              *)
(***************************************************************************)
THEOREM StopsBehindTokens == Spec => []StopsAtEnd
<1>1. EndInv => StopsAtEnd
    BY DEF EndInv, StopsAtEnd, BeforeEnd
<1>2. Spec => []EndInv
    BY EndInit, EndStep, PTL DEF Spec
<1> QED
    BY <1>1, <1>2, PTL

-----------------------------------------------------------------------------
(***************************************************************************)
(* Recursive functions, unfolded.  Where a definition descends along the   *)
(* numbers, its parts up to n are extended to n + 1; that every n is       *)
(* reached follows from the least number that is not.                      *)
(***************************************************************************)
\* A set of numbers that is not empty has a least one.
LEMMA NatHasLeast ==
    ASSUME NEW S \in SUBSET Nat, S # {}
    PROVE  \E m \in S : \A x \in S : m <= x
<1>1. \E m \in S : \A x \in S : ~ (<<x, m>> \in OpToRel(<, Nat))
    BY WFMin, NatLessThanWellFounded, Zenon
<1>2. \E m \in S : \A x \in S : ~ (x < m)
    BY <1>1, Zenon DEF OpToRel
<1> QED
    BY <1>2

\* A set of numbers with 0 and the successor of each has them all.
LEMMA FromZero ==
    ASSUME NEW S \in SUBSET Nat, 0 \in S, \A n \in S : n + 1 \in S
    PROVE  \A n \in Nat : n \in S
<1> SUFFICES ASSUME Nat \ S # {} PROVE FALSE
    OBVIOUS
<1>1. PICK m \in Nat \ S : \A x \in Nat \ S : m <= x
    BY NatHasLeast
<1>2. m - 1 \in Nat /\ m - 1 \in S
    BY <1>1
<1> QED
    BY <1>1, <1>2

\* One level of Tree, of what is one level down.
Leaves == [kind : {"OPE_IMM"}, value : Nat] \cup [kind : {"OPE_FLAG"}]
Around(trees) == [kind : {"OPE_REG", "OPE_MEM"}, index : trees]
Level(f, d) == Leaves \cup IF d = 0 THEN {} ELSE Around(f[d - 1])

\* Tree satisfies its own definition.
LEMMA TreeLevels == Tree = [d \in Nat |-> Level(Tree, d)]
<1> DEFINE UpTo(f, n) == f = [d \in 0 .. n |-> Level(f, d)]
           S == {n \in Nat : \E f : UpTo(f, n)}
<1>1. 0 \in S
    <2> DEFINE f == [d \in 0 .. 0 |-> Leaves]
    <2>1. UpTo(f, 0)
        <3>1. \A d \in 0 .. 0 : f[d] = Level(f, d)
            BY DEF Level
        <3> QED
            BY <3>1
    <2> QED
        BY <2>1
<1>2. ASSUME NEW n \in S PROVE n + 1 \in S
    <2>1. PICK f : UpTo(f, n)
        BY <1>2
    <2> DEFINE g == [d \in 0 .. n + 1 |-> Level(f, d)]
    <2>2. n \in Nat /\ \A d \in 0 .. n : f[d] = Level(f, d)
        BY <2>1
    <2>3. \A d \in 0 .. n : g[d] = f[d]
        BY <2>2
    <2>4. \A d \in 0 .. n + 1 : d # 0 => g[d - 1] = f[d - 1]
        BY <2>2, <2>3
    <2>5. \A d \in 0 .. n + 1 : Level(f, d) = Level(g, d)
        BY <2>4 DEF Level
    <2>6. UpTo(g, n + 1)
        BY <2>5
    <2> HIDE DEF UpTo, g
    <2> QED
        BY <2>2, <2>6
<1>3. \A n \in Nat : n \in S
    <2> HIDE DEF S
    <2> QED
        BY <1>1, <1>2, FromZero DEF S
<1>4. ASSUME NEW f, NEW g, NEW m \in Nat, NEW n \in Nat, UpTo(f, m), UpTo(g, n)
      PROVE  \A d \in Nat : d <= m /\ d <= n => f[d] = g[d]
    <2> DEFINE E == {d \in Nat : d <= m /\ d <= n => f[d] = g[d]}
    <2>1. \A d \in 0 .. m : f[d] = Level(f, d)
        BY <1>4
    <2>2. \A d \in 0 .. n : g[d] = Level(g, d)
        BY <1>4
    <2>3. 0 \in E
        <3>1. f[0] = Level(f, 0) /\ g[0] = Level(g, 0)
            BY <2>1, <2>2
        <3>2. Level(f, 0) = Level(g, 0)
            BY DEF Level
        <3> QED
            BY <3>1, <3>2
    <2>4. ASSUME NEW d \in E PROVE d + 1 \in E
        <3>1. CASE d + 1 <= m /\ d + 1 <= n
            <4>1. f[d] = g[d]
                BY <2>4, <3>1
            <4>2. f[d + 1] = Level(f, d + 1) /\ g[d + 1] = Level(g, d + 1)
                BY <2>1, <2>2, <3>1
            <4>3. Level(f, d + 1) = Level(g, d + 1)
                BY <4>1 DEF Level
            <4> QED
                BY <4>2, <4>3
        <3> QED
            BY <3>1
    <2> HIDE DEF E
    <2>5. \A d \in Nat : d \in E
        BY <2>3, <2>4, FromZero DEF E
    <2> QED
        BY <2>5 DEF E
<1> DEFINE part(n) == CHOOSE f : UpTo(f, n)
           F == [n \in Nat |-> part(n)[n]]
<1>5. \A n \in Nat : UpTo(part(n), n)
    <2> HIDE DEF UpTo
    <2> QED
        BY <1>3
<1>6. \A d \in Nat : F[d] = Level(F, d)
    <2> TAKE d \in Nat
    <2>1. F[d] = Level(part(d), d)
        <3>1. UpTo(part(d), d)
            BY <1>5
        <3> HIDE DEF part
        <3>2. part(d)[d] = Level(part(d), d)
            BY <3>1
        <3> QED
            BY <3>2
    <2>2. d # 0 => part(d)[d - 1] = part(d - 1)[d - 1]
        <3>1. CASE d # 0
            <4>1. UpTo(part(d), d) /\ UpTo(part(d - 1), d - 1) /\ d - 1 \in Nat
                BY <1>5, <3>1
            <4> HIDE DEF part, UpTo
            <4> QED
                BY <4>1, <1>4
        <3> QED
            BY <3>1
    <2>3. d # 0 => F[d - 1] = part(d - 1)[d - 1]
        OBVIOUS
    <2> HIDE DEF F, part
    <2> QED
        BY <2>1, <2>2, <2>3 DEF Level
<1>7. F = [d \in Nat |-> Level(F, d)]
    <2> DEFINE R == [d \in Nat |-> Level(F, d)]
    <2>1. \A d \in Nat : F[d] = R[d]
        BY <1>6
    <2> QED
        BY <2>1
<1>8. Tree = CHOOSE f : f = [d \in Nat |-> Level(f, d)]
    BY DEF Tree, Level, Leaves, Around
<1> HIDE DEF F
<1> QED
    BY <1>7, <1>8

\* The levels one by one.
LEMMA TreeLevel ==
    ASSUME NEW d \in Nat
    PROVE  /\ Tree[d] = Level(Tree, d)
           /\ Tree[d + 1] = Leaves \cup Around(Tree[d])
           /\ Leaves \subseteq Tree[d]
<1>1. \A n \in Nat : Tree[n] = Level(Tree, n)
    <2> DEFINE F(n) == Level(Tree, n)
    <2>1. Tree = [n \in Nat |-> F(n)]
        BY TreeLevels
    <2> HIDE DEF F
    <2>2. \A n \in Nat : Tree[n] = F(n)
        BY <2>1
    <2> QED
        BY <2>2 DEF F
<1>2. Level(Tree, d + 1) = Leaves \cup Around(Tree[d])
    BY DEF Level
<1>3. Leaves \subseteq Level(Tree, d)
    BY DEF Level
<1> QED
    BY <1>1, <1>2, <1>3

\* An operand of one level is one of the next, and its index is one level down.
LEMMA TreeFacts ==
    ASSUME NEW d \in Nat, NEW o \in Tree[d]
    PROVE  /\ o \in Tree[d + 1]
           /\ o.kind \in {"OPE_IMM", "OPE_FLAG", "OPE_REG", "OPE_MEM"}
           /\ o.kind = "OPE_IMM" => o.value \in Nat
           /\ o.kind \in {"OPE_REG", "OPE_MEM"} => d # 0 /\ o.index \in Tree[d - 1]
<1> DEFINE S == {n \in Nat : Tree[n] \subseteq Tree[n + 1]}
<1>1. 0 \in S
    BY TreeLevel DEF Level
<1>2. ASSUME NEW n \in S PROVE n + 1 \in S
    <2>1. n \in Nat /\ Tree[n] \subseteq Tree[n + 1]
        BY <1>2
    <2>2. Tree[n + 1] = Leaves \cup Around(Tree[n])
        BY <2>1, TreeLevel
    <2>3. Tree[n + 1 + 1] = Leaves \cup Around(Tree[n + 1])
        BY <2>1, TreeLevel
    <2>4. Around(Tree[n]) \subseteq Around(Tree[n + 1])
        BY <2>1 DEF Around
    <2> QED
        BY <2>1, <2>2, <2>3, <2>4
<1>3. d \in S
    <2> HIDE DEF S
    <2> QED
        BY <1>1, <1>2, FromZero DEF S
<1>4. o \in Leaves \/ (d # 0 /\ o \in Around(Tree[d - 1]))
    BY TreeLevel DEF Level
<1>5. CASE o \in Leaves
    BY <1>3, <1>5 DEF Leaves
<1>6. CASE d # 0 /\ o \in Around(Tree[d - 1])
    BY <1>3, <1>6 DEF Around
<1> QED
    BY <1>4, <1>5, <1>6

\* Levels are nested in each other.
LEMMA TreesGrow ==
    ASSUME NEW d \in Nat, NEW e \in Nat, d <= e
    PROVE  Tree[d] \subseteq Tree[e]
<1> DEFINE S == {n \in Nat : Tree[d] \subseteq Tree[d + n]}
<1>1. 0 \in S
    OBVIOUS
<1>2. ASSUME NEW n \in S PROVE n + 1 \in S
    <2>1. n \in Nat /\ Tree[d] \subseteq Tree[d + n]
        BY <1>2
    <2>2. Tree[d + n] \subseteq Tree[d + n + 1]
        BY <2>1, TreeFacts
    <2>3. d + n + 1 = d + (n + 1)
        BY <2>1
    <2> QED
        BY <2>1, <2>2, <2>3
<1>3. e - d \in S
    <2> HIDE DEF S
    <2>1. e - d \in Nat
        OBVIOUS
    <2> QED
        BY <1>1, <1>2, <2>1, FromZero DEF S
<1>4. d + (e - d) = e
    OBVIOUS
<1> QED
    BY <1>3, <1>4

\* Written, of an operand whose index is written by f.
WordsOf(f, o) ==
    IF o.kind \in {"OPE_REG", "OPE_MEM"}
    THEN Bracketed(OperandToken[o.kind], f[o.index])
    ELSE IF o.kind = "OPE_FLAG"
         THEN <<Word("TK_FLAG")>>
         ELSE <<[kind |-> "TK_IMMEDIATE", value |-> o.value]>>

\* Written satisfies its own definition.
LEMMA WrittenLevels ==
    ASSUME Depth \in Nat
    PROVE  Written = [o \in Trees |-> WordsOf(Written, o)]
<1> DEFINE Upto(f, d) == f = [o \in Tree[d] |-> WordsOf(f, o)]
           S == {d \in Nat : \E f : Upto(f, d)}
<1>1. 0 \in S
    <2> DEFINE f == [o \in Tree[0] |-> WordsOf(<<>>, o)]
    <2>1. \A o \in Tree[0] : o.kind \in {"OPE_IMM", "OPE_FLAG"}
        BY TreeFacts
    <2>2. \A o \in Tree[0] : WordsOf(<<>>, o) = WordsOf(f, o)
        BY <2>1 DEF WordsOf
    <2>3. Upto(f, 0)
        BY <2>2
    <2> HIDE DEF Upto, f
    <2> QED
        BY <2>3
<1>2. ASSUME NEW d \in S PROVE d + 1 \in S
    <2>1. PICK f : Upto(f, d)
        BY <1>2
    <2> DEFINE g == [o \in Tree[d + 1] |-> WordsOf(f, o)]
    <2>2. d \in Nat /\ \A o \in Tree[d] : f[o] = WordsOf(f, o)
        BY <2>1
    <2>3. \A o \in Tree[d] : g[o] = f[o]
        BY <2>2, TreeFacts
    <2>4. ASSUME NEW o \in Tree[d + 1] PROVE WordsOf(f, o) = WordsOf(g, o)
        <3> HIDE DEF g
        <3>1. o.kind \in {"OPE_IMM", "OPE_FLAG", "OPE_REG", "OPE_MEM"}
            BY <2>2, TreeFacts
        <3>2. o.kind \in {"OPE_REG", "OPE_MEM"} => o.index \in Tree[d]
            <4>1. d + 1 \in Nat /\ (d + 1) - 1 = d
                BY <2>2
            <4> QED
                BY <4>1, TreeFacts
        <3>3. o.kind \in {"OPE_REG", "OPE_MEM"} => g[o.index] = f[o.index]
            BY <2>3, <3>2
        <3> QED
            BY <3>1, <3>3 DEF WordsOf
    <2>5. Upto(g, d + 1)
        BY <2>4
    <2> HIDE DEF Upto, g
    <2> QED
        BY <2>2, <2>5
<1>3. \E f : f = [o \in Trees |-> WordsOf(f, o)]
    <2> HIDE DEF S
    <2>1. Depth \in S
        BY <1>1, <1>2, FromZero DEF S
    <2> QED
        BY <2>1 DEF S, Trees
<1>4. Written = CHOOSE f : f = [o \in Trees |-> WordsOf(f, o)]
    BY DEF Written, WordsOf
<1> QED
    BY <1>3, <1>4

\* Freed, of an operand whose index frees f.
CountOf(f, o) == IF o.kind \in {"OPE_REG", "OPE_MEM"} THEN 1 + f[o.index] ELSE 1

\* Freed satisfies its own definition.
LEMMA FreedLevels ==
    ASSUME Depth \in Nat
    PROVE  Freed = [o \in Trees |-> CountOf(Freed, o)]
<1> DEFINE Upto(f, d) == f = [o \in Tree[d] |-> CountOf(f, o)]
           S == {d \in Nat : \E f : Upto(f, d)}
<1>1. 0 \in S
    <2> DEFINE f == [o \in Tree[0] |-> CountOf(<<>>, o)]
    <2>1. \A o \in Tree[0] : o.kind \in {"OPE_IMM", "OPE_FLAG"}
        BY TreeFacts
    <2>2. \A o \in Tree[0] : CountOf(<<>>, o) = CountOf(f, o)
        BY <2>1 DEF CountOf
    <2>3. Upto(f, 0)
        BY <2>2
    <2> HIDE DEF Upto, f
    <2> QED
        BY <2>3
<1>2. ASSUME NEW d \in S PROVE d + 1 \in S
    <2>1. PICK f : Upto(f, d)
        BY <1>2
    <2> DEFINE g == [o \in Tree[d + 1] |-> CountOf(f, o)]
    <2>2. d \in Nat /\ \A o \in Tree[d] : f[o] = CountOf(f, o)
        BY <2>1
    <2>3. \A o \in Tree[d] : g[o] = f[o]
        BY <2>2, TreeFacts
    <2>4. ASSUME NEW o \in Tree[d + 1] PROVE CountOf(f, o) = CountOf(g, o)
        <3> HIDE DEF g
        <3>1. o.kind \in {"OPE_IMM", "OPE_FLAG", "OPE_REG", "OPE_MEM"}
            BY <2>2, TreeFacts
        <3>2. o.kind \in {"OPE_REG", "OPE_MEM"} => o.index \in Tree[d]
            <4>1. d + 1 \in Nat /\ (d + 1) - 1 = d
                BY <2>2
            <4> QED
                BY <4>1, TreeFacts
        <3>3. o.kind \in {"OPE_REG", "OPE_MEM"} => g[o.index] = f[o.index]
            BY <2>3, <3>2
        <3> QED
            BY <3>1, <3>3 DEF CountOf
    <2>5. Upto(g, d + 1)
        BY <2>4
    <2> HIDE DEF Upto, g
    <2> QED
        BY <2>2, <2>5
<1>3. \E f : f = [o \in Trees |-> CountOf(f, o)]
    <2> HIDE DEF S
    <2>1. Depth \in S
        BY <1>1, <1>2, FromZero DEF S
    <2> QED
        BY <2>1 DEF S, Trees
<1>4. Freed = CHOOSE f : f = [o \in Trees |-> CountOf(f, o)]
    BY DEF Freed, CountOf
<1> QED
    BY <1>3, <1>4

\* What a listing is made of.
Words == [kind : Kinds] \cup [kind : {"TK_IMMEDIATE"}, value : Nat]

\* The number of kinds.
LEMMA KindCount == Len(KindOrder) = 36
BY DEF KindOrder

\* The words that listings are made of.
LEMMA WordFacts ==
    /\ \A k \in Kinds : Word(k) \in Words
    /\ {"TK_COMMA", "TK_L_PARENTH", "TK_R_PARENTH", "TK_L_SQ_BRACKET", "TK_R_SQ_BRACKET",
        "TK_IMMEDIATE", "TK_REGISTER", "TK_MEMORY", "TK_FLAG", "FUNC_PUTCHAR", "FUNC_READ",
        "MN_CALL"} \subseteq Kinds
    /\ \A v \in Nat : [kind |-> "TK_IMMEDIATE", value |-> v] \in Words
<1>1. \A k \in Kinds : Word(k) \in Words
    BY DEF Word, Words
<1>2. \A k \in 21 .. 36 : KindOrder[k] \in Kinds
    BY KindCount DEF Kinds
<1>3. KindOrder[19] \in Kinds
    BY KindCount DEF Kinds
<1>4. /\ KindOrder[21] = "TK_COMMA" /\ KindOrder[26] = "TK_L_PARENTH" /\ KindOrder[27] = "TK_R_PARENTH"
      /\ KindOrder[28] = "TK_L_SQ_BRACKET" /\ KindOrder[29] = "TK_R_SQ_BRACKET"
      /\ KindOrder[32] = "TK_IMMEDIATE" /\ KindOrder[33] = "TK_REGISTER" /\ KindOrder[34] = "TK_MEMORY"
      /\ KindOrder[35] = "TK_FLAG" /\ KindOrder[30] = "FUNC_PUTCHAR" /\ KindOrder[31] = "FUNC_READ"
      /\ KindOrder[19] = "MN_CALL"
    BY DEF KindOrder
<1>5. {"TK_COMMA", "TK_L_PARENTH", "TK_R_PARENTH", "TK_L_SQ_BRACKET", "TK_R_SQ_BRACKET",
        "TK_IMMEDIATE", "TK_REGISTER", "TK_MEMORY", "TK_FLAG", "FUNC_PUTCHAR", "FUNC_READ",
        "MN_CALL"} \subseteq Kinds
    BY <1>2, <1>3, <1>4
<1>6. \A v \in Nat : [kind |-> "TK_IMMEDIATE", value |-> v] \in Words
    BY DEF Words
<1> QED
    BY <1>1, <1>5, <1>6

\* Words in brackets are words.
LEMMA BracketedFacts ==
    ASSUME NEW k \in {"TK_REGISTER", "TK_MEMORY"}, NEW w \in Seq(Words)
    PROVE  Bracketed(k, w) \in Seq(Words)
<1> DEFINE W == Words
<1>1. Word(k) \in W /\ Word("TK_L_SQ_BRACKET") \in W /\ Word("TK_R_SQ_BRACKET") \in W
    BY WordFacts
<1> HIDE DEF W
<1>2. <<Word(k), Word("TK_L_SQ_BRACKET")>> \in Seq(W) /\ <<Word("TK_R_SQ_BRACKET")>> \in Seq(W)
    BY <1>1
<1>3. w \in Seq(W)
    BY DEF W
<1>4. <<Word(k), Word("TK_L_SQ_BRACKET")>> \o w \in Seq(W)
    BY <1>2, <1>3, ConcatProperties
<1> QED
    BY <1>2, <1>4, ConcatProperties DEF W, Bracketed

\* Of every operand: what it prints is words, what it frees is a number.
LEMMA OperandFacts ==
    ASSUME Depth \in Nat, NEW o \in Trees
    PROVE  /\ Written[o] \in Seq(Words)
           /\ Freed[o] \in Nat
           /\ Written[o] = WordsOf(Written, o)
           /\ Freed[o] = CountOf(Freed, o)
<1>1. ASSUME NEW t \in Trees
      PROVE  Written[t] = WordsOf(Written, t) /\ Freed[t] = CountOf(Freed, t)
    <2> DEFINE W(x) == WordsOf(Written, x)
               C(x) == CountOf(Freed, x)
    <2>1. Written = [x \in Trees |-> W(x)] /\ Freed = [x \in Trees |-> C(x)]
        BY WrittenLevels, FreedLevels
    <2> HIDE DEF W, C
    <2>2. Written[t] = W(t) /\ Freed[t] = C(t)
        BY <2>1
    <2> QED
        BY <2>2 DEF W, C
<1> DEFINE S == {d \in Nat : d <= Depth =>
                    \A t \in Tree[d] : Written[t] \in Seq(Words) /\ Freed[t] \in Nat}
<1>2. ASSUME NEW t \in Trees, t.kind \in {"OPE_IMM", "OPE_FLAG"}, t.kind = "OPE_IMM" => t.value \in Nat
      PROVE  Written[t] \in Seq(Words) /\ Freed[t] \in Nat
    <2>1. \/ Written[t] = <<Word("TK_FLAG")>>
          \/ /\ t.value \in Nat
             /\ Written[t] = <<[kind |-> "TK_IMMEDIATE", value |-> t.value]>>
        BY <1>1, <1>2 DEF WordsOf
    <2>2. Written[t] \in Seq(Words)
        <3> DEFINE W == Words
        <3>1. /\ Word("TK_FLAG") \in W
              /\ t.value \in Nat => [kind |-> "TK_IMMEDIATE", value |-> t.value] \in W
            BY WordFacts
        <3> HIDE DEF W
        <3>2. PICK x \in W : Written[t] = <<x>>
            BY <2>1, <3>1
        <3>3. <<x>> \in Seq(W)
            OBVIOUS
        <3> QED
            BY <3>2, <3>3 DEF W
    <2>3. Freed[t] = 1
        BY <1>1, <1>2 DEF CountOf
    <2> QED
        BY <2>2, <2>3
<1>3. 0 \in S
    <2>1. ASSUME NEW t \in Tree[0] PROVE t \in Trees
        BY TreesGrow DEF Trees
    <2> QED
        BY <2>1, <1>2, TreeFacts
<1>4. ASSUME NEW d \in S PROVE d + 1 \in S
    <2> SUFFICES ASSUME d + 1 <= Depth, NEW t \in Tree[d + 1]
                 PROVE  Written[t] \in Seq(Words) /\ Freed[t] \in Nat
        OBVIOUS
    <2>1. d \in Nat /\ \A x \in Tree[d] : Written[x] \in Seq(Words) /\ Freed[x] \in Nat
        BY <1>4
    <2>2. t \in Trees
        BY <2>1, TreesGrow DEF Trees
    <2>3. /\ t.kind \in {"OPE_IMM", "OPE_FLAG", "OPE_REG", "OPE_MEM"}
          /\ t.kind = "OPE_IMM" => t.value \in Nat
          /\ t.kind \in {"OPE_REG", "OPE_MEM"} => t.index \in Tree[d]
        <3>1. d + 1 \in Nat /\ (d + 1) - 1 = d
            BY <2>1
        <3> QED
            BY <3>1, TreeFacts
    <2>4. CASE t.kind \in {"OPE_REG", "OPE_MEM"}
        <3>1. Written[t.index] \in Seq(Words) /\ Freed[t.index] \in Nat
            BY <2>1, <2>3, <2>4
        <3>2. OperandToken[t.kind] \in {"TK_REGISTER", "TK_MEMORY"}
            BY <2>4 DEF OperandToken
        <3>3. Written[t] = Bracketed(OperandToken[t.kind], Written[t.index])
            BY <1>1, <2>2, <2>4 DEF WordsOf
        <3>4. Freed[t] = 1 + Freed[t.index]
            BY <1>1, <2>2, <2>4 DEF CountOf
        <3> QED
            BY <3>1, <3>2, <3>3, <3>4, BracketedFacts
    <2>5. CASE t.kind \in {"OPE_IMM", "OPE_FLAG"}
        BY <1>2, <2>2, <2>3, <2>5
    <2> QED
        BY <2>3, <2>4, <2>5
<1>5. Depth \in S
    <2> HIDE DEF S
    <2> QED
        BY <1>3, <1>4, FromZero DEF S
<1> QED
    BY <1>1, <1>5 DEF Trees

-----------------------------------------------------------------------------
(***************************************************************************)
(* What is appended to a program: one more line to its listing, the        *)
(* operands of one more instruction to what the loop of free_asm_weeperVM  *)
(* frees.                                                                  *)
(***************************************************************************)
\* FlattenSeq of one more sequence is one more concatenation.
LEMMA FlattenAppend ==
    ASSUME NEW S, NEW s \in Seq(Seq(S)), NEW x \in Seq(S)
    PROVE  /\ FlattenSeq(s) \in Seq(S)
           /\ FlattenSeq(Append(s, x)) = FlattenSeq(s) \o x
<1> DEFINE T == Seq(S)
           Step(t, f, i) == IF i = 1 THEN t[i] ELSE f[i - 1] \o t[i]
           Upto(t, f, n) == f = [i \in 1 .. n |-> Step(t, f, i)]
           Flat(t) == CHOOSE f : Upto(t, f, Len(t))
<1>1. ASSUME NEW t \in Seq(T)
      PROVE  Upto(t, Flat(t), Len(t))
    <2> DEFINE E == {n \in Nat : \E f : Upto(t, f, n)}
    <2>1. 0 \in E
        <3>1. Upto(t, [i \in 1 .. 0 |-> 0], 0)
            OBVIOUS
        <3> QED
            BY <3>1
    <2>2. ASSUME NEW n \in E PROVE n + 1 \in E
        <3>1. PICK f : Upto(t, f, n)
            BY <2>2
        <3> DEFINE g == [i \in 1 .. n + 1 |-> Step(t, f, i)]
        <3>2. n \in Nat /\ \A i \in 1 .. n : f[i] = Step(t, f, i)
            BY <3>1
        <3>3. \A i \in 1 .. n : g[i] = f[i]
            BY <3>2
        <3>4. \A i \in 1 .. n + 1 : Step(t, f, i) = Step(t, g, i)
            BY <3>2, <3>3
        <3>5. Upto(t, g, n + 1)
            BY <3>4
        <3> HIDE DEF Upto, g
        <3> QED
            BY <3>2, <3>5
    <2>3. Len(t) \in E
        <3> HIDE DEF E, T
        <3> QED
            BY <2>1, <2>2, FromZero, LenProperties DEF E
    <2> HIDE DEF Upto
    <2> QED
        BY <2>3
<1>2. ASSUME NEW t \in Seq(T), t # <<>>
      PROVE  FlattenSeq(t) = Flat(t)[Len(t)]
    <2>1. Len(t) # 0
        BY <1>2
    <2> QED
        BY <2>1 DEF FlattenSeq
<1>3. ASSUME NEW t \in Seq(T)
      PROVE  \A n \in Nat : n \in 1 .. Len(t) => Flat(t)[n] \in T
    <2> DEFINE E == {n \in Nat : n \in 1 .. Len(t) => Flat(t)[n] \in T}
    <2> HIDE DEF Flat
    <2>1. \A i \in 1 .. Len(t) : Flat(t)[i] = Step(t, Flat(t), i)
        BY <1>1
    <2>2. \A i \in 1 .. Len(t) : t[i] \in T
        BY ElementOfSeq
    <2>3. 0 \in E
        OBVIOUS
    <2>4. ASSUME NEW n \in E PROVE n + 1 \in E
        <3> SUFFICES ASSUME n + 1 \in 1 .. Len(t) PROVE Flat(t)[n + 1] \in T
            OBVIOUS
        <3>1. n \in Nat /\ t[n + 1] \in T /\ Flat(t)[n + 1] = Step(t, Flat(t), n + 1)
            BY <2>1, <2>2
        <3>2. CASE n = 0
            BY <3>1, <3>2
        <3>3. CASE n # 0
            <4>1. n \in 1 .. Len(t)
                BY <3>1, <3>3, LenProperties
            <4>2. Flat(t)[n] \in T
                BY <2>4, <4>1
            <4>3. n + 1 # 1 /\ (n + 1) - 1 = n
                BY <3>1, <3>3
            <4>4. Flat(t)[n + 1] = Flat(t)[n] \o t[n + 1]
                BY <3>1, <4>3
            <4> QED
                BY <3>1, <4>2, <4>4, ConcatProperties
        <3> QED
            BY <3>2, <3>3
    <2> HIDE DEF E
    <2>5. \A n \in Nat : n \in E
        BY <2>3, <2>4, FromZero DEF E
    <2> QED
        BY <2>5 DEF E
<1> DEFINE u == Append(s, x)
<1>4. /\ u \in Seq(T) /\ u # <<>> /\ Len(u) = Len(s) + 1 /\ Len(s) \in Nat
      /\ u[Len(s) + 1] = x /\ \A i \in 1 .. Len(s) : u[i] = s[i]
    <2>1. s \in Seq(T) /\ x \in T
        OBVIOUS
    <2> HIDE DEF T
    <2> QED
        BY <2>1, AppendProperties, LenProperties
<1> HIDE DEF u
<1>5. \A n \in Nat : n \in 1 .. Len(s) => Flat(u)[n] = Flat(s)[n]
    <2> DEFINE E == {n \in Nat : n \in 1 .. Len(s) => Flat(u)[n] = Flat(s)[n]}
    <2>1. Upto(u, Flat(u), Len(u)) /\ Upto(s, Flat(s), Len(s))
        BY <1>1, <1>4
    <2> HIDE DEF Flat
    <2>2. /\ \A i \in 1 .. Len(u) : Flat(u)[i] = Step(u, Flat(u), i)
          /\ \A i \in 1 .. Len(s) : Flat(s)[i] = Step(s, Flat(s), i)
        BY <2>1
    <2>3. 0 \in E
        OBVIOUS
    <2>4. ASSUME NEW n \in E PROVE n + 1 \in E
        <3> SUFFICES ASSUME n + 1 \in 1 .. Len(s) PROVE Flat(u)[n + 1] = Flat(s)[n + 1]
            OBVIOUS
        <3>1. n \in Nat /\ n + 1 \in 1 .. Len(u) /\ u[n + 1] = s[n + 1]
            BY <1>4
        <3>2. n # 0 => Flat(u)[n] = Flat(s)[n]
            BY <2>4, <3>1, <1>4
        <3>3. Flat(u)[n + 1] = Step(u, Flat(u), n + 1) /\ Flat(s)[n + 1] = Step(s, Flat(s), n + 1)
            BY <2>2, <3>1
        <3> QED
            BY <3>1, <3>2, <3>3
    <2> HIDE DEF E
    <2>5. \A n \in Nat : n \in E
        BY <2>3, <2>4, FromZero DEF E
    <2> QED
        BY <2>5 DEF E
<1>6. FlattenSeq(u) = Flat(u)[Len(s) + 1]
    <2> HIDE DEF T, Flat
    <2> QED
        BY <1>2, <1>4
<1>7. Flat(u)[Len(s) + 1] = Step(u, Flat(u), Len(s) + 1)
    <2>1. Upto(u, Flat(u), Len(u))
        BY <1>1, <1>4
    <2> HIDE DEF Flat
    <2>2. \A i \in 1 .. Len(u) : Flat(u)[i] = Step(u, Flat(u), i)
        BY <2>1
    <2> QED
        BY <2>2, <1>4
<1>8. CASE s = <<>>
    <2>1. FlattenSeq(s) = <<>>
        BY <1>8 DEF FlattenSeq
    <2>2. FlattenSeq(u) = x
        BY <1>4, <1>6, <1>7, <1>8
    <2> QED
        BY <2>1, <2>2, ConcatEmptySeq DEF u
<1>9. CASE s # <<>>
    <2>1. FlattenSeq(s) = Flat(s)[Len(s)]
        BY <1>2, <1>9
    <2>2. Len(s) # 0
        BY <1>9
    <2> HIDE DEF Flat
    <2>3. Flat(u)[Len(s)] = Flat(s)[Len(s)] /\ Flat(s)[Len(s)] \in T
        BY <1>3, <1>4, <1>5, <2>2
    <2>4. FlattenSeq(u) = Flat(u)[Len(s)] \o x
        BY <1>4, <1>6, <1>7, <2>2
    <2> QED
        BY <2>1, <2>3, <2>4 DEF u
<1> QED
    BY <1>8, <1>9

\* The loop of free_asm_weeperVM over one more instruction frees its operands
\* too.
LEMMA FreedAppend ==
    ASSUME NEW S, \A i \in S : FreedOf(i) \in Nat, NEW p \in Seq(S), NEW x \in S
    PROVE  /\ FreedBy(p) \in Nat
           /\ FreedBy(Append(p, x)) = FreedBy(p) + FreedOf(x)
           /\ FreedBy(<<>>) = 0
<1> DEFINE Step(t, f, n) == IF n = 0 THEN 0 ELSE f[n - 1] + FreedOf(t[n])
           Upto(t, f, n) == f = [m \in 0 .. n |-> Step(t, f, m)]
           Sum(t) == CHOOSE f : Upto(t, f, Len(t))
<1>1. ASSUME NEW t \in Seq(S)
      PROVE  Upto(t, Sum(t), Len(t))
    <2> DEFINE E == {n \in Nat : \E f : Upto(t, f, n)}
    <2>1. 0 \in E
        <3> DEFINE f == [m \in 0 .. 0 |-> 0]
        <3>1. Upto(t, f, 0)
            OBVIOUS
        <3> HIDE DEF Upto, f
        <3> QED
            BY <3>1
    <2>2. ASSUME NEW n \in E PROVE n + 1 \in E
        <3>1. PICK f : Upto(t, f, n)
            BY <2>2
        <3> DEFINE g == [m \in 0 .. n + 1 |-> Step(t, f, m)]
        <3>2. n \in Nat /\ \A m \in 0 .. n : f[m] = Step(t, f, m)
            BY <3>1
        <3>3. \A m \in 0 .. n : g[m] = f[m]
            BY <3>2
        <3>4. \A m \in 0 .. n + 1 : Step(t, f, m) = Step(t, g, m)
            BY <3>2, <3>3
        <3>5. Upto(t, g, n + 1)
            BY <3>4
        <3> HIDE DEF Upto, g
        <3> QED
            BY <3>2, <3>5
    <2>3. Len(t) \in E
        <3> HIDE DEF E
        <3> QED
            BY <2>1, <2>2, FromZero, LenProperties DEF E
    <2> HIDE DEF Upto
    <2> QED
        BY <2>3
<1>2. ASSUME NEW t \in Seq(S)
      PROVE  \A n \in 0 .. Len(t) : Sum(t)[n] = Step(t, Sum(t), n)
    <2>1. Upto(t, Sum(t), Len(t))
        BY <1>1
    <2> HIDE DEF Sum
    <2> QED
        BY <2>1
<1>3. ASSUME NEW t \in Seq(S) PROVE FreedBy(t) = Sum(t)[Len(t)]
    BY DEF FreedBy
<1> DEFINE u == Append(p, x)
<1>4. /\ u \in Seq(S) /\ Len(u) = Len(p) + 1 /\ Len(p) \in Nat
      /\ u[Len(p) + 1] = x /\ \A i \in 1 .. Len(p) : u[i] = p[i]
    BY AppendProperties, LenProperties
<1> HIDE DEF u, Sum
<1>5. \A n \in Nat : n <= Len(p) => Sum(u)[n] = Sum(p)[n] /\ Sum(p)[n] \in Nat
    <2> DEFINE E == {n \in Nat : n <= Len(p) => Sum(u)[n] = Sum(p)[n] /\ Sum(p)[n] \in Nat}
    <2>1. 0 \in E
        <3>1. Sum(p)[0] = 0 /\ Sum(u)[0] = 0
            BY <1>2, <1>4
        <3> QED
            BY <3>1
    <2>2. ASSUME NEW n \in E PROVE n + 1 \in E
        <3> SUFFICES ASSUME n + 1 <= Len(p)
                     PROVE  Sum(u)[n + 1] = Sum(p)[n + 1] /\ Sum(p)[n + 1] \in Nat
            OBVIOUS
        <3>1. /\ n \in Nat /\ n + 1 # 0 /\ (n + 1) - 1 = n
              /\ n + 1 \in 0 .. Len(p) /\ n + 1 \in 0 .. Len(u) /\ n + 1 \in 1 .. Len(p)
            BY <1>4
        <3>2. Sum(u)[n] = Sum(p)[n] /\ Sum(p)[n] \in Nat
            BY <2>2, <3>1, <1>4
        <3>3. Sum(u)[n + 1] = Sum(u)[n] + FreedOf(u[n + 1])
            BY <1>2, <1>4, <3>1
        <3>4. Sum(p)[n + 1] = Sum(p)[n] + FreedOf(p[n + 1])
            BY <1>2, <3>1
        <3>5. u[n + 1] = p[n + 1] /\ FreedOf(p[n + 1]) \in Nat
            BY <1>4, <3>1, ElementOfSeq
        <3> QED
            BY <3>2, <3>3, <3>4, <3>5
    <2> HIDE DEF E
    <2>3. \A n \in Nat : n \in E
        BY <2>1, <2>2, FromZero DEF E
    <2> QED
        BY <2>3 DEF E
<1>6. Sum(u)[Len(u)] = Sum(u)[Len(p)] + FreedOf(x)
    <2>1. Len(u) # 0 /\ Len(u) - 1 = Len(p) /\ Len(u) \in 0 .. Len(u)
        BY <1>4
    <2>2. Sum(u)[Len(u)] = Step(u, Sum(u), Len(u))
        BY <1>2, <1>4, <2>1
    <2> QED
        BY <2>1, <2>2, <1>4
<1>7. FreedBy(p) \in Nat /\ FreedBy(u) = FreedBy(p) + FreedOf(x)
    BY <1>3, <1>4, <1>5, <1>6
<1>8. FreedBy(<<>>) = 0
    <2> DEFINE e == <<>>
    <2>1. e \in Seq(S) /\ Len(e) = 0
        BY EmptySeq
    <2> HIDE DEF e
    <2>2. FreedBy(e) = Sum(e)[0]
        <3>1. FreedBy(e) = Sum(e)[Len(e)]
            BY <2>1, <1>3
        <3> QED
            BY <3>1, <2>1
    <2>3. Sum(e)[0] = Step(e, Sum(e), 0)
        <3>1. 0 \in 0 .. Len(e)
            BY <2>1
        <3> QED
            BY <2>1, <3>1, <1>2
    <2> QED
        BY <2>2, <2>3 DEF e
<1> QED
    BY <1>7, <1>8 DEF u

\* The opcodes with two operands, and those with one.
TwoArgs == (Opcodes \ (JmpOpcodes \cup {"OPCODE_CALL"})) \cup {"OPCODE_JNZ"}
OneArg == JmpOpcodes \ {"OPCODE_JNZ"}

\* The operands an instruction has, according to its opcode.
LEMMA InstructionFacts ==
    ASSUME NEW i \in Instructions
    PROVE  /\ i.opcode \in Opcodes
           /\ i.opcode # "OPCODE_CALL" => i.arg0 \in Trees
           /\ i.opcode \in TwoArgs => i.arg1 \in Trees /\ "arg1" \in DOMAIN i
           /\ i.opcode \in OneArg => "arg1" \notin DOMAIN i
<1>1. CASE i \in [opcode : {"OPCODE_CALL"}, call_name : {"CALL_PUTCHAR", "CALL_READ"}]
    BY <1>1 DEF Opcodes, JmpOpcodes, CondOpcodes, TwoArgs, OneArg
<1>2. CASE i \in [opcode : OneArg, arg0 : Trees]
    <2>1. i.opcode \in OneArg /\ i.arg0 \in Trees /\ DOMAIN i = {"opcode", "arg0"}
        BY <1>2
    <2> QED
        BY <2>1 DEF Opcodes, TwoArgs, OneArg
<1>3. CASE i \in [opcode : TwoArgs, arg0 : Trees, arg1 : Trees]
    <2>1. /\ i.opcode \in TwoArgs /\ i.arg0 \in Trees /\ i.arg1 \in Trees
          /\ DOMAIN i = {"opcode", "arg0", "arg1"}
        BY <1>3
    <2> QED
        BY <2>1 DEF Opcodes, TwoArgs, OneArg, JmpOpcodes, CondOpcodes
<1> QED
    BY <1>1, <1>2, <1>3 DEF Instructions, TwoArgs, OneArg

\* The dispatch tables invert the mnemonics: in particular the number of a
\* jump's token is that of its opcode.
LEMMA MnemonicFacts ==
    /\ \A o \in Opcodes : Mnemonic[o] \in Kinds
    /\ \A m \in OpMnemonics : /\ OpcodeOf[m] \in TwoArgs \ {"OPCODE_JNZ"}
                              /\ Mnemonic[OpcodeOf[m]] = m
    /\ \A m \in JmpMnemonics : /\ JmpOpcode(m) \in JmpOpcodes
                               /\ JmpOpcode(m) = "OPCODE_JNZ" <=> m = "MN_JNZ"
                               /\ Mnemonic[JmpOpcode(m)] = m
<1>1. \A o \in Opcodes : \E k \in 1 .. 36 : Mnemonic[o] = KindOrder[k]
    BY DEF Opcodes, MovOpcodes, AluOpcodes, JmpOpcodes, CondOpcodes, Mnemonic, KindOrder
<1>2. \A o \in Opcodes : Mnemonic[o] \in Kinds
    BY <1>1, KindCount DEF Kinds
<1>3. \A m \in OpMnemonics : /\ OpcodeOf[m] \in TwoArgs \ {"OPCODE_JNZ"}
                             /\ Mnemonic[OpcodeOf[m]] = m
    BY DEF OpMnemonics, OpcodeOf, Mnemonic, TwoArgs, Opcodes, MovOpcodes, AluOpcodes,
           JmpOpcodes, CondOpcodes
<1>4. /\ Number("MN_JNZ") = 11 /\ Number("MN_JA") = 12 /\ Number("MN_JE") = 13
      /\ Number("MN_JL") = 14 /\ Number("MN_JMP") = 15
    <2>1. \A k \in 1 .. 36 : /\ KindOrder[k] = "MN_JNZ" <=> k = 11
                             /\ KindOrder[k] = "MN_JA" <=> k = 12
                             /\ KindOrder[k] = "MN_JE" <=> k = 13
                             /\ KindOrder[k] = "MN_JL" <=> k = 14
                             /\ KindOrder[k] = "MN_JMP" <=> k = 15
        BY DEF KindOrder
    <2> QED
        BY <2>1, KindCount DEF Number
<1>5. /\ JmpOpcode("MN_JNZ") = "OPCODE_JNZ" /\ JmpOpcode("MN_JA") = "OPCODE_JA"
      /\ JmpOpcode("MN_JE") = "OPCODE_JE" /\ JmpOpcode("MN_JL") = "OPCODE_JL"
      /\ JmpOpcode("MN_JMP") = "OPCODE_JMP"
    BY <1>4 DEF JmpOpcode, OpcodeOrder
<1>6. \A m \in JmpMnemonics : /\ JmpOpcode(m) \in JmpOpcodes
                              /\ JmpOpcode(m) = "OPCODE_JNZ" <=> m = "MN_JNZ"
                              /\ Mnemonic[JmpOpcode(m)] = m
    BY <1>5 DEF JmpMnemonics, JmpOpcodes, CondOpcodes, Mnemonic
<1> QED
    BY <1>2, <1>3, <1>6

\* What free_asm_instruction frees, according to the opcode.
LEMMA FreedOfFacts ==
    ASSUME NEW i \in Instructions
    PROVE  /\ FreedOf(i) \in Nat
           /\ i.opcode = "OPCODE_CALL" => FreedOf(i) = 0
           /\ i.opcode \in OneArg => FreedOf(i) = Freed[i.arg0]
           /\ i.opcode \in TwoArgs => FreedOf(i) = Freed[i.arg0] + Freed[i.arg1]
<1>1. \A o \in Trees : Freed[o] \in Nat
    BY OperandFacts, DepthAssumption
<1>2. /\ i.opcode # "OPCODE_CALL" => i.arg0 \in Trees
      /\ i.opcode \in TwoArgs => i.arg1 \in Trees /\ "arg1" \in DOMAIN i
      /\ i.opcode \in OneArg => "arg1" \notin DOMAIN i
    BY InstructionFacts
<1>3. i.opcode \in {"OPCODE_CALL"} \cup OneArg \cup TwoArgs
    BY InstructionFacts DEF OneArg, TwoArgs
<1>4. "OPCODE_CALL" \notin OneArg \cup TwoArgs /\ OneArg \cap TwoArgs = {}
    BY DEF OneArg, TwoArgs, JmpOpcodes, CondOpcodes
<1>5. CASE i.opcode = "OPCODE_CALL"
    BY <1>4, <1>5 DEF FreedOf
<1>6. CASE i.opcode \in OneArg
    BY <1>1, <1>2, <1>4, <1>6 DEF FreedOf
<1>7. CASE i.opcode \in TwoArgs
    BY <1>1, <1>2, <1>4, <1>7 DEF FreedOf
<1> QED
    BY <1>3, <1>5, <1>6, <1>7

\* The line of an instruction is words.
LEMMA LineFacts ==
    ASSUME NEW i \in Instructions
    PROVE  Line(i) \in Seq(Words)
<1> DEFINE W == Words
<1>1. \A k \in Kinds : Word(k) \in W
    BY WordFacts
<1>2. \A o \in Trees : Written[o] \in Seq(W)
    BY OperandFacts, DepthAssumption
<1>3. {"TK_COMMA", "MN_CALL", "FUNC_READ", "FUNC_PUTCHAR", "TK_L_PARENTH",
       "TK_R_PARENTH"} \subseteq Kinds
    BY WordFacts
<1>4. Mnemonic[i.opcode] \in Kinds
    BY InstructionFacts, MnemonicFacts
<1>5. /\ i.opcode # "OPCODE_CALL" => i.arg0 \in Trees
      /\ i.opcode \in TwoArgs => i.arg1 \in Trees
      /\ i.opcode \in {"OPCODE_CALL"} \cup OneArg \cup TwoArgs
    BY InstructionFacts DEF OneArg, TwoArgs
<1> HIDE DEF W
<1>6. <<Word(Mnemonic[i.opcode])>> \in Seq(W) /\ <<Word("TK_COMMA")>> \in Seq(W)
    BY <1>1, <1>3, <1>4
<1>7. CASE i.opcode = "OPCODE_CALL"
    <2> DEFINE f == Word(IF i.call_name = "CALL_READ" THEN "FUNC_READ" ELSE "FUNC_PUTCHAR")
    <2>1. Line(i) = <<Word("MN_CALL"), f, Word("TK_L_PARENTH"), Word("TK_R_PARENTH")>>
        BY <1>7 DEF Line
    <2>2. f \in W /\ Word("MN_CALL") \in W /\ Word("TK_L_PARENTH") \in W /\ Word("TK_R_PARENTH") \in W
        BY <1>1, <1>3
    <2> HIDE DEF f
    <2> QED
        BY <2>1, <2>2 DEF W
<1>8. CASE i.opcode # "OPCODE_CALL"
    <2>1. LineOperands(i) \in Seq(W)
        <3>1. CASE i.opcode \in OneArg
            <4>1. LineOperands(i) = Written[i.arg0]
                BY <3>1 DEF LineOperands, OneArg
            <4> QED
                BY <4>1, <1>2, <1>5, <1>8
        <3>2. CASE i.opcode \in TwoArgs
            <4>1. Written[i.arg0] \in Seq(W) /\ Written[i.arg1] \in Seq(W)
                BY <1>2, <1>5, <1>8, <3>2
            <4>2. /\ Written[i.arg0] \o <<Word("TK_COMMA")>> \in Seq(W)
                  /\ Written[i.arg1] \o <<Word("TK_COMMA")>> \in Seq(W)
                BY <4>1, <1>6, ConcatProperties
            <4>3. /\ Written[i.arg0] \o <<Word("TK_COMMA")>> \o Written[i.arg1] \in Seq(W)
                  /\ Written[i.arg1] \o <<Word("TK_COMMA")>> \o Written[i.arg0] \in Seq(W)
                BY <4>1, <4>2, ConcatProperties
            <4>4. \/ LineOperands(i) = Written[i.arg0] \o <<Word("TK_COMMA")>> \o Written[i.arg1]
                  \/ LineOperands(i) = Written[i.arg1] \o <<Word("TK_COMMA")>> \o Written[i.arg0]
                BY <3>2 DEF LineOperands, TwoArgs
            <4> QED
                BY <4>3, <4>4
        <3> QED
            BY <1>5, <1>8, <3>1, <3>2
    <2>2. Line(i) = <<Word(Mnemonic[i.opcode])>> \o LineOperands(i)
        BY <1>8 DEF Line
    <2> QED
        BY <1>6, <2>1, <2>2, ConcatProperties DEF W
<1> QED
    BY <1>7, <1>8

\* The listing of one more instruction has its line behind.
LEMMA LinesAppend ==
    ASSUME NEW p \in Seq(Instructions), NEW i \in Instructions
    PROVE  /\ Lines(p) \in Seq(Words)
           /\ Lines(Append(p, i)) = Lines(p) \o Line(i)
           /\ Lines(<<>>) = <<>>
<1> DEFINE ls(q) == [k \in 1 .. Len(q) |-> Line(q[k])]
           T == Seq(Words)
           q == Append(p, i)
<1>1. \A j \in Instructions : Line(j) \in T
    BY LineFacts
<1>2. /\ q \in Seq(Instructions) /\ Len(q) = Len(p) + 1 /\ Len(p) \in Nat
      /\ q[Len(p) + 1] = i /\ \A k \in 1 .. Len(p) : q[k] = p[k]
    BY AppendProperties, LenProperties
<1>3. \A k \in 1 .. Len(p) : p[k] \in Instructions
    BY ElementOfSeq
<1> HIDE DEF T, q
<1>4. ls(p) \in Seq(T) /\ Len(ls(p)) = Len(p)
    <2>1. \A k \in 1 .. Len(p) : Line(p[k]) \in T
        BY <1>1, <1>3
    <2> QED
        BY <2>1, <1>2, IsASeq, LenProperties
<1>5. Append(ls(p), Line(i)) = ls(q)
    <2>1. Line(i) \in T
        BY <1>1
    <2>2. /\ Append(ls(p), Line(i)) \in Seq(T)
          /\ Len(Append(ls(p), Line(i))) = Len(p) + 1
          /\ \A k \in 1 .. Len(p) : Append(ls(p), Line(i))[k] = ls(p)[k]
          /\ Append(ls(p), Line(i))[Len(p) + 1] = Line(i)
        BY <1>4, <2>1, AppendProperties
    <2>3. /\ ls(q) \in Seq(T) /\ Len(ls(q)) = Len(p) + 1
          /\ \A k \in 1 .. Len(p) : ls(q)[k] = ls(p)[k]
          /\ ls(q)[Len(p) + 1] = Line(i)
        <3>1. \A k \in 1 .. Len(q) : Line(q[k]) \in T
            BY <1>1, <1>2, ElementOfSeq
        <3>2. ls(q) \in Seq(T) /\ Len(ls(q)) = Len(q)
            BY <3>1, <1>2, IsASeq, LenProperties
        <3> QED
            BY <3>2, <1>2
    <2> DEFINE a == Append(ls(p), Line(i))
               b == ls(q)
    <2>4. \A k \in 1 .. Len(p) + 1 : a[k] = b[k]
        <3> HIDE DEF ls
        <3> TAKE k \in 1 .. Len(p) + 1
        <3>1. k \in 1 .. Len(p) \/ k = Len(p) + 1
            BY <1>2
        <3> QED
            BY <2>2, <2>3, <3>1
    <2> HIDE DEF a, b
    <2>5. a \in Seq(T) /\ b \in Seq(T) /\ Len(a) = Len(b) /\ \A k \in 1 .. Len(a) : a[k] = b[k]
        BY <2>2, <2>3, <2>4 DEF a, b
    <2>6. a = b
        BY <2>5, SeqEqual
    <2> QED
        BY <2>6 DEF a, b
<1>6. Lines(p) = FlattenSeq(ls(p)) /\ Lines(q) = FlattenSeq(ls(q))
    BY DEF Lines
<1>7. /\ FlattenSeq(ls(p)) \in Seq(Words)
      /\ FlattenSeq(Append(ls(p), Line(i))) = FlattenSeq(ls(p)) \o Line(i)
    <2>1. ls(p) \in Seq(Seq(Words)) /\ Line(i) \in Seq(Words)
        BY <1>1, <1>4 DEF T
    <2> HIDE DEF ls
    <2> QED
        BY <2>1, FlattenAppend
<1>8. Lines(<<>>) = <<>>
    <2>1. Len(ls(<<>>)) = 0
        OBVIOUS
    <2> QED
        BY <2>1 DEF Lines, FlattenSeq
<1> HIDE DEF ls
<1> QED
    BY <1>5, <1>6, <1>7, <1>8 DEF q

-----------------------------------------------------------------------------
(***************************************************************************)
(* Sequences: concatenation regrouped, its first and its last element.     *)
(***************************************************************************)
Three(S, x, y, z) == x \in Seq(S) /\ y \in Seq(S) /\ z \in Seq(S)
Associate(x, y, z) == (x \o y) \o z = x \o (y \o z)

\* Concatenation is associative.
LEMMA Associative ==
    ASSUME NEW S, NEW x, NEW y, NEW z, Three(S, x, y, z)
    PROVE  Associate(x, y, z)
BY ConcatAssociative DEF Three, Associate

\* Sequences with the same elements are the same.
LEMMA SameLists ==
    ASSUME NEW S, NEW u \in Seq(S), NEW v \in Seq(S), NEW n \in Nat,
           Len(u) = n, Len(v) = n, \A i \in 1 .. n : u[i] = v[i]
    PROVE  u = v
BY SeqEqual

\* The first element, and what is after it.
LEMMA Prepended ==
    ASSUME NEW S, NEW s \in Seq(S), s # <<>>, NEW t \in Seq(S)
    PROVE  /\ s \o t # <<>> /\ s \o t \in Seq(S)
           /\ Head(s \o t) = s[1]
           /\ Tail(s \o t) = Tail(s) \o t
<1> DEFINE u == s \o t
<1>1. /\ u \in Seq(S) /\ Len(u) = Len(s) + Len(t)
      /\ \A i \in 1 .. Len(u) : u[i] = IF i <= Len(s) THEN s[i] ELSE t[i - Len(s)]
    BY ConcatProperties
<1>2. Len(s) \in Nat \ {0} /\ Len(t) \in Nat
    BY EmptySeq, LenProperties
<1> HIDE DEF u
<1>3. u # <<>> /\ Head(u) = s[1]
    <2>1. Len(u) # 0
        BY <1>1, <1>2
    <2>2. u # <<>>
        BY <2>1
    <2>3. Head(u) = u[1]
        BY <2>2, <1>1
    <2> QED
        BY <1>1, <1>2, <2>2, <2>3
<1>4. /\ Tail(u) \in Seq(S) /\ Len(Tail(u)) = Len(u) - 1
      /\ \A i \in 1 .. Len(Tail(u)) : Tail(u)[i] = u[i + 1]
    BY <1>1, <1>3, HeadTailProperties
<1>5. /\ Tail(s) \in Seq(S) /\ Len(Tail(s)) = Len(s) - 1
      /\ \A i \in 1 .. Len(Tail(s)) : Tail(s)[i] = s[i + 1]
    BY HeadTailProperties
<1> DEFINE v == Tail(s) \o t
           w == Tail(u)
<1>6. /\ v \in Seq(S) /\ Len(v) = Len(Tail(s)) + Len(t)
      /\ \A i \in 1 .. Len(v) : v[i] = IF i <= Len(Tail(s)) THEN Tail(s)[i] ELSE t[i - Len(Tail(s))]
    BY <1>5, ConcatProperties
<1>7. Len(v) = Len(w) /\ \A i \in 1 .. Len(v) : v[i] = w[i]
    <2>1. Len(v) = Len(w)
        BY <1>1, <1>2, <1>4, <1>5, <1>6
    <2>2. ASSUME NEW i \in 1 .. Len(v) PROVE v[i] = w[i]
        <3>1. i \in Int
            OBVIOUS
        <3>2. w[i] = u[i + 1] /\ i + 1 \in 1 .. Len(u)
            BY <2>1, <1>1, <1>2, <1>4
        <3>3. CASE i <= Len(s) - 1
            <4>1. v[i] = s[i + 1]
                BY <3>3, <1>2, <1>5, <1>6
            <4> QED
                BY <3>2, <3>3, <4>1, <1>1, <1>2
        <3>4. CASE i > Len(s) - 1
            <4>1. v[i] = t[i - (Len(s) - 1)]
                BY <3>4, <1>2, <1>5, <1>6
            <4>2. i + 1 - Len(s) = i - (Len(s) - 1) /\ ~ (i + 1 <= Len(s))
                BY <3>4, <1>2
            <4> QED
                BY <3>2, <4>1, <4>2, <1>1
        <3>5. i <= Len(s) - 1 \/ i > Len(s) - 1
            BY <3>1, <1>2
        <3> QED
            BY <3>3, <3>4, <3>5
    <2> QED
        BY <2>1, <2>2
<1>8. v = w
    <2> HIDE DEF v, w
    <2>1. w \in Seq(S)
        BY <1>4 DEF w
    <2> QED
        BY <2>1, <1>6, <1>7, SeqEqual
<1> QED
    BY <1>1, <1>3, <1>8 DEF u

\* The last element, and what is before it.
LEMMA Appended ==
    ASSUME NEW S, NEW s \in Seq(S), NEW x \in S
    PROVE  Last(Append(s, x)) = x /\ Front(Append(s, x)) = s
<1> DEFINE u == Append(s, x)
<1>1. /\ u \in Seq(S) /\ Len(u) = Len(s) + 1 /\ Len(s) \in Nat
      /\ u[Len(s) + 1] = x /\ \A i \in 1 .. Len(s) : u[i] = s[i]
    BY AppendProperties, LenProperties
<1> HIDE DEF u
<1>2. Last(u) = x
    BY <1>1 DEF Last
<1>3. Front(u) = SubSeq(u, 1, Len(s))
    BY <1>1 DEF Front
<1>4. /\ SubSeq(u, 1, Len(s)) \in Seq(S) /\ Len(SubSeq(u, 1, Len(s))) = Len(s)
      /\ \A i \in 1 .. Len(s) : SubSeq(u, 1, Len(s))[i] = s[i]
    <2>1. \A i \in 1 .. Len(s) : u[i] \in S
        BY <1>1, ElementOfSeq
    <2>2. /\ SubSeq(u, 1, Len(s)) \in Seq(S)
          /\ Len(SubSeq(u, 1, Len(s))) = IF 1 <= Len(s) THEN Len(s) - 1 + 1 ELSE 0
          /\ \A i \in 1 .. Len(s) - 1 + 1 : SubSeq(u, 1, Len(s))[i] = u[1 + i - 1]
        BY <2>1, SubSeqProperties
    <2> QED
        BY <2>2, <1>1
<1> DEFINE v == SubSeq(u, 1, Len(s))
<1> HIDE DEF v
<1>5. v = s
    <2>1. v \in Seq(S) /\ Len(v) = Len(s) /\ \A i \in 1 .. Len(s) : v[i] = s[i]
        BY <1>4 DEF v
    <2> QED
        BY <2>1, SeqEqual
<1> QED
    BY <1>2, <1>3, <1>5 DEF u, v

-----------------------------------------------------------------------------
(***************************************************************************)
(* Where the parser is.  The tokens taken are the listing of the program   *)
(* and a prefix of the next line; what is pending is what that prefix      *)
(* leaves to come, and the operands alive are those of the program and of  *)
(* the prefix.  An operand nested in k brackets is described by the k      *)
(* places around it (Inside), from the outermost one.                      *)
(***************************************************************************)
SeenTokens == [c \in 1 .. token_index |-> Seen(tokens[c])]

\* The words up to the mnemonic of the instruction being parsed.
Begun == Lines(program) \o <<Word(Mnemonic[opcode])>>

\* An operand begins after words; asks is what is asked for behind it, held
\* operands are alive, before are those that wait in args.
Outermost(words, asks, held, before) ==
    \/ /\ opcode \in TwoArgs /\ before = <<>>
       /\ words = Begun /\ asks = <<"TK_COMMA", "operand", "return">>
       /\ held = FreedBy(program)
    \/ /\ opcode \in OneArg /\ before = <<>>
       /\ words = Begun /\ asks = <<"return">>
       /\ held = FreedBy(program)
    \/ /\ opcode \in TwoArgs /\ asks = <<"return">>
       /\ \E a \in Trees : /\ before = <<a>>
                           /\ words = (Begun \o Written[a]) \o <<Word("TK_COMMA")>>
                           /\ held = FreedBy(program) + Freed[a]

\* The operands with an index, the words before it and what is asked for behind.
Indices == {"OPE_REG", "OPE_MEM"}
Opening(kind) == <<Word(OperandToken[kind]), Word("TK_L_SQ_BRACKET")>>
Closer(kind) == <<"TK_R_SQ_BRACKET", kind>>

\* The same inside of k brackets.
Inside(words, asks, k, held, before) ==
    \E w \in [Nat -> Seq(Words)], a \in [Nat -> Seq(Asked)], kd \in [Nat -> Indices] :
       /\ Outermost(w[0], a[0], held - k, before)
       /\ \A j \in 1 .. k : /\ w[j] = w[j - 1] \o Opening(kd[j])
                            /\ a[j] = Closer(kd[j]) \o a[j - 1]
       /\ words = w[k] /\ asks = a[k]

\* Between two instructions.
AtLine == todo = <<>> /\ args = <<>> /\ SeenTokens = Lines(program) /\ live = FreedBy(program)

\* An operand is asked for.
AtOperand(words, asks, k, held, before) ==
    /\ Inside(words, asks, k, held, before)
    /\ todo = <<"operand">> \o asks
    /\ args = before
    /\ SeenTokens = words
    /\ live = held

\* An operand was begun, and its opening bracket is asked for.
AtBracket(words, asks, k, held, before, kind) ==
    /\ Inside(words, asks, k, held, before)
    /\ todo = (<<"TK_L_SQ_BRACKET", "operand">> \o Closer(kind)) \o asks
    /\ args = before
    /\ SeenTokens = words \o <<Word(OperandToken[kind])>>
    /\ live = held + 1

\* The operand o is complete.
Holds(words, asks, k, held, before, o) ==
    /\ Inside(words, asks, k, held, before)
    /\ todo = asks
    /\ args = Append(before, o)
    /\ SeenTokens = words \o Written[o]
    /\ live = held + Freed[o]

IndexedBy(kind, t) == [kind |-> kind, index |-> t]

\* The index t is complete with its bracket, and its operand is not yet.
AtReturn(words, asks, k, held, before, kind, t) ==
    LET o == IndexedBy(kind, t) IN
    /\ Inside(words, asks, k, held, before)
    /\ todo = <<kind>> \o asks
    /\ args = Append(before, t)
    /\ SeenTokens = words \o Written[o]
    /\ live = held + Freed[o]

\* Inside of a call.
CallWord(f) == Word(IF f = "CALL_READ" THEN "FUNC_READ" ELSE "FUNC_PUTCHAR")

AtCall ==
    /\ opcode = "OPCODE_CALL" /\ live = FreedBy(program)
    /\ \/ /\ todo = <<"callee", "return">> /\ args = <<>>
          /\ SeenTokens = Begun
       \/ \E f \in {"CALL_PUTCHAR", "CALL_READ"} :
             /\ args = <<f>>
             /\ \/ /\ todo = <<"TK_L_PARENTH", "TK_R_PARENTH", "return">>
                   /\ SeenTokens = Begun \o <<CallWord(f)>>
                \/ /\ todo = <<"TK_R_PARENTH", "return">>
                   /\ SeenTokens = Begun \o <<CallWord(f), Word("TK_L_PARENTH")>>
                \/ /\ todo = <<"return">>
                   /\ SeenTokens = Begun \o <<CallWord(f), Word("TK_L_PARENTH"), Word("TK_R_PARENTH")>>

\* The brackets opened so far.
Budget == Opened(tokens, token_index)

\* A bracket of the tokens taken pays for each level of the operand.
Somewhere(words, asks, k, held, before) ==
    \/ k <= Budget /\ AtOperand(words, asks, k, held, before)
    \/ k <= Budget /\ \E kind \in Indices : AtBracket(words, asks, k, held, before, kind)
    \/ \E h \in Nat : k + h <= Budget /\ \E o \in Tree[h] : Holds(words, asks, k, held, before, o)
    \/ \E h \in Nat : k + h + 1 <= Budget /\ \E kind \in Indices, t \in Tree[h] :
          AtReturn(words, asks, k, held, before, kind, t)

InOperand ==
    \E words \in Seq(Words), asks \in Seq(Asked), k \in Nat, held \in Nat,
       before \in Seq(Trees) : Somewhere(words, asks, k, held, before)

Place == AtLine \/ InOperand \/ AtCall

\* The list of tokens, the program, and the phases.
ListInv ==
    /\ tokens \in Seq(Cells) /\ token_index \in 0 .. Len(tokens) /\ last \in 0 .. Len(tokens)
    /\ Opened(tokens, Len(tokens)) <= Depth
    /\ nb_instructions \in Nat
    /\ program \in Seq(Instructions)
    /\ pc \in {"start", "parse", "done", "freed", "exit", "wild"}

\* The inductive invariant.
PlaceInv ==
    /\ ListInv
    /\ pc = "start" => program = <<>> /\ todo = <<>> /\ args = <<>> /\ live = 0
    /\ pc # "start" => SeenTokens \in Seq(Words)
    /\ pc \in {"parse", "exit", "wild"} => Place
    /\ pc = "done" => AtLine
    /\ pc = "freed" => args = <<>> /\ live = 0

-----------------------------------------------------------------------------
(***************************************************************************)
(* What the place implies, and how it moves when a bracket opens or        *)
(* closes.                                                                 *)
(***************************************************************************)
\* What a program frees and prints.
LEMMA ProgramFacts ==
    ASSUME NEW p \in Seq(Instructions)
    PROVE  FreedBy(p) \in Nat /\ Lines(p) \in Seq(Words)
<1>1. [opcode |-> "OPCODE_CALL", call_name |-> "CALL_READ"] \in Instructions
    BY DEF Instructions
<1>2. \A i \in Instructions : FreedOf(i) \in Nat
    BY FreedOfFacts
<1> QED
    BY <1>1, <1>2, FreedAppend, LinesAppend

\* What the calls ask for, in pieces.
LEMMA AskedLists ==
    /\ <<"operand">> \in Seq(Asked) /\ <<"return">> \in Seq(Asked)
    /\ <<"TK_COMMA", "operand", "return">> \in Seq(Asked)
    /\ \A kind \in Indices : /\ Closer(kind) \in Seq(Asked) /\ <<kind>> \in Seq(Asked)
                             /\ <<"TK_L_SQ_BRACKET", "operand">> \o Closer(kind) \in Seq(Asked)
<1>1. /\ <<"operand">> \in Seq(Asked) /\ <<"return">> \in Seq(Asked)
      /\ <<"TK_COMMA", "operand", "return">> \in Seq(Asked)
      /\ <<"TK_L_SQ_BRACKET", "operand">> \in Seq(Asked)
    BY DEF Asked
<1>2. \A kind \in Indices : Closer(kind) \in Seq(Asked) /\ <<kind>> \in Seq(Asked)
    BY DEF Asked, Closer, Indices
<1> QED
    BY <1>1, <1>2, ConcatProperties

\* The words that an operand opens and closes with.
LEMMA OpeningWords ==
    /\ \A kind \in Indices : /\ Opening(kind) \in Seq(Words)
                             /\ OperandToken[kind] \in Kinds
                             /\ <<Word(OperandToken[kind])>> \in Seq(Words)
    /\ <<Word("TK_L_SQ_BRACKET")>> \in Seq(Words) /\ <<Word("TK_R_SQ_BRACKET")>> \in Seq(Words)
    /\ <<Word("TK_COMMA")>> \in Seq(Words)
<1> DEFINE W == Words
<1>1. /\ Word("TK_L_SQ_BRACKET") \in W /\ Word("TK_R_SQ_BRACKET") \in W
      /\ Word("TK_COMMA") \in W /\ Word("TK_REGISTER") \in W /\ Word("TK_MEMORY") \in W
    BY WordFacts
<1> HIDE DEF W
<1>2. \A kind \in Indices : OperandToken[kind] \in {"TK_REGISTER", "TK_MEMORY"}
    BY DEF Indices, OperandToken
<1>3. \A kind \in Indices : Word(OperandToken[kind]) \in W
    BY <1>1, <1>2
<1>4. \A kind \in Indices : OperandToken[kind] \in Kinds
    BY <1>2, WordFacts
<1>5. \A kind \in Indices : Opening(kind) \in Seq(W) /\ <<Word(OperandToken[kind])>> \in Seq(W)
    BY <1>1, <1>3 DEF Opening
<1>6. <<Word("TK_L_SQ_BRACKET")>> \in Seq(W) /\ <<Word("TK_R_SQ_BRACKET")>> \in Seq(W)
      /\ <<Word("TK_COMMA")>> \in Seq(W)
    BY <1>1
<1> QED
    BY <1>4, <1>5, <1>6 DEF W

\* An outermost operand is inside of no bracket,
LEMMA InsideZero ==
    ASSUME NEW words \in Seq(Words), NEW asks \in Seq(Asked), NEW held \in Nat, NEW before,
           Outermost(words, asks, held, before)
    PROVE  Inside(words, asks, 0, held, before)
<1> DEFINE w == [n \in Nat |-> words]
           a == [n \in Nat |-> asks]
           kd == [n \in Nat |-> "OPE_REG"]
<1>1. w \in [Nat -> Seq(Words)] /\ a \in [Nat -> Seq(Asked)] /\ kd \in [Nat -> Indices]
    BY DEF Indices
<1>2. w[0] = words /\ a[0] = asks /\ held - 0 = held
    OBVIOUS
<1> HIDE DEF w, a, kd
<1>3. Outermost(w[0], a[0], held - 0, before)
    BY <1>2
<1>4. \A j \in 1 .. 0 : w[j] = w[j - 1] \o Opening(kd[j]) /\ a[j] = Closer(kd[j]) \o a[j - 1]
    OBVIOUS
<1> QED
    BY <1>1, <1>2, <1>3, <1>4 DEF Inside

\* one bracket more leads one level down,
LEMMA InsideMore ==
    ASSUME NEW words \in Seq(Words), NEW asks \in Seq(Asked), NEW k \in Nat, NEW held \in Nat,
           NEW before, NEW kind \in Indices,
           Inside(words, asks, k, held, before)
    PROVE  Inside(words \o Opening(kind), Closer(kind) \o asks, k + 1, held + 1, before)
<1>1. PICK w \in [Nat -> Seq(Words)], a \in [Nat -> Seq(Asked)], kd \in [Nat -> Indices] :
         /\ Outermost(w[0], a[0], held - k, before)
         /\ \A j \in 1 .. k : /\ w[j] = w[j - 1] \o Opening(kd[j])
                              /\ a[j] = Closer(kd[j]) \o a[j - 1]
         /\ words = w[k] /\ asks = a[k]
    BY DEF Inside
<1> DEFINE w2 == [w EXCEPT ![k + 1] = words \o Opening(kind)]
           a2 == [a EXCEPT ![k + 1] = Closer(kind) \o asks]
           kd2 == [kd EXCEPT ![k + 1] = kind]
<1>2. words \o Opening(kind) \in Seq(Words) /\ Closer(kind) \o asks \in Seq(Asked)
    BY OpeningWords, AskedLists, ConcatProperties
<1>3. w2 \in [Nat -> Seq(Words)] /\ a2 \in [Nat -> Seq(Asked)] /\ kd2 \in [Nat -> Indices]
    BY <1>2
<1>4. /\ \A j \in 0 .. k : w2[j] = w[j] /\ a2[j] = a[j] /\ kd2[j] = kd[j]
      /\ w2[k + 1] = words \o Opening(kind) /\ a2[k + 1] = Closer(kind) \o asks
      /\ kd2[k + 1] = kind
    OBVIOUS
<1> HIDE DEF w2, a2, kd2
<1>5. ASSUME NEW j \in 1 .. k + 1
      PROVE  w2[j] = w2[j - 1] \o Opening(kd2[j]) /\ a2[j] = Closer(kd2[j]) \o a2[j - 1]
    <2>1. CASE j \in 1 .. k
        <3>1. j \in 0 .. k /\ j - 1 \in 0 .. k
            BY <2>1
        <3> QED
            BY <2>1, <3>1, <1>1, <1>4
    <2>2. CASE j = k + 1
        <3>1. j - 1 = k /\ k \in 0 .. k
            BY <2>2
        <3> QED
            BY <2>2, <3>1, <1>1, <1>4
    <2>3. j \in 1 .. k \/ j = k + 1
        OBVIOUS
    <2> QED
        BY <2>1, <2>2, <2>3
<1>6. Outermost(w2[0], a2[0], (held + 1) - (k + 1), before)
    <2>1. (held + 1) - (k + 1) = held - k /\ 0 \in 0 .. k
        OBVIOUS
    <2>2. w2[0] = w[0] /\ a2[0] = a[0]
        BY <1>4, <2>1
    <2> QED
        BY <1>1, <2>1, <2>2
<1> QED
    BY <1>3, <1>4, <1>5, <1>6 DEF Inside

\* The bracket of the innermost level was opened after w.
OneLess(words, asks, k, held, before, w, a, kind) ==
    /\ w \in Seq(Words) /\ a \in Seq(Asked)
    /\ Inside(w, a, k - 1, held - 1, before)
    /\ words = w \o Opening(kind) /\ asks = Closer(kind) \o a

\* from inside of brackets there is one level less,
LEMMA InsideLess ==
    ASSUME NEW words, NEW asks, NEW k \in Nat \ {0}, NEW held \in Int,
           NEW before, Inside(words, asks, k, held, before)
    PROVE  \E w, a : \E kind \in Indices :
              OneLess(words, asks, k, held, before, w, a, kind)
<1>1. PICK w \in [Nat -> Seq(Words)], a \in [Nat -> Seq(Asked)], kd \in [Nat -> Indices] :
         /\ Outermost(w[0], a[0], held - k, before)
         /\ \A j \in 1 .. k : /\ w[j] = w[j - 1] \o Opening(kd[j])
                              /\ a[j] = Closer(kd[j]) \o a[j - 1]
         /\ words = w[k] /\ asks = a[k]
    BY DEF Inside
<1>2. k - 1 \in Nat /\ (held - 1) - (k - 1) = held - k /\ \A j \in 1 .. k - 1 : j \in 1 .. k
    OBVIOUS
<1>3. Inside(w[k - 1], a[k - 1], k - 1, held - 1, before)
    BY <1>1, <1>2 DEF Inside
<1>4. words = w[k - 1] \o Opening(kd[k]) /\ asks = Closer(kd[k]) \o a[k - 1]
    <2>1. k \in 1 .. k
        OBVIOUS
    <2> QED
        BY <1>1, <2>1
<1>5. w[k - 1] \in Seq(Words) /\ a[k - 1] \in Seq(Asked) /\ kd[k] \in Indices
    BY <1>2
<1> QED
    BY <1>3, <1>4, <1>5 DEF OneLess

\* and without brackets the operand is outermost.
LEMMA InsideNone ==
    ASSUME NEW words, NEW asks, NEW held \in Int, NEW before, Inside(words, asks, 0, held, before)
    PROVE  Outermost(words, asks, held, before)
<1>1. held - 0 = held
    OBVIOUS
<1> QED
    BY <1>1 DEF Inside

\* The place inside depends on the program and the opcode only.
LEMMA InsideStays ==
    ASSUME NEW words, NEW asks, NEW k, NEW held, NEW before,
           program' = program, opcode' = opcode
    PROVE  Inside(words, asks, k, held, before)' = Inside(words, asks, k, held, before)
<1>1. \A w, a, h : Outermost(w, a, h, before)' = Outermost(w, a, h, before)
    BY DEF Outermost, Begun
<1> QED
    BY <1>1 DEF Inside

\* An outermost operand is followed by a comma or by the end of the
\* instruction.
LEMMA OutermostFacts ==
    ASSUME ListInv, NEW words, NEW asks, NEW held, NEW before,
           Outermost(words, asks, held, before)
    PROVE  /\ held \in Nat /\ before \in Seq(Trees) /\ Len(before) <= 1
           /\ asks # <<>> /\ Head(asks) \in {"TK_COMMA", "return"}
<1>1. FreedBy(program) \in Nat
    BY ProgramFacts DEF ListInv
<1>2. \A a \in Trees : Freed[a] \in Nat /\ <<a>> \in Seq(Trees) /\ Len(<<a>>) = 1
    BY OperandFacts, DepthAssumption
<1>3. held \in Nat
    BY <1>1, <1>2 DEF Outermost
<1>4. before \in Seq(Trees) /\ Len(before) <= 1
    <2>1. before = <<>> \/ \E a \in Trees : before = <<a>>
        BY DEF Outermost
    <2>2. <<>> \in Seq(Trees) /\ Len(<<>>) = 0
        BY EmptySeq
    <2>3. CASE before = <<>>
        BY <2>2, <2>3
    <2>4. CASE \E a \in Trees : before = <<a>>
        BY <1>2, <2>4
    <2> QED
        BY <2>1, <2>3, <2>4
<1>5. asks # <<>> /\ Head(asks) \in {"TK_COMMA", "return"}
    BY DEF Outermost
<1> QED
    BY <1>3, <1>4, <1>5

\* Inside of brackets a closing one is asked for.
LEMMA InsideFacts ==
    ASSUME ListInv, NEW words \in Seq(Words), NEW asks \in Seq(Asked), NEW k \in Nat, NEW held \in Int,
           NEW before, Inside(words, asks, k, held, before)
    PROVE  /\ held \in Nat /\ before \in Seq(Trees) /\ Len(before) <= 1
           /\ asks # <<>>
           /\ k = 0 => Head(asks) \in {"TK_COMMA", "return"}
           /\ k # 0 => Head(asks) = "TK_R_SQ_BRACKET"
<1>1. PICK w, a : Outermost(w, a, held - k, before)
    BY DEF Inside
<1>2. held - k \in Nat /\ before \in Seq(Trees) /\ Len(before) <= 1
    BY <1>1, OutermostFacts
<1>3. held \in Nat
    BY <1>2
<1>4. CASE k = 0
    BY <1>2, <1>3, <1>4, InsideNone, OutermostFacts
<1>5. CASE k # 0
    <2>1. PICK v, c : \E kind \in Indices : OneLess(words, asks, k, held, before, v, c, kind)
        BY <1>5, InsideLess
    <2>2. PICK kind \in Indices : OneLess(words, asks, k, held, before, v, c, kind)
        BY <2>1
    <2>3. asks = Closer(kind) \o c /\ c \in Seq(Asked)
        BY <2>2 DEF OneLess
    <2>4. Closer(kind) \in Seq(Asked) /\ Closer(kind) # <<>> /\ Closer(kind)[1] = "TK_R_SQ_BRACKET"
        BY AskedLists DEF Closer
    <2>5. asks # <<>> /\ Head(asks) = "TK_R_SQ_BRACKET"
        BY <2>3, <2>4, Prepended
    <2> QED
        BY <1>2, <1>3, <1>5, <2>5
<1> QED
    BY <1>4, <1>5

-----------------------------------------------------------------------------
(***************************************************************************)
(* Taking a token: one more word is seen, and only the opening bracket     *)
(* raises what the nesting may come to.                                    *)
(***************************************************************************)
\* The brackets taken are at most those of the list.
LEMMA BudgetFacts ==
    ASSUME ListInv
    PROVE  Budget \in Nat /\ Budget <= Depth
<1> DEFINE B(n) == {c \in 1 .. n : tokens[c].kind = "TK_L_SQ_BRACKET"}
<1>1. token_index \in Nat /\ Len(tokens) \in Nat /\ token_index <= Len(tokens)
    BY LenProperties DEF ListInv
<1>2. IsFiniteSet(1 .. Len(tokens))
    BY <1>1, FS_Interval
<1>3. B(Len(tokens)) \subseteq 1 .. Len(tokens) /\ B(token_index) \subseteq B(Len(tokens))
    BY <1>1
<1> HIDE DEF B
<1>4. IsFiniteSet(B(Len(tokens)))
    BY <1>2, <1>3, FS_Subset
<1>5. /\ Cardinality(B(Len(tokens))) \in Nat /\ Cardinality(B(token_index)) \in Nat
      /\ Cardinality(B(token_index)) <= Cardinality(B(Len(tokens)))
    BY <1>3, <1>4, FS_Subset, FS_CardinalityType
<1>6. Budget = Cardinality(B(token_index)) /\ Opened(tokens, Len(tokens)) = Cardinality(B(Len(tokens)))
    BY DEF Budget, Opened, B
<1> QED
    BY <1>5, <1>6, DepthAssumption DEF ListInv

\* As many words as tokens are seen.
LEMMA SeenLength ==
    ASSUME token_index \in Nat
    PROVE  Len(SeenTokens) = token_index
BY DEF SeenTokens

\* The step of accept_token, on what is seen.
LEMMA TakeToken ==
    ASSUME ListInv, SeenTokens \in Seq(Words), IsShown, token_index' = token_index + 1, tokens' = tokens
    PROVE  /\ token_index' \in 0 .. Len(tokens')
           /\ Shown.kind \in Kinds /\ Shown.value \in Nat
           /\ <<Seen(Shown)>> \in Seq(Words)
           /\ Shown.kind # "TK_IMMEDIATE" => Seen(Shown) = Word(Shown.kind)
           /\ SeenTokens' \in Seq(Words)
           /\ SeenTokens' = SeenTokens \o <<Seen(Shown)>>
           /\ Budget' \in Nat /\ Budget <= Budget'
           /\ Shown.kind = "TK_L_SQ_BRACKET" => Budget' = Budget + 1
<1>1. /\ token_index \in Nat /\ Len(tokens) \in Nat /\ token_index < Len(tokens)
      /\ token_index + 1 \in 1 .. Len(tokens) /\ token_index' \in Nat
    BY LenProperties DEF ListInv, IsShown
<1>2. Shown \in Cells
    BY <1>1, ElementOfSeq DEF ListInv, Shown
<1>3. Shown.kind \in Kinds /\ Shown.value \in Nat
    BY <1>2 DEF Shown, IsShown, Cells
<1>4. Seen(Shown) \in Words
    BY <1>3 DEF Seen, Words, Word
<1>5. Shown.kind # "TK_IMMEDIATE" => Seen(Shown) = Word(Shown.kind)
    BY DEF Seen
<1>6. SeenTokens' \in Seq(Words) /\ SeenTokens' = SeenTokens \o <<Seen(Shown)>>
    <2> DEFINE W == Words
               s == SeenTokens
               x == Seen(Shown)
               u == SeenTokens'
    <2>1. s \in Seq(W) /\ x \in W /\ Len(s) = token_index
        BY <1>1, <1>4, SeenLength
    <2>2. \A c \in 1 .. token_index : s[c] = Seen(tokens[c])
        BY DEF SeenTokens
    <2>3. u = [c \in 1 .. token_index + 1 |-> Seen(tokens[c])]
        BY DEF SeenTokens
    <2>4. \A c \in 1 .. token_index + 1 : u[c] = IF c = token_index + 1 THEN x ELSE s[c]
        <3> HIDE DEF s, x
        <3> TAKE c \in 1 .. token_index + 1
        <3>1. u[c] = Seen(tokens[c])
            BY <2>3
        <3>2. CASE c = token_index + 1
            BY <3>1, <3>2 DEF x, Shown
        <3>3. CASE c \in 1 .. token_index
            BY <3>1, <3>3, <2>2, <1>1
        <3> QED
            BY <3>2, <3>3, <1>1
    <2> HIDE DEF W, s, x
    <2>5. /\ Append(s, x) \in Seq(W) /\ Len(Append(s, x)) = token_index + 1
          /\ \A c \in 1 .. token_index : Append(s, x)[c] = s[c]
          /\ Append(s, x)[token_index + 1] = x
        BY <2>1, AppendProperties
    <2>6. \A c \in 1 .. token_index + 1 : u[c] = Append(s, x)[c]
        BY <2>4, <2>5, <1>1
    <2>7. \A c \in 1 .. token_index + 1 : Append(s, x)[c] \in W
        BY <2>5, ElementOfSeq
    <2>8. u \in Seq(W) /\ Len(u) = token_index + 1
        <3>1. \A c \in 1 .. token_index + 1 : Seen(tokens[c]) \in W
            BY <2>3, <2>6, <2>7
        <3>2. token_index + 1 \in Nat
            BY <1>1
        <3> HIDE DEF u
        <3> QED
            BY <3>1, <3>2, <2>3, IsASeq
    <2> HIDE DEF u
    <2>9. u = Append(s, x)
        BY <2>5, <2>6, <2>8, SeqEqual
    <2>10. Append(s, x) = s \o <<x>>
        BY <2>1, AppendIsConcat
    <2> QED
        BY <2>8, <2>9, <2>10 DEF u, s, x, W
<1>7. <<Seen(Shown)>> \in Seq(Words)
    BY <1>4
<1>8. /\ Budget' \in Nat /\ Budget <= Budget'
      /\ Shown.kind = "TK_L_SQ_BRACKET" => Budget' = Budget + 1
    <2> DEFINE B == {c \in 1 .. token_index : tokens[c].kind = "TK_L_SQ_BRACKET"}
               n == token_index + 1
    <2>1. IsFiniteSet(B) /\ n \notin B
        <3>1. B \subseteq 1 .. token_index /\ n \notin 1 .. token_index
            BY <1>1
        <3>2. IsFiniteSet(1 .. token_index)
            BY <1>1, FS_Interval
        <3> HIDE DEF B, n
        <3> QED
            BY <3>1, <3>2, FS_Subset
    <2>2. Cardinality(B) \in Nat /\ Cardinality(B \cup {n}) = Cardinality(B) + 1
        <3> HIDE DEF B, n
        <3> QED
            BY <2>1, FS_CardinalityType, FS_AddElement
    <2>3. Budget = Cardinality(B)
        BY DEF Budget, Opened
    <2>4. Budget' = Cardinality({c \in 1 .. n : tokens[c].kind = "TK_L_SQ_BRACKET"})
        BY DEF Budget, Opened
    <2>5. {c \in 1 .. n : tokens[c].kind = "TK_L_SQ_BRACKET"} =
             IF Shown.kind = "TK_L_SQ_BRACKET" THEN B \cup {n} ELSE B
        BY <1>1 DEF Shown
    <2>6. Budget' = IF Shown.kind = "TK_L_SQ_BRACKET" THEN Cardinality(B \cup {n}) ELSE Cardinality(B)
        BY <2>4, <2>5
    <2> HIDE DEF B
    <2> DEFINE b == Cardinality(B)
               b1 == Cardinality(B \cup {n})
    <2>7. b \in Nat /\ b1 = b + 1 /\ Budget = b
          /\ Budget' = IF Shown.kind = "TK_L_SQ_BRACKET" THEN b1 ELSE b
        BY <2>2, <2>3, <2>6
    <2> HIDE DEF b, b1
    <2> QED
        BY <2>7
<1> QED
    BY <1>1, <1>3, <1>5, <1>6, <1>7, <1>8

\* No pending call is a token, and the punctuation is.
LEMMA NotKinds ==
    /\ {"operand", "callee", "return", "OPE_REG", "OPE_MEM"} \cap Kinds = {}
    /\ {"TK_COMMA", "TK_L_PARENTH", "TK_R_PARENTH", "TK_L_SQ_BRACKET",
        "TK_R_SQ_BRACKET"} \subseteq Kinds
<1>1. \A k \in 1 .. 36 : KindOrder[k] \notin {"operand", "callee", "return", "OPE_REG", "OPE_MEM"}
    BY DEF KindOrder
<1> QED
    BY <1>1, KindCount, WordFacts DEF Kinds

\* A register or memory cell, from its index.
LEMMA IndexFacts ==
    ASSUME NEW kind \in Indices, NEW h \in Nat, h + 1 <= Depth, NEW t \in Tree[h]
    PROVE  /\ t \in Trees /\ IndexedBy(kind, t) \in Tree[h + 1] /\ IndexedBy(kind, t) \in Trees
           /\ Written[t] \in Seq(Words)
           /\ Written[IndexedBy(kind, t)] = (Opening(kind) \o Written[t]) \o <<Word("TK_R_SQ_BRACKET")>>
           /\ Freed[t] \in Nat /\ Freed[IndexedBy(kind, t)] = 1 + Freed[t]
<1> DEFINE o == IndexedBy(kind, t)
<1>1. o \in Tree[h + 1]
    BY TreeLevel DEF Around, Indices, IndexedBy
<1>2. t \in Trees /\ o \in Trees
    BY <1>1, TreesGrow, DepthAssumption DEF Trees
<1>3. o.kind \in {"OPE_REG", "OPE_MEM"} /\ o.kind = kind /\ o.index = t
    BY DEF Indices, IndexedBy
<1> HIDE DEF o
<1>4. Written[o] = WordsOf(Written, o) /\ Freed[o] = CountOf(Freed, o)
    BY <1>2, OperandFacts, DepthAssumption
<1>5. Written[t] \in Seq(Words) /\ Freed[t] \in Nat
    BY <1>2, OperandFacts, DepthAssumption
<1>6. Written[o] = Bracketed(OperandToken[kind], Written[t])
    BY <1>3, <1>4 DEF WordsOf
<1>7. Freed[o] = 1 + Freed[t]
    BY <1>3, <1>4 DEF CountOf
<1> QED
    BY <1>1, <1>2, <1>5, <1>6, <1>7 DEF Bracketed, Opening, o

\* An operand without index.
LEMMA LeafFacts ==
    ASSUME NEW o \in Leaves
    PROVE  /\ o \in Tree[0] /\ o \in Trees /\ Freed[o] = 1
           /\ o.kind = "OPE_FLAG" => Written[o] = <<Word("TK_FLAG")>>
           /\ o.kind = "OPE_IMM" => Written[o] = <<[kind |-> "TK_IMMEDIATE", value |-> o.value]>>
<1>1. o \in Tree[0]
    BY TreeLevel
<1>2. o \in Trees
    BY <1>1, TreesGrow, DepthAssumption DEF Trees
<1>3. Written[o] = WordsOf(Written, o) /\ Freed[o] = CountOf(Freed, o)
    BY <1>2, OperandFacts, DepthAssumption
<1>4. o.kind \in {"OPE_FLAG", "OPE_IMM"}
    BY DEF Leaves
<1> QED
    BY <1>1, <1>2, <1>3, <1>4 DEF WordsOf, CountOf

\* What is asked for next, in each place inside of an operand.

-----------------------------------------------------------------------------
(***************************************************************************)
(* What is asked for next, in each place inside of an operand.             *)
(***************************************************************************)
\* An operand is asked for,
LEMMA AtOperandHead ==
    ASSUME NEW words, NEW asks \in Seq(Asked), NEW k, NEW held, NEW before,
           AtOperand(words, asks, k, held, before)
    PROVE  todo # <<>> /\ Head(todo) = "operand" /\ Tail(todo) = asks
<1>1. <<"operand">> \in Seq(Asked) /\ <<"operand">> # <<>> /\ <<"operand">>[1] = "operand"
    BY AskedLists
<1>2. Tail(<<"operand">>) \o asks = asks
    <2>1. Tail(<<"operand">>) = <<>>
        OBVIOUS
    <2> QED
        BY <2>1, ConcatEmptySeq
<1> QED
    BY <1>1, <1>2, Prepended DEF AtOperand

\* or its opening bracket,
LEMMA AtBracketHead ==
    ASSUME NEW words, NEW asks \in Seq(Asked), NEW k, NEW held, NEW before, NEW kind \in Indices,
           AtBracket(words, asks, k, held, before, kind)
    PROVE  /\ todo # <<>> /\ Head(todo) = "TK_L_SQ_BRACKET"
           /\ Tail(todo) = <<"operand">> \o (Closer(kind) \o asks)
<1> DEFINE A == Asked
           c == Closer(kind)
<1>1. c \in Seq(A) /\ <<"operand">> \in Seq(A)
    BY AskedLists
<1>2. <<"TK_L_SQ_BRACKET", "operand">> \in Seq(A)
    BY DEF Asked
<1> HIDE DEF A, c
<1>3. /\ <<"TK_L_SQ_BRACKET", "operand">> # <<>>
      /\ <<"TK_L_SQ_BRACKET", "operand">>[1] = "TK_L_SQ_BRACKET"
      /\ Tail(<<"TK_L_SQ_BRACKET", "operand">>) = <<"operand">>
    OBVIOUS
<1> DEFINE s == <<"TK_L_SQ_BRACKET", "operand">>
<1> HIDE DEF s
<1>4. s \in Seq(A) /\ s # <<>> /\ s[1] = "TK_L_SQ_BRACKET" /\ Tail(s) = <<"operand">>
    BY <1>2, <1>3 DEF s
<1>5. asks \in Seq(A)
    BY DEF A
<1>6. c \o asks \in Seq(A)
    BY <1>1, <1>5, ConcatProperties
<1>7. (s \o c) \o asks = s \o (c \o asks)
    BY <1>1, <1>4, <1>5, ConcatAssociative
<1>8. todo = s \o (c \o asks)
    BY <1>7 DEF AtBracket, s, c
<1> DEFINE d == c \o asks
<1> HIDE DEF d
<1>9. todo = s \o d /\ d \in Seq(A)
    BY <1>6, <1>8 DEF d
<1>10. s \o d # <<>> /\ Head(s \o d) = s[1] /\ Tail(s \o d) = Tail(s) \o d
    BY <1>4, <1>9, Prepended
<1>11. todo # <<>> /\ Head(todo) = "TK_L_SQ_BRACKET" /\ Tail(todo) = <<"operand">> \o d
    BY <1>4, <1>9, <1>10
<1> QED
    BY <1>11 DEF c, d

\* or the return with the index,
LEMMA AtReturnHead ==
    ASSUME NEW words, NEW asks \in Seq(Asked), NEW k, NEW held, NEW before, NEW kind \in Indices, NEW t,
           AtReturn(words, asks, k, held, before, kind, t)
    PROVE  todo # <<>> /\ Head(todo) = kind /\ Tail(todo) = asks
<1>1. <<kind>> \in Seq(Asked) /\ <<kind>> # <<>> /\ <<kind>>[1] = kind
    BY AskedLists
<1>2. Tail(<<kind>>) \o asks = asks
    <2>1. Tail(<<kind>>) = <<>>
        OBVIOUS
    <2> QED
        BY <2>1, ConcatEmptySeq
<1> QED
    BY <1>1, <1>2, Prepended DEF AtReturn

\* or what comes behind the operand.
LEMMA HoldsHead ==
    ASSUME ListInv, NEW words \in Seq(Words), NEW asks \in Seq(Asked), NEW k \in Nat, NEW held \in Nat,
           NEW before, NEW o, Holds(words, asks, k, held, before, o)
    PROVE  /\ todo # <<>>
           /\ k = 0 => Head(todo) \in {"TK_COMMA", "return"}
           /\ k # 0 => Head(todo) = "TK_R_SQ_BRACKET"
BY InsideFacts DEF Holds

\* The words before an index, regrouped.
LEMMA OpenedWords ==
    ASSUME NEW words \in Seq(Words), NEW kind \in Indices
    PROVE  (words \o <<Word(OperandToken[kind])>>) \o <<Word("TK_L_SQ_BRACKET")>>
              = words \o Opening(kind)
<1> DEFINE W == Words
           x == <<Word(OperandToken[kind])>>
           y == <<Word("TK_L_SQ_BRACKET")>>
<1>1. x \in Seq(W) /\ y \in Seq(W) /\ words \in Seq(W)
    BY OpeningWords
<1>2. Opening(kind) = x \o y
    BY DEF Opening
<1> HIDE DEF W, x, y
<1>3. (words \o x) \o y = words \o (x \o y)
    BY <1>1, ConcatAssociative
<1> QED
    BY <1>2, <1>3 DEF x, y

\* The words of an indexed operand, regrouped.
LEMMA ClosedWords ==
    \A w, t \in Seq(Words), kind \in Indices :
       ((w \o Opening(kind)) \o t) \o <<Word("TK_R_SQ_BRACKET")>>
          = w \o ((Opening(kind) \o t) \o <<Word("TK_R_SQ_BRACKET")>>)
<1> DEFINE W == Words
           z == <<Word("TK_R_SQ_BRACKET")>>
<1>1. z \in Seq(W) /\ \A kind \in Indices : Opening(kind) \in Seq(W)
    BY OpeningWords
<1> HIDE DEF W, z
<1>2. ASSUME NEW w \in Seq(W), NEW t \in Seq(W), NEW kind \in Indices
      PROVE  ((w \o Opening(kind)) \o t) \o z = w \o ((Opening(kind) \o t) \o z)
    <2> DEFINE x == Opening(kind)
               d == x \o t
    <2>1. x \in Seq(W)
        BY <1>1
    <2> HIDE DEF x
    <2>2. d \in Seq(W) /\ (w \o x) \o t = w \o d
        BY <2>1, ConcatAssociative, ConcatProperties
    <2> HIDE DEF d
    <2>3. (w \o d) \o z = w \o (d \o z)
        <3>1. Three(W, w, d, z)
            BY <1>1, <2>2 DEF Three
        <3> QED
            BY <3>1, Associative DEF Associate
    <2> QED
        BY <2>2, <2>3 DEF x, d
<1> QED
    BY <1>2 DEF W, z

\* Short sequences are concatenations.
LEMMA TwoWords ==
    ASSUME NEW x, NEW y, NEW z
    PROVE  /\ <<x>> \o <<y>> = <<x, y>> /\ <<x, y>> \o <<z>> = <<x, y, z>>
           /\ Append(<<x>>, y) = <<x, y>>
<1> DEFINE S == {x, y, z}
           a == <<x>>
           b == <<x, y>>
           c == <<x, y, z>>
<1>1. x \in S /\ y \in S /\ z \in S
    OBVIOUS
<1> HIDE DEF S
<1>2. a \in Seq(S) /\ b \in Seq(S) /\ c \in Seq(S)
    BY <1>1
<1>3. /\ Len(a) = 1 /\ a[1] = x
      /\ Len(b) = 2 /\ b[1] = x /\ b[2] = y
      /\ Len(c) = 3 /\ c[1] = x /\ c[2] = y /\ c[3] = z
    OBVIOUS
<1> HIDE DEF a, b, c
<1>4. a \o <<y>> = Append(a, y) /\ b \o <<z>> = Append(b, z)
    BY <1>1, <1>2, AppendIsConcat
<1>5. Append(a, y) = b
    <2>1. /\ Append(a, y) \in Seq(S) /\ Len(Append(a, y)) = Len(a) + 1
          /\ \A i \in 1 .. Len(a) : Append(a, y)[i] = a[i]
          /\ Append(a, y)[Len(a) + 1] = y
        BY <1>1, <1>2, AppendProperties
    <2>2. /\ Append(a, y) \in Seq(S) /\ Len(Append(a, y)) = 2
          /\ Append(a, y)[1] = b[1] /\ Append(a, y)[2] = b[2]
        BY <2>1, <1>3
    <2> DEFINE u == Append(a, y)
    <2> HIDE DEF u
    <2>3. u \in Seq(S) /\ Len(u) = 2 /\ u[1] = b[1] /\ u[2] = b[2]
        BY <2>2 DEF u
    <2>4. \A i \in 1 .. 2 : u[i] = b[i]
        BY <2>3
    <2>5. u \in Seq(S) /\ b \in Seq(S) /\ Len(u) = 2 /\ Len(b) = 2
        BY <2>3, <1>2, <1>3
    <2>6. u = b
        BY <2>4, <2>5, SameLists
    <2> QED
        BY <2>6 DEF u
<1>6. Append(b, z) = c
    <2>1. /\ Append(b, z) \in Seq(S) /\ Len(Append(b, z)) = Len(b) + 1
          /\ \A i \in 1 .. Len(b) : Append(b, z)[i] = b[i]
          /\ Append(b, z)[Len(b) + 1] = z
        BY <1>1, <1>2, AppendProperties
    <2>2. /\ Append(b, z) \in Seq(S) /\ Len(Append(b, z)) = 3
          /\ Append(b, z)[1] = c[1] /\ Append(b, z)[2] = c[2] /\ Append(b, z)[3] = c[3]
        BY <2>1, <1>3
    <2> DEFINE u == Append(b, z)
    <2> HIDE DEF u
    <2>3. u \in Seq(S) /\ Len(u) = 3 /\ u[1] = c[1] /\ u[2] = c[2] /\ u[3] = c[3]
        BY <2>2 DEF u
    <2>4. \A i \in 1 .. 3 : u[i] = c[i]
        BY <2>3
    <2>5. u \in Seq(S) /\ c \in Seq(S) /\ Len(u) = 3 /\ Len(c) = 3
        BY <2>3, <1>2, <1>3
    <2>6. u = c
        BY <2>4, <2>5, SameLists
    <2> QED
        BY <2>6 DEF u
<1> QED
    BY <1>4, <1>5, <1>6 DEF a, b, c

\* The words up to a mnemonic.
LEMMA BegunWords ==
    ASSUME ListInv, opcode \in Opcodes
    PROVE  Begun \in Seq(Words)
<1> DEFINE W == Words
           p == Lines(program)
           m == Word(Mnemonic[opcode])
<1>1. p \in Seq(W)
    BY ProgramFacts DEF ListInv
<1>2. m \in W
    <2>1. Mnemonic[opcode] \in Kinds
        BY MnemonicFacts
    <2> QED
        BY <2>1, WordFacts
<1> HIDE DEF W, p, m
<1>3. <<m>> \in Seq(W)
    BY <1>2
<1>4. p \o <<m>> \in Seq(W)
    BY <1>1, <1>3, ConcatProperties
<1> QED
    BY <1>4 DEF Begun, W, p, m

\* The words of a call, regrouped.
LEMMA CallWords ==
    ASSUME NEW b \in Seq(Words), NEW f
    PROVE  /\ (b \o <<CallWord(f)>>) \o <<Word("TK_L_PARENTH")>>
                = b \o <<CallWord(f), Word("TK_L_PARENTH")>>
           /\ (b \o <<CallWord(f), Word("TK_L_PARENTH")>>) \o <<Word("TK_R_PARENTH")>>
                = b \o <<CallWord(f), Word("TK_L_PARENTH"), Word("TK_R_PARENTH")>>
<1> DEFINE W == Words
           c == CallWord(f)
           l == Word("TK_L_PARENTH")
           r == Word("TK_R_PARENTH")
<1>1. b \in Seq(W) /\ c \in W /\ l \in W /\ r \in W
    BY WordFacts DEF CallWord
<1> HIDE DEF W, c, l, r
<1>2. <<c>> \in Seq(W) /\ <<l>> \in Seq(W) /\ <<r>> \in Seq(W) /\ <<c, l>> \in Seq(W)
    BY <1>1
<1>3. <<c>> \o <<l>> = <<c, l>> /\ <<c, l>> \o <<r>> = <<c, l, r>>
    BY TwoWords
<1>4. /\ (b \o <<c>>) \o <<l>> = b \o (<<c>> \o <<l>>)
      /\ (b \o <<c, l>>) \o <<r>> = b \o (<<c, l>> \o <<r>>)
    BY <1>1, <1>2, ConcatAssociative
<1> QED
    BY <1>3, <1>4 DEF c, l, r

\* A token is taken, in the same instruction.
Takes ==
    /\ IsShown /\ token_index' = token_index + 1
    /\ todo' = Tail(todo)
    /\ UNCHANGED <<tokens, program, opcode, args, live>>

\* The types of a place.
Typed(words, asks, before) ==
    words \in Seq(Words) /\ asks \in Seq(Asked) /\ before \in Seq(Trees)

-----------------------------------------------------------------------------
(***************************************************************************)
(* Every step keeps the place.  The tokens that expect_token takes:        *)
(***************************************************************************)
\* The opening bracket leads one level down.
LEMMA ExpectOpening ==
    ASSUME ListInv, SeenTokens \in Seq(Words), Takes, Shown.kind = "TK_L_SQ_BRACKET",
           NEW words \in Seq(Words), NEW asks \in Seq(Asked), NEW k \in Nat, NEW held \in Nat,
           NEW before \in Seq(Trees), NEW kind \in Indices,
           k <= Budget, AtBracket(words, asks, k, held, before, kind)
    PROVE  InOperand'
<1>1. /\ SeenTokens' = SeenTokens \o <<Word("TK_L_SQ_BRACKET")>>
      /\ Budget \in Nat /\ Budget' = Budget + 1
    BY TakeToken, BudgetFacts DEF Takes
<1>2. /\ Inside(words, asks, k, held, before) /\ args = before /\ live = held + 1
      /\ SeenTokens = words \o <<Word(OperandToken[kind])>>
    BY DEF AtBracket
<1>3. PICK w \in Seq(Words), a \in Seq(Asked), n \in Nat, h \in Nat :
         /\ w = words \o Opening(kind) /\ a = Closer(kind) \o asks /\ n = k + 1 /\ h = held + 1
         /\ Inside(w, a, n, h, before)
    <2>1. words \o Opening(kind) \in Seq(Words) /\ Closer(kind) \o asks \in Seq(Asked)
        BY OpeningWords, AskedLists, ConcatProperties
    <2>2. Inside(words \o Opening(kind), Closer(kind) \o asks, k + 1, held + 1, before)
        BY <1>2, InsideMore
    <2>3. k + 1 \in Nat /\ held + 1 \in Nat
        OBVIOUS
    <2> DEFINE w == words \o Opening(kind)
               a == Closer(kind) \o asks
               n == k + 1
               h == held + 1
    <2> HIDE DEF w, a, n, h
    <2>4. /\ w \in Seq(Words) /\ a \in Seq(Asked) /\ n \in Nat /\ h \in Nat
          /\ Inside(w, a, n, h, before)
        BY <2>1, <2>2, <2>3 DEF w, a, n, h
    <2>5. w = words \o Opening(kind) /\ a = Closer(kind) \o asks /\ n = k + 1 /\ h = held + 1
        BY DEF w, a, n, h
    <2> QED
        BY <2>4, <2>5
<1>4. SeenTokens' = w
    BY <1>1, <1>2, <1>3, OpenedWords
<1>5. todo' = <<"operand">> \o a
    BY <1>3, AtBracketHead DEF Takes
<1>6. Inside(w, a, n, h, before)'
    BY <1>3, InsideStays DEF Takes
<1>7. AtOperand(w, a, n, h, before)'
    BY <1>2, <1>3, <1>4, <1>5, <1>6 DEF AtOperand, Takes
<1>8. n <= Budget'
    BY <1>1, <1>3
<1> QED
    BY <1>7, <1>8 DEF InOperand, Somewhere

\* The closing bracket leads one level up.
LEMMA ExpectClosing ==
    ASSUME ListInv, SeenTokens \in Seq(Words), Takes, Shown.kind = "TK_R_SQ_BRACKET",
           NEW words, NEW asks, NEW k \in Nat \ {0}, NEW held \in Nat, NEW before,
           NEW h \in Nat, NEW t \in Tree[h], Typed(words, asks, before),
           k + h <= Budget, Holds(words, asks, k, held, before, t)
    PROVE  InOperand'
<1>1. /\ SeenTokens' = SeenTokens \o <<Word("TK_R_SQ_BRACKET")>>
      /\ Budget \in Nat /\ Budget' \in Nat /\ Budget <= Budget' /\ Budget <= Depth
    BY TakeToken, BudgetFacts DEF Takes
<1>2. /\ Inside(words, asks, k, held, before) /\ todo = asks /\ args = Append(before, t)
      /\ SeenTokens = words \o Written[t] /\ live = held + Freed[t]
    BY DEF Holds
<1>3. PICK w, a : \E kind \in Indices : OneLess(words, asks, k, held, before, w, a, kind)
    BY <1>2, InsideLess
<1>4. PICK kind \in Indices : OneLess(words, asks, k, held, before, w, a, kind)
    BY <1>3
<1>5. PICK o : o = IndexedBy(kind, t)
    OBVIOUS
<1>6. PICK n \in Nat, g \in Nat :
         /\ n = k - 1 /\ g = held - 1
         /\ Inside(w, a, n, g, before)
    <2>1. k - 1 \in Nat /\ held - 1 \in Int
        OBVIOUS
    <2>2. held - 1 \in Nat
        BY <1>4, <2>1, InsideFacts DEF OneLess
    <2>3. Inside(w, a, k - 1, held - 1, before)
        BY <1>4 DEF OneLess
    <2> DEFINE n == k - 1
               g == held - 1
    <2>4. n \in Nat /\ g \in Nat /\ Inside(w, a, n, g, before)
        BY <2>1, <2>2, <2>3
    <2>5. n = k - 1 /\ g = held - 1
        OBVIOUS
    <2> HIDE DEF n, g
    <2> QED
        BY <2>4, <2>5
<1>7. h + 1 <= Depth
    BY <1>1, DepthAssumption
<1>8. /\ Written[t] \in Seq(Words) /\ Freed[t] \in Nat /\ Freed[o] = 1 + Freed[t]
      /\ Written[o] = (Opening(kind) \o Written[t]) \o <<Word("TK_R_SQ_BRACKET")>>
    <2> HIDE DEF Words
    <2> QED
        BY <1>5, <1>7, IndexFacts
<1>9. SeenTokens' = w \o Written[o]
    <2>1. SeenTokens' = ((w \o Opening(kind)) \o Written[t]) \o <<Word("TK_R_SQ_BRACKET")>>
        BY <1>1, <1>2, <1>4 DEF OneLess
    <2>2. ((w \o Opening(kind)) \o Written[t]) \o <<Word("TK_R_SQ_BRACKET")>>
            = w \o ((Opening(kind) \o Written[t]) \o <<Word("TK_R_SQ_BRACKET")>>)
        <3>1. w \in Seq(Words) /\ Written[t] \in Seq(Words)
            BY <1>8, <1>4 DEF OneLess
        <3> QED
            BY <3>1, ClosedWords
    <2> QED
        BY <2>1, <2>2, <1>8
<1>10. todo' = <<kind>> \o a
    <2>1. Closer(kind) # <<>> /\ Tail(Closer(kind)) = <<kind>>
        BY DEF Closer
    <2>2. Closer(kind) \in Seq(Asked)
        BY AskedLists
    <2>3. Tail(Closer(kind) \o a) = Tail(Closer(kind)) \o a
        <3>1. a \in Seq(Asked)
            BY <1>4 DEF OneLess
        <3> QED
            BY <2>1, <2>2, <3>1, Prepended
    <2>4. todo' = Tail(asks)
        BY <1>2 DEF Takes
    <2>5. asks = Closer(kind) \o a
        BY <1>4 DEF OneLess
    <2> QED
        BY <2>1, <2>3, <2>4, <2>5
<1>11. live' = g + Freed[o]
    <2>1. live' = held + Freed[t] /\ held = g + 1 /\ g \in Nat
        BY <1>2, <1>6 DEF Takes
    <2>2. Freed[t] \in Nat /\ Freed[o] = 1 + Freed[t]
        BY <1>8
    <2> QED
        BY <2>1, <2>2
<1>12. Inside(w, a, n, g, before)'
    BY <1>6, InsideStays DEF Takes
<1>13. AtReturn(w, a, n, g, before, kind, t)'
    BY <1>2, <1>5, <1>9, <1>10, <1>11, <1>12 DEF AtReturn, Takes
<1>14. n + h + 1 <= Budget'
    BY <1>1, <1>6
<1> QED
    BY <1>13, <1>14, <1>4 DEF InOperand, Somewhere, OneLess, Typed

\* Behind the comma the second operand begins.
LEMMA ExpectComma ==
    ASSUME ListInv, SeenTokens \in Seq(Words), Takes, Shown.kind = "TK_COMMA",
           Head(todo) = "TK_COMMA",
           NEW words \in Seq(Words), NEW asks \in Seq(Asked), NEW held \in Nat,
           NEW before \in Seq(Trees), NEW h \in Nat, NEW o \in Tree[h],
           h <= Budget, Holds(words, asks, 0, held, before, o)
    PROVE  InOperand'
<1>1. /\ SeenTokens' = SeenTokens \o <<Word("TK_COMMA")>> /\ SeenTokens' \in Seq(Words)
      /\ Budget \in Nat /\ Budget' \in Nat /\ Budget <= Depth
    BY TakeToken, BudgetFacts DEF Takes
<1>2. /\ Inside(words, asks, 0, held, before) /\ todo = asks /\ args = Append(before, o)
      /\ SeenTokens = words \o Written[o] /\ live = held + Freed[o]
    BY DEF Holds
<1>3. Outermost(words, asks, held, before)
    BY <1>2, InsideNone
<1>4. /\ opcode \in TwoArgs /\ before = <<>> /\ words = Begun
      /\ asks = <<"TK_COMMA", "operand", "return">> /\ held = FreedBy(program)
    <2>1. Head(asks) = "TK_COMMA" /\ asks # <<"return">>
        BY <1>2
    <2> QED
        BY <1>3, <2>1 DEF Outermost
<1>5. o \in Trees
    BY <1>1, TreesGrow, DepthAssumption DEF Trees
<1>6. Freed[o] \in Nat
    BY <1>5, OperandFacts, DepthAssumption
<1>7. args = <<o>> /\ <<o>> \in Seq(Trees)
    BY <1>2, <1>4, <1>5
<1>8. PICK w \in Seq(Words), a \in Seq(Asked), g \in Nat, b \in Seq(Trees) :
         /\ w = SeenTokens' /\ a = <<"return">> /\ g = held + Freed[o] /\ b = <<o>>
    <2> DEFINE sw == SeenTokens'
               sa == <<"return">>
               sg == held + Freed[o]
               sb == <<o>>
    <2>1. sw \in Seq(Words) /\ sa \in Seq(Asked) /\ sg \in Nat /\ sb \in Seq(Trees)
        BY <1>1, <1>6, <1>7, AskedLists
    <2>2. sw = SeenTokens' /\ sa = <<"return">> /\ sg = held + Freed[o] /\ sb = <<o>>
        OBVIOUS
    <2> HIDE DEF sw, sa, sg, sb
    <2> QED
        BY <2>1, <2>2
<1>9. w = (Begun \o Written[o]) \o <<Word("TK_COMMA")>>
    BY <1>1, <1>2, <1>4, <1>8
<1>10. Outermost(w, a, g, b)
    BY <1>4, <1>5, <1>8, <1>9 DEF Outermost
<1>11. Inside(w, a, 0, g, b)
    BY <1>10, InsideZero
<1>12. Inside(w, a, 0, g, b)'
    BY <1>11, InsideStays DEF Takes
<1>13. todo' = <<"operand">> \o a
    <2>1. Tail(<<"TK_COMMA", "operand", "return">>) = <<"operand">> \o <<"return">>
        OBVIOUS
    <2> QED
        BY <2>1, <1>2, <1>4, <1>8 DEF Takes
<1>14. AtOperand(w, a, 0, g, b)'
    BY <1>2, <1>7, <1>8, <1>12, <1>13 DEF AtOperand, Takes
<1> QED
    BY <1>1, <1>14 DEF InOperand, Somewhere

\* The parentheses of a call.
LEMMA ExpectParenth ==
    ASSUME ListInv, SeenTokens \in Seq(Words), Takes, Shown.kind = Head(todo),
           AtCall, Head(todo) \in Kinds
    PROVE  AtCall'
<1>1. Head(todo) \notin {"callee", "return"}
    BY NotKinds
<1>2. FreedBy(program)' = FreedBy(program) /\ Begun' = Begun
    BY DEF Takes, Begun
<1>3. PICK f \in {"CALL_PUTCHAR", "CALL_READ"} :
         /\ args = <<f>>
         /\ \/ /\ todo = <<"TK_L_PARENTH", "TK_R_PARENTH", "return">>
               /\ SeenTokens = Begun \o <<CallWord(f)>>
            \/ /\ todo = <<"TK_R_PARENTH", "return">>
               /\ SeenTokens = Begun \o <<CallWord(f), Word("TK_L_PARENTH")>>
    <2>1. \E f \in {"CALL_PUTCHAR", "CALL_READ"} :
             /\ args = <<f>>
             /\ \/ /\ todo = <<"TK_L_PARENTH", "TK_R_PARENTH", "return">>
                   /\ SeenTokens = Begun \o <<CallWord(f)>>
                \/ /\ todo = <<"TK_R_PARENTH", "return">>
                   /\ SeenTokens = Begun \o <<CallWord(f), Word("TK_L_PARENTH")>>
                \/ /\ todo = <<"return">>
                   /\ SeenTokens = Begun \o <<CallWord(f), Word("TK_L_PARENTH"), Word("TK_R_PARENTH")>>
        <3>1. todo # <<"callee", "return">>
            BY <1>1
        <3> QED
            BY <3>1, Zenon DEF AtCall
    <2>2. todo # <<"return">>
        BY <1>1
    <2> QED
        BY <2>1, <2>2, Zenon
<1>4. Begun \in Seq(Words)
    BY BegunWords DEF AtCall, Opcodes
<1>5. SeenTokens' = SeenTokens \o <<Word(Head(todo))>>
    <2>1. Head(todo) # "TK_IMMEDIATE"
        BY <1>3
    <2> QED
        BY <2>1, TakeToken DEF Takes
<1>6. opcode' = "OPCODE_CALL" /\ live' = FreedBy(program)'
    BY <1>2 DEF AtCall, Takes
<1>7. CASE /\ todo = <<"TK_L_PARENTH", "TK_R_PARENTH", "return">>
           /\ SeenTokens = Begun \o <<CallWord(f)>>
    <2>1. todo' = <<"TK_R_PARENTH", "return">>
        BY <1>7 DEF Takes
    <2>2. SeenTokens' = Begun \o <<CallWord(f), Word("TK_L_PARENTH")>>
        <3>1. SeenTokens' = (Begun \o <<CallWord(f)>>) \o <<Word("TK_L_PARENTH")>>
            BY <1>5, <1>7
        <3> QED
            BY <3>1, <1>4, CallWords
    <2> QED
        BY <1>2, <1>3, <1>6, <2>1, <2>2 DEF AtCall, Takes
<1>8. CASE /\ todo = <<"TK_R_PARENTH", "return">>
           /\ SeenTokens = Begun \o <<CallWord(f), Word("TK_L_PARENTH")>>
    <2>1. todo' = <<"return">>
        BY <1>8 DEF Takes
    <2>2. SeenTokens' = Begun \o <<CallWord(f), Word("TK_L_PARENTH"), Word("TK_R_PARENTH")>>
        <3>1. SeenTokens' = (Begun \o <<CallWord(f), Word("TK_L_PARENTH")>>) \o <<Word("TK_R_PARENTH")>>
            BY <1>5, <1>8
        <3> QED
            BY <3>1, <1>4, CallWords
    <2> QED
        BY <1>2, <1>3, <1>6, <2>1, <2>2 DEF AtCall, Takes
<1> QED
    BY <1>3, <1>7, <1>8

\* expect_token, whatever it takes.
LEMMA ExpectKeeps ==
    ASSUME ListInv, SeenTokens \in Seq(Words), Takes, Shown.kind = Head(todo), todo # <<>>, Place
    PROVE  Place'
<1>1. Head(todo) \in Kinds
    BY TakeToken DEF Takes
<1>2. CASE AtCall
    BY <1>1, <1>2, ExpectParenth DEF Place
<1>3. CASE InOperand
    <2>1. PICK words \in Seq(Words), asks \in Seq(Asked), k \in Nat, held \in Nat,
              before \in Seq(Trees) : Somewhere(words, asks, k, held, before)
        BY <1>3 DEF InOperand
    <2>2. ~ AtOperand(words, asks, k, held, before)
        BY <1>1, NotKinds, AtOperandHead
    <2>3. CASE k <= Budget /\ \E kind \in Indices : AtBracket(words, asks, k, held, before, kind)
        <3>1. PICK kind \in Indices : AtBracket(words, asks, k, held, before, kind)
            BY <2>3
        <3>2. Shown.kind = "TK_L_SQ_BRACKET"
            BY <3>1, AtBracketHead
        <3> QED
            BY <2>3, <3>1, <3>2, ExpectOpening DEF Place
    <2>4. CASE \E h \in Nat : k + h <= Budget /\ \E o \in Tree[h] : Holds(words, asks, k, held, before, o)
        <3>1. PICK h \in Nat :
                 k + h <= Budget /\ \E o \in Tree[h] : Holds(words, asks, k, held, before, o)
            BY <2>4
        <3>2. PICK o \in Tree[h] : k + h <= Budget /\ Holds(words, asks, k, held, before, o)
            BY <3>1
        <3>3. CASE k = 0
            <4>1. Head(todo) = "TK_COMMA"
                BY <1>1, <3>2, <3>3, HoldsHead, NotKinds
            <4>2. h <= Budget /\ Holds(words, asks, 0, held, before, o)
                BY <3>2, <3>3
            <4> QED
                BY <4>1, <4>2, ExpectComma DEF Place
        <3>4. CASE k # 0
            <4>1. Shown.kind = "TK_R_SQ_BRACKET" /\ k \in Nat \ {0}
                BY <3>2, <3>4, HoldsHead
            <4> QED
                BY <3>2, <4>1, ExpectClosing DEF Place, Typed
        <3> QED
            BY <3>3, <3>4
    <2>5. ASSUME NEW kind \in Indices, NEW t
          PROVE  ~ AtReturn(words, asks, k, held, before, kind, t)
        BY <1>1, NotKinds, AtReturnHead DEF Indices
    <2> QED
        BY <2>1, <2>2, <2>3, <2>4, <2>5 DEF Somewhere
<1>4. ~ AtLine
    BY DEF AtLine
<1> QED
    BY <1>2, <1>3, <1>4 DEF Place

-----------------------------------------------------------------------------
(***************************************************************************)
(* The mnemonic that begins an instruction.                                *)
(***************************************************************************)
\* InsideZero, of the next state.
LEMMA InsideZeroNext ==
    ASSUME NEW words \in Seq(Words), NEW asks \in Seq(Asked), NEW held \in Nat, NEW before,
           Outermost(words, asks, held, before)'
    PROVE  Inside(words, asks, 0, held, before)'
<1> DEFINE w == [n \in Nat |-> words]
           a == [n \in Nat |-> asks]
           kd == [n \in Nat |-> "OPE_REG"]
<1>1. w \in [Nat -> Seq(Words)] /\ a \in [Nat -> Seq(Asked)] /\ kd \in [Nat -> Indices]
    BY DEF Indices
<1>2. w[0] = words /\ a[0] = asks /\ held - 0 = held
    OBVIOUS
<1> HIDE DEF w, a, kd
<1>3. Outermost(w[0], a[0], held - 0, before)'
    BY <1>2
<1>4. \A j \in 1 .. 0 : w[j] = w[j - 1] \o Opening(kd[j]) /\ a[j] = Closer(kd[j]) \o a[j - 1]
    OBVIOUS
<1>5. words = w[0] /\ asks = a[0]
    BY <1>2
<1> QED
    BY <1>1, <1>3, <1>4, <1>5 DEF Inside

\* Inside of an operand no callee is asked for.
LEMMA NotInside ==
    ASSUME ListInv, InOperand
    PROVE  todo # <<>> /\ Head(todo) # "callee"
<1>1. PICK words \in Seq(Words), asks \in Seq(Asked), k \in Nat, held \in Nat,
              before \in Seq(Trees) : Somewhere(words, asks, k, held, before)
    BY DEF InOperand
<1>2. CASE AtOperand(words, asks, k, held, before)
    BY <1>2, AtOperandHead
<1>3. CASE \E kind \in Indices : AtBracket(words, asks, k, held, before, kind)
    BY <1>3, AtBracketHead
<1>4. CASE \E o : Holds(words, asks, k, held, before, o)
    BY <1>4, HoldsHead
<1>5. CASE \E kind \in Indices : \E t : AtReturn(words, asks, k, held, before, kind, t)
    BY <1>5, AtReturnHead DEF Indices
<1> QED
    BY <1>1, <1>2, <1>3, <1>4, <1>5 DEF Somewhere

\* Where nothing is pending, a line is complete.
LEMMA LineAsked ==
    ASSUME ListInv, Place, todo = <<>>
    PROVE  AtLine
BY NotInside DEF Place, AtCall

\* A token is taken, and the calls change.
Reads ==
    /\ IsShown /\ token_index' = token_index + 1
    /\ UNCHANGED <<tokens, program, opcode>>

\* The mnemonic is taken.
LEMMA Begins ==
    ASSUME ListInv, SeenTokens \in Seq(Words), AtLine, IsShown, NEW code, NEW asks,
           Begin(code, asks), Mnemonic[code] = Shown.kind, Shown.kind # "TK_IMMEDIATE"
    PROVE  /\ SeenTokens' = Begun' /\ SeenTokens' \in Seq(Words)
           /\ live' = FreedBy(program)' /\ live' \in Nat
           /\ args' = <<>> /\ opcode' = code /\ todo' = asks
<1>1. SeenTokens' = SeenTokens \o <<Word(Shown.kind)>> /\ SeenTokens' \in Seq(Words)
    BY TakeToken DEF Begin, Accept
<1>2. Begun' = Lines(program) \o <<Word(Shown.kind)>>
    BY DEF Begun, Begin
<1>3. live' = FreedBy(program)' /\ FreedBy(program) \in Nat
    BY ProgramFacts DEF AtLine, Begin, ListInv
<1> QED
    BY <1>1, <1>2, <1>3 DEF AtLine, Begin

\* The first operand of an instruction is asked for.
LEMMA BeginsOperand ==
    ASSUME ListInv, SeenTokens \in Seq(Words), AtLine, IsShown, NEW code, NEW asks,
           Begin(code, <<"operand">> \o asks), Mnemonic[code] = Shown.kind, Shown.kind # "TK_IMMEDIATE",
           \/ code \in TwoArgs /\ asks = <<"TK_COMMA", "operand", "return">>
           \/ code \in OneArg /\ asks = <<"return">>
    PROVE  InOperand'
<1>1. /\ SeenTokens' = Begun' /\ SeenTokens' \in Seq(Words)
      /\ live' = FreedBy(program)' /\ live' \in Nat
      /\ args' = <<>> /\ opcode' = code /\ todo' = <<"operand">> \o asks
    BY Begins
<1>2. 0 <= Budget'
    BY TakeToken DEF Begin, Accept
<1>3. asks \in Seq(Asked) /\ <<>> \in Seq(Trees)
    BY AskedLists, EmptySeq
<1>4. PICK w \in Seq(Words), a \in Seq(Asked), g \in Nat, b \in Seq(Trees) :
         w = SeenTokens' /\ a = asks /\ g = live' /\ b = <<>>
    BY <1>1, <1>3
<1>5. Outermost(w, a, g, b)'
    <2>1. w = Begun' /\ g = FreedBy(program)' /\ b = <<>>
        BY <1>1, <1>4
    <2>2. \/ opcode' \in TwoArgs /\ a = <<"TK_COMMA", "operand", "return">>
          \/ opcode' \in OneArg /\ a = <<"return">>
        BY <1>1, <1>4
    <2> QED
        BY <2>1, <2>2 DEF Outermost
<1>6. Inside(w, a, 0, g, b)'
    BY <1>5, InsideZeroNext
<1>7. AtOperand(w, a, 0, g, b)'
    BY <1>1, <1>4, <1>6 DEF AtOperand
<1> QED
    BY <1>2, <1>7 DEF InOperand, Somewhere

\* Four elements are concatenations.
LEMMA Fourth ==
    ASSUME NEW a, NEW b, NEW c, NEW d
    PROVE  <<a, b, c, d>> = <<a>> \o <<b, c, d>> /\ <<a, b, c, d>> = <<a, b>> \o <<c, d>>
<1> DEFINE S == {a, b, c, d}
           p == <<a>>
           q == <<b, c, d>>
           r == <<a, b>>
           s == <<c, d>>
           t == <<a, b, c, d>>
<1>1. a \in S /\ b \in S /\ c \in S /\ d \in S
    OBVIOUS
<1> HIDE DEF S
<1>2. p \in Seq(S) /\ q \in Seq(S) /\ r \in Seq(S) /\ s \in Seq(S) /\ t \in Seq(S)
    BY <1>1
<1>3. /\ Len(p) = 1 /\ p[1] = a
      /\ Len(q) = 3 /\ q[1] = b /\ q[2] = c /\ q[3] = d
      /\ Len(r) = 2 /\ r[1] = a /\ r[2] = b
      /\ Len(s) = 2 /\ s[1] = c /\ s[2] = d
      /\ Len(t) = 4 /\ t[1] = a /\ t[2] = b /\ t[3] = c /\ t[4] = d
    OBVIOUS
<1> HIDE DEF p, q, r, s, t
<1> DEFINE u == p \o q
           v == r \o s
<1>4. /\ u \in Seq(S) /\ Len(u) = 4
      /\ \A i \in 1 .. 4 : u[i] = IF i <= 1 THEN p[i] ELSE q[i - 1]
    <2>1. /\ u \in Seq(S) /\ Len(u) = Len(p) + Len(q)
          /\ \A i \in 1 .. Len(p) + Len(q) : u[i] = IF i <= Len(p) THEN p[i] ELSE q[i - Len(p)]
        BY <1>2, ConcatProperties
    <2> HIDE DEF u
    <2> QED
        BY <2>1, <1>3
<1>5. /\ v \in Seq(S) /\ Len(v) = 4
      /\ \A i \in 1 .. 4 : v[i] = IF i <= 2 THEN r[i] ELSE s[i - 2]
    <2>1. /\ v \in Seq(S) /\ Len(v) = Len(r) + Len(s)
          /\ \A i \in 1 .. Len(r) + Len(s) : v[i] = IF i <= Len(r) THEN r[i] ELSE s[i - Len(r)]
        BY <1>2, ConcatProperties
    <2> HIDE DEF v
    <2> QED
        BY <2>1, <1>3
<1> HIDE DEF u, v
<1>6. u = t
    <2>1. u[1] = t[1] /\ u[2] = t[2] /\ u[3] = t[3] /\ u[4] = t[4]
        BY <1>3, <1>4
    <2>2. \A i \in 1 .. 4 : u[i] = t[i]
        BY <2>1
    <2>3. u \in Seq(S) /\ t \in Seq(S) /\ Len(u) = 4 /\ Len(t) = 4
        BY <1>2, <1>3, <1>4
    <2> QED
        BY <2>2, <2>3, SameLists
<1>7. v = t
    <2>1. v[1] = t[1] /\ v[2] = t[2] /\ v[3] = t[3] /\ v[4] = t[4]
        BY <1>3, <1>5
    <2>2. \A i \in 1 .. 4 : v[i] = t[i]
        BY <2>1
    <2>3. v \in Seq(S) /\ t \in Seq(S) /\ Len(v) = 4 /\ Len(t) = 4
        BY <1>2, <1>3, <1>5
    <2> QED
        BY <2>2, <2>3, SameLists
<1> QED
    BY <1>6, <1>7 DEF p, q, r, s, t, u, v

\* parse_op, parse_jmp and parse_call begin.
LEMMA BeginKeeps ==
    ASSUME ListInv, SeenTokens \in Seq(Words), Place, ParseOp \/ ParseJmp \/ ParseCall
    PROVE  Place'
<1>1. todo = <<>> /\ IsShown
    BY DEF ParseOp, ParseJmp, ParseCall, AtInstruction
<1>2. AtLine
    BY <1>1, LineAsked
<1>3. "TK_IMMEDIATE" \notin OpMnemonics \cup JmpMnemonics \cup {"MN_CALL"}
    BY DEF OpMnemonics, JmpMnemonics
<1>4. /\ <<"operand", "TK_COMMA", "operand", "return">>
           = <<"operand">> \o <<"TK_COMMA", "operand", "return">>
      /\ <<"operand", "return">> = <<"operand">> \o <<"return">>
    <2>1. <<"operand", "TK_COMMA", "operand", "return">>
             = <<"operand">> \o <<"TK_COMMA", "operand", "return">>
        <3>1. \A a, b, c, d : <<a, b, c, d>> = <<a>> \o <<b, c, d>>
            BY Fourth
        <3> QED
            BY <3>1, Zenon
    <2>2. <<"operand", "return">> = <<"operand">> \o <<"return">>
        BY TwoWords, Zenon
    <2> QED
        BY <2>1, <2>2
<1>5. CASE ParseOp
    <2>1. PICK code : code = OpcodeOf[Shown.kind]
        OBVIOUS
    <2>2. code \in TwoArgs /\ Mnemonic[code] = Shown.kind /\ Shown.kind # "TK_IMMEDIATE"
        BY <1>3, <1>5, <2>1, MnemonicFacts DEF ParseOp
    <2>3. Begin(code, <<"operand">> \o <<"TK_COMMA", "operand", "return">>)
        BY <1>4, <1>5, <2>1 DEF ParseOp
    <2>4. InOperand'
        BY <1>1, <1>2, <2>2, <2>3, BeginsOperand
    <2> QED
        BY <2>4 DEF Place
<1>6. CASE ParseJmp
    <2>1. PICK code : code = JmpOpcode(Shown.kind)
        OBVIOUS
    <2>2. /\ code \in JmpOpcodes /\ Mnemonic[code] = Shown.kind /\ Shown.kind # "TK_IMMEDIATE"
          /\ code = "OPCODE_JNZ" <=> Shown.kind = "MN_JNZ"
        BY <1>3, <1>6, <2>1, MnemonicFacts DEF ParseJmp
    <2>3. CASE Shown.kind = "MN_JNZ"
        <3>1. Begin(code, <<"operand">> \o <<"TK_COMMA", "operand", "return">>)
            BY <1>4, <1>6, <2>1, <2>3 DEF ParseJmp
        <3>2. code \in TwoArgs
            BY <2>2, <2>3 DEF TwoArgs
        <3>3. InOperand'
            BY <1>1, <1>2, <2>2, <3>1, <3>2, BeginsOperand
        <3> QED
            BY <3>3 DEF Place
    <2>4. CASE Shown.kind # "MN_JNZ"
        <3>1. Begin(code, <<"operand">> \o <<"return">>)
            BY <1>4, <1>6, <2>1, <2>4 DEF ParseJmp
        <3>2. code \in OneArg
            BY <2>2, <2>4 DEF OneArg
        <3>3. InOperand'
            BY <1>1, <1>2, <2>2, <3>1, <3>2, BeginsOperand
        <3> QED
            BY <3>3 DEF Place
    <2> QED
        BY <2>3, <2>4
<1>7. CASE ParseCall
    <2>1. PICK code : code = OpcodeOf["MN_CALL"]
        OBVIOUS
    <2>2. code = "OPCODE_CALL" /\ Mnemonic[code] = Shown.kind /\ Shown.kind # "TK_IMMEDIATE"
        BY <1>3, <1>7, <2>1 DEF ParseCall, OpcodeOf, Mnemonic
    <2>3. Begin(code, <<"callee", "return">>)
        BY <1>7, <2>1 DEF ParseCall
    <2>4. /\ SeenTokens' = Begun' /\ live' = FreedBy(program)'
          /\ args' = <<>> /\ opcode' = code /\ todo' = <<"callee", "return">>
        BY <1>1, <1>2, <2>2, <2>3, Begins
    <2>5. AtCall'
        BY <2>2, <2>4 DEF AtCall
    <2> QED
        BY <2>5 DEF Place
<1> QED
    BY <1>5, <1>6, <1>7

-----------------------------------------------------------------------------
(***************************************************************************)
(* The callee, and the operands.                                           *)
(***************************************************************************)
\* The name of the callee is taken.
LEMMA CalleeKeeps ==
    ASSUME ListInv, SeenTokens \in Seq(Words), Place, Callee, ~ Exit
    PROVE  Place'
<1>1. /\ todo # <<>> /\ Head(todo) = "callee" /\ IsShown
      /\ token_index' = token_index + 1 /\ UNCHANGED <<tokens, program, opcode, live>>
      /\ Shown.kind \in {"FUNC_PUTCHAR", "FUNC_READ"}
      /\ todo' = CalleeAsks \o Tail(todo)
      /\ args' = <<IF Shown.kind = "FUNC_READ" THEN "CALL_READ" ELSE "CALL_PUTCHAR">>
    BY DEF Callee, Pending, Accept
<1>2. AtCall
    BY <1>1, NotInside DEF Place, AtLine
<1>3. /\ opcode = "OPCODE_CALL" /\ live = FreedBy(program)
      /\ todo = <<"callee", "return">> /\ SeenTokens = Begun
    BY <1>1, <1>2 DEF AtCall
<1>4. PICK f \in {"CALL_PUTCHAR", "CALL_READ"} : args' = <<f>> /\ Word(Shown.kind) = CallWord(f)
    BY <1>1 DEF CallWord
<1>5. SeenTokens' = SeenTokens \o <<Word(Shown.kind)>>
    BY <1>1, TakeToken
<1>6. Begun' = Begun /\ FreedBy(program)' = FreedBy(program)
    BY <1>1 DEF Begun
<1>7. SeenTokens' = Begun' \o <<CallWord(f)>>
    BY <1>3, <1>4, <1>5, <1>6
<1>8. todo' = <<"TK_L_PARENTH", "TK_R_PARENTH", "return">>
    <2>1. Tail(todo) = <<"return">>
        BY <1>3
    <2>2. \A a, b, c : <<a, b>> \o <<c>> = <<a, b, c>>
        BY TwoWords
    <2> QED
        BY <1>1, <2>1, <2>2 DEF CalleeAsks
<1> QED
    BY <1>1, <1>3, <1>4, <1>6, <1>7, <1>8 DEF Place, AtCall

\* Where an operand is asked for, it begins inside of some brackets.
LEMMA AskedOperand ==
    ASSUME ListInv, Place, todo # <<>>, Head(todo) = "operand"
    PROVE  \E words, asks, before : \E k \in Nat, held \in Nat :
              k <= Budget /\ Typed(words, asks, before) /\ AtOperand(words, asks, k, held, before)
<1>1. InOperand
    <2>1. ~ AtLine /\ ~ AtCall
        BY DEF AtLine, AtCall
    <2> QED
        BY <2>1 DEF Place
<1>2. PICK words \in Seq(Words), asks \in Seq(Asked), k \in Nat, held \in Nat,
              before \in Seq(Trees) : Somewhere(words, asks, k, held, before)
    BY <1>1 DEF InOperand
<1>3. ASSUME NEW kind \in Indices PROVE ~ AtBracket(words, asks, k, held, before, kind)
    BY AtBracketHead
<1>4. ASSUME NEW o PROVE ~ Holds(words, asks, k, held, before, o)
    BY HoldsHead
<1>5. ASSUME NEW kind \in Indices, NEW t PROVE ~ AtReturn(words, asks, k, held, before, kind, t)
    BY AtReturnHead DEF Indices
<1>6. k <= Budget /\ AtOperand(words, asks, k, held, before)
    BY <1>2, <1>3, <1>4, <1>5 DEF Somewhere
<1> QED
    BY <1>6 DEF Typed

\* An operand without index is complete.
LEMMA LeafKeeps ==
    ASSUME ListInv, SeenTokens \in Seq(Words), Place, Reads, NEW o \in Leaves,
           Head(todo) = "operand", todo # <<>>, <<Seen(Shown)>> = Written[o],
           todo' = Tail(todo), args' = Append(args, o), live' = live + 1
    PROVE  Place'
<1>1. PICK words, asks, before : \E k \in Nat, held \in Nat :
         k <= Budget /\ Typed(words, asks, before) /\ AtOperand(words, asks, k, held, before)
    BY AskedOperand
<1>2. PICK k \in Nat, held \in Nat :
          k <= Budget /\ Typed(words, asks, before) /\ AtOperand(words, asks, k, held, before)
    BY <1>1
<1>3. /\ SeenTokens' = SeenTokens \o <<Seen(Shown)>>
      /\ Budget \in Nat /\ Budget' \in Nat /\ Budget <= Budget'
    BY TakeToken, BudgetFacts DEF Reads
<1>4. Inside(words, asks, k, held, before) /\ args = before /\ SeenTokens = words /\ live = held
    BY <1>2 DEF AtOperand
<1>5. Inside(words, asks, k, held, before)'
    BY <1>4, InsideStays DEF Reads
<1>6. todo' = asks
    BY <1>2, AtOperandHead DEF Typed
<1>7. o \in Tree[0] /\ Freed[o] = 1
    BY LeafFacts
<1>8. Holds(words, asks, k, held, before, o)'
    BY <1>3, <1>4, <1>5, <1>6, <1>7 DEF Holds
<1>9. 0 \in Nat /\ k + 0 <= Budget'
    BY <1>2, <1>3
<1>10. InOperand'
    BY <1>2, <1>7, <1>8, <1>9 DEF InOperand, Somewhere, Typed
<1> QED
    BY <1>10 DEF Place

\* What parse_operand asks for around an index.
LEMMA AskedBrackets ==
    ASSUME NEW kind
    PROVE  <<"TK_L_SQ_BRACKET", "operand", "TK_R_SQ_BRACKET", kind>>
              = <<"TK_L_SQ_BRACKET", "operand">> \o Closer(kind)
<1>1. \A b, c, d : <<"TK_L_SQ_BRACKET", b, c, d>> = <<"TK_L_SQ_BRACKET", b>> \o <<c, d>>
    BY Fourth
<1>2. \A c, d : <<"TK_L_SQ_BRACKET", "operand", c, d>> = <<"TK_L_SQ_BRACKET", "operand">> \o <<c, d>>
    BY <1>1
<1>3. \A d : <<"TK_L_SQ_BRACKET", "operand", "TK_R_SQ_BRACKET", d>>
                = <<"TK_L_SQ_BRACKET", "operand">> \o <<"TK_R_SQ_BRACKET", d>>
    BY <1>2
<1> QED
    BY <1>3 DEF Closer

\* The operand with an index waits for its brackets.
LEMMA IndexedKeeps ==
    ASSUME ListInv, SeenTokens \in Seq(Words), Place, OperandIndexed
    PROVE  Place'
<1>1. /\ Reads /\ todo # <<>> /\ Head(todo) = "operand"
      /\ Shown.kind \in {"TK_REGISTER", "TK_MEMORY"}
      /\ live' = live + 1 /\ args' = args
    BY DEF OperandIndexed, Operand, Pending, Accept, Reads
<1>2. PICK kind \in Indices :
         OperandToken[kind] = Shown.kind
         /\ todo' = <<"TK_L_SQ_BRACKET", "operand", "TK_R_SQ_BRACKET", kind>> \o Tail(todo)
    <2>1. CASE Shown.kind = "TK_REGISTER"
        BY <2>1 DEF OperandIndexed, Indices, OperandToken
    <2>2. CASE Shown.kind = "TK_MEMORY"
        BY <2>2 DEF OperandIndexed, Indices, OperandToken
    <2> QED
        BY <1>1, <2>1, <2>2
<1>3. PICK words, asks, before : \E k \in Nat, held \in Nat :
         k <= Budget /\ Typed(words, asks, before) /\ AtOperand(words, asks, k, held, before)
    BY <1>1, AskedOperand
<1>4. PICK k \in Nat, held \in Nat :
          k <= Budget /\ Typed(words, asks, before) /\ AtOperand(words, asks, k, held, before)
    BY <1>3
<1>5. /\ SeenTokens' = SeenTokens \o <<Word(Shown.kind)>>
      /\ Budget \in Nat /\ Budget' \in Nat /\ Budget <= Budget'
    BY <1>1, TakeToken, BudgetFacts DEF Reads
<1>6. Inside(words, asks, k, held, before) /\ args = before /\ SeenTokens = words /\ live = held
    BY <1>4 DEF AtOperand
<1>7. Inside(words, asks, k, held, before)'
    BY <1>1, <1>6, InsideStays DEF Reads
<1>8. todo' = (<<"TK_L_SQ_BRACKET", "operand">> \o Closer(kind)) \o asks
    <2>1. Tail(todo) = asks
        BY <1>4, AtOperandHead DEF Typed
    <2>2. <<"TK_L_SQ_BRACKET", "operand", "TK_R_SQ_BRACKET", kind>>
             = <<"TK_L_SQ_BRACKET", "operand">> \o Closer(kind)
        BY AskedBrackets
    <2> QED
        BY <1>2, <2>1, <2>2
<1>9. AtBracket(words, asks, k, held, before, kind)'
    BY <1>1, <1>2, <1>5, <1>6, <1>7, <1>8 DEF AtBracket
<1>10. k <= Budget'
    BY <1>4, <1>5
<1>11. InOperand'
    BY <1>4, <1>9, <1>10 DEF InOperand, Somewhere, Typed
<1> QED
    BY <1>11 DEF Place

\* parse_operand returns with the index.
LEMMA CloseKeeps ==
    ASSUME ListInv, Place, CloseOperand
    PROVE  Place'
<1>1. /\ todo # <<>> /\ Head(todo) \in Indices
      /\ args' = Append(Front(args), IndexedBy(Head(todo), Last(args)))
      /\ todo' = Tail(todo)
    BY DEF CloseOperand, Pending, Indices, IndexedBy
<1>2. UNCHANGED <<tokens, token_index, program, opcode, live>>
    BY DEF CloseOperand
<1>3. InOperand
    <2>1. ~ AtLine /\ ~ AtCall
        BY <1>1 DEF AtLine, AtCall, Indices
    <2> QED
        BY <2>1 DEF Place
<1>4. PICK words \in Seq(Words), asks \in Seq(Asked), k \in Nat, held \in Nat,
              before \in Seq(Trees) : Somewhere(words, asks, k, held, before)
    BY <1>3 DEF InOperand
<1>5. ~ AtOperand(words, asks, k, held, before)
    BY <1>1, AtOperandHead DEF Indices
<1>6. ASSUME NEW kind \in Indices PROVE ~ AtBracket(words, asks, k, held, before, kind)
    BY <1>1, AtBracketHead DEF Indices
<1>7. ASSUME NEW o PROVE ~ Holds(words, asks, k, held, before, o)
    BY <1>1, HoldsHead DEF Indices
<1>8. PICK h \in Nat : k + h + 1 <= Budget /\ \E kind \in Indices, t \in Tree[h] :
             AtReturn(words, asks, k, held, before, kind, t)
    BY <1>4, <1>5, <1>6, <1>7 DEF Somewhere
<1>9. PICK kind \in Indices, t \in Tree[h] : AtReturn(words, asks, k, held, before, kind, t)
    BY <1>8
<1>10. PICK o : o = IndexedBy(kind, t)
    OBVIOUS
<1>11. PICK n \in Nat : n = h + 1
    OBVIOUS
<1>12. /\ Inside(words, asks, k, held, before) /\ args = Append(before, t)
       /\ SeenTokens = words \o Written[o] /\ live = held + Freed[o]
    BY <1>9, <1>10 DEF AtReturn
<1>13. n <= Depth /\ k + n <= Budget /\ Budget \in Nat
    <2>1. Budget \in Nat /\ Budget <= Depth
        BY BudgetFacts
    <2> QED
        BY <2>1, <1>8, <1>11, DepthAssumption
<1>14. o \in Tree[n] /\ t \in Trees
    BY <1>10, <1>13, <1>11, IndexFacts
<1>15. args' = Append(before, o) /\ todo' = asks
    <2>1. Head(todo) = kind /\ Tail(todo) = asks
        BY <1>9, AtReturnHead
    <2>2. Front(args) = before /\ Last(args) = t
        BY <1>12, <1>14, Appended
    <2> QED
        BY <1>1, <1>10, <2>1, <2>2
<1>16. Inside(words, asks, k, held, before)'
    BY <1>2, <1>12, InsideStays
<1>17. SeenTokens' = SeenTokens /\ Budget' = Budget
    BY <1>2 DEF SeenTokens, Budget
<1>18. Holds(words, asks, k, held, before, o)'
    BY <1>2, <1>12, <1>15, <1>16, <1>17 DEF Holds
<1>19. k + n <= Budget'
    BY <1>13, <1>17
<1>20. InOperand'
    BY <1>14, <1>18, <1>19 DEF InOperand, Somewhere
<1> QED
    BY <1>20 DEF Place

-----------------------------------------------------------------------------
(***************************************************************************)
(* The instruction that is stored: what it prints and what it frees.       *)
(***************************************************************************)
\* A line with one part behind the mnemonic, regrouped.
LEMMA OneLine ==
    \A p, a \in Seq(Words), m \in Words :
       (p \o <<m>>) \o a = p \o (<<m>> \o a)
<1> DEFINE W == Words
<1> HIDE DEF W
<1>1. ASSUME NEW p \in Seq(W), NEW a \in Seq(W), NEW m \in W
      PROVE  (p \o <<m>>) \o a = p \o (<<m>> \o a)
    <2>1. <<m>> \in Seq(W)
        OBVIOUS
    <2> QED
        BY <2>1, ConcatAssociative
<1> QED
    BY <1>1 DEF W

\* A line of two operands: program, first, second, mnemonic and comma.
LineParts(p, a, b, m, c) ==
    p \in Seq(Words) /\ a \in Seq(Words) /\ b \in Seq(Words) /\ m \in Words /\ c \in Words
Regrouped(p, a, b, m, c) ==
    (((p \o <<m>>) \o a) \o <<c>>) \o b = p \o (<<m>> \o ((a \o <<c>>) \o b))

\* A line with two operands, regrouped.
LEMMA TwoLine ==
    ASSUME NEW p, NEW a, NEW b, NEW m, NEW c, LineParts(p, a, b, m, c)
    PROVE  Regrouped(p, a, b, m, c)
<1> DEFINE W == Words
           n == <<m>>
           d == <<c>>
           e == p \o n
           f == a \o d
           g == f \o b
<1>1. /\ p \in Seq(W) /\ a \in Seq(W) /\ b \in Seq(W) /\ n \in Seq(W) /\ d \in Seq(W)
    <2>1. m \in W /\ c \in W
        BY DEF LineParts
    <2> HIDE DEF W
    <2>2. n \in Seq(W) /\ d \in Seq(W)
        BY <2>1
    <2> QED
        BY <2>2 DEF LineParts, W
<1> HIDE DEF W, n, d
<1>2. e \in Seq(W) /\ f \in Seq(W)
    BY <1>1, ConcatProperties
<1>3. g \in Seq(W)
    <2> HIDE DEF f
    <2> QED
        BY <1>1, <1>2, ConcatProperties
<1>4. (p \o n) \o g = p \o (n \o g)
    <2> HIDE DEF g
    <2>1. Three(W, p, n, g)
        BY <1>1, <1>3 DEF Three
    <2> QED
        BY <2>1, Associative DEF Associate
<1>5. (e \o a) \o d = e \o f
    <2> HIDE DEF e
    <2>1. Three(W, e, a, d)
        BY <1>1, <1>2 DEF Three
    <2> QED
        BY <2>1, Associative DEF Associate
<1>6. (e \o f) \o b = e \o g
    <2> HIDE DEF e, f
    <2>1. Three(W, e, f, b)
        BY <1>1, <1>2 DEF Three
    <2> QED
        BY <2>1, Associative DEF Associate
<1>7. ((e \o a) \o d) \o b = p \o (n \o g)
    <2>1. ((e \o a) \o d) \o b = e \o g
        BY <1>5, <1>6
    <2>2. e \o g = (p \o n) \o g
        OBVIOUS
    <2> HIDE DEF e, f, g
    <2> QED
        BY <1>4, <2>1, <2>2
<1> QED
    BY <1>7 DEF Regrouped, n, d, e, f, g

\* The instruction is stored: what it prints, what it frees.
LEMMA Stored ==
    ASSUME ListInv, program' = Append(program, Built), Built \in Instructions,
           SeenTokens = Lines(program) \o Line(Built), live = FreedBy(program) + FreedOf(Built),
           UNCHANGED <<tokens, token_index, live>>, todo' = <<>>, args' = <<>>
    PROVE  Place' /\ program' \in Seq(Instructions)
<1>1. \A i \in Instructions : FreedOf(i) \in Nat
    BY FreedOfFacts
<1>2. program \in Seq(Instructions)
    BY DEF ListInv
<1>3. FreedBy(program)' = FreedBy(program) + FreedOf(Built)
    BY <1>1, <1>2, FreedAppend
<1>4. Lines(program)' = Lines(program) \o Line(Built)
    BY <1>2, LinesAppend
<1>5. SeenTokens' = SeenTokens
    BY DEF SeenTokens
<1>6. AtLine'
    BY <1>3, <1>4, <1>5 DEF AtLine
<1>7. program' \in Seq(Instructions)
    BY <1>2, AppendProperties
<1> QED
    BY <1>6, <1>7 DEF Place

\* At the end of an instruction the last operand is complete, outside of all
\* brackets.
LEMMA AskedReturn ==
    ASSUME ListInv, InOperand, Head(todo) = "return"
    PROVE  \E words, asks, held, before : \E o \in Trees :
              Outermost(words, asks, held, before) /\ Typed(words, asks, before) /\ held \in Nat
              /\ Holds(words, asks, 0, held, before, o)
<1>1. PICK words \in Seq(Words), asks \in Seq(Asked), k \in Nat, held \in Nat,
              before \in Seq(Trees) : Somewhere(words, asks, k, held, before)
    BY DEF InOperand
<1>2. ~ AtOperand(words, asks, k, held, before)
    BY AtOperandHead
<1>3. ASSUME NEW kind \in Indices PROVE ~ AtBracket(words, asks, k, held, before, kind)
    BY AtBracketHead
<1>4. ASSUME NEW kind \in Indices, NEW t PROVE ~ AtReturn(words, asks, k, held, before, kind, t)
    BY AtReturnHead DEF Indices
<1>5. PICK h \in Nat : k + h <= Budget /\ \E o \in Tree[h] : Holds(words, asks, k, held, before, o)
    BY <1>1, <1>2, <1>3, <1>4 DEF Somewhere
<1>6. PICK o \in Tree[h] : Holds(words, asks, k, held, before, o)
    BY <1>5
<1>7. k = 0
    BY <1>6, HoldsHead
<1>8. Holds(words, asks, 0, held, before, o)
    BY <1>6, <1>7
<1>9. Outermost(words, asks, held, before)
    BY <1>8, InsideNone DEF Holds
<1>10. o \in Trees
    <2>1. h <= Depth
        BY <1>5, BudgetFacts, DepthAssumption
    <2> QED
        BY <2>1, TreesGrow, DepthAssumption DEF Trees
<1> QED
    BY <1>8, <1>9, <1>10 DEF Typed

\* The end of parse_op and parse_jmp.
LEMMA StoreOperands ==
    ASSUME ListInv, InOperand, Store
    PROVE  Place' /\ program' \in Seq(Instructions)
<1>1. todo # <<>> /\ Head(todo) = "return" /\ program' = Append(program, Built) /\ todo' = Tail(todo)
      /\ args' = <<>> /\ UNCHANGED <<tokens, token_index, live>>
    BY DEF Store, Pending
<1>2. PICK words, asks, held, before : \E o \in Trees :
         /\ Outermost(words, asks, held, before) /\ Typed(words, asks, before) /\ held \in Nat
         /\ Holds(words, asks, 0, held, before, o)
    BY <1>1, AskedReturn
<1>3. PICK o \in Trees :
         /\ Outermost(words, asks, held, before) /\ Typed(words, asks, before) /\ held \in Nat
         /\ Holds(words, asks, 0, held, before, o)
    BY <1>2
<1>4. /\ todo = asks /\ args = Append(before, o)
      /\ SeenTokens = words \o Written[o] /\ live = held + Freed[o]
    BY <1>3 DEF Holds
<1>5. asks = <<"return">> /\ todo' = <<>>
    <2>1. asks = <<"return">>
        BY <1>1, <1>3, <1>4 DEF Outermost
    <2> QED
        BY <1>1, <1>4, <2>1
<1>6. \A t \in Trees : Written[t] \in Seq(Words) /\ Freed[t] \in Nat
    BY OperandFacts, DepthAssumption
<1>7. FreedBy(program) \in Nat /\ Lines(program) \in Seq(Words)
    BY ProgramFacts DEF ListInv
<1> DEFINE m == Word(Mnemonic[opcode])
           c == Word("TK_COMMA")
<1>8. Begun = Lines(program) \o <<m>>
    BY DEF Begun
<1>9. c \in Words
    BY WordFacts
<1>10. opcode \in Opcodes => m \in Words
    BY MnemonicFacts, WordFacts
<1>11. opcode \in OneArg \cup TwoArgs => opcode \in Opcodes /\ opcode # "OPCODE_CALL"
    BY DEF OneArg, TwoArgs, Opcodes, JmpOpcodes, CondOpcodes
<1> HIDE DEF m, c
<1>12. CASE opcode \in OneArg /\ before = <<>> /\ words = Begun /\ held = FreedBy(program)
    <2>1. args = <<o>> /\ args[1] = o
        BY <1>4, <1>12
    <2>2. Built = [opcode |-> opcode, arg0 |-> o]
        BY <1>11, <1>12, <2>1 DEF Built, OneArg
    <2>3. PICK i : i = [opcode |-> opcode, arg0 |-> o]
        OBVIOUS
    <2>4. i \in Instructions /\ i.opcode = opcode /\ i.arg0 = o
        BY <1>12, <2>3 DEF Instructions, OneArg
    <2>5. Line(i) = <<m>> \o Written[o]
        BY <1>11, <1>12, <2>4 DEF Line, LineOperands, OneArg, m
    <2>6. SeenTokens = Lines(program) \o Line(i)
        <3>1. (Lines(program) \o <<m>>) \o Written[o] = Lines(program) \o (<<m>> \o Written[o])
            BY <1>6, <1>7, <1>10, <1>11, <1>12, OneLine
        <3> QED
            BY <1>4, <1>8, <1>12, <2>5, <3>1
    <2>7. live = FreedBy(program) + FreedOf(i)
        BY <1>4, <1>12, <2>4, FreedOfFacts
    <2> QED
        BY <1>1, <1>5, <2>2, <2>3, <2>4, <2>6, <2>7, Stored
<1>13. ASSUME NEW a \in Trees, opcode \in TwoArgs, before = <<a>>,
              words = (Begun \o Written[a]) \o <<c>>, held = FreedBy(program) + Freed[a]
       PROVE  Place' /\ program' \in Seq(Instructions)
    <2>1. args = <<a, o>> /\ args[1] = a /\ args[2] = o
        <3>1. Append(<<a>>, o) = <<a, o>>
            BY TwoWords, Zenon
        <3>2. args = Append(<<a>>, o)
            BY <1>4, <1>13
        <3> QED
            BY <3>1, <3>2
    <2>2. PICK i, x, y : /\ i = [opcode |-> opcode, arg0 |-> x, arg1 |-> y]
                         /\ opcode = "OPCODE_JNZ" => x = o /\ y = a
                         /\ opcode # "OPCODE_JNZ" => x = a /\ y = o
        OBVIOUS
    <2>3. Built = i
        BY <1>11, <1>13, <2>1, <2>2 DEF Built, TwoArgs
    <2>4. x \in Trees /\ y \in Trees
        BY <2>2
    <2>5. i \in Instructions /\ i.opcode = opcode /\ i.arg0 = x /\ i.arg1 = y
        BY <1>13, <2>2, <2>4 DEF Instructions, TwoArgs
    <2>6. Line(i) = <<m>> \o ((Written[a] \o <<c>>) \o Written[o])
        <3>1. opcode # "OPCODE_JNZ" => opcode \notin JmpOpcodes
            BY <1>13 DEF TwoArgs
        <3>2. LineOperands(i) = (Written[a] \o <<c>>) \o Written[o]
            BY <2>2, <2>5, <3>1 DEF LineOperands, c
        <3> QED
            BY <1>11, <1>13, <2>5, <3>2 DEF Line, m
    <2>7. SeenTokens = Lines(program) \o Line(i)
        <3>1. (((Lines(program) \o <<m>>) \o Written[a]) \o <<c>>) \o Written[o]
                 = Lines(program) \o (<<m>> \o ((Written[a] \o <<c>>) \o Written[o]))
            <4> DEFINE p == Lines(program)
                       u == Written[a]
                       v == Written[o]
            <4>1. LineParts(p, u, v, m, c)
                BY <1>6, <1>7, <1>9, <1>10, <1>11, <1>13 DEF LineParts
            <4> HIDE DEF p, u, v
            <4>2. Regrouped(p, u, v, m, c)
                BY <4>1, TwoLine
            <4> QED
                BY <4>2 DEF p, u, v, Regrouped
        <3> QED
            BY <1>4, <1>8, <1>13, <2>6, <3>1
    <2>8. live = FreedBy(program) + FreedOf(i)
        <3>1. FreedOf(i) = Freed[x] + Freed[y]
            BY <1>13, <2>5, FreedOfFacts
        <3>2. FreedOf(i) = Freed[a] + Freed[o]
            BY <2>2, <3>1, <1>6
        <3> QED
            BY <1>4, <1>6, <1>7, <1>13, <3>2
    <2> QED
        BY <1>1, <1>5, <2>3, <2>5, <2>7, <2>8, Stored
<1> QED
    BY <1>3, <1>5, <1>12, <1>13 DEF Outermost, c

\* The end of parse_call.
LEMMA StoreCall ==
    ASSUME ListInv, AtCall, Store
    PROVE  Place' /\ program' \in Seq(Instructions)
<1>1. todo # <<>> /\ Head(todo) = "return" /\ program' = Append(program, Built) /\ todo' = Tail(todo)
      /\ args' = <<>> /\ UNCHANGED <<tokens, token_index, live>>
    BY DEF Store, Pending
<1>2. /\ opcode = "OPCODE_CALL" /\ live = FreedBy(program) /\ todo = <<"return">>
      /\ \E f \in {"CALL_PUTCHAR", "CALL_READ"} :
            /\ args = <<f>>
            /\ SeenTokens = Begun \o <<CallWord(f), Word("TK_L_PARENTH"), Word("TK_R_PARENTH")>>
    <2>1. /\ todo # <<"callee", "return">> /\ todo # <<"TK_R_PARENTH", "return">>
          /\ todo # <<"TK_L_PARENTH", "TK_R_PARENTH", "return">>
        BY <1>1
    <2> QED
        BY <2>1, Zenon DEF AtCall
<1>3. PICK f \in {"CALL_PUTCHAR", "CALL_READ"} :
         /\ args = <<f>>
         /\ SeenTokens = Begun \o <<CallWord(f), Word("TK_L_PARENTH"), Word("TK_R_PARENTH")>>
    BY <1>2
<1>4. PICK i : i = [opcode |-> "OPCODE_CALL", call_name |-> f]
    OBVIOUS
<1>5. Built = i
    <2>1. args[1] = f
        BY <1>3
    <2> QED
        BY <1>2, <1>4, <2>1 DEF Built, JmpOpcodes, CondOpcodes
<1>6. i \in Instructions /\ i.opcode = "OPCODE_CALL" /\ i.call_name = f
    BY <1>4 DEF Instructions
<1> DEFINE w == CallWord(f)
           l == Word("TK_L_PARENTH")
           r == Word("TK_R_PARENTH")
           m == Word("MN_CALL")
<1>7. Line(i) = <<m, w, l, r>>
    BY <1>6 DEF Line, CallWord
<1>8. m \in Words /\ w \in Words /\ l \in Words /\ r \in Words
    BY WordFacts DEF CallWord
<1>9. Begun = Lines(program) \o <<m>>
    BY <1>2 DEF Begun, Mnemonic
<1>10. SeenTokens = Lines(program) \o Line(i)
    <2> HIDE DEF w, l, r, m
    <2>1. SeenTokens = (Lines(program) \o <<m>>) \o <<w, l, r>>
        BY <1>3, <1>9 DEF w, l, r
    <2>2. Lines(program) \in Seq(Words) /\ <<w, l, r>> \in Seq(Words)
        <3>1. \A W : w \in W /\ l \in W /\ r \in W => <<w, l, r>> \in Seq(W)
            OBVIOUS
        <3>2. <<w, l, r>> \in Seq(Words)
            BY <1>8, <3>1
        <3> QED
            BY <3>2, ProgramFacts DEF ListInv
    <2>3. (Lines(program) \o <<m>>) \o <<w, l, r>> = Lines(program) \o (<<m>> \o <<w, l, r>>)
        BY <1>8, <2>2, OneLine
    <2>4. <<m, w, l, r>> = <<m>> \o <<w, l, r>>
        BY Fourth
    <2> QED
        BY <1>7, <2>1, <2>3, <2>4
<1>11. live = FreedBy(program) + FreedOf(i)
    <2>1. FreedOf(i) = 0 /\ FreedBy(program) \in Nat
        BY <1>6, FreedOfFacts, ProgramFacts DEF ListInv
    <2> QED
        BY <1>2, <2>1
<1>12. todo' = <<>>
    BY <1>1, <1>2
<1> QED
    BY <1>1, <1>5, <1>6, <1>10, <1>11, <1>12, Stored

-----------------------------------------------------------------------------
(***************************************************************************)
(* The invariant, and the theorems.                                        *)
(***************************************************************************)
\* Before the first instruction.
LEMMA StartPlace ==
    ASSUME PlaceInv, Start
    PROVE  Place' /\ SeenTokens' \in Seq(Words)
<1>1. /\ program' = <<>> /\ todo' = <<>> /\ args' = <<>> /\ live' = 0 /\ token_index' = 0
    BY DEF Start, PlaceInv
<1>2. SeenTokens' = <<>>
    BY <1>1 DEF SeenTokens
<1>3. FreedBy(<<>>) = 0
    <2>1. \A i \in Instructions : FreedOf(i) \in Nat
        BY FreedOfFacts
    <2>2. [opcode |-> "OPCODE_CALL", call_name |-> "CALL_READ"] \in Instructions
        BY DEF Instructions
    <2>3. <<>> \in Seq(Instructions)
        BY EmptySeq
    <2> QED
        BY <2>1, <2>2, <2>3, FreedAppend
<1>4. Lines(<<>>) = <<>>
    <2>1. [opcode |-> "OPCODE_CALL", call_name |-> "CALL_READ"] \in Instructions
        BY DEF Instructions
    <2>2. <<>> \in Seq(Instructions)
        BY EmptySeq
    <2> QED
        BY <2>1, <2>2, LinesAppend
<1>5. AtLine'
    BY <1>1, <1>2, <1>3, <1>4 DEF AtLine
<1>6. <<>> \in Seq(Words)
    BY EmptySeq
<1> QED
    BY <1>2, <1>5, <1>6 DEF Place

\* The variables a place is about.
Where == <<tokens, token_index, program, opcode, todo, args, live>>

\* A step that leaves the tokens, the program and the calls alone leaves the
\* place.
LEMMA PlaceStays ==
    ASSUME UNCHANGED Where
    PROVE  /\ Place => Place'
           /\ AtLine => AtLine'
           /\ SeenTokens' = SeenTokens
<1>1. /\ SeenTokens' = SeenTokens /\ Budget' = Budget /\ Begun' = Begun
      /\ FreedBy(program)' = FreedBy(program) /\ Lines(program)' = Lines(program)
    BY DEF Where, SeenTokens, Budget, Begun
<1>2. \A words, asks, k, held, before :
         Inside(words, asks, k, held, before)' = Inside(words, asks, k, held, before)
    BY InsideStays DEF Where
<1>3. AtLine => AtLine'
    BY <1>1 DEF AtLine, Where
<1>4. AtCall => AtCall'
    BY <1>1 DEF AtCall, Where
<1>5. \A words, asks, k, held, before :
         AtOperand(words, asks, k, held, before) => AtOperand(words, asks, k, held, before)'
    BY <1>1, <1>2 DEF AtOperand, Where
<1>6. \A words, asks, k, held, before, kind :
         AtBracket(words, asks, k, held, before, kind) => AtBracket(words, asks, k, held, before, kind)'
    BY <1>1, <1>2 DEF AtBracket, Where
<1>7. \A words, asks, k, held, before, o :
         Holds(words, asks, k, held, before, o) => Holds(words, asks, k, held, before, o)'
    BY <1>1, <1>2 DEF Holds, Where
<1>8. \A words, asks, k, held, before, kind, t :
          AtReturn(words, asks, k, held, before, kind, t)
             => AtReturn(words, asks, k, held, before, kind, t)'
    BY <1>1, <1>2 DEF AtReturn, Where
<1>9. InOperand => InOperand'
    <2> SUFFICES ASSUME InOperand PROVE InOperand'
        OBVIOUS
    <2>1. PICK words \in Seq(Words), asks \in Seq(Asked), k \in Nat, held \in Nat,
              before \in Seq(Trees) : Somewhere(words, asks, k, held, before)
        BY DEF InOperand
    <2>2. Somewhere(words, asks, k, held, before)'
        BY <2>1, <1>1, <1>5, <1>6, <1>7, <1>8 DEF Somewhere
    <2> QED
        BY <2>2 DEF InOperand
<1> QED
    BY <1>1, <1>3, <1>4, <1>9 DEF Place

\* A token is taken: what is known of the tokens.
LEMMA Accepted ==
    ASSUME ListInv, SeenTokens \in Seq(Words), IsShown, Accept,
           UNCHANGED <<tokens, nb_instructions, pc, program, last>>
    PROVE  ListInv' /\ SeenTokens' \in Seq(Words)
<1>1. token_index' \in 0 .. Len(tokens') /\ SeenTokens' \in Seq(Words)
    BY TakeToken DEF Accept
<1> QED
    BY <1>1 DEF ListInv

\* parse_operand, for an immediate or the flag.
LEMMA LeafTaken ==
    ASSUME ListInv, SeenTokens \in Seq(Words), Place, OperandImm \/ OperandFlag
    PROVE  Place'
<1>1. /\ Reads /\ todo # <<>> /\ Head(todo) = "operand" /\ todo' = Tail(todo) /\ live' = live + 1
    BY DEF OperandImm, OperandFlag, Operand, Pending, Accept, Reads
<1>2. Shown.value \in Nat
    BY <1>1, TakeToken DEF Reads
<1>3. CASE OperandImm
    <2>1. PICK o : o = [kind |-> "OPE_IMM", value |-> Shown.value]
        OBVIOUS
    <2>2. o \in Leaves /\ o.kind = "OPE_IMM" /\ o.value = Shown.value
        BY <1>2, <2>1 DEF Leaves
    <2>3. Seen(Shown) = [kind |-> "TK_IMMEDIATE", value |-> o.value]
        BY <1>3, <2>2 DEF OperandImm, Operand, Seen
    <2>4. <<Seen(Shown)>> = Written[o]
        BY <2>2, <2>3, LeafFacts
    <2>5. args' = Append(args, o)
        BY <1>3, <2>1 DEF OperandImm
    <2> QED
        BY <1>1, <2>2, <2>4, <2>5, LeafKeeps
<1>4. CASE OperandFlag
    <2>1. PICK o : o = [kind |-> "OPE_FLAG"]
        OBVIOUS
    <2>2. o \in Leaves /\ o.kind = "OPE_FLAG"
        BY <2>1 DEF Leaves
    <2>3. Seen(Shown) = Word("TK_FLAG")
        BY <1>4 DEF OperandFlag, Operand, Seen
    <2>4. <<Seen(Shown)>> = Written[o]
        BY <2>2, <2>3, LeafFacts
    <2>5. args' = Append(args, o)
        BY <1>4, <2>1 DEF OperandFlag
    <2> QED
        BY <1>1, <2>2, <2>4, <2>5, LeafKeeps
<1> QED
    BY <1>3, <1>4

\* free_asm_weeperVM leaves no operand alive.
LEMMA FreedAll ==
    ASSUME ListInv, AtLine, FreeAsm
    PROVE  args' = <<>> /\ live' = 0
<1>1. FreedBy(program) \in Nat
    BY ProgramFacts DEF ListInv
<1> QED
    BY <1>1 DEF AtLine, FreeAsm

\* The place is right at first,
LEMMA PlaceEntered ==
    ASSUME Entry, tokens \in Seq(Cells), token_index \in 0 .. Len(tokens),
           Opened(tokens, Len(tokens)) <= Depth, nb_instructions \in Nat
    PROVE  PlaceInv
<1>1. ListInv
    <2>1. Len(tokens) \in Nat
        BY LenProperties
    <2>2. program \in Seq(Instructions)
        BY EmptySeq DEF Entry
    <2> QED
        BY <2>1, <2>2 DEF ListInv, Entry
<1> QED
    BY <1>1 DEF PlaceInv, Entry

LEMMA PlaceInit == Init => PlaceInv
<1> SUFFICES ASSUME Init PROVE PlaceInv
    OBVIOUS
<1>1. PICK l \in TokenLists :
         /\ tokens = l.tokens /\ token_index = l.token_index
         /\ nb_instructions = l.nb_instructions
    BY DEF Init
<1>2. tokens \in Seq(Cells) /\ token_index \in 0 .. Len(tokens)
      /\ Opened(tokens, Len(tokens)) <= Depth /\ nb_instructions \in Nat
    BY <1>1, ListsAssumption
<1> QED
    BY <1>2, PlaceEntered DEF Init

\* after every step,
LEMMA PlaceNext == PlaceInv /\ [Next]_vars => PlaceInv'
<1> SUFFICES ASSUME PlaceInv, [Next]_vars PROVE PlaceInv'
    OBVIOUS
<1>1. ListInv
    BY DEF PlaceInv
<1>2. pc = "parse" => Place /\ SeenTokens \in Seq(Words)
    BY DEF PlaceInv
<1>3. CASE Start
    <2>1. Place' /\ SeenTokens' \in Seq(Words)
        BY <1>3, StartPlace
    <2>2. ListInv' /\ pc' = "parse"
        <3>1. Len(tokens) \in Nat
            BY <1>1, LenProperties DEF ListInv
        <3> QED
            BY <1>1, <1>3, <3>1 DEF Start, ListInv
    <2> QED
        BY <2>1, <2>2 DEF PlaceInv
<1>4. CASE pc = "parse" /\ Exit
    <2>1. Place' /\ SeenTokens' = SeenTokens
        BY <1>2, <1>4, PlaceStays DEF Exit, Where
    <2>2. ListInv' /\ pc' = "exit"
        BY <1>1, <1>4 DEF Exit, ListInv
    <2> QED
        BY <1>2, <1>4, <2>1, <2>2 DEF PlaceInv
<1>5. CASE ReadWild
    <2>1. pc = "parse"
        BY <1>5 DEF ReadWild, NeedsToken, AtInstruction, Pending
    <2>2. Place' /\ SeenTokens' = SeenTokens
        BY <1>2, <1>5, <2>1, PlaceStays DEF ReadWild, Where
    <2>3. ListInv' /\ pc' = "wild"
        BY <1>1, <1>5 DEF ReadWild, ListInv
    <2> QED
        BY <1>2, <2>1, <2>2, <2>3 DEF PlaceInv
<1>6. ASSUME pc = "parse", IsShown, Accept, UNCHANGED <<tokens, nb_instructions, pc, program, last>>, Place'
      PROVE  PlaceInv'
    <2>1. ListInv' /\ SeenTokens' \in Seq(Words)
        BY <1>1, <1>2, <1>6, Accepted
    <2> QED
        BY <2>1, <1>6 DEF PlaceInv
<1>7. CASE ParseOp \/ ParseJmp \/ ParseCall
    <2>1. pc = "parse" /\ IsShown /\ Accept /\ UNCHANGED <<tokens, nb_instructions, pc, program, last>>
        BY <1>7 DEF ParseOp, ParseJmp, ParseCall, Begin, AtInstruction
    <2>2. Place'
        BY <1>1, <1>2, <1>7, <2>1, BeginKeeps
    <2> QED
        BY <1>6, <2>1, <2>2
<1>8. CASE NoParser \/ OperandWrong
    BY <1>4, <1>8 DEF NoParser, OperandWrong, AtInstruction, Pending
<1>9. CASE Callee
    <2>1. pc = "parse" /\ IsShown
        BY <1>9 DEF Callee, Pending
    <2>2. CASE ~ Exit
        <3>1. Accept /\ UNCHANGED <<tokens, nb_instructions, pc, program, last>>
            BY <1>9, <2>2 DEF Callee
        <3>2. Place'
            BY <1>1, <1>2, <1>9, <2>1, <2>2, CalleeKeeps
        <3> QED
            BY <1>6, <2>1, <3>1, <3>2
    <2> QED
        BY <1>4, <2>1, <2>2
<1>10. CASE Expect
    <2>1. pc = "parse" /\ IsShown /\ todo # <<>>
        BY <1>10 DEF Expect, Pending
    <2>2. CASE Shown.kind = Head(todo)
        <3>1. /\ Accept /\ UNCHANGED <<tokens, nb_instructions, pc, program, last>>
              /\ Takes
            BY <1>10, <2>1, <2>2 DEF Expect, Takes, Accept
        <3>2. Place'
            BY <1>1, <1>2, <2>1, <2>2, <3>1, ExpectKeeps
        <3> QED
            BY <1>6, <2>1, <3>1, <3>2
    <2>3. CASE Shown.kind # Head(todo)
        BY <1>4, <1>10, <2>1, <2>3 DEF Expect
    <2> QED
        BY <2>2, <2>3
<1>11. CASE OperandImm \/ OperandFlag \/ OperandIndexed
    <2>1. pc = "parse" /\ IsShown /\ Accept /\ UNCHANGED <<tokens, nb_instructions, pc, program, last>>
        BY <1>11 DEF OperandImm, OperandFlag, OperandIndexed, Operand, Pending
    <2>2. Place'
        BY <1>1, <1>2, <1>11, <2>1, LeafTaken, IndexedKeeps
    <2> QED
        BY <1>6, <2>1, <2>2
<1>12. CASE CloseOperand
    <2>1. pc = "parse" /\ pc' = "parse" /\ UNCHANGED <<tokens, token_index, nb_instructions, program, last>>
        BY <1>12 DEF CloseOperand, Pending
    <2>2. Place'
        BY <1>1, <1>2, <1>12, <2>1, CloseKeeps
    <2>3. ListInv' /\ SeenTokens' = SeenTokens
        BY <1>1, <2>1 DEF ListInv, SeenTokens
    <2> QED
        BY <1>2, <2>1, <2>2, <2>3 DEF PlaceInv
<1>13. CASE Store
    <2>1. /\ pc = "parse" /\ pc' = "parse" /\ todo # <<>>
          /\ UNCHANGED <<tokens, token_index, nb_instructions, last>>
        BY <1>13 DEF Store, Pending
    <2>2. Place' /\ program' \in Seq(Instructions)
        <3>1. ~ AtLine
            BY <2>1 DEF AtLine
        <3> QED
            BY <1>1, <1>2, <1>13, <2>1, <3>1, StoreOperands, StoreCall DEF Place
    <2>3. ListInv' /\ SeenTokens' = SeenTokens
        BY <1>1, <2>1, <2>2 DEF ListInv, SeenTokens
    <2> QED
        BY <1>2, <2>1, <2>2, <2>3 DEF PlaceInv
<1>14. CASE Return
    <2>1. pc = "parse" /\ todo = <<>> /\ pc' = "done"
        BY <1>14 DEF Return
    <2>2. AtLine' /\ SeenTokens' = SeenTokens
        BY <1>1, <1>2, <1>14, <2>1, LineAsked, PlaceStays DEF Return, Where
    <2>3. ListInv'
        BY <1>1, <1>14 DEF Return, ListInv
    <2> QED
        BY <1>2, <2>1, <2>2, <2>3 DEF PlaceInv
<1>15. CASE FreeAsm
    <2>1. pc = "done" /\ pc' = "freed"
        BY <1>15 DEF FreeAsm
    <2>2. args' = <<>> /\ live' = 0
        BY <1>1, <1>15, <2>1, FreedAll DEF PlaceInv
    <2>3. ListInv' /\ SeenTokens' = SeenTokens
        BY <1>1, <1>15 DEF FreeAsm, ListInv, SeenTokens
    <2> QED
        BY <2>1, <2>2, <2>3 DEF PlaceInv
<1>16. CASE UNCHANGED vars
    <2>1. UNCHANGED Where /\ pc' = pc
        BY <1>16 DEF vars, Where
    <2>2. (Place => Place') /\ (AtLine => AtLine') /\ SeenTokens' = SeenTokens
        BY <2>1, PlaceStays
    <2>3. ListInv'
        BY <1>1, <1>16 DEF vars, ListInv
    <2> QED
        BY <2>1, <2>2, <2>3 DEF PlaceInv, Where
<1> QED
    BY <1>3, <1>5, <1>7, <1>8, <1>9, <1>10, <1>11, <1>12, <1>13, <1>14, <1>15, <1>16 DEF Next, Parse

\* (in each place there are at most two operands that wait)
LEMMA PlaceTyped ==
    ASSUME ListInv, Place
    PROVE  Len(args) <= 2 /\ live \in Nat
<1>1. FreedBy(program) \in Nat
    BY ProgramFacts DEF ListInv
<1>2. Len(<<>>) = 0
    OBVIOUS
<1>3. CASE AtLine
    BY <1>1, <1>2, <1>3 DEF AtLine
<1>4. CASE AtCall
    <2>1. live \in Nat
        BY <1>1, <1>4 DEF AtCall
    <2>2. args = <<>> \/ \E f : args = <<f>>
        BY <1>4 DEF AtCall
    <2>3. CASE args = <<>>
        BY <1>2, <2>1, <2>3
    <2>4. CASE \E f : args = <<f>>
        <3>1. PICK f : args = <<f>>
            BY <2>4
        <3>2. Len(args) = 1
            BY <3>1
        <3> QED
            BY <2>1, <3>2
    <2> QED
        BY <2>2, <2>3, <2>4
<1>5. CASE InOperand
    <2>1. PICK words \in Seq(Words), asks \in Seq(Asked), k \in Nat, held \in Nat,
              before \in Seq(Trees) : Somewhere(words, asks, k, held, before)
        BY <1>5 DEF InOperand
    <2>2. Inside(words, asks, k, held, before)
        BY <2>1 DEF Somewhere, AtOperand, AtBracket, Holds, AtReturn
    <2>3. Len(before) <= 1 /\ Len(before) \in Nat
        BY <2>2, InsideFacts, LenProperties
    <2>4. Budget <= Depth /\ Budget \in Nat
        BY BudgetFacts
    <2>5. ASSUME NEW h \in Nat, h <= Depth, NEW o \in Tree[h] PROVE Freed[o] \in Nat /\ o \in Trees
        <3>1. o \in Trees
            BY <2>5, TreesGrow, DepthAssumption DEF Trees
        <3> QED
            BY <3>1, OperandFacts, DepthAssumption
    <2>6. \A o \in Trees : Len(Append(before, o)) = Len(before) + 1
        BY AppendProperties
    <2>7. CASE AtOperand(words, asks, k, held, before)
        BY <2>3, <2>7 DEF AtOperand
    <2>8. CASE \E kind \in Indices : AtBracket(words, asks, k, held, before, kind)
        BY <2>3, <2>8 DEF AtBracket
    <2>9. ASSUME NEW h \in Nat, k + h <= Budget, NEW o \in Tree[h], Holds(words, asks, k, held, before, o)
          PROVE  Len(args) <= 2 /\ live \in Nat
        <3>1. Freed[o] \in Nat /\ o \in Trees
            BY <2>4, <2>5, <2>9, DepthAssumption
        <3>2. args = Append(before, o) /\ live = held + Freed[o]
            BY <2>9 DEF Holds
        <3>3. Len(args) = Len(before) + 1
            BY <2>6, <3>1, <3>2
        <3> QED
            BY <2>3, <3>1, <3>2, <3>3
    <2>10. ASSUME NEW h \in Nat, k + h + 1 <= Budget, NEW kind \in Indices, NEW t \in Tree[h],
                  AtReturn(words, asks, k, held, before, kind, t)
           PROVE  Len(args) <= 2 /\ live \in Nat
        <3>1. h + 1 <= Depth
            BY <2>4, <2>10, DepthAssumption
        <3>2. t \in Trees /\ Freed[t] \in Nat /\ Freed[IndexedBy(kind, t)] = 1 + Freed[t]
            BY <3>1, IndexFacts
        <3>3. args = Append(before, t) /\ live = held + Freed[IndexedBy(kind, t)]
            BY <2>10 DEF AtReturn
        <3>4. Len(args) = Len(before) + 1
            BY <2>6, <3>2, <3>3
        <3> QED
            BY <2>3, <3>2, <3>3, <3>4
    <2> QED
        BY <2>1, <2>7, <2>8, <2>9, <2>10 DEF Somewhere
<1> QED
    BY <1>3, <1>4, <1>5 DEF Place

\* and so always.
LEMMA PlaceHolds == Spec => []PlaceInv
BY PlaceInit, PlaceNext, PTL DEF Spec

\* The types follow from the place.
LEMMA TypesKept == PlaceInv => TypeOK
<1> SUFFICES ASSUME PlaceInv PROVE TypeOK
    OBVIOUS
<1>1. ListInv /\ pc \in {"start", "parse", "done", "freed", "exit", "wild"}
    BY DEF PlaceInv, ListInv
<1>2. Len(args) <= 2 /\ live \in Nat
    <2>1. CASE pc \in {"parse", "exit", "wild", "done"}
        BY <1>1, <2>1, PlaceTyped DEF PlaceInv, Place
    <2>2. CASE pc \in {"start", "freed"}
        <3>1. args = <<>> /\ live = 0
            BY <2>2 DEF PlaceInv
        <3>2. Len(args) = 0
            BY <3>1
        <3> QED
            BY <3>1, <3>2
    <2> QED
        BY <1>1, <2>1, <2>2
<1> QED
    BY <1>1, <1>2 DEF TypeOK, ListInv

\* Between instructions the place is the end of a line.
LEMMA ListingKept == PlaceInv => PrintsBack
<1> SUFFICES ASSUME PlaceInv, pc \in {"parse", "done"}, todo = <<>>
             PROVE  Lines(program) = [c \in 1 .. token_index |-> Seen(tokens[c])]
    BY DEF PrintsBack
<1>1. AtLine
    BY LineAsked DEF PlaceInv
<1> QED
    BY <1>1 DEF AtLine, SeenTokens

(***************************************************************************)
(* Every instruction has the operands its opcode needs, at most two        *)
(* operands wait for their instruction, no token is taken outside of the   *)
(* array, and the operands freed are never more than those allocated.      *)
(***************************************************************************)
THEOREM TypeCorrect == Spec => []TypeOK
BY PlaceHolds, TypesKept, PTL

(***************************************************************************)
(* parser_weeperVM reads the listing: after each instruction the tokens    *)
(* taken are exactly the lines of the program built so far, for every list *)
(* of tokens and operands nested as deeply as the list has brackets.       *)
(***************************************************************************)
THEOREM ListingRead == Spec => []PrintsBack
BY PlaceHolds, ListingKept, PTL
-----------------------------------------------------------------------------
(***************************************************************************)
(* A listing can be read in one way only.                                  *)
(***************************************************************************)
\* The words w stand in list behind the first a.
Stands(list, a, w) == a + Len(w) <= Len(list) /\ \A j \in 1 .. Len(w) : list[a + j] = w[j]

LEMMA JoinedLength ==
    ASSUME NEW S, NEW u \in Seq(S), NEW v \in Seq(S)
    PROVE  u \o v \in Seq(S) /\ Len(u \o v) = Len(u) + Len(v) /\ Len(u) \in Nat /\ Len(v) \in Nat
BY ConcatProperties, LenProperties

LEMMA StandsOne ==
    ASSUME NEW list, NEW a \in Nat, NEW w
    PROVE  Stands(list, a, <<w>>) <=> a + 1 <= Len(list) /\ list[a + 1] = w
<1>1. Len(<<w>>) = 1 /\ <<w>>[1] = w
    OBVIOUS
<1>2. 1 .. 1 = {1}
    OBVIOUS
<1> QED
    BY <1>1, <1>2 DEF Stands

LEMMA StandsBoth ==
    ASSUME NEW S, NEW list, Len(list) \in Nat, NEW a \in Nat, NEW u \in Seq(S), NEW v \in Seq(S)
    PROVE  Stands(list, a, u \o v) <=> Stands(list, a, u) /\ Stands(list, a + Len(u), v)
<1>1. /\ Len(u) \in Nat /\ Len(v) \in Nat
      /\ Len(u \o v) = Len(u) + Len(v)
      /\ \A j \in 1 .. Len(u) : (u \o v)[j] = u[j]
      /\ \A j \in 1 .. Len(v) : (u \o v)[Len(u) + j] = v[j]
    <2>1. Len(u) \in Nat /\ Len(v) \in Nat
        BY LenProperties
    <2>2. /\ Len(u \o v) = Len(u) + Len(v)
          /\ \A j \in 1 .. Len(u) + Len(v) :
                (u \o v)[j] = IF j <= Len(u) THEN u[j] ELSE v[j - Len(u)]
        BY ConcatProperties
    <2>3. \A j \in 1 .. Len(v) : Len(u) + j \in 1 .. Len(u) + Len(v) /\ ~ (Len(u) + j <= Len(u))
                                 /\ (Len(u) + j) - Len(u) = j
        BY <2>1
    <2>4. \A j \in 1 .. Len(u) : j \in 1 .. Len(u) + Len(v) /\ j <= Len(u)
        BY <2>1
    <2> QED
        BY <2>1, <2>2, <2>3, <2>4
<1> DEFINE m == Len(u)
           n == Len(v)
           uv == u \o v
<1> HIDE DEF m, n, uv
<1>2. /\ m \in Nat /\ n \in Nat /\ Len(uv) = m + n /\ Len(u) = m /\ Len(v) = n
      /\ \A j \in 1 .. m : uv[j] = u[j]
      /\ \A j \in 1 .. n : uv[m + j] = v[j]
    BY <1>1 DEF m, n, uv
<1>3. ASSUME Stands(list, a, uv)
      PROVE  Stands(list, a, u) /\ Stands(list, a + m, v)
    <2>1. a + (m + n) <= Len(list) /\ \A j \in 1 .. m + n : list[a + j] = uv[j]
        BY <1>2, <1>3 DEF Stands
    <2>2. ASSUME NEW j \in 1 .. m PROVE list[a + j] = u[j]
        BY <1>2, <2>1
    <2>3. ASSUME NEW j \in 1 .. n PROVE list[(a + m) + j] = v[j]
        <3>1. m + j \in 1 .. m + n /\ a + (m + j) = (a + m) + j
            BY <1>2
        <3> QED
            BY <1>2, <2>1, <3>1
    <2> QED
        BY <1>2, <2>1, <2>2, <2>3 DEF Stands
<1>4. ASSUME Stands(list, a, u), Stands(list, a + m, v)
      PROVE  Stands(list, a, uv)
    <2>1. /\ (a + m) + n <= Len(list)
          /\ \A j \in 1 .. m : list[a + j] = u[j]
          /\ \A j \in 1 .. n : list[(a + m) + j] = v[j]
        BY <1>2, <1>4 DEF Stands
    <2>2. ASSUME NEW j \in 1 .. m + n PROVE list[a + j] = uv[j]
        <3>1. CASE j <= m
            <4>1. j \in 1 .. m
                BY <1>2, <3>1
            <4> QED
                BY <1>2, <2>1, <4>1
        <3>2. CASE j > m
            <4>1. PICK k \in 1 .. n : j = m + k
                <5>1. j - m \in 1 .. n /\ j = m + (j - m)
                    BY <1>2, <3>2
                <5> QED
                    BY <5>1
            <4>2. list[(a + m) + k] = v[k] /\ uv[m + k] = v[k] /\ (a + m) + k = a + j
                BY <1>2, <2>1, <4>1
            <4> QED
                BY <4>1, <4>2
        <3> QED
            BY <1>2, <3>1, <3>2
    <2> QED
        BY <1>2, <2>1, <2>2 DEF Stands
<1> QED
    BY <1>3, <1>4 DEF m, uv

\* How an operand that stands behind the first a begins tells what it is; behind
\* the bracket its index stands.
WrittenAt(list, a, o) ==
    /\ Written[o] \in Seq(Words) /\ a + 1 <= Len(list)
    /\ o.kind \in {"OPE_IMM", "OPE_FLAG", "OPE_REG", "OPE_MEM"}
    /\ o.kind = "OPE_FLAG" =>
          /\ o = [kind |-> "OPE_FLAG"] /\ Len(Written[o]) = 1
          /\ list[a + 1] = Word("TK_FLAG")
    /\ o.kind = "OPE_IMM" =>
          /\ o = [kind |-> "OPE_IMM", value |-> o.value] /\ Len(Written[o]) = 1
          /\ list[a + 1] = [kind |-> "TK_IMMEDIATE", value |-> o.value]
    /\ o.kind \in Indices =>
          /\ o = IndexedBy(o.kind, o.index) /\ o.index \in Trees
          /\ \A d \in Nat : o \in Tree[d] => d # 0 /\ o.index \in Tree[d - 1]
          /\ Len(Written[o.index]) \in Nat /\ Len(Written[o]) = Len(Written[o.index]) + 3
          /\ list[a + 1] = Word(OperandToken[o.kind])
          /\ a + 2 <= Len(list) /\ list[a + 2] = Word("TK_L_SQ_BRACKET")
          /\ Stands(list, a + 2, Written[o.index])
          /\ a + Len(Written[o]) <= Len(list)
          /\ list[a + Len(Written[o])] = Word("TK_R_SQ_BRACKET")

LEMMA WrittenStands ==
    ASSUME NEW list, Len(list) \in Nat, NEW a \in Nat, NEW o \in Trees, Stands(list, a, Written[o])
    PROVE  WrittenAt(list, a, o)
<1> USE DEF WrittenAt
<1>1. Written[o] \in Seq(Words) /\ Written[o] = WordsOf(Written, o) /\ o \in Tree[Depth]
    BY OperandFacts, DepthAssumption DEF Trees
<1>2. /\ o.kind \in {"OPE_IMM", "OPE_FLAG", "OPE_REG", "OPE_MEM"}
      /\ o.kind \in {"OPE_REG", "OPE_MEM"} => Depth # 0 /\ o.index \in Tree[Depth - 1]
    BY <1>1, TreeFacts, DepthAssumption
<1>3. o \in Leaves \/ \E d \in Nat : o \in Around(Tree[d])
    <2>1. Tree[Depth] = Level(Tree, Depth)
        BY TreeLevel, DepthAssumption
    <2>2. CASE Depth = 0
        BY <1>1, <2>1, <2>2 DEF Level
    <2>3. CASE Depth # 0
        <3>1. Depth - 1 \in Nat /\ o \in Leaves \cup Around(Tree[Depth - 1])
            BY <1>1, <2>1, <2>3, DepthAssumption DEF Level
        <3> QED
            BY <3>1, Zenon
    <2> QED
        BY <2>2, <2>3
<1>4. CASE o.kind = "OPE_FLAG"
    <2>1. o = [kind |-> "OPE_FLAG"]
        BY <1>3, <1>4 DEF Leaves, Around
    <2>2. Written[o] = <<Word("TK_FLAG")>>
        BY <1>1, <1>4 DEF WordsOf
    <2>3. Len(Written[o]) = 1
        BY <2>2
    <2>4. a + 1 <= Len(list) /\ list[a + 1] = Word("TK_FLAG")
        BY <2>2, StandsOne
    <2> QED
        BY <1>1, <1>4, <2>1, <2>3, <2>4 DEF Indices
<1>5. CASE o.kind = "OPE_IMM"
    <2>1. o = [kind |-> "OPE_IMM", value |-> o.value]
        BY <1>3, <1>5 DEF Leaves, Around
    <2>2. Written[o] = <<[kind |-> "TK_IMMEDIATE", value |-> o.value]>>
        BY <1>1, <1>5 DEF WordsOf
    <2>3. Len(Written[o]) = 1
        BY <2>2
    <2>4. a + 1 <= Len(list) /\ list[a + 1] = [kind |-> "TK_IMMEDIATE", value |-> o.value]
        BY <2>2, StandsOne
    <2> QED
        BY <1>1, <1>5, <2>1, <2>3, <2>4 DEF Indices
<1>6. CASE o.kind \in Indices
    <2>1. o = IndexedBy(o.kind, o.index)
        BY <1>3, <1>6 DEF Leaves, Around, Indices, IndexedBy
    <2>2. /\ Depth - 1 \in Nat /\ o.index \in Tree[Depth - 1] /\ (Depth - 1) + 1 <= Depth
          /\ o.index \in Trees
        <3>1. Depth - 1 \in Nat /\ o.index \in Tree[Depth - 1] /\ (Depth - 1) + 1 <= Depth
            BY <1>2, <1>6, DepthAssumption DEF Indices
        <3>2. o.index \in Trees
            BY <3>1, TreesGrow, DepthAssumption DEF Trees
        <3> QED
            BY <3>1, <3>2
    <2>3. /\ Written[o.index] \in Seq(Words)
          /\ Written[o] = (Opening(o.kind) \o Written[o.index]) \o <<Word("TK_R_SQ_BRACKET")>>
        <3>1. PICK kind \in Indices, t \in Tree[Depth - 1] : kind = o.kind /\ t = o.index
            BY <1>6, <2>2
        <3>2. /\ Written[t] \in Seq(Words)
              /\ Written[IndexedBy(kind, t)] = (Opening(kind) \o Written[t]) \o <<Word("TK_R_SQ_BRACKET")>>
            BY <2>2, <3>1, IndexFacts
        <3>3. o = IndexedBy(kind, t)
            BY <2>1, <3>1
        <3> QED
            BY <3>1, <3>2, <3>3, Zenon
    <2> DEFINE w == Written[o.index]
               W == Words
               one == <<Word("TK_R_SQ_BRACKET")>>
               two == Opening(o.kind)
    <2>4. \A d \in Nat : o \in Tree[d] => d # 0 /\ o.index \in Tree[d - 1]
        BY <1>6, TreeFacts DEF Indices
    <2>5. two \in Seq(W) /\ Len(two) = 2
        <3>1. two \in Seq(W)
            BY <1>6, OpeningWords
        <3> QED
            BY <3>1 DEF Opening
    <2>6. one \in Seq(W) /\ Len(one) = 1
        BY OpeningWords
    <2>7. w \in Seq(W) /\ Written[o] = (two \o w) \o one /\ Len(w) \in Nat
        BY <2>3, LenProperties
    <2> HIDE DEF w, W, one, two
    <2>8. two \o w \in Seq(W) /\ Len(two \o w) = 2 + Len(w)
        <3>1. two \o w \in Seq(W) /\ Len(two \o w) = Len(two) + Len(w)
            BY <2>5, <2>7, JoinedLength, Zenon
        <3> QED
            BY <2>5, <3>1
    <2>14. Len(Written[o]) = (2 + Len(w)) + 1
        <3>1. Len((two \o w) \o one) = Len(two \o w) + Len(one)
            BY <2>6, <2>8, JoinedLength, Zenon
        <3> QED
            BY <2>6, <2>7, <2>8, <3>1
    <2>9. Stands(list, a, two \o w) /\ Stands(list, a + (2 + Len(w)), one)
        <3>1. Stands(list, a, (two \o w) \o one)
            BY <2>7
        <3> HIDE DEF Stands
        <3>2. Stands(list, a, two \o w) /\ Stands(list, a + Len(two \o w), one)
            BY <2>6, <2>8, <3>1, StandsBoth
        <3> QED
            BY <2>8, <3>2
    <2>10. Stands(list, a, two) /\ Stands(list, a + 2, w)
        <3>1. Stands(list, a, two) /\ Stands(list, a + Len(two), w)
            BY <2>5, <2>7, <2>9, StandsBoth
        <3> QED
            BY <2>5, <3>1
    <2>11. /\ a + 2 <= Len(list) /\ list[a + 1] = Word(OperandToken[o.kind])
           /\ list[a + 2] = Word("TK_L_SQ_BRACKET")
        <3>1. two[1] = Word(OperandToken[o.kind]) /\ two[2] = Word("TK_L_SQ_BRACKET")
            BY DEF Opening, two
        <3> QED
            BY <2>5, <2>10, <3>1 DEF Stands
    <2>12. a + (2 + Len(w)) + 1 <= Len(list) /\ list[a + (2 + Len(w)) + 1] = Word("TK_R_SQ_BRACKET")
        BY <2>7, <2>9, StandsOne DEF one
    <2>13. /\ Len(Written[o]) = Len(w) + 3 /\ a + Len(Written[o]) <= Len(list)
           /\ list[a + Len(Written[o])] = Word("TK_R_SQ_BRACKET") /\ a + 1 <= Len(list)
        <3>1. a + Len(Written[o]) = a + (2 + Len(w)) + 1 /\ Len(Written[o]) = Len(w) + 3
            BY <2>7, <2>14
        <3> QED
            BY <2>11, <2>12, <3>1
    <2> QED
        BY <1>1, <1>6, <2>1, <2>2, <2>4, <2>7, <2>10, <2>11, <2>13, Zenon DEF w, Indices
<1> QED
    BY <1>2, <1>4, <1>5, <1>6 DEF Indices

\* The operands of an instruction in the order in which they are written.
Former(i) == IF i.opcode = "OPCODE_JNZ" THEN i.arg1 ELSE i.arg0
Latter(i) == IF i.opcode = "OPCODE_JNZ" THEN i.arg0 ELSE i.arg1

\* A line that stands behind the first a: its mnemonic and its operands.
LineAt(list, a, i) ==
    /\ Len(Line(i)) \in Nat /\ a + Len(Line(i)) <= Len(list)
    /\ a + 1 <= Len(list) /\ list[a + 1] = Word(Mnemonic[i.opcode])
    /\ i.opcode = "OPCODE_CALL" =>
          /\ Len(Line(i)) = 4 /\ i.call_name \in {"CALL_PUTCHAR", "CALL_READ"}
          /\ list[a + 2] = CallWord(i.call_name)
          /\ list[a + 3] = Word("TK_L_PARENTH") /\ list[a + 4] = Word("TK_R_PARENTH")
    /\ i.opcode \in OneArg =>
          /\ Stands(list, a + 1, Written[i.arg0])
          /\ Len(Line(i)) = 1 + Len(Written[i.arg0])
    /\ i.opcode \in TwoArgs =>
          \E m \in Nat, n \in Nat :
             /\ m = Len(Written[Former(i)]) /\ n = Len(Written[Latter(i)])
             /\ Former(i) \in Trees /\ Latter(i) \in Trees
             /\ Stands(list, a + 1, Written[Former(i)])
             /\ a + 2 + m <= Len(list) /\ list[a + 2 + m] = Word("TK_COMMA")
             /\ Stands(list, a + 2 + m, Written[Latter(i)])
             /\ Len(Line(i)) = 2 + m + n

LEMMA LineStands ==
    ASSUME NEW list, Len(list) \in Nat, NEW a \in Nat, NEW i \in Instructions,
           Stands(list, a, Line(i))
    PROVE  LineAt(list, a, i)
<1> USE DEF LineAt
<1>1. /\ i.opcode \in Opcodes
      /\ i.opcode # "OPCODE_CALL" => i.arg0 \in Trees
      /\ i.opcode \in TwoArgs => i.arg1 \in Trees
    BY InstructionFacts
<1>2. Line(i) \in Seq(Words) /\ Len(Line(i)) \in Nat
    BY LineFacts, LenProperties
<1>3. a + Len(Line(i)) <= Len(list)
    BY DEF Stands
<1>4. CASE i.opcode = "OPCODE_CALL"
    <2>1. Line(i) = <<Word("MN_CALL"), CallWord(i.call_name), Word("TK_L_PARENTH"), Word("TK_R_PARENTH")>>
        BY <1>4, Zenon DEF Line, CallWord
    <2>2. i.call_name \in {"CALL_PUTCHAR", "CALL_READ"}
        BY <1>4 DEF Instructions, JmpOpcodes, CondOpcodes
    <2>3. Len(Line(i)) = 4
        BY <2>1
    <2>4. list[a + 1] = Line(i)[1] /\ list[a + 2] = Line(i)[2] /\ list[a + 3] = Line(i)[3] /\ list[a + 4] = Line(i)[4]
        BY <2>3 DEF Stands
    <2>5. Mnemonic[i.opcode] = "MN_CALL"
        BY <1>4 DEF Mnemonic
    <2> HIDE DEF Word
    <2>6. Line(i)[1] = Word("MN_CALL") /\ Line(i)[2] = CallWord(i.call_name)
          /\ Line(i)[3] = Word("TK_L_PARENTH") /\ Line(i)[4] = Word("TK_R_PARENTH")
        BY <2>1
    <2>7. i.opcode \notin OneArg /\ i.opcode \notin TwoArgs
        BY <1>4 DEF OneArg, TwoArgs, JmpOpcodes, CondOpcodes
    <2>8. a + 1 <= Len(list)
        BY <1>3, <2>3
    <2> QED
        BY <1>2, <1>3, <2>2, <2>3, <2>4, <2>5, <2>6, <2>7, <2>8
<1>5. CASE i.opcode # "OPCODE_CALL"
    <2> DEFINE W == Words
               one == <<Word(Mnemonic[i.opcode])>>
               comma == <<Word("TK_COMMA")>>
    <2>1. one \in Seq(W) /\ Len(one) = 1 /\ comma \in Seq(W) /\ Len(comma) = 1
        BY <1>1, WordFacts, MnemonicFacts
    <2>2. /\ Line(i) = one \o LineOperands(i)
          /\ i.opcode \in OneArg => LineOperands(i) = Written[i.arg0]
          /\ i.opcode \in TwoArgs =>
                LineOperands(i) = (Written[Former(i)] \o comma) \o Written[Latter(i)]
        BY <1>5, Zenon DEF Line, LineOperands, OneArg, TwoArgs, Former, Latter
    <2>3. \A t \in Trees : Written[t] \in Seq(W)
        BY OperandFacts, DepthAssumption
    <2>4. i.opcode \in OneArg <=> i.opcode \notin TwoArgs
        BY <1>1, <1>5 DEF OneArg, TwoArgs, Opcodes
    <2>5. i.opcode \in TwoArgs => Former(i) \in Trees /\ Latter(i) \in Trees
        BY <1>1, <1>5 DEF Former, Latter
    <2> HIDE DEF W, one, comma, LineOperands
    <2>6. LineOperands(i) \in Seq(W)
        <3>1. CASE i.opcode \in OneArg
            BY <1>1, <1>5, <2>2, <2>3, <3>1
        <3>2. CASE i.opcode \in TwoArgs
            <4>1. Written[Former(i)] \in Seq(W) /\ Written[Latter(i)] \in Seq(W)
                BY <2>3, <2>5, <3>2
            <4>2. Written[Former(i)] \o comma \in Seq(W)
                BY <2>1, <4>1, JoinedLength, Zenon
            <4>3. (Written[Former(i)] \o comma) \o Written[Latter(i)] \in Seq(W)
                BY <4>1, <4>2, JoinedLength, Zenon
            <4> QED
                BY <2>2, <3>2, <4>3, Zenon
        <3> QED
            BY <2>4, <3>1, <3>2
    <2>7. /\ Stands(list, a, one) /\ Stands(list, a + 1, LineOperands(i))
          /\ Len(Line(i)) = 1 + Len(LineOperands(i))
        <3>1. Stands(list, a, one \o LineOperands(i))
            BY <2>2
        <3>2. Stands(list, a, one) /\ Stands(list, a + Len(one), LineOperands(i))
            BY <2>1, <2>6, <3>1, StandsBoth
        <3>3. Len(one \o LineOperands(i)) = Len(one) + Len(LineOperands(i))
            BY <2>1, <2>6, JoinedLength, Zenon
        <3> QED
            BY <2>1, <2>2, <3>2, <3>3
    <2>8. a + 1 <= Len(list) /\ list[a + 1] = Word(Mnemonic[i.opcode])
        BY <2>7, StandsOne DEF one
    <2>9. CASE i.opcode \in OneArg
        BY <1>2, <1>3, <1>5, <2>2, <2>4, <2>7, <2>8, <2>9
    <2>10. CASE i.opcode \in TwoArgs
        <3> DEFINE u == Written[Former(i)]
                   v == Written[Latter(i)]
        <3>1. u \in Seq(W) /\ v \in Seq(W)
            BY <2>3, <2>5, <2>10
        <3>2. LineOperands(i) = (u \o comma) \o v
            BY <2>2, <2>10
        <3> HIDE DEF u, v
        <3>3. u \o comma \in Seq(W) /\ Len(u \o comma) = Len(u) + Len(comma) /\ Len(u) \in Nat
            BY <2>1, <3>1, JoinedLength
        <3>4. Len((u \o comma) \o v) = Len(u \o comma) + Len(v) /\ Len(v) \in Nat
            BY <3>1, <3>3, JoinedLength
        <3>5. a + 1 \in Nat
            OBVIOUS
        <3>6. Stands(list, a + 1, u \o comma) /\ Stands(list, (a + 1) + Len(u \o comma), v)
            BY <2>7, <3>1, <3>2, <3>3, <3>5, StandsBoth
        <3>7. Stands(list, a + 1, u) /\ Stands(list, (a + 1) + Len(u), comma)
            BY <2>1, <3>1, <3>5, <3>6, StandsBoth
        <3>8. (a + 1) + Len(u) + 1 <= Len(list) /\ list[(a + 1) + Len(u) + 1] = Word("TK_COMMA")
            BY <3>3, <3>7, StandsOne DEF comma
        <3>9. /\ (a + 1) + Len(u) + 1 = a + 2 + Len(u)
              /\ (a + 1) + Len(u \o comma) = a + 2 + Len(u)
              /\ Len(Line(i)) = 2 + Len(u) + Len(v)
            BY <2>1, <2>7, <3>2, <3>3, <3>4
        <3>10. /\ Stands(list, a + 1, u) /\ a + 2 + Len(u) <= Len(list)
               /\ list[a + 2 + Len(u)] = Word("TK_COMMA") /\ Stands(list, a + 2 + Len(u), v)
            BY <3>6, <3>7, <3>8, <3>9
        <3> QED
            BY <1>2, <1>3, <1>5, <2>4, <2>5, <2>8, <2>10, <3>3, <3>4, <3>9, <3>10, Zenon DEF u, v
    <2> QED
        BY <2>4, <2>9, <2>10
<1> QED
    BY <1>4, <1>5

\* No two operands are written at the same place.
LEMMA OneOperand ==
    ASSUME NEW list, Len(list) \in Nat
    PROVE  \A a \in Nat : \A o, q \in Trees :
              Stands(list, a, Written[o]) /\ Stands(list, a, Written[q]) => o = q
<1> DEFINE S == {d \in Nat : \A a \in Nat : \A o, q \in Trees :
                    o \in Tree[d] /\ Stands(list, a, Written[o]) /\ Stands(list, a, Written[q]) => o = q}
<1>1. /\ OperandToken["OPE_REG"] = "TK_REGISTER" /\ OperandToken["OPE_MEM"] = "TK_MEMORY"
      /\ \A k : Word(k).kind = k
    BY DEF OperandToken, Word
<1>2. ASSUME NEW d \in Nat, d # 0 => d - 1 \in S
      PROVE  d \in S
    <2> SUFFICES ASSUME NEW a \in Nat, NEW o \in Trees, NEW q \in Trees, o \in Tree[d],
                        Stands(list, a, Written[o]), Stands(list, a, Written[q])
                 PROVE  o = q
        OBVIOUS
    <2>0. WrittenAt(list, a, o) /\ WrittenAt(list, a, q)
        BY WrittenStands, Zenon
    <2>1. o.kind \in {"OPE_IMM", "OPE_FLAG"} \cup Indices /\ q.kind \in {"OPE_IMM", "OPE_FLAG"} \cup Indices
        BY <2>0 DEF Indices, WrittenAt
    <2>2. CASE o.kind = "OPE_FLAG"
        <3>1. list[a + 1].kind = "TK_FLAG" /\ o = [kind |-> "OPE_FLAG"]
            BY <1>1, <2>0, <2>2 DEF WrittenAt
        <3>2. q.kind = "OPE_FLAG"
            <4>1. q.kind = "OPE_IMM" => list[a + 1].kind = "TK_IMMEDIATE"
                BY <2>0 DEF WrittenAt
            <4>2. q.kind \in Indices => list[a + 1].kind \in {"TK_REGISTER", "TK_MEMORY"}
                BY <1>1, <2>0 DEF Indices, WrittenAt
            <4> QED
                BY <2>1, <3>1, <4>1, <4>2
        <3> QED
            BY <3>1, <3>2, <2>0 DEF WrittenAt
    <2>3. CASE o.kind = "OPE_IMM"
        <3>1. list[a + 1] = [kind |-> "TK_IMMEDIATE", value |-> o.value]
              /\ o = [kind |-> "OPE_IMM", value |-> o.value]
            BY <2>0, <2>3 DEF WrittenAt
        <3>2. q.kind = "OPE_IMM"
            <4>1. q.kind = "OPE_FLAG" => list[a + 1].kind = "TK_FLAG"
                BY <1>1, <2>0 DEF WrittenAt
            <4>2. q.kind \in Indices => list[a + 1].kind \in {"TK_REGISTER", "TK_MEMORY"}
                BY <1>1, <2>0 DEF Indices, WrittenAt
            <4> QED
                BY <2>1, <3>1, <4>1, <4>2
        <3>3. list[a + 1] = [kind |-> "TK_IMMEDIATE", value |-> q.value]
              /\ q = [kind |-> "OPE_IMM", value |-> q.value]
            BY <3>2, <2>0 DEF WrittenAt
        <3>4. o.value = q.value
            BY <3>1, <3>3
        <3> QED
            BY <3>1, <3>3, <3>4, Zenon
    <2>4. CASE o.kind \in Indices
        <3>1. /\ list[a + 1] = Word(OperandToken[o.kind]) /\ o = IndexedBy(o.kind, o.index)
              /\ o.index \in Trees /\ d # 0 /\ o.index \in Tree[d - 1]
              /\ Stands(list, a + 2, Written[o.index])
            BY <2>0, <2>4 DEF WrittenAt
        <3>2. list[a + 1].kind = OperandToken[o.kind]
            BY <1>1, <3>1
        <3>3. q.kind \in Indices
            <4>1. q.kind = "OPE_FLAG" => list[a + 1].kind = "TK_FLAG"
                BY <1>1, <2>0 DEF WrittenAt
            <4>2. q.kind = "OPE_IMM" => list[a + 1].kind = "TK_IMMEDIATE"
                BY <2>0 DEF WrittenAt
            <4> QED
                BY <1>1, <2>1, <2>4, <3>2, <4>1, <4>2 DEF Indices
        <3>4. /\ list[a + 1] = Word(OperandToken[q.kind]) /\ q = IndexedBy(q.kind, q.index)
              /\ q.index \in Trees /\ Stands(list, a + 2, Written[q.index])
            BY <3>3, <2>0 DEF WrittenAt
        <3>5. list[a + 1].kind = OperandToken[q.kind]
            BY <1>1, <3>4
        <3>6. o.kind = q.kind
            BY <1>1, <2>4, <3>2, <3>3, <3>5 DEF Indices
        <3>7. o.index = q.index
            <4>1. d - 1 \in S /\ a + 2 \in Nat
                BY <1>2, <3>1
            <4> QED
                BY <3>1, <3>4, <4>1
        <3> QED
            BY <3>1, <3>4, <3>6, <3>7, Zenon
    <2> QED
        BY <2>1, <2>2, <2>3, <2>4
<1>3. 0 \in S
    BY <1>2
<1>4. ASSUME NEW n \in S PROVE n + 1 \in S
    <2>1. n \in Nat /\ n + 1 \in Nat /\ (n + 1) - 1 = n
        OBVIOUS
    <2> HIDE DEF S
    <2> QED
        BY <1>2, <1>4, <2>1
<1>5. \A n \in Nat : n \in S
    <2>1. S \in SUBSET Nat
        OBVIOUS
    <2> HIDE DEF S
    <2> QED
        BY <1>3, <1>4, <2>1, FromZero
<1> QED
    BY <1>5, DepthAssumption DEF Trees

\* An instruction is made of its opcode and its operands.
LEMMA InstructionForm ==
    ASSUME NEW i \in Instructions
    PROVE  /\ i.opcode = "OPCODE_CALL" => i = [opcode |-> i.opcode, call_name |-> i.call_name]
           /\ i.opcode \in OneArg => i = [opcode |-> i.opcode, arg0 |-> i.arg0]
           /\ i.opcode \in TwoArgs => i = [opcode |-> i.opcode, arg0 |-> i.arg0, arg1 |-> i.arg1]
<1>1. /\ "OPCODE_CALL" \notin OneArg \cup TwoArgs
      /\ OneArg \cap TwoArgs = {}
    BY DEF OneArg, TwoArgs, JmpOpcodes, CondOpcodes
<1>2. CASE i \in [opcode : {"OPCODE_CALL"}, call_name : {"CALL_PUTCHAR", "CALL_READ"}]
    BY <1>1, <1>2
<1>3. CASE i \in [opcode : OneArg, arg0 : Trees]
    BY <1>1, <1>3
<1>4. CASE i \in [opcode : TwoArgs, arg0 : Trees, arg1 : Trees]
    BY <1>1, <1>4
<1> QED
    BY <1>2, <1>3, <1>4, Zenon DEF Instructions, OneArg, TwoArgs

\* The mnemonic tells the opcode.
LEMMA OneMnemonic ==
    ASSUME NEW o \in Opcodes, NEW p \in Opcodes, Word(Mnemonic[o]) = Word(Mnemonic[p])
    PROVE  o = p
<1>1. \A q \in Opcodes : OpcodeOf[Mnemonic[q]] = q
    BY DEF Opcodes, MovOpcodes, AluOpcodes, JmpOpcodes, CondOpcodes, Mnemonic, OpcodeOf
<1>2. Mnemonic[o] = Mnemonic[p]
    <2>1. \A k : Word(k).kind = k
        BY DEF Word
    <2> QED
        BY <2>1, Zenon
<1> QED
    BY <1>1, <1>2, Zenon

\* No two instructions are written at the same place.
LEMMA OneInstruction ==
    ASSUME NEW list, Len(list) \in Nat, NEW a \in Nat, NEW i \in Instructions, NEW j \in Instructions,
           Stands(list, a, Line(i)), Stands(list, a, Line(j))
    PROVE  i = j
<1>0. LineAt(list, a, i) /\ LineAt(list, a, j)
    BY LineStands, Zenon
<1>1. i.opcode \in Opcodes /\ i.opcode = j.opcode
    <2>1. i.opcode \in Opcodes /\ j.opcode \in Opcodes
        BY InstructionFacts
    <2>2. list[a + 1] = Word(Mnemonic[i.opcode]) /\ list[a + 1] = Word(Mnemonic[j.opcode])
        BY <1>0 DEF LineAt
    <2> QED
        BY <2>1, <2>2, OneMnemonic, Zenon
<1>2. CASE i.opcode = "OPCODE_CALL"
    <2>1. /\ list[a + 2] = CallWord(i.call_name) /\ list[a + 2] = CallWord(j.call_name)
          /\ {i.call_name, j.call_name} \subseteq {"CALL_PUTCHAR", "CALL_READ"}
        BY <1>0, <1>1, <1>2 DEF LineAt
    <2>2. i.call_name = j.call_name
        BY <2>1 DEF CallWord, Word
    <2> QED
        BY <1>1, <1>2, <2>2, InstructionForm
<1>3. CASE i.opcode \in OneArg
    <2>1. /\ i.arg0 \in Trees /\ j.arg0 \in Trees
          /\ Stands(list, a + 1, Written[i.arg0]) /\ Stands(list, a + 1, Written[j.arg0])
        BY <1>0, <1>1, <1>3, InstructionFacts DEF LineAt, OneArg, JmpOpcodes, CondOpcodes
    <2>2. i.arg0 = j.arg0
        BY <2>1, OneOperand
    <2> QED
        BY <1>1, <1>3, <2>2, InstructionForm
<1>4. CASE i.opcode \in TwoArgs
    <2>1. PICK m \in Nat : /\ m = Len(Written[Former(i)]) /\ Former(i) \in Trees /\ Latter(i) \in Trees
                           /\ Stands(list, a + 1, Written[Former(i)])
                           /\ Stands(list, a + 2 + m, Written[Latter(i)])
        BY <1>0, <1>4 DEF LineAt
    <2>2. PICK n \in Nat : /\ n = Len(Written[Former(j)]) /\ Former(j) \in Trees /\ Latter(j) \in Trees
                           /\ Stands(list, a + 1, Written[Former(j)])
                           /\ Stands(list, a + 2 + n, Written[Latter(j)])
        BY <1>0, <1>1, <1>4 DEF LineAt
    <2>3. Former(i) = Former(j)
        <3>1. a + 1 \in Nat
            OBVIOUS
        <3> QED
            BY <2>1, <2>2, <3>1, OneOperand
    <2>4. Latter(i) = Latter(j)
        <3>1. m = n
            BY <2>1, <2>2, <2>3
        <3>2. a + 2 + m \in Nat
            OBVIOUS
        <3> QED
            BY <2>1, <2>2, <3>1, <3>2, OneOperand
    <2>5. i.arg0 = j.arg0 /\ i.arg1 = j.arg1
        BY <1>1, <2>3, <2>4 DEF Former, Latter
    <2> QED
        BY <1>1, <1>4, <2>5, InstructionForm
<1>5. i.opcode \in {"OPCODE_CALL"} \cup OneArg \cup TwoArgs
    BY <1>1 DEF OneArg, TwoArgs
<1> QED
    BY <1>2, <1>3, <1>4, <1>5
-----------------------------------------------------------------------------
(***************************************************************************)
(* Where the lines of a program stand in its listing.                      *)
(***************************************************************************)
\* The first n instructions, and the length of their lines.
First(p, n) == SubSeq(p, 1, n)
LineStart(p, n) == Len(Lines(First(p, n)))

\* The first n instructions and one more.
LEMMA FirstFacts ==
    ASSUME NEW p \in Seq(Instructions), NEW n \in Nat
    PROVE  /\ First(p, 0) = <<>> /\ First(p, Len(p)) = p /\ Len(p) \in Nat
           /\ n <= Len(p) => First(p, n) \in Seq(Instructions) /\ Len(First(p, n)) = n
           /\ n < Len(p) => /\ p[n + 1] \in Instructions
                            /\ First(p, n + 1) = Append(First(p, n), p[n + 1])
<1> DEFINE T == Instructions
<1> HIDE DEF T
<1>1. p \in Seq(T) /\ Len(p) \in Nat
    BY LenProperties DEF T
<1>2. First(p, 0) = <<>>
    BY SubSeqEmpty DEF First
<1>3. First(p, Len(p)) = p
    BY <1>1, SubSeqFull DEF First
<1>4. \A k \in 1 .. Len(p) : p[k] \in T
    BY <1>1, ElementOfSeq
<1>5. ASSUME NEW m \in Nat, m <= Len(p)
      PROVE  /\ First(p, m) \in Seq(T) /\ Len(First(p, m)) = m
             /\ \A k \in 1 .. m : First(p, m)[k] = p[k]
    <2>1. \A k \in 1 .. m : p[k] \in T
        BY <1>1, <1>4, <1>5
    <2>2. /\ SubSeq(p, 1, m) \in Seq(T)
          /\ Len(SubSeq(p, 1, m)) = IF 1 <= m THEN m - 1 + 1 ELSE 0
          /\ \A k \in 1 .. m - 1 + 1 : SubSeq(p, 1, m)[k] = p[1 + k - 1]
        BY <2>1, SubSeqProperties
    <2>3. m - 1 + 1 = m /\ \A k \in 1 .. m : 1 + k - 1 = k
        OBVIOUS
    <2>4. (IF 1 <= m THEN m ELSE 0) = m
        OBVIOUS
    <2> QED
        BY <2>2, <2>3, <2>4 DEF First
<1>6. ASSUME n < Len(p)
      PROVE  p[n + 1] \in T /\ First(p, n + 1) = Append(First(p, n), p[n + 1])
    <2> DEFINE a == First(p, n)
               b == First(p, n + 1)
               i == p[n + 1]
               c == Append(a, i)
    <2>1. i \in T
        BY <1>1, <1>4, <1>6
    <2>2. /\ a \in Seq(T) /\ Len(a) = n /\ \A k \in 1 .. n : a[k] = p[k]
        BY <1>1, <1>5, <1>6
    <2>3. /\ b \in Seq(T) /\ Len(b) = n + 1 /\ \A k \in 1 .. n + 1 : b[k] = p[k]
        BY <1>1, <1>5, <1>6
    <2> HIDE DEF a, b
    <2>4. c \in Seq(T) /\ Len(c) = n + 1 /\ c[n + 1] = i /\ \A k \in 1 .. n : c[k] = a[k]
        BY <2>1, <2>2, AppendProperties
    <2> HIDE DEF c
    <2>5. \A k \in 1 .. n + 1 : b[k] = c[k]
        <3> TAKE k \in 1 .. n + 1
        <3>1. k \in 1 .. n \/ k = n + 1
            OBVIOUS
        <3> QED
            BY <2>2, <2>3, <2>4, <3>1
    <2>6. b = c
        BY <2>3, <2>4, <2>5, SameLists
    <2> QED
        BY <2>1, <2>6 DEF a, b, c
<1> QED
    BY <1>1, <1>2, <1>3, <1>5, <1>6 DEF T

\* Lists that begin alike.
StartsWith(v, u) == Len(u) <= Len(v) /\ \A j \in 1 .. Len(u) : v[j] = u[j]

\* The listing of a program begins with that of its first n instructions.
LEMMA ListingStarts ==
    ASSUME NEW p \in Seq(Instructions), NEW n \in Nat, n <= Len(p)
    PROVE  /\ Lines(First(p, n)) \in Seq(Words) /\ LineStart(p, n) \in Nat
           /\ StartsWith(Lines(p), Lines(First(p, n)))
<1> DEFINE at(m) == Lines(First(p, m))
           S == {m \in Nat : n + m <= Len(p) => StartsWith(at(n + m), at(n))}
<1>1. ASSUME NEW m \in Nat, m <= Len(p)
      PROVE  /\ at(m) \in Seq(Words) /\ Len(at(m)) \in Nat
             /\ m < Len(p) =>
                  /\ Len(at(m + 1)) \in Nat /\ Len(at(m + 1)) >= Len(at(m))
                  /\ \A j \in 1 .. Len(at(m)) : at(m + 1)[j] = at(m)[j]
    <2> DEFINE q == First(p, m)
               i == p[m + 1]
    <2>1. q \in Seq(Instructions)
        BY <1>1, FirstFacts
    <2>2. Lines(q) \in Seq(Words) /\ Len(Lines(q)) \in Nat
        BY <2>1, ProgramFacts, LenProperties
    <2>3. ASSUME m < Len(p)
          PROVE  /\ Len(at(m + 1)) \in Nat /\ Len(at(m + 1)) >= Len(at(m))
                 /\ \A j \in 1 .. Len(at(m)) : at(m + 1)[j] = at(m)[j]
        <3>1. i \in Instructions /\ First(p, m + 1) = Append(q, i)
            BY <2>3, FirstFacts
        <3>2. Lines(Append(q, i)) = Lines(q) \o Line(i) /\ Line(i) \in Seq(Words)
            BY <2>1, <3>1, LinesAppend, LineFacts
        <3> DEFINE W == Words
                   u == Lines(q)
                   v == Line(i)
        <3> HIDE DEF W, u, v
        <3>3. u \in Seq(W) /\ v \in Seq(W) /\ at(m + 1) = u \o v /\ at(m) = u
            BY <2>2, <3>1, <3>2 DEF W, u, v
        <3> HIDE DEF at
        <3>4. /\ Len(u \o v) = Len(u) + Len(v)
              /\ \A j \in 1 .. Len(u) + Len(v) :
                    (u \o v)[j] = IF j <= Len(u) THEN u[j] ELSE v[j - Len(u)]
            BY <3>3, ConcatProperties
        <3>5. Len(u) \in Nat /\ Len(v) \in Nat
            BY <3>3, LenProperties
        <3> QED
            BY <3>3, <3>4, <3>5
    <2> QED
        BY <2>2, <2>3
<1> HIDE DEF at
<1>2. S \in SUBSET Nat
    OBVIOUS
<1>3. 0 \in S
    BY <1>1 DEF StartsWith
<1>4. ASSUME NEW m \in S PROVE m + 1 \in S
    <2> SUFFICES ASSUME n + (m + 1) <= Len(p) PROVE StartsWith(at(n + (m + 1)), at(n))
        OBVIOUS
    <2>1. Len(p) \in Nat
        BY FirstFacts
    <2>2. n + m \in Nat /\ n + m < Len(p) /\ n + (m + 1) = (n + m) + 1
        BY <2>1
    <2>3. StartsWith(at(n + m), at(n))
        BY <2>1, <2>2
    <2>4. Len(at(n)) \in Nat /\ Len(at(n + m)) \in Nat
        BY <1>1, <2>1, <2>2
    <2>5. /\ Len(at((n + m) + 1)) \in Nat /\ Len(at((n + m) + 1)) >= Len(at(n + m))
          /\ \A j \in 1 .. Len(at(n + m)) : at((n + m) + 1)[j] = at(n + m)[j]
        BY <1>1, <2>1, <2>2
    <2> QED
        BY <2>2, <2>3, <2>4, <2>5 DEF StartsWith
<1> HIDE DEF S
<1>5. \A m \in Nat : m \in S
    BY <1>2, <1>3, <1>4, FromZero
<1>6. /\ Len(p) \in Nat /\ Len(p) - n \in Nat /\ n + (Len(p) - n) = Len(p)
      /\ First(p, Len(p)) = p
    BY FirstFacts
<1>7. StartsWith(at(Len(p)), at(n))
    <2>1. Len(p) - n \in S
        BY <1>5, <1>6
    <2>2. StartsWith(at(n + (Len(p) - n)), at(n))
        BY <1>6, <2>1 DEF S
    <2> QED
        BY <1>6, <2>2
<1>8. at(n) \in Seq(Words) /\ Len(at(n)) \in Nat
    BY <1>1
<1> QED
    BY <1>6, <1>7, <1>8 DEF at, LineStart

\* The line of the next instruction stands behind those of the first n.
LEMMA LinePlace ==
    ASSUME NEW p \in Seq(Instructions), NEW n \in Nat, n < Len(p)
    PROVE  /\ p[n + 1] \in Instructions
           /\ LineStart(p, n) \in Nat /\ LineStart(p, n + 1) \in Nat
           /\ LineStart(p, n + 1) = LineStart(p, n) + Len(Line(p[n + 1]))
           /\ LineStart(p, n + 1) <= Len(Lines(p))
           /\ Stands(Lines(p), LineStart(p, n), Line(p[n + 1]))
<1> DEFINE i == p[n + 1]
           q == First(p, n)
           r == First(p, n + 1)
           W == Words
           u == Lines(q)
           v == Line(i)
           list == Lines(p)
<1>1. n + 1 \in Nat /\ n + 1 <= Len(p) /\ n <= Len(p)
    BY FirstFacts
<1>2. i \in Instructions /\ q \in Seq(Instructions) /\ r = Append(q, i)
    BY <1>1, FirstFacts
<1>3. Lines(r) = u \o v /\ v \in Seq(W)
    BY <1>2, LinesAppend, LineFacts
<1>4. u \in Seq(W) /\ Len(u) \in Nat /\ StartsWith(list, Lines(r))
    BY <1>1, ListingStarts DEF LineStart
<1>5. Len(list) \in Nat
    BY ProgramFacts, LenProperties
<1> HIDE DEF W, u, v, i, q, r, list
<1>6. StartsWith(list, u \o v)
    BY <1>3, <1>4
<1>7. Len(u \o v) = Len(u) + Len(v) /\ Len(v) \in Nat
    BY <1>3, <1>4, JoinedLength
<1>8. Stands(list, 0, u \o v)
    <2>1. \A j \in 1 .. Len(u \o v) : 0 + j = j
        BY <1>7
    <2>2. Len(u \o v) <= Len(list) /\ 0 + Len(u \o v) = Len(u \o v)
        BY <1>4, <1>6, <1>7 DEF StartsWith
    <2> QED
        BY <1>6, <2>1, <2>2 DEF StartsWith, Stands
<1>9. Stands(list, 0 + Len(u), v)
    BY <1>3, <1>4, <1>5, <1>8, StandsBoth
<1>10. 0 + Len(u) = Len(u) /\ Len(u) + Len(v) <= Len(list) /\ Len(u) + Len(v) \in Nat
    BY <1>4, <1>6, <1>7 DEF StartsWith
<1>11. LineStart(p, n) = Len(u) /\ LineStart(p, n + 1) = Len(u) + Len(v)
    BY <1>3, <1>7 DEF LineStart, u, q, r
<1>12. Stands(list, Len(u), v)
    BY <1>9, <1>10
<1> QED
    BY <1>2, <1>4, <1>10, <1>11, <1>12 DEF v, i, list
-----------------------------------------------------------------------------
(***************************************************************************)
(* What the pending calls find in a list, each behind the one before it.   *)
(***************************************************************************)
\* One of them finds what it asks for behind the first a, and stops behind b.
Finds(list, item, a, b) ==
    \/ /\ item = "operand"
       /\ \E o \in Trees : Stands(list, a, Written[o]) /\ b = a + Len(Written[o])
    \/ /\ item = "callee" /\ b = a + 3 /\ b <= Len(list)
       /\ list[a + 1] \in {Word("FUNC_PUTCHAR"), Word("FUNC_READ")}
       /\ list[a + 2] = Word("TK_L_PARENTH") /\ list[a + 3] = Word("TK_R_PARENTH")
    \/ item \in Indices \cup {"return"} /\ b = a
    \/ item \in Kinds /\ b = a + 1 /\ b <= Len(list) /\ list[b] = Word(item)

FindAll(list, a, asks, b) ==
    \E cut \in [Nat -> Nat] :
       /\ cut[0] = a /\ cut[Len(asks)] = b
       /\ \A j \in 1 .. Len(asks) : Finds(list, asks[j], cut[j - 1], cut[j])

\* The first, and then the others.
LEMMA FindsFirst ==
    ASSUME NEW list, NEW asks \in Seq(Asked), asks # <<>>, NEW a \in Nat, NEW b,
           FindAll(list, a, asks, b)
    PROVE  \E c \in Nat : Finds(list, Head(asks), a, c) /\ FindAll(list, c, Tail(asks), b)
<1> DEFINE A == Asked
           t == Tail(asks)
<1> HIDE DEF A
<1>1. /\ Len(asks) \in Nat /\ Len(asks) # 0 /\ Head(asks) = asks[1]
      /\ Len(t) = Len(asks) - 1 /\ \A j \in 1 .. Len(t) : t[j] = asks[j + 1]
    <2>1. asks \in Seq(A)
        BY DEF A
    <2> QED
        BY <2>1, HeadTailProperties, LenProperties, EmptySeq
<1> HIDE DEF t
<1>2. PICK cut \in [Nat -> Nat] :
         /\ cut[0] = a /\ cut[Len(asks)] = b
         /\ \A j \in 1 .. Len(asks) : Finds(list, asks[j], cut[j - 1], cut[j])
    BY DEF FindAll
<1> DEFINE rest == [j \in Nat |-> cut[j + 1]]
<1>3. rest \in [Nat -> Nat] /\ rest[0] = cut[1] /\ cut[1] \in Nat /\ \A j \in Nat : rest[j] = cut[j + 1]
    <2>1. \A j \in Nat : j + 1 \in Nat /\ cut[j + 1] \in Nat
        <3>1. \A j \in Nat : j + 1 \in Nat
            OBVIOUS
        <3> QED
            BY <1>2, <3>1, Zenon
    <2>2. \A j \in Nat : rest[j] = cut[j + 1]
        BY Zenon
    <2>3. rest[0] = cut[1] /\ cut[1] \in Nat
        BY <1>2, <2>2
    <2>4. rest \in [Nat -> Nat]
        BY <2>1, Zenon
    <2> QED
        BY <2>2, <2>3, <2>4
<1> HIDE DEF rest
<1>4. Finds(list, Head(asks), a, cut[1])
    <2>1. 1 \in 1 .. Len(asks) /\ 1 - 1 = 0
        BY <1>1
    <2>2. Finds(list, asks[1], cut[1 - 1], cut[1])
        BY <1>2, <2>1
    <2> QED
        BY <1>1, <1>2, <2>1, <2>2
<1>5. rest[Len(t)] = b
    <2>1. Len(t) \in Nat /\ Len(t) + 1 = Len(asks)
        BY <1>1
    <2> QED
        BY <1>2, <1>3, <2>1
<1>6. ASSUME NEW j \in 1 .. Len(t) PROVE Finds(list, t[j], rest[j - 1], rest[j])
    <2>1. j + 1 \in 1 .. Len(asks) /\ (j + 1) - 1 = j /\ (j - 1) + 1 = j /\ j \in Nat /\ j - 1 \in Nat
        BY <1>1
    <2>2. Finds(list, asks[j + 1], cut[(j + 1) - 1], cut[j + 1])
        BY <1>2, <2>1
    <2>3. t[j] = asks[j + 1] /\ rest[j - 1] = cut[(j - 1) + 1] /\ rest[j] = cut[j + 1]
        BY <1>1, <1>3, <2>1
    <2> QED
        BY <2>1, <2>2, <2>3
<1>7. FindAll(list, cut[1], t, b)
    BY <1>3, <1>5, <1>6 DEF FindAll
<1> QED
    BY <1>3, <1>4, <1>7 DEF t

\* Some, and then others.
LEMMA FindsBoth ==
    ASSUME NEW list, NEW u \in Seq(Asked), NEW v \in Seq(Asked), NEW a, NEW b, NEW c,
           FindAll(list, a, u, c), FindAll(list, c, v, b)
    PROVE  FindAll(list, a, u \o v, b)
<1> DEFINE A == Asked
           m == Len(u)
           n == Len(v)
           w == u \o v
<1> HIDE DEF A
<1>1. /\ m \in Nat /\ n \in Nat /\ Len(w) = m + n
      /\ \A j \in 1 .. m + n : w[j] = IF j <= m THEN u[j] ELSE v[j - m]
    <2>1. u \in Seq(A) /\ v \in Seq(A)
        BY DEF A
    <2> QED
        BY <2>1, ConcatProperties, LenProperties
<1> HIDE DEF w
<1>2. PICK f \in [Nat -> Nat] :
         f[0] = a /\ f[m] = c /\ \A j \in 1 .. m : Finds(list, u[j], f[j - 1], f[j])
    BY DEF FindAll
<1>3. PICK g \in [Nat -> Nat] :
         g[0] = c /\ g[n] = b /\ \A j \in 1 .. n : Finds(list, v[j], g[j - 1], g[j])
    BY DEF FindAll
<1> HIDE DEF m, n
<1> DEFINE h == [j \in Nat |-> IF j <= m THEN f[j] ELSE g[j - m]]
<1>4. /\ h \in [Nat -> Nat] /\ \A j \in 0 .. m : h[j] = f[j]
      /\ \A j \in Nat : j > m => h[j] = g[j - m]
    <2>1. m \in Nat
        BY <1>1
    <2>2. \A j \in Nat : h[j] = IF j <= m THEN f[j] ELSE g[j - m]
        OBVIOUS
    <2>3. \A j \in Nat : ~ (j <= m) => j - m \in Nat
        BY <2>1
    <2>4. \A j \in Nat : (IF j <= m THEN f[j] ELSE g[j - m]) \in Nat
        BY <2>3
    <2>5. h \in [Nat -> Nat]
        BY <2>4
    <2> HIDE DEF h
    <2>6. ASSUME NEW j \in 0 .. m PROVE h[j] = f[j]
        <3>1. j \in Nat /\ j <= m
            BY <2>1
        <3> QED
            BY <2>2, <3>1
    <2>7. ASSUME NEW j \in Nat, j > m PROVE h[j] = g[j - m]
        <3>1. ~ (j <= m)
            BY <2>1, <2>7
        <3> QED
            BY <2>2, <3>1, Zenon
    <2> QED
        BY <2>5, <2>6, <2>7
<1> HIDE DEF h
<1>5. h[0] = a /\ h[m + n] = b
    <2>1. h[0] = a
        BY <1>1, <1>2, <1>4
    <2>2. CASE n = 0
        <3>1. m + n = m /\ h[m] = f[m]
            BY <1>1, <1>4, <2>2
        <3> QED
            BY <1>2, <1>3, <2>1, <2>2, <3>1
    <2>3. CASE n # 0
        <3>1. m + n \in Nat /\ m + n > m /\ (m + n) - m = n
            BY <1>1, <2>3
        <3>2. h[m + n] = g[n]
            BY <1>4, <3>1
        <3> QED
            BY <1>3, <2>1, <3>2
    <2> QED
        BY <2>2, <2>3
<1>6. ASSUME NEW j \in 1 .. m + n PROVE Finds(list, w[j], h[j - 1], h[j])
    <2>1. CASE j <= m
        <3>1. j \in 1 .. m /\ j \in 0 .. m /\ j - 1 \in 0 .. m
            BY <1>1, <2>1
        <3>2. w[j] = u[j] /\ h[j] = f[j] /\ h[j - 1] = f[j - 1]
            BY <1>1, <1>4, <2>1, <3>1
        <3> QED
            BY <1>2, <3>1, <3>2
    <2>2. CASE j > m
        <3>1. j - m \in 1 .. n /\ (j - m) - 1 = (j - 1) - m /\ j - 1 \in Nat /\ j \in Nat
            BY <1>1, <2>2
        <3>2. w[j] = v[j - m] /\ h[j] = g[j - m]
            <4>1. h[j] = g[j - m]
                BY <1>4, <2>2, <3>1, Zenon
            <4>2. w[j] = v[j - m]
                <5>1. ~ (j <= m)
                    BY <1>1, <2>2
                <5> QED
                    BY <1>1, <5>1, Zenon
            <4> QED
                BY <4>1, <4>2
        <3>3. h[j - 1] = g[(j - m) - 1]
            <4>1. CASE j - 1 = m
                <5>1. h[m] = f[m]
                    <6>1. m \in 0 .. m
                        BY <1>1
                    <6> QED
                        BY <1>4, <6>1
                <5>2. (j - m) - 1 = 0
                    BY <1>1, <4>1
                <5> QED
                    BY <1>2, <1>3, <4>1, <5>1, <5>2
            <4>2. CASE j - 1 > m
                BY <1>4, <3>1, <4>2
            <4> QED
                BY <1>1, <2>2, <3>1, <4>1, <4>2
        <3>4. Finds(list, v[j - m], g[(j - m) - 1], g[j - m])
            BY <1>3, <3>1
        <3> QED
            BY <3>2, <3>3, <3>4
    <2> QED
        BY <1>1, <2>1, <2>2
<1> QED
    BY <1>1, <1>4, <1>5, <1>6 DEF FindAll, w

\* Two of them, and none.
LEMMA FindsShort ==
    ASSUME NEW list
    PROVE  /\ \A a \in Nat : FindAll(list, a, <<>>, a)
           /\ \A a, b : FindAll(list, a, <<>>, b) => a = b
           /\ \A x : \A a, b \in Nat : Finds(list, x, a, b) => FindAll(list, a, <<x>>, b)
<1>1. ASSUME NEW a \in Nat PROVE FindAll(list, a, <<>>, a)
    <2>1. [j \in Nat |-> a] \in [Nat -> Nat] /\ [j \in Nat |-> a][0] = a
        OBVIOUS
    <2>2. Len(<<>>) = 0 /\ 1 .. 0 = {}
        OBVIOUS
    <2> QED
        BY <2>1, <2>2, Zenon DEF FindAll
<1>2. ASSUME NEW a, NEW b, FindAll(list, a, <<>>, b) PROVE a = b
    <2>1. Len(<<>>) = 0
        OBVIOUS
    <2> QED
        BY <1>2, <2>1, Zenon DEF FindAll
<1>3. ASSUME NEW x, NEW a \in Nat, NEW b \in Nat, Finds(list, x, a, b)
      PROVE  FindAll(list, a, <<x>>, b)
    <2> DEFINE cut == [j \in Nat |-> IF j = 0 THEN a ELSE b]
    <2>1. cut \in [Nat -> Nat] /\ cut[0] = a /\ cut[1] = b
        OBVIOUS
    <2>2. Len(<<x>>) = 1 /\ <<x>>[1] = x
        OBVIOUS
    <2> HIDE DEF cut
    <2>3. \A j \in 1 .. 1 : Finds(list, <<x>>[j], cut[j - 1], cut[j])
        <3> TAKE j \in 1 .. 1
        <3>1. j = 1 /\ j - 1 = 0
            OBVIOUS
        <3> QED
            BY <1>3, <2>1, <2>2, <3>1
    <2> QED
        BY <2>1, <2>2, <2>3 DEF FindAll
<1> QED
    BY <1>1, <1>2, <1>3

\* Four of them, or two, one behind the other.
LEMMA FindsFour ==
    ASSUME NEW list, NEW x1, NEW x2, NEW x3, NEW x4,
           NEW a \in Nat, NEW c1 \in Nat, NEW c2 \in Nat, NEW c3 \in Nat, NEW b \in Nat,
           Finds(list, x1, a, c1), Finds(list, x2, c1, c2), Finds(list, x3, c2, c3),
           Finds(list, x4, c3, b)
    PROVE  FindAll(list, a, <<x1, x2, x3, x4>>, b)
<1> DEFINE cut == [j \in Nat |-> CASE j = 0 -> a [] j = 1 -> c1 [] j = 2 -> c2 [] j = 3 -> c3
                                   [] OTHER -> b]
           s == <<x1, x2, x3, x4>>
<1>1. cut \in [Nat -> Nat]
    OBVIOUS
<1>2. cut[0] = a /\ cut[1] = c1 /\ cut[2] = c2 /\ cut[3] = c3 /\ cut[4] = b
    OBVIOUS
<1>3. Len(s) = 4 /\ s[1] = x1 /\ s[2] = x2 /\ s[3] = x3 /\ s[4] = x4
    OBVIOUS
<1> HIDE DEF cut, s
<1>4. ASSUME NEW j \in 1 .. Len(s) PROVE Finds(list, s[j], cut[j - 1], cut[j])
    <2>1. \/ j = 1 /\ j - 1 = 0
          \/ j = 2 /\ j - 1 = 1
          \/ j = 3 /\ j - 1 = 2
          \/ j = 4 /\ j - 1 = 3
        BY <1>3
    <2> QED
        BY <1>2, <1>3, <2>1
<1>5. cut[Len(s)] = b
    BY <1>2, <1>3
<1>6. FindAll(list, a, s, b)
    BY <1>1, <1>2, <1>4, <1>5 DEF FindAll
<1> QED
    BY <1>6 DEF s

LEMMA FindsTwo ==
    ASSUME NEW list, NEW x1, NEW x2, NEW a \in Nat, NEW c1 \in Nat, NEW b \in Nat,
           Finds(list, x1, a, c1), Finds(list, x2, c1, b)
    PROVE  FindAll(list, a, <<x1, x2>>, b)
<1> DEFINE cut == [j \in Nat |-> CASE j = 0 -> a [] j = 1 -> c1 [] OTHER -> b]
           s == <<x1, x2>>
<1>1. cut \in [Nat -> Nat] /\ cut[0] = a /\ cut[1] = c1 /\ cut[2] = b
    OBVIOUS
<1>2. Len(s) = 2 /\ s[1] = x1 /\ s[2] = x2
    OBVIOUS
<1> HIDE DEF cut, s
<1>3. ASSUME NEW j \in 1 .. Len(s) PROVE Finds(list, s[j], cut[j - 1], cut[j])
    <2>1. (j = 1 /\ j - 1 = 0) \/ (j = 2 /\ j - 1 = 1)
        BY <1>2
    <2> QED
        BY <1>1, <1>2, <2>1
<1>4. cut[Len(s)] = b
    BY <1>1, <1>2
<1>5. FindAll(list, a, s, b)
    BY <1>1, <1>3, <1>4 DEF FindAll
<1> QED
    BY <1>5 DEF s

\* Behind the mnemonic of a line stands what its instruction asks for.
LEMMA LineFound ==
    ASSUME NEW list, Len(list) \in Nat, NEW a \in Nat, NEW i \in Instructions,
           Stands(list, a, Line(i))
    PROVE  /\ Len(Line(i)) \in Nat /\ a + 1 <= Len(list) /\ list[a + 1] = Word(Mnemonic[i.opcode])
           /\ i.opcode = "OPCODE_CALL" =>
                 FindAll(list, a + 1, <<"callee", "return">>, a + Len(Line(i)))
           /\ i.opcode \in OneArg =>
                 FindAll(list, a + 1, <<"operand", "return">>, a + Len(Line(i)))
           /\ i.opcode \in TwoArgs =>
                 FindAll(list, a + 1, <<"operand", "TK_COMMA", "operand", "return">>, a + Len(Line(i)))
<1>0. LineAt(list, a, i)
    BY LineStands
<1> DEFINE b == a + Len(Line(i))
<1>1. Len(Line(i)) \in Nat /\ b \in Nat /\ b <= Len(list) /\ a + 1 <= Len(list) /\ a + 1 \in Nat
    BY <1>0 DEF LineAt
<1>2. CASE i.opcode = "OPCODE_CALL"
    <2>1. /\ b = a + 4 /\ list[a + 2] \in {Word("FUNC_PUTCHAR"), Word("FUNC_READ")}
          /\ list[a + 3] = Word("TK_L_PARENTH") /\ list[a + 4] = Word("TK_R_PARENTH")
        <3>1. /\ Len(Line(i)) = 4 /\ i.call_name \in {"CALL_PUTCHAR", "CALL_READ"}
              /\ list[a + 2] = CallWord(i.call_name)
              /\ list[a + 3] = Word("TK_L_PARENTH") /\ list[a + 4] = Word("TK_R_PARENTH")
            BY <1>0, <1>2 DEF LineAt
        <3> HIDE DEF Word
        <3>2. CallWord(i.call_name) \in {Word("FUNC_PUTCHAR"), Word("FUNC_READ")}
            BY <3>1 DEF CallWord
        <3> QED
            BY <3>1, <3>2
    <2>2. Finds(list, "callee", a + 1, b)
        <3>1. (a + 1) + 1 = a + 2 /\ (a + 1) + 2 = a + 3 /\ (a + 1) + 3 = a + 4
            OBVIOUS
        <3> QED
            BY <1>1, <2>1, <3>1 DEF Finds
    <2>3. Finds(list, "return", b, b)
        BY DEF Finds
    <2> HIDE DEF b
    <2>4. FindAll(list, a + 1, <<"callee", "return">>, b)
        BY <1>1, <2>2, <2>3, FindsTwo
    <2> QED
        BY <1>0, <1>1, <1>2, <2>4 DEF LineAt, b, OneArg, TwoArgs, JmpOpcodes, CondOpcodes
<1>3. CASE i.opcode \in OneArg
    <2>1. /\ i.arg0 \in Trees /\ Stands(list, a + 1, Written[i.arg0])
          /\ b = (a + 1) + Len(Written[i.arg0])
        <3>1. i.opcode # "OPCODE_CALL"
            BY <1>3 DEF OneArg, JmpOpcodes, CondOpcodes
        <3>2. i.arg0 \in Trees
            BY <3>1, InstructionFacts
        <3>3. Len(Written[i.arg0]) \in Nat
            BY <3>2, OperandFacts, LenProperties, DepthAssumption
        <3>4. Stands(list, a + 1, Written[i.arg0]) /\ Len(Line(i)) = 1 + Len(Written[i.arg0])
            BY <1>0, <1>3 DEF LineAt
        <3> QED
            BY <3>2, <3>3, <3>4
    <2>2. Finds(list, "operand", a + 1, b)
        BY <2>1 DEF Finds
    <2>3. Finds(list, "return", b, b)
        BY DEF Finds
    <2> HIDE DEF b
    <2>4. FindAll(list, a + 1, <<"operand", "return">>, b)
        BY <1>1, <2>2, <2>3, FindsTwo
    <2> QED
        BY <1>0, <1>1, <1>3, <2>4 DEF LineAt, b, OneArg, TwoArgs, JmpOpcodes, CondOpcodes
<1>4. CASE i.opcode \in TwoArgs
    <2>1. PICK m \in Nat, n \in Nat :
             /\ m = Len(Written[Former(i)]) /\ n = Len(Written[Latter(i)])
             /\ Former(i) \in Trees /\ Latter(i) \in Trees
             /\ Stands(list, a + 1, Written[Former(i)])
             /\ a + 2 + m <= Len(list) /\ list[a + 2 + m] = Word("TK_COMMA")
             /\ Stands(list, a + 2 + m, Written[Latter(i)])
             /\ Len(Line(i)) = 2 + m + n
        BY <1>0, <1>4 DEF LineAt
    <2>2. Finds(list, "operand", a + 1, a + 1 + m)
        BY <2>1 DEF Finds
    <2>3. Finds(list, "TK_COMMA", a + 1 + m, a + 2 + m)
        <3>1. "TK_COMMA" \in Kinds
            BY NotKinds
        <3>2. a + 2 + m = (a + 1 + m) + 1
            OBVIOUS
        <3> QED
            BY <2>1, <3>1, <3>2 DEF Finds
    <2>4. Finds(list, "operand", a + 2 + m, b)
        <3>1. Len(Line(i)) = 2 + m + n
            BY <2>1, Zenon
        <3>2. b = (a + 2 + m) + n
            BY <3>1
        <3> QED
            BY <2>1, <3>2 DEF Finds
    <2>5. Finds(list, "return", b, b)
        BY DEF Finds
    <2>6. a + 1 + m \in Nat /\ a + 2 + m \in Nat
        OBVIOUS
    <2> HIDE DEF b
    <2>7. FindAll(list, a + 1, <<"operand", "TK_COMMA", "operand", "return">>, b)
        BY <1>1, <2>2, <2>3, <2>4, <2>5, <2>6, FindsFour
    <2> QED
        BY <1>0, <1>1, <1>4, <2>7 DEF LineAt, b, OneArg, TwoArgs, JmpOpcodes, CondOpcodes
<1>5. i.opcode \in {"OPCODE_CALL"} \cup OneArg \cup TwoArgs
    BY InstructionFacts DEF OneArg, TwoArgs
<1> QED
    BY <1>2, <1>3, <1>4, <1>5

\* What stands where an operand is asked for.
LEMMA OperandFound ==
    ASSUME NEW list, Len(list) \in Nat, NEW a \in Nat, NEW b \in Nat, Finds(list, "operand", a, b)
    PROVE  /\ a + 1 <= Len(list)
           /\ list[a + 1].kind \in OperandKinds
           /\ list[a + 1].kind \in {"TK_IMMEDIATE", "TK_FLAG"} => b = a + 1
           /\ list[a + 1].kind \in {"TK_REGISTER", "TK_MEMORY"} =>
                 \A kind \in Indices :
                    FindAll(list, a + 1, <<"TK_L_SQ_BRACKET", "operand", "TK_R_SQ_BRACKET", kind>>, b)
<1>1. PICK o \in Trees : Stands(list, a, Written[o]) /\ b = a + Len(Written[o])
    BY NotKinds DEF Finds, Indices
<1>2. WrittenAt(list, a, o)
    BY <1>1, WrittenStands
<1>3. a + 1 <= Len(list) /\ o.kind \in {"OPE_IMM", "OPE_FLAG"} \cup Indices
    BY <1>2 DEF WrittenAt, Indices
<1>4. /\ OperandToken["OPE_REG"] = "TK_REGISTER" /\ OperandToken["OPE_MEM"] = "TK_MEMORY"
      /\ \A k : Word(k).kind = k
    BY DEF OperandToken, Word
<1>5. CASE o.kind = "OPE_FLAG"
    <2>1. list[a + 1].kind = "TK_FLAG" /\ Len(Written[o]) = 1
        BY <1>2, <1>4, <1>5 DEF WrittenAt
    <2> QED
        BY <1>1, <1>3, <2>1 DEF OperandKinds
<1>6. CASE o.kind = "OPE_IMM"
    <2>1. list[a + 1].kind = "TK_IMMEDIATE" /\ Len(Written[o]) = 1
        BY <1>2, <1>6 DEF WrittenAt
    <2> QED
        BY <1>1, <1>3, <2>1 DEF OperandKinds
<1>7. CASE o.kind \in Indices
    <2>1. list[a + 1].kind \in {"TK_REGISTER", "TK_MEMORY"}
        BY <1>2, <1>4, <1>7 DEF WrittenAt, Indices
    <2>2. PICK m \in Nat : /\ m = Len(Written[o.index]) /\ b = a + (m + 3) /\ o.index \in Trees
                           /\ a + 2 <= Len(list) /\ list[a + 2] = Word("TK_L_SQ_BRACKET")
                           /\ Stands(list, a + 2, Written[o.index])
                           /\ b <= Len(list) /\ list[b] = Word("TK_R_SQ_BRACKET")
        BY <1>1, <1>2, <1>7 DEF WrittenAt
    <2>3. "TK_L_SQ_BRACKET" \in Kinds /\ "TK_R_SQ_BRACKET" \in Kinds
        BY NotKinds
    <2>4. Finds(list, "TK_L_SQ_BRACKET", a + 1, a + 2)
        <3>1. a + 2 = (a + 1) + 1
            OBVIOUS
        <3> QED
            BY <2>2, <2>3, <3>1 DEF Finds
    <2>5. Finds(list, "operand", a + 2, a + 2 + m)
        BY <2>2 DEF Finds
    <2>6. Finds(list, "TK_R_SQ_BRACKET", a + 2 + m, b)
        <3>1. b = a + (m + 3)
            BY <2>2, Zenon
        <3>2. b = (a + 2 + m) + 1
            BY <3>1
        <3> QED
            BY <2>2, <2>3, <3>2 DEF Finds
    <2>7. ASSUME NEW kind \in Indices
          PROVE  FindAll(list, a + 1, <<"TK_L_SQ_BRACKET", "operand", "TK_R_SQ_BRACKET", kind>>, b)
        <3>1. Finds(list, kind, b, b)
            BY DEF Finds
        <3>2. a + 1 \in Nat /\ a + 2 \in Nat /\ a + 2 + m \in Nat
            OBVIOUS
        <3> QED
            BY <2>4, <2>5, <2>6, <3>1, <3>2, FindsFour
    <2> QED
        BY <1>3, <2>1, <2>7 DEF OperandKinds
<1> QED
    BY <1>3, <1>5, <1>6, <1>7
-----------------------------------------------------------------------------
(***************************************************************************)
(* The parser on the listing of a program p, with nothing behind it: it    *)
(* reads p, and stops short of it or fails behind it according to the      *)
(* count of instructions.                                                  *)
(***************************************************************************)
\* The end of the instruction is asked for last, and once.
Returns(asks) ==
    asks # <<>> /\ \A j \in 1 .. Len(asks) : asks[j] = "return" <=> j = Len(asks)

LEMMA ReturnsLast ==
    ASSUME NEW asks \in Seq(Asked), Returns(asks)
    PROVE  /\ Head(asks) = "return" => Tail(asks) = <<>>
           /\ Head(asks) # "return" => Returns(Tail(asks))
<1> DEFINE A == Asked
           t == Tail(asks)
<1> HIDE DEF A
<1>1. /\ Len(asks) \in Nat /\ Len(asks) # 0 /\ Head(asks) = asks[1]
      /\ t \in Seq(A) /\ Len(t) = Len(asks) - 1 /\ \A j \in 1 .. Len(t) : t[j] = asks[j + 1]
    <2>1. asks \in Seq(A) /\ asks # <<>>
        BY DEF A, Returns
    <2> QED
        BY <2>1, HeadTailProperties, LenProperties, EmptySeq
<1> HIDE DEF t
<1>2. \A j \in 1 .. Len(asks) : asks[j] = "return" <=> j = Len(asks)
    BY DEF Returns
<1>3. ASSUME Head(asks) = "return" PROVE t = <<>>
    <2>1. 1 \in 1 .. Len(asks)
        BY <1>1
    <2>2. Len(asks) = 1
        BY <1>1, <1>2, <1>3, <2>1
    <2> QED
        BY <1>1, <2>2, EmptySeq
<1>4. ASSUME Head(asks) # "return" PROVE Returns(t)
    <2>1. Len(asks) # 1
        BY <1>1, <1>2, <1>4
    <2>2. Len(t) \in Nat /\ Len(t) # 0
        BY <1>1, <2>1
    <2>3. t # <<>>
        <3>1. Len(<<>>) = 0
            OBVIOUS
        <3> QED
            BY <2>2, <3>1
    <2>4. ASSUME NEW j \in 1 .. Len(t) PROVE t[j] = "return" <=> j = Len(t)
        <3>1. j + 1 \in 1 .. Len(asks) /\ t[j] = asks[j + 1] /\ (j + 1 = Len(asks) <=> j = Len(t))
            BY <1>1
        <3> QED
            BY <1>2, <3>1
    <2> QED
        BY <2>3, <2>4 DEF Returns
<1> QED
    BY <1>3, <1>4 DEF t

LEMMA ReturnsBehind ==
    ASSUME NEW u \in Seq(Asked), NEW v \in Seq(Asked), Returns(v),
           \A j \in 1 .. Len(u) : u[j] # "return"
    PROVE  Returns(u \o v)
<1> DEFINE A == Asked
           w == u \o v
           m == Len(u)
           n == Len(v)
<1> HIDE DEF A
<1>1. /\ m \in Nat /\ n \in Nat /\ n # 0 /\ Len(w) = m + n
      /\ \A j \in 1 .. m + n : w[j] = IF j <= m THEN u[j] ELSE v[j - m]
    <2>1. u \in Seq(A) /\ v \in Seq(A) /\ v # <<>>
        BY DEF A, Returns
    <2> QED
        BY <2>1, ConcatProperties, LenProperties, EmptySeq
<1> HIDE DEF w
<1>2. w # <<>>
    <2>1. Len(<<>>) = 0
        OBVIOUS
    <2> QED
        BY <1>1, <2>1
<1>3. ASSUME NEW j \in 1 .. m + n PROVE w[j] = "return" <=> j = m + n
    <2>1. CASE j <= m
        <3>1. w[j] = u[j] /\ j \in 1 .. m /\ j # m + n
            BY <1>1, <2>1
        <3> QED
            BY <3>1
    <2>2. CASE ~ (j <= m)
        <3>1. j - m \in 1 .. n /\ (j - m = n <=> j = m + n)
            BY <1>1, <2>2
        <3>2. w[j] = v[j - m]
            BY <1>1, <2>2, Zenon
        <3> QED
            BY <3>1, <3>2 DEF Returns
    <2> QED
        BY <2>1, <2>2
<1> QED
    BY <1>1, <1>2, <1>3 DEF Returns, w

\* The tokens up to end are the listing, and no token is behind them.
Listed(p, end) ==
    /\ end = Len(Lines(p))
    /\ \A c \in 1 .. end : Seen(tokens[c]) = Lines(p)[c]
    /\ \A c \in end + 1 .. Len(tokens) : tokens[c].kind \in {"MN_MOV", "unwritten"}

ReadSoFar(p) ==
    /\ Len(program) <= Len(p) /\ program = First(p, Len(program))
    /\ Len(program) <= nb_instructions

\* Before a line of p, or at its end.
BetweenLines(p) == todo = <<>> /\ token_index = LineStart(p, Len(program))

\* In a line of p the pending calls will find what they ask for.
InLine(p) ==
    /\ Returns(todo) /\ Len(program) < Len(p) /\ Len(program) < nb_instructions
    /\ FindAll(Lines(p), token_index, todo, LineStart(p, Len(program) + 1))

\* Behind the listing a cell was taken for a mnemonic.
Behind(p) ==
    /\ Len(program) = Len(p) /\ Len(program) < nb_instructions
    /\ token_index = last + 1
    /\ todo # <<>> /\ Head(todo) = "operand"

InStep(p) == ReadSoFar(p) /\ (BetweenLines(p) \/ InLine(p) \/ Behind(p))

Follows(p) ==
    /\ nb_instructions >= 1
    /\ Listed(p, IF pc = "start" THEN token_index ELSE last)
    /\ pc = "parse" => InStep(p)
    /\ pc \in {"done", "freed"} => nb_instructions <= Len(p) /\ program = First(p, nb_instructions)
    /\ pc \in {"exit", "wild"} => nb_instructions > Len(p)

\* What the parser keeps of the list, whatever program it is the listing of.
Reading == EndInv /\ PlaceInv

\* The cell that is looked at, before the end of the listing and behind it.
LEMMA ShownCell ==
    ASSUME NEW p \in Seq(Instructions), Reading, Follows(p), pc = "parse"
    PROVE  /\ Len(Lines(p)) = last /\ last \in Nat /\ token_index \in Nat
           /\ token_index < last => /\ IsShown
                                    /\ Shown.kind = Lines(p)[token_index + 1].kind
           /\ token_index >= last /\ IsShown => Shown.kind = "MN_MOV"
<1>1. /\ token_index \in 0 .. Len(tokens) /\ last \in 0 .. Len(tokens) /\ Len(tokens) \in Nat
      /\ \A c \in 1 .. last : tokens[c].kind # "unwritten"
    BY LenProperties DEF Reading, EndInv, ListOK
<1>2. /\ last = Len(Lines(p))
      /\ \A c \in 1 .. last : Seen(tokens[c]) = Lines(p)[c]
      /\ \A c \in last + 1 .. Len(tokens) : tokens[c].kind \in {"MN_MOV", "unwritten"}
    BY DEF Follows, Listed
<1>3. \A x : Seen(x).kind = x.kind
    BY DEF Seen, Word
<1>4. ASSUME token_index < last
      PROVE  IsShown /\ Shown.kind = Lines(p)[token_index + 1].kind
    <2>1. token_index + 1 \in 1 .. last /\ token_index < Len(tokens)
        BY <1>1, <1>4
    <2>2. Seen(tokens[token_index + 1]) = Lines(p)[token_index + 1]
        BY <1>2, <2>1
    <2>3. tokens[token_index + 1].kind = Lines(p)[token_index + 1].kind
        BY <1>3, <2>2
    <2> QED
        BY <1>1, <2>1, <2>3 DEF IsShown, Shown
<1>5. ASSUME token_index >= last, IsShown
      PROVE  Shown.kind = "MN_MOV"
    <2>1. token_index + 1 \in last + 1 .. Len(tokens) /\ tokens[token_index + 1].kind # "unwritten"
        BY <1>1, <1>5 DEF IsShown
    <2> QED
        BY <1>2, <2>1 DEF Shown
<1> QED
    BY <1>1, <1>2, <1>4, <1>5

\* A step that leaves the parser in step.
LEMMA KeepsStep ==
    ASSUME NEW p, Follows(p), pc = "parse", pc' = "parse",
           UNCHANGED <<tokens, nb_instructions, last>>, InStep(p)'
    PROVE  Follows(p)'
<1>1. Listed(p, last)
    BY DEF Follows
<1>2. Listed(p, last)'
    BY <1>1 DEF Listed
<1> QED
    BY <1>2 DEF Follows

\* A step that stops, with more instructions counted than there are.
LEMMA StopsBehind ==
    ASSUME NEW p, Follows(p), pc = "parse", pc' \in {"exit", "wild"},
           UNCHANGED <<tokens, nb_instructions, last>>, nb_instructions > Len(p)
    PROVE  Follows(p)'
<1>1. Listed(p, last)
    BY DEF Follows
<1>2. Listed(p, last)'
    BY <1>1 DEF Listed
<1> QED
    BY <1>2 DEF Follows

\* The first of the pending calls, in a line.
LEMMA LineFirst ==
    ASSUME NEW p \in Seq(Instructions), Reading, Follows(p), pc = "parse", InLine(p), ReadSoFar(p)
    PROVE  /\ Len(program) \in Nat /\ LineStart(p, Len(program) + 1) \in Nat
           /\ LineStart(p, Len(program) + 1) <= last
           /\ todo[1] = Head(todo) /\ Head(todo) \in Asked /\ Tail(todo) \in Seq(Asked)
           /\ \E c \in Nat : /\ Finds(Lines(p), Head(todo), token_index, c)
                             /\ FindAll(Lines(p), c, Tail(todo), LineStart(p, Len(program) + 1))
<1>1. todo \in Seq(Asked) /\ todo # <<>> /\ program \in Seq(Instructions)
    BY DEF Reading, EndInv, PlaceInv, ListInv, InLine, Returns
<1>2. Len(program) \in Nat
    BY <1>1, LenProperties
<1>3. LineStart(p, Len(program) + 1) \in Nat /\ LineStart(p, Len(program) + 1) <= Len(Lines(p))
    BY <1>2, LinePlace DEF InLine
<1>4. Len(Lines(p)) = last /\ token_index \in Nat
    BY ShownCell
<1>5. todo[1] = Head(todo) /\ Head(todo) \in Asked /\ Tail(todo) \in Seq(Asked)
    BY <1>1, AskedFacts
<1>6. \E c \in Nat : /\ Finds(Lines(p), Head(todo), token_index, c)
                     /\ FindAll(Lines(p), c, Tail(todo), LineStart(p, Len(program) + 1))
    BY <1>1, <1>4, FindsFirst DEF InLine
<1> QED
    BY <1>2, <1>3, <1>4, <1>5, <1>6

\* A call that has found what it asked for leaves the others to find theirs.
LEMMA StaysInLine ==
    ASSUME NEW p \in Seq(Instructions), Reading, Follows(p), pc = "parse", InLine(p), ReadSoFar(p),
           NEW c \in Nat, pc' = "parse",
           UNCHANGED <<tokens, nb_instructions, last, program>>,
           token_index' = c, Returns(todo'),
           FindAll(Lines(p), c, todo', LineStart(p, Len(program) + 1))
    PROVE  Follows(p)'
<1>1. ReadSoFar(p)'
    BY DEF ReadSoFar
<1>2. InLine(p)'
    BY DEF InLine
<1> QED
    BY <1>1, <1>2, KeepsStep DEF InStep

\* The dispatch of parse_instruction, on the mnemonics of listings.
LEMMA Dispatch ==
    ASSUME NEW i \in Instructions
    PROVE  /\ Mnemonic[i.opcode] \in OpMnemonics \cup JmpMnemonics \cup {"MN_CALL"}
           /\ Mnemonic[i.opcode] \in OpMnemonics => i.opcode \in TwoArgs
           /\ Mnemonic[i.opcode] \in JmpMnemonics =>
                 IF Mnemonic[i.opcode] = "MN_JNZ" THEN i.opcode \in TwoArgs ELSE i.opcode \in OneArg
           /\ Mnemonic[i.opcode] = "MN_CALL" => i.opcode = "OPCODE_CALL"
<1>1. i.opcode \in Opcodes
    BY InstructionFacts
<1> QED
    BY <1>1 DEF Opcodes, MovOpcodes, AluOpcodes, JmpOpcodes, CondOpcodes, Mnemonic, OpMnemonics,
                JmpMnemonics, TwoArgs, OneArg

\* What instructions ask for.
LEMMA AskedAtOnce ==
    /\ <<"operand", "TK_COMMA", "operand", "return">> \in Seq(Asked)
    /\ Returns(<<"operand", "TK_COMMA", "operand", "return">>)
    /\ <<"operand", "return">> \in Seq(Asked) /\ Returns(<<"operand", "return">>)
    /\ <<"callee", "return">> \in Seq(Asked) /\ Returns(<<"callee", "return">>)
<1>1. /\ <<"operand", "TK_COMMA", "operand", "return">> \in Seq(Asked)
      /\ <<"operand", "return">> \in Seq(Asked) /\ <<"callee", "return">> \in Seq(Asked)
    BY DEF Asked
<1>2. Returns(<<"operand", "TK_COMMA", "operand", "return">>)
    BY DEF Returns
<1>3. Returns(<<"operand", "return">>)
    BY DEF Returns
<1>4. Returns(<<"callee", "return">>)
    BY DEF Returns
<1> QED
    BY <1>1, <1>2, <1>3, <1>4

\* The first steps: the reset of token_index,
LEMMA FollowsStart ==
    ASSUME NEW p \in Seq(Instructions), Reading, Follows(p), Start
    PROVE  Follows(p)'
<1>1. /\ pc = "start" /\ last' = token_index /\ token_index' = 0 /\ pc' = "parse"
      /\ UNCHANGED <<tokens, nb_instructions, program, todo>>
    BY DEF Start
<1>2. program = <<>> /\ todo = <<>>
    BY <1>1 DEF Reading, PlaceInv
<1>3. Listed(p, last)'
    <2>1. Listed(p, token_index)
        BY <1>1 DEF Follows
    <2> QED
        BY <1>1, <2>1 DEF Listed
<1>4. Len(<<>>) = 0 /\ Lines(<<>>) = <<>> /\ First(p, 0) = <<>> /\ Len(p) \in Nat
    <2>1. [opcode |-> "OPCODE_CALL", call_name |-> "CALL_READ"] \in Instructions
        BY DEF Instructions
    <2>2. Len(<<>>) = 0
        OBVIOUS
    <2> QED
        BY <2>1, <2>2, LinesAppend, FirstFacts, EmptySeq
<1>5. InStep(p)'
    <2>1. LineStart(p, 0) = 0
        BY <1>4 DEF LineStart
    <2>2. nb_instructions >= 1
        BY DEF Follows
    <2>3. nb_instructions \in Nat
        BY DEF Reading, PlaceInv, ListInv
    <2>4. program' = <<>> /\ Len(program') = 0 /\ todo' = <<>> /\ nb_instructions' = nb_instructions
        BY <1>1, <1>2, <1>4
    <2>5. ReadSoFar(p)'
        BY <1>4, <2>2, <2>3, <2>4 DEF ReadSoFar
    <2>6. BetweenLines(p)'
        BY <1>1, <2>1, <2>4 DEF BetweenLines
    <2> QED
        BY <2>5, <2>6 DEF InStep
<1> QED
    BY <1>1, <1>3, <1>5 DEF Follows

\* the mnemonic of an instruction of p, or of none behind the listing.
LEMMA MnemonicShown ==
    ASSUME NEW p \in Seq(Instructions), Reading, Follows(p), AtInstruction
    PROVE  /\ ReadSoFar(p) /\ BetweenLines(p) /\ Len(program) \in Nat /\ Len(p) \in Nat
           /\ token_index \in Nat
           /\ Len(program) < Len(p) =>
                 /\ p[Len(program) + 1] \in Instructions
                 /\ IsShown /\ Shown.kind = Mnemonic[p[Len(program) + 1].opcode]
                 /\ LineAt(Lines(p), token_index, p[Len(program) + 1])
                 /\ Stands(Lines(p), token_index, Line(p[Len(program) + 1]))
                 /\ LineStart(p, Len(program) + 1) = token_index + Len(Line(p[Len(program) + 1]))
           /\ Len(program) = Len(p) => /\ token_index = last
                                       /\ IsShown => Shown.kind = "MN_MOV"
<1>1. pc = "parse" /\ todo = <<>> /\ Len(program) < nb_instructions
    BY DEF AtInstruction
<1>2. ReadSoFar(p) /\ BetweenLines(p)
    BY <1>1 DEF Follows, InStep, InLine, Behind, Returns
<1>3. Len(program) \in Nat /\ Len(p) \in Nat
    BY LenProperties DEF Reading, PlaceInv, ListInv
<1>4. token_index = LineStart(p, Len(program)) /\ Len(Lines(p)) = last /\ last \in Nat /\ token_index \in Nat
    BY <1>1, <1>2, ShownCell DEF BetweenLines
<1>5. ASSUME Len(program) < Len(p)
      PROVE  /\ p[Len(program) + 1] \in Instructions
             /\ IsShown /\ Shown.kind = Mnemonic[p[Len(program) + 1].opcode]
             /\ LineAt(Lines(p), token_index, p[Len(program) + 1])
             /\ Stands(Lines(p), token_index, Line(p[Len(program) + 1]))
             /\ LineStart(p, Len(program) + 1) = token_index + Len(Line(p[Len(program) + 1]))
    <2> DEFINE i == p[Len(program) + 1]
    <2>1. /\ i \in Instructions /\ Stands(Lines(p), token_index, Line(i))
          /\ LineStart(p, Len(program) + 1) = token_index + Len(Line(i))
        BY <1>3, <1>4, <1>5, LinePlace
    <2> HIDE DEF i
    <2>2. LineAt(Lines(p), token_index, i)
        BY <1>4, <2>1, LineStands
    <2>3. token_index + 1 <= last /\ Lines(p)[token_index + 1] = Word(Mnemonic[i.opcode])
        BY <1>4, <2>2 DEF LineAt
    <2>4. IsShown /\ Shown.kind = Lines(p)[token_index + 1].kind
        BY <1>1, <1>4, <2>3, ShownCell
    <2>5. Shown.kind = Mnemonic[i.opcode]
        BY <2>3, <2>4 DEF Word
    <2> QED
        BY <2>1, <2>2, <2>4, <2>5 DEF i
<1>6. ASSUME Len(program) = Len(p)
      PROVE  token_index = last /\ (IsShown => Shown.kind = "MN_MOV")
    <2>1. First(p, Len(p)) = p
        BY <1>3, FirstFacts
    <2>2. token_index = last
        BY <1>4, <1>6, <2>1 DEF LineStart
    <2> QED
        BY <1>1, <1>4, <2>2, ShownCell
<1> QED
    BY <1>2, <1>3, <1>4, <1>5, <1>6

\* A mnemonic is taken.
LEMMA FollowsBegin ==
    ASSUME NEW p \in Seq(Instructions), Reading, Follows(p), ParseOp \/ ParseJmp \/ ParseCall
    PROVE  Follows(p)'
<1> DEFINE n == Len(program)
           i == p[n + 1]
           b == LineStart(p, n + 1)
<1>1. /\ AtInstruction /\ IsShown /\ token_index' = token_index + 1
      /\ UNCHANGED <<tokens, nb_instructions, pc, program, last>>
    BY DEF ParseOp, ParseJmp, ParseCall, Begin, Accept
<1>2. pc = "parse" /\ pc' = "parse" /\ n < nb_instructions
    BY <1>1 DEF AtInstruction
<1>3. ReadSoFar(p) /\ n \in Nat /\ Len(p) \in Nat /\ token_index \in Nat
    BY <1>1, MnemonicShown
<1>4. ReadSoFar(p)'
    BY <1>1, <1>3 DEF ReadSoFar
<1>5. \/ /\ Shown.kind \in OpMnemonics
         /\ todo' = <<"operand", "TK_COMMA", "operand", "return">>
      \/ /\ Shown.kind \in JmpMnemonics /\ Shown.kind = "MN_JNZ"
         /\ todo' = <<"operand", "TK_COMMA", "operand", "return">>
      \/ /\ Shown.kind \in JmpMnemonics /\ Shown.kind # "MN_JNZ"
         /\ todo' = <<"operand", "return">>
      \/ /\ Shown.kind = "MN_CALL"
         /\ todo' = <<"callee", "return">>
    BY DEF ParseOp, ParseJmp, ParseCall, Begin
<1>6. CASE n < Len(p)
    <2>1. /\ i \in Instructions /\ Shown.kind = Mnemonic[i.opcode]
          /\ Stands(Lines(p), token_index, Line(i)) /\ b = token_index + Len(Line(i))
        BY <1>1, <1>6, MnemonicShown
    <2>2. Len(Lines(p)) \in Nat
        BY ProgramFacts, LenProperties
    <2>3. /\ i.opcode = "OPCODE_CALL" => FindAll(Lines(p), token_index + 1, <<"callee", "return">>, b)
          /\ i.opcode \in OneArg => FindAll(Lines(p), token_index + 1, <<"operand", "return">>, b)
          /\ i.opcode \in TwoArgs =>
                FindAll(Lines(p), token_index + 1, <<"operand", "TK_COMMA", "operand", "return">>, b)
        <3> HIDE DEF i
        <3> QED
            BY <1>3, <2>1, <2>2, LineFound
    <2>4. /\ Mnemonic[i.opcode] \in OpMnemonics => i.opcode \in TwoArgs
          /\ Mnemonic[i.opcode] \in JmpMnemonics =>
                IF Mnemonic[i.opcode] = "MN_JNZ" THEN i.opcode \in TwoArgs ELSE i.opcode \in OneArg
          /\ Mnemonic[i.opcode] = "MN_CALL" => i.opcode = "OPCODE_CALL"
        BY <2>1, Dispatch
    <2> HIDE DEF i, b
    <2>5. FindAll(Lines(p), token_index + 1, todo', b) /\ Returns(todo')
        BY <1>5, <2>1, <2>3, <2>4, AskedAtOnce, Zenon
    <2>6. InLine(p)'
        BY <1>1, <1>2, <1>6, <2>5 DEF InLine, b
    <2> QED
        BY <1>1, <1>2, <1>4, <2>6, KeepsStep DEF InStep
<1>7. CASE n = Len(p)
    <2>1. token_index = last /\ Shown.kind = "MN_MOV"
        BY <1>1, <1>7, MnemonicShown
    <2>2. todo' = <<"operand", "TK_COMMA", "operand", "return">>
        BY <1>5, <2>1 DEF JmpMnemonics
    <2>3. todo' # <<>> /\ Head(todo') = "operand"
        BY <2>2
    <2>4. Behind(p)'
        BY <1>1, <1>2, <1>7, <2>1, <2>3 DEF Behind
    <2> QED
        BY <1>1, <1>2, <1>4, <2>4, KeepsStep DEF InStep
<1> QED
    BY <1>3, <1>6, <1>7 DEF ReadSoFar

\* What a pending call finds in a line, and behind the listing.
LEMMA FoundShown ==
    ASSUME NEW p \in Seq(Instructions), Reading, Follows(p), pc = "parse", todo # <<>>
    PROVE  /\ ReadSoFar(p) /\ Len(program) < nb_instructions
           /\ todo[1] = Head(todo) /\ Head(todo) \in Asked /\ Tail(todo) \in Seq(Asked)
           /\ \/ Behind(p)
              \/ /\ InLine(p)
                 /\ \E c \in Nat :
                       /\ Finds(Lines(p), Head(todo), token_index, c)
                       /\ FindAll(Lines(p), c, Tail(todo), LineStart(p, Len(program) + 1))
                       /\ Head(todo) # "return" => Returns(Tail(todo))
                       /\ Head(todo) = "return" => Tail(todo) = <<>>
<1>1. ReadSoFar(p) /\ (InLine(p) \/ Behind(p))
    BY DEF Follows, InStep, BetweenLines
<1>2. Len(program) < nb_instructions
    BY <1>1 DEF InLine, Behind
<1>3. todo \in Seq(Asked)
    BY DEF Reading, EndInv
<1>4. todo[1] = Head(todo) /\ Head(todo) \in Asked /\ Tail(todo) \in Seq(Asked)
    BY <1>3, AskedFacts
<1>5. CASE InLine(p)
    <2>1. Returns(todo)
        BY <1>5 DEF InLine
    <2>2. (Head(todo) = "return" => Tail(todo) = <<>>) /\ (Head(todo) # "return" => Returns(Tail(todo)))
        BY <1>3, <2>1, ReturnsLast
    <2>3. \E c \in Nat : /\ Finds(Lines(p), Head(todo), token_index, c)
                         /\ FindAll(Lines(p), c, Tail(todo), LineStart(p, Len(program) + 1))
        BY <1>1, <1>5, LineFirst
    <2> QED
        BY <1>1, <1>2, <1>4, <1>5, <2>2, <2>3
<1> QED
    BY <1>1, <1>2, <1>4, <1>5

\* The token a pending call finds is the one that is looked at.
LEMMA TokenFound ==
    ASSUME NEW p \in Seq(Instructions), Reading, Follows(p), pc = "parse", NEW item, NEW c \in Nat,
           Finds(Lines(p), item, token_index, c)
    PROVE  /\ item = "operand" =>
                 /\ IsShown /\ Shown.kind \in OperandKinds
                 /\ Shown.kind \in {"TK_IMMEDIATE", "TK_FLAG"} => c = token_index + 1
                 /\ Shown.kind \in {"TK_REGISTER", "TK_MEMORY"} =>
                       \A kind \in Indices :
                          FindAll(Lines(p), token_index + 1,
                                  <<"TK_L_SQ_BRACKET", "operand", "TK_R_SQ_BRACKET", kind>>, c)
           /\ item = "callee" =>
                 /\ IsShown /\ Shown.kind \in {"FUNC_PUTCHAR", "FUNC_READ"}
                 /\ FindAll(Lines(p), token_index + 1, CalleeAsks, c)
           /\ item \in Kinds => IsShown /\ Shown.kind = item /\ c = token_index + 1
           /\ item \in Indices \cup {"return"} => c = token_index
<1> DEFINE list == Lines(p)
           a == token_index
<1>1. Len(list) = last /\ last \in Nat /\ a \in Nat
    BY ShownCell
<1>2. ASSUME a + 1 <= Len(list) PROVE IsShown /\ Shown.kind = list[a + 1].kind
    <2>1. a < last
        BY <1>1, <1>2
    <2> QED
        BY <2>1, ShownCell
<1> HIDE DEF list, a
<1>3. Finds(list, item, a, c)
    BY DEF list, a
<1>4. CASE item = "operand"
    <2>1. /\ a + 1 <= Len(list) /\ list[a + 1].kind \in OperandKinds
          /\ list[a + 1].kind \in {"TK_IMMEDIATE", "TK_FLAG"} => c = a + 1
          /\ list[a + 1].kind \in {"TK_REGISTER", "TK_MEMORY"} =>
                \A kind \in Indices :
                   FindAll(list, a + 1, <<"TK_L_SQ_BRACKET", "operand", "TK_R_SQ_BRACKET", kind>>, c)
        BY <1>1, <1>3, <1>4, OperandFound
    <2>2. item \notin Kinds /\ item \notin Indices \cup {"return"} /\ item # "callee"
        BY <1>4, NotKinds DEF Indices
    <2> QED
        BY <1>2, <1>4, <2>1, <2>2, Zenon DEF list, a
<1>5. CASE item = "callee"
    <2>1. item \notin Kinds /\ item \notin Indices \cup {"return"} /\ item # "operand"
        BY <1>5, NotKinds DEF Indices
    <2>2. /\ c = a + 3 /\ c <= Len(list) /\ list[a + 1] \in {Word("FUNC_PUTCHAR"), Word("FUNC_READ")}
          /\ list[a + 2] = Word("TK_L_PARENTH") /\ list[a + 3] = Word("TK_R_PARENTH")
        BY <1>3, <1>5, <2>1 DEF Finds
    <2>3. a + 1 <= Len(list) /\ list[a + 1].kind \in {"FUNC_PUTCHAR", "FUNC_READ"}
        BY <1>1, <2>2 DEF Word
    <2>4. "TK_L_PARENTH" \in Kinds /\ "TK_R_PARENTH" \in Kinds
        BY NotKinds
    <2>5. Finds(list, "TK_L_PARENTH", a + 1, a + 2)
        <3>1. a + 2 = (a + 1) + 1 /\ a + 2 <= Len(list)
            BY <1>1, <2>2
        <3> QED
            BY <2>2, <2>4, <3>1 DEF Finds
    <2>6. Finds(list, "TK_R_PARENTH", a + 2, c)
        <3>1. c = (a + 2) + 1
            BY <1>1, <2>2
        <3> QED
            BY <2>2, <2>4, <3>1 DEF Finds
    <2>7. FindAll(list, a + 1, CalleeAsks, c)
        <3>1. a + 1 \in Nat /\ a + 2 \in Nat
            BY <1>1
        <3>2. FindAll(list, a + 1, <<"TK_L_PARENTH", "TK_R_PARENTH">>, c)
            BY <2>5, <2>6, <3>1, FindsTwo
        <3> QED
            BY <3>2 DEF CalleeAsks
    <2> QED
        BY <1>2, <1>5, <2>1, <2>3, <2>7 DEF list, a
<1>6. CASE item \in Kinds
    <2>1. item \notin Indices \cup {"return", "operand", "callee"}
        BY <1>6, NotKinds DEF Indices
    <2>2. c = a + 1 /\ c <= Len(list) /\ list[c] = Word(item)
        BY <1>3, <1>6, <2>1 DEF Finds
    <2>3. list[a + 1].kind = item
        BY <2>2 DEF Word
    <2> QED
        BY <1>2, <1>6, <2>1, <2>2, <2>3 DEF a
<1>7. CASE item \in Indices \cup {"return"}
    <2>1. item \notin Kinds \cup {"operand", "callee"}
        BY <1>7, NotKinds DEF Indices
    <2>2. c = a
        BY <1>3, <1>7, <2>1 DEF Finds
    <2> QED
        BY <1>7, <2>1, <2>2 DEF a
<1> QED
    BY <1>4, <1>5, <1>6, <1>7

\* What is refused stands behind the listing.
LEMMA FollowsRefusal ==
    ASSUME NEW p \in Seq(Instructions), Reading, Follows(p),
           \/ ReadWild \/ NoParser \/ OperandWrong
           \/ Callee /\ Shown.kind \notin {"FUNC_PUTCHAR", "FUNC_READ"}
           \/ Expect /\ Shown.kind # Head(todo)
    PROVE  Follows(p)'
<1>1. /\ pc = "parse" /\ pc' \in {"exit", "wild"} /\ UNCHANGED <<tokens, nb_instructions, last>>
    BY DEF ReadWild, NoParser, OperandWrong, Callee, Expect, Exit, NeedsToken, AtInstruction, Pending
<1>2. Len(program) \in Nat /\ Len(p) \in Nat /\ nb_instructions \in Nat
    BY LenProperties DEF Reading, PlaceInv, ListInv
<1>3. CASE todo = <<>>
    <2>1. AtInstruction /\ (~ IsShown \/ Shown.kind \notin OpMnemonics \cup JmpMnemonics \cup {"MN_CALL"})
        BY <1>3 DEF ReadWild, NoParser, OperandWrong, Callee, Expect, NeedsToken, Pending
    <2>2. ~ (Len(program) < Len(p))
        BY <2>1, MnemonicShown, Dispatch
    <2>3. Len(program) < nb_instructions
        BY <2>1 DEF AtInstruction
    <2> QED
        BY <1>1, <1>2, <2>2, <2>3, StopsBehind
<1>4. CASE todo # <<>>
    <2>1. /\ Len(program) < nb_instructions /\ Head(todo) \in Asked
          /\ Behind(p) \/ \E c \in Nat : Finds(Lines(p), Head(todo), token_index, c)
        BY <1>1, <1>4, FoundShown
    <2>2. ASSUME NEW c \in Nat, Finds(Lines(p), Head(todo), token_index, c)
          PROVE  FALSE
        <3>1. /\ Head(todo) = "operand" => IsShown /\ Shown.kind \in OperandKinds
              /\ Head(todo) = "callee" => IsShown /\ Shown.kind \in {"FUNC_PUTCHAR", "FUNC_READ"}
              /\ Head(todo) \in Kinds => IsShown /\ Shown.kind = Head(todo)
            BY <1>1, <2>2, TokenFound
        <3> QED
            BY <1>4, <3>1 DEF ReadWild, NoParser, OperandWrong, Callee, Expect, NeedsToken,
                              AtInstruction, Pending
    <2>3. Len(program) = Len(p)
        BY <2>1, <2>2 DEF Behind
    <2> QED
        BY <1>1, <1>2, <2>1, <2>3, StopsBehind
<1> QED
    BY <1>3, <1>4

\* A pending call takes what it finds.
LEMMA FollowsFound ==
    ASSUME NEW p \in Seq(Instructions), Reading, Follows(p),
           \/ Callee /\ Shown.kind \in {"FUNC_PUTCHAR", "FUNC_READ"}
           \/ Expect /\ Shown.kind = Head(todo)
           \/ OperandImm \/ OperandFlag \/ OperandIndexed \/ CloseOperand
    PROVE  Follows(p)'
<1> DEFINE b == LineStart(p, Len(program) + 1)
           t == Tail(todo)
<1>1. /\ pc = "parse" /\ pc' = "parse" /\ todo # <<>>
      /\ UNCHANGED <<tokens, nb_instructions, last, program>>
    BY DEF Callee, Expect, OperandImm, OperandFlag, OperandIndexed, CloseOperand, Operand, Pending
<1>2. /\ ReadSoFar(p) /\ Head(todo) \in Asked /\ t \in Seq(Asked)
    BY <1>1, FoundShown
<1>3. \/ /\ Callee /\ Head(todo) = "callee" /\ Shown.kind \in {"FUNC_PUTCHAR", "FUNC_READ"}
         /\ token_index' = token_index + 1 /\ todo' = CalleeAsks \o t
      \/ /\ Expect /\ Head(todo) \in Kinds /\ Shown.kind = Head(todo)
         /\ token_index' = token_index + 1 /\ todo' = t
      \/ /\ Head(todo) = "operand" /\ Shown.kind \in {"TK_IMMEDIATE", "TK_FLAG"}
         /\ token_index' = token_index + 1 /\ todo' = t
      \/ /\ Head(todo) = "operand" /\ Shown.kind \in {"TK_REGISTER", "TK_MEMORY"}
         /\ token_index' = token_index + 1
         /\ \E kind \in Indices :
               todo' = <<"TK_L_SQ_BRACKET", "operand", "TK_R_SQ_BRACKET", kind>> \o t
      \/ Head(todo) \in Indices /\ token_index' = token_index /\ todo' = t
    <2>1. CASE Callee /\ Shown.kind \in {"FUNC_PUTCHAR", "FUNC_READ"}
        BY <2>1 DEF Callee, Pending, Accept
    <2>2. CASE Expect /\ Shown.kind = Head(todo)
        BY <2>2 DEF Expect, Pending, Accept
    <2>3. CASE OperandImm \/ OperandFlag
        BY <2>3 DEF OperandImm, OperandFlag, Operand, Pending, Accept
    <2>4. CASE OperandIndexed
        BY <2>4 DEF OperandIndexed, Operand, Pending, Accept, Indices
    <2>5. CASE CloseOperand
        BY <2>5 DEF CloseOperand, Pending, Indices
    <2> QED
        BY <2>1, <2>2, <2>3, <2>4, <2>5
<1>4. ~ Behind(p)
    <2> SUFFICES ASSUME Behind(p) PROVE FALSE
        OBVIOUS
    <2>1. Head(todo) = "operand" /\ token_index = last + 1
        BY DEF Behind
    <2>2. Shown.kind \in {"TK_IMMEDIATE", "TK_FLAG", "TK_REGISTER", "TK_MEMORY"} /\ IsShown
        BY <2>1, NotKinds DEF Callee, Expect, OperandImm, OperandFlag, OperandIndexed, CloseOperand,
                              Operand, Pending
    <2>3. token_index >= last
        BY <1>1, <2>1, ShownCell
    <2>4. Shown.kind = "MN_MOV"
        BY <1>1, <2>2, <2>3, ShownCell
    <2> QED
        BY <2>2, <2>4
<1>5. PICK c \in Nat :
         /\ Finds(Lines(p), Head(todo), token_index, c)
         /\ FindAll(Lines(p), c, t, b)
         /\ Head(todo) # "return" => Returns(t)
    BY <1>1, <1>4, FoundShown
<1>6. InLine(p) /\ token_index \in Nat
    BY <1>1, <1>4, FoundShown, ShownCell
<1>7. Returns(t)
    BY <1>3, <1>5, NotKinds DEF Indices
<1> HIDE DEF b, t
<1>8. ASSUME NEW d \in Nat, token_index' = d, Returns(todo'), FindAll(Lines(p), d, todo', b)
      PROVE  Follows(p)'
    BY <1>1, <1>2, <1>6, <1>8, StaysInLine DEF b
<1>9. CASE Head(todo) = "callee" /\ token_index' = token_index + 1 /\ todo' = CalleeAsks \o t
    <2>1. FindAll(Lines(p), token_index + 1, CalleeAsks, c)
        BY <1>1, <1>5, <1>9, TokenFound
    <2>2. CalleeAsks \in Seq(Asked) /\ \A j \in 1 .. Len(CalleeAsks) : CalleeAsks[j] # "return"
        BY DEF CalleeAsks, Asked
    <2>3. FindAll(Lines(p), token_index + 1, todo', b)
        BY <1>2, <1>5, <1>9, <2>1, <2>2, FindsBoth
    <2>4. Returns(todo')
        BY <1>2, <1>7, <1>9, <2>2, ReturnsBehind
    <2> QED
        BY <1>6, <1>8, <1>9, <2>3, <2>4
<1>10. CASE Head(todo) \in Kinds /\ token_index' = token_index + 1 /\ todo' = t
    <2>1. c = token_index + 1
        BY <1>1, <1>5, <1>10, TokenFound
    <2> QED
        BY <1>5, <1>7, <1>8, <1>10, <2>1
<1>11. CASE /\ Head(todo) = "operand" /\ Shown.kind \in {"TK_IMMEDIATE", "TK_FLAG"}
            /\ token_index' = token_index + 1 /\ todo' = t
    <2>1. c = token_index + 1
        BY <1>1, <1>5, <1>11, TokenFound
    <2> QED
        BY <1>5, <1>7, <1>8, <1>11, <2>1
<1>12. CASE /\ Head(todo) = "operand" /\ Shown.kind \in {"TK_REGISTER", "TK_MEMORY"}
            /\ token_index' = token_index + 1
            /\ \E kind \in Indices :
                  todo' = <<"TK_L_SQ_BRACKET", "operand", "TK_R_SQ_BRACKET", kind>> \o t
    <2>1. PICK kind \in Indices :
             todo' = <<"TK_L_SQ_BRACKET", "operand", "TK_R_SQ_BRACKET", kind>> \o t
        BY <1>12
    <2> DEFINE u == <<"TK_L_SQ_BRACKET", "operand", "TK_R_SQ_BRACKET", kind>>
    <2>2. FindAll(Lines(p), token_index + 1, u, c)
        BY <1>1, <1>5, <1>12, TokenFound
    <2>3. u \in Seq(Asked) /\ \A j \in 1 .. Len(u) : u[j] # "return"
        BY DEF Asked, Indices
    <2> HIDE DEF u
    <2>4. todo' = u \o t
        BY <2>1 DEF u
    <2>5. FindAll(Lines(p), token_index + 1, todo', b)
        BY <1>2, <1>5, <2>2, <2>3, <2>4, FindsBoth
    <2>6. Returns(todo')
        BY <1>2, <1>7, <2>3, <2>4, ReturnsBehind
    <2> QED
        BY <1>6, <1>8, <1>12, <2>5, <2>6
<1>13. CASE Head(todo) \in Indices /\ token_index' = token_index /\ todo' = t
    <2>1. c = token_index
        BY <1>1, <1>5, <1>13, TokenFound
    <2> QED
        BY <1>5, <1>7, <1>8, <1>13, <2>1
<1> QED
    BY <1>3, <1>9, <1>10, <1>11, <1>12, <1>13 DEF t

\* (LineAsked, so stated that it can be used of the next state)
LEMMA AtLineEnd == ListInv /\ Place /\ todo = <<>> => AtLine
BY LineAsked

LEMMA AtLineNext == (ListInv /\ Place /\ todo = <<>> => AtLine)'
BY AtLineEnd, PTL

\* An instruction is stored: it is the one whose line was read.
LEMMA FollowsStore ==
    ASSUME NEW p \in Seq(Instructions), Reading, Follows(p), Store, PlaceInv'
    PROVE  Follows(p)'
<1> DEFINE n == Len(program)
           list == Lines(p)
           a == LineStart(p, n)
           b == LineStart(p, n + 1)
           line == Line(Built)
<1>1. /\ pc = "parse" /\ pc' = "parse" /\ todo # <<>> /\ Head(todo) = "return"
      /\ program' = Append(program, Built) /\ todo' = Tail(todo)
      /\ UNCHANGED <<tokens, token_index, nb_instructions, last>>
    BY DEF Store, Pending
<1>2. /\ ReadSoFar(p) /\ n < nb_instructions /\ ~ Behind(p)
      /\ program \in Seq(Instructions) /\ n \in Nat /\ Len(p) \in Nat /\ nb_instructions \in Nat
    <2>1. ReadSoFar(p) /\ n < nb_instructions
        BY <1>1, FoundShown
    <2>2. ~ Behind(p)
        BY <1>1 DEF Behind
    <2>3. program \in Seq(Instructions) /\ nb_instructions \in Nat
        BY DEF Reading, PlaceInv, ListInv
    <2> QED
        BY <2>1, <2>2, <2>3, LenProperties
<1>3. n < Len(p) /\ Tail(todo) = <<>> /\ token_index = b
    <2>1. PICK c \in Nat :
             /\ Finds(list, Head(todo), token_index, c) /\ FindAll(list, c, Tail(todo), b)
             /\ Tail(todo) = <<>> /\ InLine(p)
        BY <1>1, <1>2, FoundShown
    <2>2. c = token_index
        BY <1>1, <2>1, TokenFound
    <2>3. c = b
        <3>1. FindAll(list, c, <<>>, b)
            BY <2>1
        <3> HIDE DEF list, b
        <3> QED
            BY <3>1, FindsShort, Zenon
    <2> QED
        BY <2>1, <2>2, <2>3 DEF InLine
<1>4. /\ p[n + 1] \in Instructions /\ a \in Nat /\ b \in Nat /\ b <= Len(list)
      /\ Stands(list, a, Line(p[n + 1]))
    BY <1>2, <1>3, LinePlace
<1>5. Len(list) = last /\ last \in Nat
    BY <1>1, ShownCell
<1>6. program' \in Seq(Instructions) /\ Built \in Instructions
    <2>1. program' \in Seq(Instructions)
        BY DEF PlaceInv, ListInv
    <2>2. Len(Append(program, Built)) = n + 1 /\ Append(program, Built)[n + 1] = Built
        BY <1>2
    <2>3. n + 1 \in 1 .. Len(program') /\ program'[n + 1] = Built
        BY <1>1, <1>2, <2>2
    <2> QED
        BY <2>1, <2>3, ElementOfSeq
<1>7. Lines(program') = SeenTokens'
    <2>1. AtLine'
        <3>1. ListInv' /\ Place' /\ todo' = <<>>
            BY <1>1, <1>3 DEF PlaceInv
        <3> QED
            BY <3>1, AtLineNext
    <2> QED
        BY <2>1 DEF AtLine
<1>8. Lines(program) \in Seq(Words) /\ Lines(program') = Lines(program) \o line /\ line \in Seq(Words)
    BY <1>1, <1>2, <1>6, LinesAppend, LineFacts
<1>9. Len(Lines(program)) = a
    <2>1. program = First(p, n)
        BY <1>2 DEF ReadSoFar
    <2> QED
        BY <2>1 DEF LineStart
<1> DEFINE W == Words
           u == Lines(program)
<1> HIDE DEF W, u, line, a, b, list
<1>10. /\ u \in Seq(W) /\ line \in Seq(W) /\ SeenTokens' = u \o line /\ Len(u) = a
    BY <1>7, <1>8, <1>9 DEF W, u
<1>11. /\ Len(line) \in Nat /\ Len(u \o line) = a + Len(line)
       /\ \A j \in 1 .. Len(line) : (u \o line)[a + j] = line[j]
    <2>1. Len(line) \in Nat /\ Len(u) \in Nat
        BY <1>10, LenProperties
    <2>2. /\ Len(u \o line) = Len(u) + Len(line)
          /\ \A j \in 1 .. Len(u) + Len(line) :
                (u \o line)[j] = IF j <= Len(u) THEN u[j] ELSE line[j - Len(u)]
        BY <1>10, ConcatProperties
    <2>3. \A j \in 1 .. Len(line) : a + j \in 1 .. a + Len(line) /\ ~ (a + j <= a) /\ (a + j) - a = j
        BY <1>4, <2>1
    <2> QED
        BY <1>10, <2>1, <2>2, <2>3
<1>12. /\ Len(SeenTokens') = b
       /\ \A c \in 1 .. b : SeenTokens'[c] = list[c]
    <2>1. SeenTokens' = [c \in 1 .. b |-> Seen(tokens[c])]
        BY <1>1, <1>3 DEF SeenTokens
    <2>2. \A c \in 1 .. last : Seen(tokens[c]) = list[c]
        BY <1>1 DEF Follows, Listed, list
    <2>3. \A c \in 1 .. b : c \in 1 .. last
        BY <1>4, <1>5
    <2> QED
        BY <1>4, <2>1, <2>2, <2>3
<1>13. Stands(list, a, line)
    <2>1. a + Len(line) = b
        BY <1>10, <1>11, <1>12
    <2>2. a + Len(line) <= Len(list)
        BY <1>4, <2>1
    <2>3. ASSUME NEW j \in 1 .. Len(line) PROVE list[a + j] = line[j]
        <3>1. a + j \in 1 .. b
            BY <1>4, <1>11, <2>1
        <3>2. SeenTokens'[a + j] = list[a + j]
            BY <1>12, <3>1
        <3>3. SeenTokens'[a + j] = line[j]
            BY <1>10, <1>11
        <3> QED
            BY <3>2, <3>3
    <2> QED
        BY <2>2, <2>3 DEF Stands
<1>14. Built = p[n + 1]
    <2>1. Stands(list, a, Line(Built))
        BY <1>13 DEF line
    <2> QED
        BY <1>4, <1>5, <1>6, <2>1, OneInstruction
<1>15. program' = First(p, n + 1)
    <2>1. program = First(p, n)
        BY <1>2 DEF ReadSoFar
    <2>2. First(p, n + 1) = Append(First(p, n), p[n + 1])
        BY <1>2, <1>3, FirstFacts
    <2>3. program' = Append(program, p[n + 1])
        BY <1>1, <1>14
    <2> HIDE DEF n
    <2> QED
        BY <2>1, <2>2, <2>3, Zenon
<1>16. Len(program') = n + 1
    BY <1>1, <1>2
<1>17. InStep(p)'
    <2>1. ReadSoFar(p)'
        BY <1>1, <1>2, <1>3, <1>15, <1>16 DEF ReadSoFar
    <2>2. BetweenLines(p)'
        BY <1>1, <1>3, <1>16 DEF BetweenLines, b
    <2> QED
        BY <2>1, <2>2 DEF InStep
<1> QED
    BY <1>1, <1>17, KeepsStep

\* The parser returns after as many instructions as were counted.
LEMMA FollowsReturn ==
    ASSUME NEW p \in Seq(Instructions), Reading, Follows(p), Return
    PROVE  Follows(p)'
<1>1. /\ pc = "parse" /\ pc' = "done" /\ todo = <<>> /\ Len(program) >= nb_instructions
      /\ UNCHANGED <<tokens, nb_instructions, last, program>>
    BY DEF Return
<1>2. ReadSoFar(p)
    BY <1>1 DEF Follows, InStep
<1>3. Len(program) \in Nat /\ nb_instructions \in Nat
    BY LenProperties DEF Reading, PlaceInv, ListInv
<1>4. Len(program) = nb_instructions
    BY <1>1, <1>2, <1>3 DEF ReadSoFar
<1>5. nb_instructions <= Len(p) /\ program = First(p, nb_instructions)
    BY <1>2, <1>4 DEF ReadSoFar
<1>6. Listed(p, last)
    BY <1>1 DEF Follows
<1>7. Listed(p, last)'
    BY <1>1, <1>6 DEF Listed
<1> QED
    BY <1>1, <1>5, <1>7 DEF Follows

\* A step that changes nothing of the parse.
LEMMA FollowsStays ==
    ASSUME NEW p, Follows(p), FreeAsm \/ UNCHANGED vars
    PROVE  Follows(p)'
<1>1. /\ UNCHANGED <<tokens, token_index, nb_instructions, last, program, todo>>
      /\ (pc = "done" /\ pc' = "freed") \/ pc' = pc
    BY DEF FreeAsm, vars
<1>2. /\ Listed(p, IF pc = "start" THEN token_index ELSE last)'
         = Listed(p, IF pc = "start" THEN token_index ELSE last)
      /\ InStep(p)' = InStep(p)
    <2>1. (pc' = "start") = (pc = "start")
        BY <1>1
    <2> QED
        BY <1>1, <2>1 DEF Listed, InStep, ReadSoFar, BetweenLines, InLine, Behind
<1> QED
    BY <1>1, <1>2 DEF Follows

\* Every step of the parser.
LEMMA FollowsNext ==
    ASSUME NEW p \in Seq(Instructions), Reading, Follows(p), [Next]_vars
    PROVE  Reading' /\ Follows(p)'
<1>1. Reading'
    BY EndStep, PlaceNext DEF Reading
<1> SUFFICES Follows(p)'
    BY <1>1
<1>2. CASE Start
    BY <1>2, FollowsStart
<1>3. CASE ReadWild \/ NoParser \/ OperandWrong
    BY <1>3, FollowsRefusal
<1>4. CASE ParseOp \/ ParseJmp \/ ParseCall
    BY <1>4, FollowsBegin
<1>5. CASE Callee \/ Expect
    BY <1>5, FollowsRefusal, FollowsFound
<1>6. CASE OperandImm \/ OperandFlag \/ OperandIndexed \/ CloseOperand
    BY <1>6, FollowsFound
<1>7. CASE Store
    BY <1>1, <1>7, FollowsStore DEF Reading
<1>8. CASE Return
    BY <1>8, FollowsReturn
<1>9. CASE FreeAsm \/ UNCHANGED vars
    BY <1>9, FollowsStays
<1> QED
    BY <1>1, <1>2, <1>3, <1>4, <1>5, <1>6, <1>7, <1>8, <1>9 DEF Next, Parse

LEMMA FollowsInit ==
    ASSUME NEW p, Entry, nb_instructions >= 1, Listed(p, token_index)
    PROVE  Follows(p)
BY DEF Entry, Follows

(***************************************************************************)
(* A list that is the listing of a program p, with nothing behind it, is   *)
(* read as p up to the count of instructions, and is refused, or read      *)
(* beyond its tokens, only when the count is larger than p has             *)
(* (parser_weeperVM.c:170).                                                *)
(***************************************************************************)
THEOREM ReadsListing ==
    ASSUME NEW p \in Seq(Instructions)
    PROVE  Spec /\ Listed(p, token_index) => []Follows(p)
<1>1. Init /\ Listed(p, token_index) => Reading /\ Follows(p)
    <2> SUFFICES ASSUME Init, Listed(p, token_index) PROVE Reading /\ Follows(p)
        OBVIOUS
    <2>1. Reading
        BY EndInit, PlaceInit DEF Reading
    <2>2. nb_instructions >= 1
        BY ListsAssumption DEF Init
    <2> QED
        BY <2>1, <2>2, FollowsInit DEF Init
<1>2. Reading /\ Follows(p) /\ [Next]_vars => (Reading /\ Follows(p))'
    BY FollowsNext
<1> QED
    BY <1>1, <1>2, PTL DEF Spec
=============================================================================
