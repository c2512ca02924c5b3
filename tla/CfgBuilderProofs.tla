-------------------------- MODULE CfgBuilderProofs --------------------------
(***************************************************************************)
(* The theorems about create_graph, for every set of programs.             *)
(***************************************************************************)
EXTENDS CfgBuilder, FiniteSetTheorems, SequenceTheorems, TLAPS

-----------------------------------------------------------------------------
(***************************************************************************)
(* A nonempty set of naturals has a least element.                         *)
(***************************************************************************)
LEMMA NatHasLeast ==
    ASSUME NEW S \in SUBSET Nat, S # {}
    PROVE  \E m \in S : \A x \in S : m <= x
<1>1. \E m \in S : \A x \in S : ~ (<<x, m>> \in OpToRel(<, Nat))
    BY WFMin, NatLessThanWellFounded, Zenon
<1>2. \E m \in S : \A x \in S : ~ (x < m)
    BY <1>1, Zenon DEF OpToRel
<1> QED
    BY <1>2

(***************************************************************************)
(* What is known of an instruction of a program, and of one that           *)
(* create_graph is called with.                                            *)
(***************************************************************************)
LEMMA InstrFacts ==
    ASSUME NEW p, IsProgram(p), NEW k \in Offsets(p)
    PROVE  /\ p.index \in Nat \ {0}
           /\ Kind(p, k) \in Kinds
           /\ Target(p, k) \in Nat
<1>1. p.code[k] \in [kind : Kinds, target : Nat]
    BY DEF IsProgram
<1> QED
    BY <1>1 DEF IsProgram, Kind, Target, Offsets

LEMMA TargetFacts ==
    ASSUME NEW p, IsBuildable(p), NEW k \in Offsets(p)
    PROVE  /\ k + 1 \in 1 .. p.index
           /\ IsJump(p, k) => Target(p, k) \in 0 .. p.index
<1>1. Target(p, k) \in Nat /\ p.index \in Nat
    BY InstrFacts DEF IsBuildable
<1> QED
    BY <1>1 DEF IsBuildable, StartsInside, Offsets

(***************************************************************************)
(* The leaders are offsets or follow the last one, and the entry is one.   *)
(***************************************************************************)
LEMMA LeaderFacts ==
    ASSUME NEW p, IsBuildable(p)
    PROVE  /\ Leaders(p) \in SUBSET (0 .. p.index)
           /\ 0 \in Leaders(p)
           /\ \A k \in Offsets(p) : IsJump(p, k) => Target(p, k) \in Leaders(p)
           /\ \A k \in Offsets(p) : Kind(p, k) = "ATM_CONDJMP" => k + 1 \in Leaders(p)
           /\ IsFiniteSet(Leaders(p)) /\ Cardinality(Leaders(p)) \in Nat
<1>1. p.index \in Nat \ {0}
    BY DEF IsBuildable, StartsInside, IsProgram
<1>2. Leaders(p) \in SUBSET (0 .. p.index)
    BY <1>1, TargetFacts DEF Leaders
<1>3. IsFiniteSet(Leaders(p))
    <2>1. IsFiniteSet(0 .. p.index)
        BY <1>1, FS_Interval
    <2> QED
        BY <2>1, <1>2, FS_Subset
<1> QED
    BY <1>2, <1>3, FS_CardinalityType DEF Leaders

(***************************************************************************)
(* A block ends with an instruction, which the next leader follows or the  *)
(* end of the program.                                                     *)
(***************************************************************************)
LEMMA BlockEndFacts ==
    ASSUME NEW p, IsBuildable(p), NEW l \in Leaders(p)
    PROVE  /\ BlockEnd(p, l) \in Offsets(p)
           /\ BlockEnd(p, l) = p.index - 1 \/ BlockEnd(p, l) + 1 \in Leaders(p)
           /\ \A m \in Leaders(p) : m > l => BlockEnd(p, l) < m
           /\ l <= BlockEnd(p, l) \/ l = p.index
           /\ l = p.index => BlockEnd(p, l) = p.index - 1
<1>0. /\ p.index \in Nat \ {0} /\ l \in Nat
      /\ \A k \in Leaders(p) : k \in Nat /\ k <= p.index
    BY LeaderFacts DEF IsBuildable, StartsInside, IsProgram
<1> DEFINE later == {m \in Leaders(p) : m > l}
<1>1. CASE later = {}
    <2>1. \A e : IsBlockEnd(p, l, e) <=> e = p.index - 1
        BY <1>1 DEF IsBlockEnd
    <2>2. p.index - 1 \in -1 .. p.index - 1
        BY <1>0
    <2>3. BlockEnd(p, l) = p.index - 1
        BY <2>1, <2>2 DEF BlockEnd
    <2> QED
        BY <1>0, <1>1, <2>3 DEF Offsets
<1>2. CASE later # {}
    <2>1. PICK m \in later : \A x \in later : m <= x
        <3>1. later \in SUBSET Nat
            BY <1>0
        <3> HIDE DEF later
        <3> QED
            BY <1>2, <3>1, NatHasLeast
    <2>2. m \in Nat /\ m > 0 /\ m <= p.index
        BY <1>0, <2>1
    <2>3. m - 1 \in -1 .. p.index - 1 /\ IsBlockEnd(p, l, m - 1)
        BY <1>0, <1>2, <2>1, <2>2 DEF IsBlockEnd
    <2>4. BlockEnd(p, l) \in -1 .. p.index - 1 /\ IsBlockEnd(p, l, BlockEnd(p, l))
        BY <2>3 DEF BlockEnd
    <2>5. BlockEnd(p, l) + 1 \in later /\ \A x \in later : BlockEnd(p, l) < x
        BY <1>2, <2>4 DEF IsBlockEnd
    <2> QED
        BY <1>0, <2>4, <2>5 DEF Offsets
<1> QED
    BY <1>1, <1>2

(***************************************************************************)
(* The edge array has a cell for each leader but the entry, at least.      *)
(***************************************************************************)
LEMMA CapacityFacts ==
    ASSUME NEW p, IsBuildable(p)
    PROVE  /\ EdgeCapacity(p) \in Int
           /\ EdgeCapacity(p) >= Cardinality(Leaders(p)) - 1
<1> DEFINE J == {l \in Leaders(p) \ {0} : Kind(p, l - 1) = "ATM_JMP"}
<1>1. Cardinality(J) \in Nat
    <2>1. J \in SUBSET Leaders(p)
        OBVIOUS
    <2> HIDE DEF J
    <2> QED
        BY <2>1, LeaderFacts, FS_Subset, FS_CardinalityType
<1> QED
    BY <1>1, LeaderFacts DEF EdgeCapacity

(***************************************************************************)
(* What follows a block are blocks, and the blocks that can be reached are *)
(* closed under that.                                                      *)
(***************************************************************************)
LEMMA BlockNextFacts ==
    ASSUME NEW p, IsBuildable(p), NEW l \in Leaders(p)
    PROVE  BlockNext(p, l) \subseteq Leaders(p)
<1> DEFINE e == BlockEnd(p, l)
<1>1. e \in Offsets(p) /\ (e = p.index - 1 \/ e + 1 \in Leaders(p))
    BY BlockEndFacts
<1>2. Kind(p, e) \in Kinds /\ p.index \in Nat \ {0}
    BY <1>1, InstrFacts DEF IsBuildable
<1>3. e + 1 \in Offsets(p) => e + 1 \in Leaders(p)
    BY <1>1, <1>2 DEF Offsets
<1>4. /\ IsJump(p, e) => Target(p, e) \in Leaders(p)
      /\ Kind(p, e) = "ATM_CONDJMP" => e + 1 \in Leaders(p)
    BY <1>1, LeaderFacts
<1> QED
    BY <1>2, <1>3, <1>4 DEF BlockNext, InstrNext, IsJump, Kinds

LEMMA ReachableBlocks ==
    ASSUME NEW p, IsBuildable(p)
    PROVE  /\ Reachable(p) \subseteq Leaders(p)
           /\ BlockClosed(p, Reachable(p))
<1>1. Reachable(p) \subseteq Leaders(p)
    BY DEF Reachable
<1>2. 0 \in Reachable(p)
    BY LeaderFacts DEF Reachable, BlockClosed
<1>3. ASSUME NEW l \in Reachable(p), NEW m \in BlockNext(p, l)
      PROVE  m \in Reachable(p)
    <2>1. m \in Leaders(p)
        BY <1>1, <1>3, BlockNextFacts
    <2>2. ASSUME NEW S \in SUBSET Leaders(p), BlockClosed(p, S)
          PROVE  m \in S
        BY <1>3, <2>2 DEF Reachable, BlockClosed
    <2> QED
        BY <2>1, <2>2 DEF Reachable
<1> QED
    BY <1>1, <1>2, <1>3 DEF BlockClosed

(***************************************************************************)
(* When every jump ends its block, the flow runs through a block from its  *)
(* leader to its end.                                                      *)
(***************************************************************************)
LEMMA BlockInside ==
    ASSUME NEW p, IsBuildable(p), JumpsEndBlocks(p), NEW l \in Leaders(p),
           NEW k \in Block(p, l), k # BlockEnd(p, l)
    PROVE  /\ k \in Offsets(p) /\ k + 1 \in Offsets(p) /\ k + 1 \in Block(p, l)
           /\ InstrNext(p, k) = {k + 1}
<1> DEFINE e == BlockEnd(p, l)
<1>1. /\ e \in Offsets(p) /\ l \in Nat /\ p.index \in Nat \ {0}
      /\ \A m \in Leaders(p) : m > l => e < m
    BY BlockEndFacts, LeaderFacts DEF IsBuildable, IsProgram, StartsInside
<1>2. k \in Int /\ l <= k /\ k < e /\ e <= p.index - 1
    BY <1>1 DEF Block, Offsets
<1>3. k \in Offsets(p) /\ k + 1 \in Offsets(p) /\ k + 1 \in Block(p, l)
    BY <1>1, <1>2 DEF Block, Offsets
<1>4. k + 1 \notin Leaders(p)
    <2> SUFFICES ASSUME k + 1 \in Leaders(p) PROVE FALSE
        OBVIOUS
    <2>1. k + 1 > l
        BY <1>1, <1>2
    <2>2. e < k + 1
        BY <1>1, <2>1
    <2> QED
        BY <1>1, <1>2, <2>2 DEF Offsets
<1>5. ~ IsJump(p, k)
    <2>1. k + 1 < p.index
        BY <1>1, <1>2 DEF Offsets
    <2> QED
        BY <1>3, <1>4, <2>1 DEF JumpsEndBlocks
<1> QED
    BY <1>3, <1>5 DEF InstrNext, IsJump

\* A leader is in its own block, but for one behind the last instruction.
LEMMA BlockStarts ==
    ASSUME NEW p, IsBuildable(p), NEW l \in Leaders(p)
    PROVE  /\ BlockEnd(p, l) \in Offsets(p)
           /\ l <= BlockEnd(p, l) \/ l = p.index
           /\ l < p.index => l \in Block(p, l)
<1>1. /\ BlockEnd(p, l) \in Offsets(p)
      /\ l <= BlockEnd(p, l) \/ l = p.index
    BY BlockEndFacts
<1>2. l \in 0 .. p.index /\ p.index \in Nat \ {0}
    BY LeaderFacts DEF IsBuildable, IsProgram, StartsInside
<1> QED
    BY <1>1, <1>2 DEF Block, Offsets

(***************************************************************************)
(* Then, too, what can be executed is in the blocks that can be reached.   *)
(***************************************************************************)
LEMMA FlowCovered ==
    ASSUME NEW p, IsBuildable(p), JumpsEndBlocks(p)
    PROVE  LET S == UNION {Block(p, l) : l \in Reachable(p)}
           IN  S \in SUBSET Offsets(p) /\ Executable(p) \subseteq S
<1> DEFINE S == UNION {Block(p, l) : l \in Reachable(p)}
<1>0. /\ p.index \in Nat \ {0} /\ 0 \in Reachable(p)
      /\ Leaders(p) \in SUBSET (0 .. p.index) /\ Reachable(p) \subseteq Leaders(p)
      /\ \A l \in Reachable(p) : BlockNext(p, l) \subseteq Reachable(p)
    BY LeaderFacts, ReachableBlocks DEF IsBuildable, IsProgram, StartsInside, BlockClosed
<1>1. \A l \in Leaders(p) : /\ BlockEnd(p, l) \in Offsets(p)
                            /\ l <= BlockEnd(p, l) \/ l = p.index
                            /\ l < p.index => l \in Block(p, l)
    BY BlockStarts
<1>2. S \in SUBSET Offsets(p)
    <2>1. ASSUME NEW l \in Reachable(p), NEW k \in Block(p, l) PROVE k \in Offsets(p)
        <3>1. l \in 0 .. p.index /\ BlockEnd(p, l) \in Offsets(p)
            BY <1>0, <1>1
        <3> QED
            BY <1>0, <2>1, <3>1 DEF Block, Offsets
    <2> QED
        BY <2>1
<1>3. FlowClosed(p, S)
    <2>1. 0 \in S
        <3>1. 0 \in Block(p, 0)
            BY <1>0, <1>1
        <3> QED
            BY <1>0, <3>1
    <2>2. ASSUME NEW l \in Reachable(p), NEW k \in Block(p, l),
                 NEW m \in InstrNext(p, k) \cap Offsets(p)
          PROVE  m \in S
        <3>1. CASE k = BlockEnd(p, l)
            <4>1. m \in Reachable(p) /\ m \in Offsets(p)
                BY <1>0, <2>2, <3>1 DEF BlockNext
            <4>2. m < p.index
                BY <1>0, <4>1 DEF Offsets
            <4> QED
                BY <1>0, <1>1, <4>1, <4>2
        <3>2. CASE k # BlockEnd(p, l)
            BY <1>0, <2>2, <3>2, BlockInside
        <3> QED
            BY <3>1, <3>2
    <2> QED
        BY <2>1, <2>2 DEF FlowClosed
<1>4. Executable(p) \subseteq S
    BY <1>2, <1>3 DEF Executable
<1> QED
    BY <1>2, <1>4

(***************************************************************************)
(* When, besides, the end of the program is not a block that inherits the  *)
(* links of a jump before it, the blocks that can be reached hold the      *)
(* instructions that can be executed and no other.                         *)
(***************************************************************************)
LEMMA FlowKept ==
    ASSUME NEW p, IsBuildable(p), JumpsEndBlocks(p),
           EndsPlainly(p) \/ p.index \notin Leaders(p)
    PROVE  UNION {Block(p, l) : l \in Reachable(p)} = Executable(p)
<1> DEFINE S == UNION {Block(p, l) : l \in Reachable(p)}
<1>0. /\ p.index \in Nat \ {0} /\ 0 \in Reachable(p)
      /\ Leaders(p) \in SUBSET (0 .. p.index) /\ Reachable(p) \subseteq Leaders(p)
      /\ \A l \in Reachable(p) : BlockNext(p, l) \subseteq Reachable(p)
    BY LeaderFacts, ReachableBlocks DEF IsBuildable, IsProgram, StartsInside, BlockClosed
<1>1. \A l \in Leaders(p) : /\ BlockEnd(p, l) \in Offsets(p)
                            /\ l <= BlockEnd(p, l) \/ l = p.index
                            /\ l < p.index => l \in Block(p, l)
    BY BlockStarts
<1>2. S \in SUBSET Offsets(p) /\ Executable(p) \subseteq S
    BY FlowCovered
<1>3. ASSUME NEW T \in SUBSET Offsets(p), FlowClosed(p, T)
      PROVE  S \subseteq T
    <2> DEFINE R == {l \in Leaders(p) : l \in T \/ l = p.index}
    <2>1. ASSUME NEW l \in Leaders(p), l \in T
          PROVE  Block(p, l) \subseteq T
        <3> DEFINE Missed == Block(p, l) \ T
        <3> SUFFICES ASSUME Missed # {} PROVE FALSE
            OBVIOUS
        <3>0. l \in Nat /\ BlockEnd(p, l) \in Int
            BY <1>0, <1>1 DEF Offsets
        <3>1. PICK m \in Missed : \A x \in Missed : m <= x
            <4>1. Missed \in SUBSET Nat
                BY <3>0 DEF Block
            <4> HIDE DEF Missed
            <4> QED
                BY <4>1, NatHasLeast
        <3>2. m \in Nat /\ l < m /\ m <= BlockEnd(p, l) /\ m \notin T
            BY <2>1, <3>0, <3>1 DEF Block
        <3>3. m - 1 \in Block(p, l) /\ m - 1 # BlockEnd(p, l) /\ m - 1 \notin Missed
            BY <3>0, <3>1, <3>2 DEF Block
        <3>4. InstrNext(p, m - 1) = {m} /\ m \in Offsets(p)
            <4>1. InstrNext(p, m - 1) = {m - 1 + 1} /\ m - 1 + 1 \in Offsets(p)
                BY <3>3, BlockInside
            <4> QED
                BY <3>2, <4>1
        <3> QED
            BY <1>3, <3>2, <3>3, <3>4 DEF FlowClosed
    <2>2. BlockClosed(p, R)
        <3>1. 0 \in R
            BY <1>0, <1>3 DEF FlowClosed
        <3>2. ASSUME NEW l \in R, NEW m \in BlockNext(p, l) PROVE m \in R
            <4>1. m \in Leaders(p)
                BY <3>2, BlockNextFacts
            <4>2. CASE l \in T
                <5>1. BlockEnd(p, l) \in T
                    <6>1. l # p.index /\ l \in 0 .. p.index
                        BY <1>0, <4>2 DEF Offsets
                    <6>2. l <= BlockEnd(p, l) /\ BlockEnd(p, l) \in Int /\ l \in Int
                        BY <1>0, <1>1, <6>1 DEF Offsets
                    <6>3. BlockEnd(p, l) \in Block(p, l)
                        BY <6>2 DEF Block
                    <6> QED
                        BY <2>1, <4>2, <6>3
                <5>2. m \in Offsets(p) => m \in T
                    BY <1>3, <3>2, <5>1 DEF FlowClosed, BlockNext
                <5>3. m \in Offsets(p) \/ m = p.index
                    BY <1>0, <4>1 DEF Offsets
                <5> QED
                    BY <4>1, <5>2, <5>3
            <4>3. CASE l = p.index
                <5>1. EndsPlainly(p)
                    BY <4>3
                <5>2. BlockEnd(p, l) = p.index - 1
                    BY <4>3, BlockEndFacts
                <5>3. m \in {p.index - 1 + 1} \cap Offsets(p)
                    BY <3>2, <5>1, <5>2 DEF BlockNext, InstrNext, EndsPlainly
                <5> QED
                    BY <1>0, <5>3 DEF Offsets
            <4> QED
                BY <4>2, <4>3
        <3> QED
            BY <3>1, <3>2 DEF BlockClosed
    <2>3. Reachable(p) \subseteq R
        BY <2>2 DEF Reachable
    <2>4. ASSUME NEW l \in Reachable(p) PROVE Block(p, l) \subseteq T
        <3>1. CASE l \in T
            BY <1>0, <2>1, <3>1
        <3>2. CASE l = p.index
            <4>1. BlockEnd(p, l) \in Offsets(p)
                BY <1>0, <1>1
            <4> QED
                BY <1>0, <3>2, <4>1 DEF Block, Offsets
        <3> QED
            BY <2>3, <3>1, <3>2
    <2> QED
        BY <2>4
<1>4. S \subseteq Executable(p)
    BY <1>2, <1>3 DEF Executable
<1> QED
    BY <1>2, <1>4

-----------------------------------------------------------------------------
(***************************************************************************)
(* The inductive invariant.  Seen is what the search has marked, which the *)
(* finished graph only keeps as its links; a block whose call waits on its *)
(* true branch has the link to its target, any other block seen has all    *)
(* its links.                                                              *)
(***************************************************************************)
Seen == IF pc = "done" THEN Linked ELSE visited

\* The block the pending call is about to mark, if it is not marked already.
Pending == IF pc = "call" THEN {arg} ELSE {}

Waits(l) == \E k \in 1 .. Len(stack) : stack[k].node = l /\ stack[k].branch = "true"

LinksOf(l) == IF Waits(l) THEN <<Target(ir, LastInstr(l))>> ELSE Follows(l)

\* The pending calls are on distinct marked blocks.
StackInv ==
    \A k \in 1 .. Len(stack) :
       /\ stack[k].node \in visited
       /\ stack[k].branch = "true" => IsJump(ir, LastInstr(stack[k].node))
       /\ \A j \in 1 .. Len(stack) : stack[j].node = stack[k].node => j = k

\* Where the control is.
ControlInv ==
    /\ pc \in {"call", "return", "done"}
    /\ pc = "call" => IF stack = <<>> THEN visited = {} /\ arg = 0
                      ELSE arg \in RangeOf(succs[Top.node])
    /\ pc = "done" => stack = <<>>
    /\ pc # "call" => Seen # {}
    /\ Seen # {} => 0 \in Seen /\ header = 0

\* The links, and what they say of the blocks seen.
LinksInv ==
    /\ \A l \in Nodes : succs[l] = IF l \in Seen THEN LinksOf(l) ELSE <<>>
    /\ \A l \in Seen : RangeOf(succs[l]) \subseteq Seen \cup Pending
    /\ \A m \in Seen \ {0} : \E l \in Nodes : m \in RangeOf(succs[l])
    /\ Seen \cup Pending \subseteq Reachable(ir)

\* Predecessors mirror successors.
MirrorInv ==
    \A l, m \in Nodes :
       Cardinality(Occurs(preds[m], l)) = Cardinality(Occurs(succs[l], m))

IInv == TypeOK /\ StackInv /\ ControlInv /\ LinksInv /\ MirrorInv /\ EdgeLedger

-----------------------------------------------------------------------------
\* The cells of a sequence, and of a sequence with one more.
LEMMA RangeFacts ==
    /\ RangeOf(<<>>) = {}
    /\ \A a : RangeOf(<<a>>) = {a}
    /\ \A a, b : RangeOf(<<a, b>>) = {a, b}
<1>1. RangeOf(<<>>) = {}
    BY DEF RangeOf
<1>2. ASSUME NEW a PROVE RangeOf(<<a>>) = {a}
    BY DEF RangeOf
<1>3. ASSUME NEW a, NEW b PROVE RangeOf(<<a, b>>) = {a, b}
    <2>1. /\ Len(<<a, b>>) = 2 /\ <<a, b>>[1] = a /\ <<a, b>>[2] = b
          /\ 1 .. 2 = {1, 2}
        OBVIOUS
    <2> QED
        BY <2>1 DEF RangeOf
<1> QED
    BY <1>1, <1>2, <1>3

LEMMA RangeAppend ==
    ASSUME NEW s \in Seq(Nodes), NEW x \in Nodes, NEW t, t = Append(s, x)
    PROVE  RangeOf(t) = RangeOf(s) \cup {x}
<1>1. /\ Len(s) \in Nat /\ Len(t) = Len(s) + 1
      /\ \A k \in 1 .. Len(s) : t[k] = s[k]
      /\ t[Len(s) + 1] = x
    BY AppendProperties, LenProperties
<1>2. 1 .. Len(t) = (1 .. Len(s)) \cup {Len(s) + 1}
    BY <1>1
<1> QED
    BY <1>1, <1>2 DEF RangeOf

LEMMA AppendPair ==
    \A a, c : Append(<<a>>, c) = <<a, c>>
<1> SUFFICES ASSUME NEW a, NEW c PROVE Append(<<a>>, c) = <<a, c>>
    OBVIOUS
<1> DEFINE s == Append(<<a>>, c)
<1>1. <<a>> \in Seq({a, c}) /\ Len(<<a>>) = 1 /\ <<a>>[1] = a
    OBVIOUS
<1>2. s \in Seq({a, c}) /\ Len(s) = 2 /\ s[1] = a /\ s[2] = c
    BY <1>1, AppendProperties
<1>3. /\ <<a, c>> \in Seq({a, c}) /\ Len(<<a, c>>) = 2
      /\ <<a, c>>[1] = a /\ <<a, c>>[2] = c
    OBVIOUS
<1>4. 1 .. 2 = {1, 2}
    OBVIOUS
<1> QED
    BY <1>2, <1>3, <1>4, SeqEqual

LEMMA RangeType ==
    ASSUME NEW S, NEW s \in Seq(S)
    PROVE  RangeOf(s) \subseteq S
BY ElementOfSeq DEF RangeOf

\* How often a node occurs in a list of links, and after a link is appended.
LEMMA OccursAppend ==
    ASSUME NEW S, NEW s \in Seq(S), NEW x \in S, NEW y
    PROVE  /\ Cardinality(Occurs(s, y)) \in Nat
           /\ Cardinality(Occurs(Append(s, x), y)) =
                 Cardinality(Occurs(s, y)) + (IF x = y THEN 1 ELSE 0)
<1> DEFINE t == Append(s, x)
           O == Occurs(s, y)
<1>1. /\ Len(s) \in Nat /\ Len(t) = Len(s) + 1
      /\ \A k \in 1 .. Len(s) : t[k] = s[k]
      /\ t[Len(s) + 1] = x
    BY AppendProperties, LenProperties
<1>2. IsFiniteSet(O) /\ Cardinality(O) \in Nat
    <2>1. /\ IsFiniteSet(1 .. Len(s))
          /\ Cardinality(1 .. Len(s)) = IF 1 > Len(s) THEN 0 ELSE Len(s) - 1 + 1
        <3> Len(s) \in Int /\ 1 \in Int
            BY <1>1
        <3> QED
            BY FS_Interval, Zenon
    <2>2. O \in SUBSET (1 .. Len(s))
        BY DEF Occurs
    <2> QED
        BY <2>1, <2>2, FS_Subset, FS_CardinalityType
<1>3. CASE x = y
    <2>1. Occurs(t, y) = O \cup {Len(s) + 1}
        BY <1>1, <1>3 DEF Occurs
    <2>2. Len(s) + 1 \notin O
        BY <1>1 DEF Occurs
    <2> QED
        BY <1>2, <1>3, <2>1, <2>2, FS_AddElement
<1>4. CASE x # y
    <2>1. Occurs(t, y) = O
        BY <1>1, <1>4 DEF Occurs
    <2> QED
        BY <1>2, <1>4, <2>1
<1> QED
    BY <1>3, <1>4

\* What is known of the end of a block and of the blocks that follow it.
LEMMA BlockFacts ==
    ASSUME IsBuildable(ir), NEW l \in Nodes
    PROVE  LET e == LastInstr(l)
           IN  /\ e \in Offsets(ir) /\ Kind(ir, e) \in Kinds
               /\ IsJump(ir, e) => Target(ir, e) \in Nodes
               /\ Kind(ir, e) = "ATM_CONDJMP" => e + 1 \in Nodes
               /\ ~ IsLast(e) => e + 1 \in Nodes
               /\ Follows(l) \in Seq(Nodes) /\ Len(Follows(l)) <= 2
               /\ RangeOf(Follows(l)) = BlockNext(ir, l)
<1> DEFINE e == LastInstr(l)
<1>1. /\ e \in Offsets(ir) /\ Kind(ir, e) \in Kinds
      /\ ~ IsLast(e) => e + 1 \in Nodes
    BY BlockEndFacts, InstrFacts DEF LastInstr, Nodes, IsLast, IsBuildable
<1>2. /\ IsJump(ir, e) => Target(ir, e) \in Nodes
      /\ Kind(ir, e) = "ATM_CONDJMP" => e + 1 \in Nodes
    BY <1>1, LeaderFacts DEF Nodes
<1>3. Follows(l) \in Seq(Nodes) /\ Len(Follows(l)) <= 2
    BY <1>1, <1>2 DEF Follows, IsJump
<1>4. IsLast(e) => e + 1 \notin Offsets(ir)
    BY DEF IsLast, Offsets, IsBuildable, IsProgram
<1>5. ~ IsLast(e) => e + 1 \in Offsets(ir)
    BY <1>1 DEF IsLast, Offsets, IsBuildable, IsProgram
<1>6. BlockNext(ir, l) = InstrNext(ir, e)
    BY DEF BlockNext, LastInstr
<1>7. RangeOf(Follows(l)) = InstrNext(ir, e)
    <2>1. CASE Kind(ir, e) = "ATM_CONDJMP"
        BY <2>1, RangeFacts DEF Follows, InstrNext
    <2>2. CASE Kind(ir, e) = "ATM_JMP"
        BY <2>2, RangeFacts DEF Follows, InstrNext
    <2>3. CASE Kind(ir, e) = "ATM_OTHER"
        BY <2>3, <1>4, <1>5, RangeFacts DEF Follows, InstrNext
    <2> QED
        BY <1>1, <2>1, <2>2, <2>3 DEF Kinds
<1> QED
    BY <1>1, <1>2, <1>3, <1>6, <1>7

\* The reachable blocks hold the entry and are closed under the flow.
LEMMA ReachableFacts ==
    ASSUME IsBuildable(ir)
    PROVE  /\ 0 \in Reachable(ir)
           /\ \A l \in Reachable(ir) : l \in Nodes /\ BlockNext(ir, l) \subseteq Reachable(ir)
<1>1. 0 \in Reachable(ir)
    BY LeaderFacts DEF Reachable, BlockClosed
<1>2. ASSUME NEW l \in Reachable(ir), NEW m \in BlockNext(ir, l)
      PROVE  l \in Nodes /\ m \in Reachable(ir)
    <2>1. l \in Leaders(ir)
        BY <1>2 DEF Reachable
    <2>2. m \in Leaders(ir)
        <3>1. m \in RangeOf(Follows(l)) /\ Follows(l) \in Seq(Nodes)
            BY <1>2, <2>1, BlockFacts DEF Nodes
        <3> QED
            BY <3>1, ElementOfSeq DEF RangeOf, Nodes
    <2>3. ASSUME NEW S \in SUBSET Leaders(ir), BlockClosed(ir, S)
          PROVE  m \in S
        BY <1>2, <2>3 DEF Reachable, BlockClosed
    <2> QED
        BY <2>1, <2>2, <2>3 DEF Reachable, Nodes
<1>3. \A l \in Reachable(ir) : l \in Nodes
    BY DEF Reachable, Nodes
<1> QED
    BY <1>1, <1>2, <1>3

-----------------------------------------------------------------------------
\* The stack without its innermost call.
LEMMA PopFacts ==
    ASSUME TypeOK, stack # <<>>
    PROVE  /\ Len(stack) \in Nat \ {0} /\ Len(Pop) = Len(stack) - 1
           /\ Pop \in Seq([node : Nodes, branch : {"true", "false", "next"}])
           /\ \A k \in 1 .. Len(stack) - 1 : Pop[k] = stack[k]
           /\ Top.node \in Nodes /\ Top.branch \in {"true", "false", "next"}
<1> DEFINE F == [node : Nodes, branch : {"true", "false", "next"}]
<1>1. stack \in Seq(F)
    BY DEF TypeOK
<1> HIDE DEF F
<1>2. Len(stack) \in Nat \ {0} /\ \A k \in 1 .. Len(stack) : stack[k] \in F
    BY <1>1, EmptySeq, ElementOfSeq
<1>3. /\ Pop \in Seq(F)
      /\ Len(Pop) = IF 1 <= Len(stack) - 1 THEN Len(stack) - 1 - 1 + 1 ELSE 0
      /\ \A k \in 1 .. Len(stack) - 1 - 1 + 1 : Pop[k] = stack[1 + k - 1]
    <2>1. 1 \in Int /\ Len(stack) - 1 \in Int
             /\ \A k \in 1 .. Len(stack) - 1 : stack[k] \in F
        BY <1>2
    <2> QED
        BY <2>1, SubSeqProperties DEF Pop
<1>4. Top \in F
    BY <1>2 DEF Top
<1>5. Len(Pop) = Len(stack) - 1
    <2>1. Len(stack) \in Nat \ {0}
        BY <1>2
    <2>2. 1 <= Len(stack) - 1 => Len(Pop) = Len(stack) - 1 - 1 + 1
        BY <1>3
    <2>3. ~ (1 <= Len(stack) - 1) => Len(Pop) = 0
        BY <1>3
    <2> QED
        BY <2>1, <2>2, <2>3
<1>6. \A k \in 1 .. Len(stack) - 1 : Pop[k] = stack[k]
    BY <1>2, <1>3
<1>7. Top.node \in Nodes /\ Top.branch \in {"true", "false", "next"}
    BY <1>4 DEF F
<1>8. Pop \in Seq([node : Nodes, branch : {"true", "false", "next"}])
    BY <1>3 DEF F
<1> QED
    BY <1>2, <1>5, <1>6, <1>7, <1>8

(***************************************************************************)
(* The step that all the calls share: node n, which is marked or is being  *)
(* marked, gets the link to x, and the search calls itself on x with the   *)
(* frame of n on top of the pending calls of other nodes.                  *)
(***************************************************************************)
LEMMA LinkStep ==
    ASSUME IInv, NEW n \in Nodes, NEW x \in BlockNext(ir, n),
           NEW b \in {"true", "false", "next"},
           NEW rest \in Seq([node : Nodes, branch : {"true", "false", "next"}]),
           \A k \in 1 .. Len(rest) : k <= Len(stack) /\ rest[k] = stack[k] /\ rest[k].node # n,
           \A k \in 1 .. Len(stack) : k <= Len(rest) \/ stack[k].node = n,
           b = "true" => IsJump(ir, LastInstr(n)),
           Append(succs[n], x) = IF b = "true" THEN <<Target(ir, LastInstr(n))>>
                                 ELSE Follows(n),
           pc # "done", n \in visited \cup Pending, Pending \subseteq {n},
           n \in visited \/ n = 0 \/ \E l \in Nodes : n \in RangeOf(succs[l]),
           ir' = ir, visited' = visited \cup {n}, header' = 0, 0 \in visited',
           LinkAndCall(n, x, Append(rest, Frame(n, b)))
    PROVE  /\ pc' = "call" /\ arg' = x /\ x \in Nodes /\ Len(stack') = Len(rest) + 1
           /\ stack' \in Seq([node : Nodes', branch : {"true", "false", "next"}])
           /\ succs' \in [Nodes' -> Seq(Nodes')] /\ \A l \in Nodes' : Len(succs'[l]) <= 2
           /\ preds' \in [Nodes' -> Seq(Nodes')]
           /\ StackInv' /\ ControlInv' /\ LinksInv' /\ MirrorInv'
<1> DEFINE F == [node : Nodes, branch : {"true", "false", "next"}]
<1>0. /\ IsBuildable(ir) /\ visited \in SUBSET Nodes
      /\ succs \in [Nodes -> Seq(Nodes)] /\ preds \in [Nodes -> Seq(Nodes)]
      /\ Nodes' = Nodes /\ Seen = visited
      /\ x \in RangeOf(Follows(n)) /\ x \in Nodes
    <2>1. /\ IsBuildable(ir) /\ visited \in SUBSET Nodes
          /\ succs \in [Nodes -> Seq(Nodes)] /\ preds \in [Nodes -> Seq(Nodes)]
          /\ Nodes' = Nodes /\ Seen = visited
        BY DEF IInv, TypeOK, Nodes, Seen
    <2>2. x \in RangeOf(Follows(n)) /\ Follows(n) \in Seq(Nodes)
        BY <2>1, BlockFacts
    <2> QED
        BY <2>1, <2>2, RangeType
<1>1. /\ pc' = "call" /\ arg' = x
      /\ stack' = Append(rest, Frame(n, b))
      /\ succs' = [succs EXCEPT ![n] = Append(@, x)]
      /\ preds' = [preds EXCEPT ![x] = Append(@, n)]
    <2>1. FindNode(x) = x /\ x # NULL
        <3>1. x \in Leaders(ir) /\ x \in Int
            BY <1>0, LeaderFacts DEF Nodes, Offsets
        <3> QED
            BY <3>1, NullAssumption DEF FindNode
    <2> QED
        BY <2>1 DEF LinkAndCall
<1>2. /\ stack' \in Seq(F) /\ Len(rest) \in Nat /\ Len(stack') = Len(rest) + 1
      /\ stack' # <<>>
      /\ \A k \in 1 .. Len(rest) : stack'[k] = rest[k]
      /\ stack'[Len(rest) + 1] = Frame(n, b)
      /\ Frame(n, b).node = n /\ Frame(n, b).branch = b
    <2>1. Frame(n, b) \in F /\ Frame(n, b).node = n /\ Frame(n, b).branch = b
        BY DEF Frame
    <2> HIDE DEF F
    <2>2. rest \in Seq(F)
        BY DEF F
    <2> QED
        BY <1>1, <2>1, <2>2, AppendProperties, LenProperties
<1>3. /\ succs' \in [Nodes -> Seq(Nodes)] /\ preds' \in [Nodes -> Seq(Nodes)]
      /\ succs'[n] = Append(succs[n], x)
      /\ \A l \in Nodes \ {n} : succs'[l] = succs[l]
      /\ preds'[x] = Append(preds[x], n)
      /\ \A l \in Nodes \ {x} : preds'[l] = preds[l]
    <2>1. Append(succs[n], x) \in Seq(Nodes) /\ Append(preds[x], n) \in Seq(Nodes)
        BY <1>0, AppendProperties
    <2> QED
        BY <1>0, <1>1, <2>1
<1>4. /\ Seen' = visited \cup {n}
      /\ Pending' = {x}
      /\ \A l \in Nodes : LastInstr(l)' = LastInstr(l) /\ Follows(l)' = Follows(l)
    BY <1>1 DEF Seen, Pending, LastInstr, Follows, IsLast
<1>5. /\ Waits(n)' <=> b = "true"
      /\ \A l \in Nodes \ {n} : Waits(l)' <=> Waits(l)
    <2>1. ASSUME NEW l
          PROVE  Waits(l)' <=> \/ l = n /\ b = "true"
                               \/ \E k \in 1 .. Len(rest) :
                                    rest[k].node = l /\ rest[k].branch = "true"
        <3>1. 1 .. Len(stack') = (1 .. Len(rest)) \cup {Len(rest) + 1}
            BY <1>2
        <3> QED
            BY <1>2, <3>1 DEF Waits
    <2>2. ASSUME NEW l \in Nodes \ {n}
          PROVE  Waits(l) <=> \E k \in 1 .. Len(rest) :
                                 rest[k].node = l /\ rest[k].branch = "true"
        <3>1. Len(stack) \in Nat /\ Len(rest) \in Nat
            BY <1>2, LenProperties DEF IInv, TypeOK
        <3>2. ASSUME NEW k \in 1 .. Len(stack), stack[k].node = l
              PROVE  k \in 1 .. Len(rest) /\ rest[k] = stack[k]
            BY <3>1, <3>2, <2>2
        <3>3. ASSUME NEW k \in 1 .. Len(rest)
              PROVE  k \in 1 .. Len(stack) /\ rest[k] = stack[k]
            BY <3>1, <3>3
        <3> QED
            BY <3>2, <3>3 DEF Waits
    <2> QED
        BY <2>1, <2>2
<1>6. \A l \in Nodes : succs'[l] = IF l \in Seen' THEN LinksOf(l)' ELSE <<>>
    <2> SUFFICES ASSUME NEW l \in Nodes
                 PROVE  succs'[l] = IF l \in Seen' THEN LinksOf(l)' ELSE <<>>
        OBVIOUS
    <2>1. LinksOf(l)' = IF Waits(l)' THEN <<Target(ir, LastInstr(l))>> ELSE Follows(l)
        BY <1>4 DEF LinksOf
    <2>2. CASE l = n
        BY <2>1, <2>2, <1>3, <1>4, <1>5
    <2>3. CASE l # n
        <3>1. succs[l] = IF l \in visited THEN LinksOf(l) ELSE <<>>
            BY <1>0 DEF IInv, LinksInv
        <3>2. LinksOf(l)' = LinksOf(l)
            BY <2>1, <2>3, <1>5 DEF LinksOf
        <3> QED
            BY <3>1, <3>2, <2>3, <1>3, <1>4
    <2> QED
        BY <2>2, <2>3
<1>7. \A l \in Nodes : Len(succs'[l]) <= 2
    <2> SUFFICES ASSUME NEW l \in Nodes PROVE Len(succs'[l]) <= 2
        OBVIOUS
    <2>1. Len(Follows(l)) <= 2 /\ Len(<<Target(ir, LastInstr(l))>>) = 1 /\ Len(<<>>) = 0
        BY <1>0, BlockFacts
    <2>2. LinksOf(l)' = <<Target(ir, LastInstr(l))>> \/ LinksOf(l)' = Follows(l)
        BY <1>4 DEF LinksOf
    <2>3. succs'[l] = LinksOf(l)' \/ succs'[l] = <<>>
        BY <1>6
    <2>4. \/ succs'[l] = <<Target(ir, LastInstr(l))>> \/ succs'[l] = Follows(l)
          \/ succs'[l] = <<>>
        BY <2>2, <2>3, Zenon
    <2>5. CASE succs'[l] = Follows(l)
        <3>1. Len(Follows(l)) <= 2
            BY <2>1
        <3> QED
            BY <3>1, <2>5, Zenon
    <2>6. CASE succs'[l] = <<Target(ir, LastInstr(l))>>
        <3>1. Len(<<Target(ir, LastInstr(l))>>) <= 2
            OBVIOUS
        <3> QED
            BY <3>1, <2>6, Zenon
    <2>7. CASE succs'[l] = <<>>
        <3>1. Len(<<>>) <= 2
            OBVIOUS
        <3> QED
            BY <3>1, <2>7, Zenon
    <2> QED
        BY <2>4, <2>5, <2>6, <2>7, Zenon
<1>8. RangeOf(succs'[n]) = RangeOf(succs[n]) \cup {x}
    <2>1. succs[n] \in Seq(Nodes) /\ x \in Nodes
        BY <1>0
    <2>2. succs'[n] = Append(succs[n], x)
        BY <1>3
    <2> QED
        BY <2>1, <2>2, RangeAppend, Zenon
<1>9. StackInv'
    <2>1. ASSUME NEW k \in 1 .. Len(stack')
          PROVE  /\ k \in 1 .. Len(rest) => /\ stack'[k] = stack[k]
                                            /\ k \in 1 .. Len(stack)
                                            /\ stack[k].node # n
                 /\ k \notin 1 .. Len(rest) => k = Len(rest) + 1 /\ stack'[k] = Frame(n, b)
        <3>1. Len(stack) \in Nat
            BY LenProperties DEF IInv, TypeOK
        <3> QED
            BY <1>2, <2>1, <3>1
    <2>2. ASSUME NEW k \in 1 .. Len(stack')
          PROVE  /\ stack'[k].node \in visited'
                 /\ stack'[k].branch = "true" => IsJump(ir', BlockEnd(ir', stack'[k].node))
        BY <1>2, <2>1 DEF IInv, StackInv, LastInstr
    <2>3. ASSUME NEW k \in 1 .. Len(stack'), NEW j \in 1 .. Len(stack'),
                 stack'[j].node = stack'[k].node
          PROVE  j = k
        BY <1>2, <2>1, <2>3 DEF IInv, StackInv
    <2> QED
        BY <2>2, <2>3 DEF StackInv, LastInstr
<1>10. ControlInv'
    <2>1. Top' = Frame(n, b)
        BY <1>2 DEF Top
    <2>2. arg' \in RangeOf(succs'[Top'.node])
        BY <1>1, <1>2, <1>8, <2>1
    <2>3. pc' \in {"call", "return", "done"} /\ pc' # "done" /\ stack' # <<>>
        BY <1>1, <1>2
    <2>4. 0 \in Seen' /\ header' = 0
        BY <1>4
    <2>5. RangeOf(succs[Top.node])' = RangeOf(succs'[Top'.node])
        BY DEF RangeOf
    <2> QED
        BY <1>1, <2>2, <2>3, <2>4, <2>5 DEF ControlInv
<1>11. LinksInv'
    <2>1. ASSUME NEW l \in Seen'
          PROVE  RangeOf(succs'[l]) \subseteq Seen' \cup Pending'
        <3>1. l \in Nodes
            BY <1>0, <1>4
        <3>2. RangeOf(succs[l]) \subseteq visited \cup {n}
            BY <3>1, <1>0, RangeFacts DEF IInv, LinksInv
        <3> QED
            BY <3>1, <3>2, <1>3, <1>4, <1>8
    <2>2. ASSUME NEW m \in Seen' \ {0}
          PROVE  \E l \in Nodes : m \in RangeOf(succs'[l])
        <3>1. PICK l \in Nodes : m \in RangeOf(succs[l])
            BY <1>0, <1>4 DEF IInv, LinksInv
        <3> QED
            BY <3>1, <1>3, <1>8
    <2>3. Seen' \cup Pending' \subseteq Reachable(ir')
        <3>1. n \in Reachable(ir) /\ visited \subseteq Reachable(ir)
            BY <1>0 DEF IInv, LinksInv
        <3>2. x \in Reachable(ir)
            BY <3>1, <1>0, ReachableFacts
        <3> QED
            BY <3>1, <3>2, <1>4
    <2> QED
        BY <1>0, <1>6, <2>1, <2>2, <2>3 DEF LinksInv
<1>12. MirrorInv'
    <2> SUFFICES ASSUME NEW l \in Nodes, NEW m \in Nodes
                 PROVE  Cardinality(Occurs(preds'[m], l)) = Cardinality(Occurs(succs'[l], m))
        BY <1>0 DEF MirrorInv, Occurs
    <2>0. succs[l] \in Seq(Nodes) /\ preds[m] \in Seq(Nodes)
        BY <1>0
    <2>1. Cardinality(Occurs(preds[m], l)) = Cardinality(Occurs(succs[l], m))
        BY DEF IInv, MirrorInv
    <2>2. Cardinality(Occurs(succs'[l], m)) =
             Cardinality(Occurs(succs[l], m)) + (IF l = n /\ m = x THEN 1 ELSE 0)
        <3>1. CASE l = n
            <4>1. succs'[l] = Append(succs[l], x)
                BY <3>1, <1>3
            <4>2. Cardinality(Occurs(Append(succs[l], x), m)) =
                     Cardinality(Occurs(succs[l], m)) + (IF x = m THEN 1 ELSE 0)
                BY <2>0, <1>0, OccursAppend
            <4> QED
                BY <3>1, <4>1, <4>2
        <3>2. CASE ~ (l = n)
            <4>1. succs'[l] = succs[l]
                BY <3>2, <1>3
            <4>2. Cardinality(Occurs(succs[l], m)) \in Nat
                BY <2>0, <1>0, OccursAppend
            <4> QED
                BY <3>2, <4>1, <4>2
        <3> QED
            BY <3>1, <3>2
    <2>3. Cardinality(Occurs(preds'[m], l)) =
             Cardinality(Occurs(preds[m], l)) + (IF l = n /\ m = x THEN 1 ELSE 0)
        <3>1. CASE m = x
            <4>1. preds'[m] = Append(preds[m], n)
                BY <3>1, <1>3
            <4>2. Cardinality(Occurs(Append(preds[m], n), l)) =
                     Cardinality(Occurs(preds[m], l)) + (IF n = l THEN 1 ELSE 0)
                BY <2>0, <1>0, OccursAppend
            <4> QED
                BY <3>1, <4>1, <4>2
        <3>2. CASE ~ (m = x)
            <4>1. preds'[m] = preds[m]
                BY <3>2, <1>3
            <4>2. Cardinality(Occurs(preds[m], l)) \in Nat
                BY <2>0, <1>0, OccursAppend
            <4> QED
                BY <3>2, <4>1, <4>2
        <3> QED
            BY <3>1, <3>2
    <2> QED
        BY <2>1, <2>2, <2>3
<1> QED
    BY <1>0, <1>1, <1>2, <1>3, <1>7, <1>9, <1>10, <1>11, <1>12

-----------------------------------------------------------------------------
LEMMA EntryHolds ==
    ASSUME IsBuildable(ir), Entry
    PROVE  IInv
<1>0. /\ IsBuildable(ir) /\ pc = "call" /\ arg = 0 /\ ret = NULL /\ stack = <<>>
      /\ visited = {} /\ header = NULL /\ edges = <<>>
      /\ \A l \in Nodes : succs[l] = <<>> /\ preds[l] = <<>>
      /\ 0 \in Nodes
    BY LeaderFacts DEF Entry, Nodes
<1>1. TypeOK
    <2>1. succs \in [Nodes -> Seq(Nodes)] /\ preds \in [Nodes -> Seq(Nodes)]
        <3>1. <<>> \in Seq(Nodes)
            OBVIOUS
        <3> QED
            BY <3>1 DEF Entry, Nodes
    <2> QED
        BY <1>0, <2>1 DEF TypeOK
<1>2. StackInv /\ ControlInv
    BY <1>0 DEF StackInv, ControlInv, Seen
<1>3. LinksInv
    BY <1>0, ReachableFacts DEF LinksInv, Seen, Pending
<1>4. MirrorInv
    <2> SUFFICES ASSUME NEW l \in Nodes, NEW m \in Nodes
                 PROVE  Cardinality(Occurs(preds[m], l)) = Cardinality(Occurs(succs[l], m))
        BY DEF MirrorInv
    <2>1. preds[m] = <<>> /\ succs[l] = <<>> /\ Len(<<>>) = 0 /\ 1 .. 0 = {}
        BY <1>0
    <2>2. Occurs(preds[m], l) = {} /\ Occurs(succs[l], m) = {}
        BY <2>1 DEF Occurs
    <2> QED
        BY <2>2
<1>5. EdgeLedger
    BY <1>0, FS_EmptySet DEF EdgeLedger
<1> QED
    BY <1>1, <1>2, <1>3, <1>4, <1>5 DEF IInv

LEMMA InitHolds == Init => IInv
BY EntryHolds, ProgramsAssumption DEF Init, IsBuildable

\* What a call on a node that is not marked finds and does.
LEMMA CallFacts ==
    ASSUME IInv, pc = "call", arg \in Leaders(ir) \ visited, Enter(arg)
    PROVE  /\ IsBuildable(ir) /\ arg \in Nodes /\ Pending = {arg} /\ Seen = visited
           /\ visited' = visited \cup {arg} /\ header' = 0 /\ 0 \in visited'
           /\ arg = 0 \/ \E l \in Nodes : arg \in RangeOf(succs[l])
           /\ succs[arg] = <<>>
           /\ \A k \in 1 .. Len(stack) : stack[k].node # arg
           /\ IsFiniteSet(visited) /\ Cardinality(visited) \in Nat
           /\ Cardinality(visited') = Cardinality(visited) + 1
<1>1. /\ IsBuildable(ir) /\ arg \in Nodes /\ Pending = {arg} /\ Seen = visited
      /\ visited' = visited \cup {arg} /\ visited \in SUBSET Nodes
    BY DEF IInv, TypeOK, Nodes, Pending, Seen, Enter
<1>2. header' = 0 /\ 0 \in visited'
    <2>1. CASE stack = <<>>
        BY <2>1, <1>1 DEF IInv, ControlInv, Enter
    <2>2. CASE stack # <<>>
        <3>1. Top.node \in visited
            BY <2>2, PopFacts DEF IInv, StackInv, Top
        <3> QED
            BY <3>1, <1>1 DEF IInv, ControlInv, Enter
    <2> QED
        BY <2>1, <2>2
<1>3. arg = 0 \/ \E l \in Nodes : arg \in RangeOf(succs[l])
    <2>1. CASE stack = <<>>
        BY <2>1 DEF IInv, ControlInv
    <2>2. CASE stack # <<>>
        <3>1. Top.node \in Nodes
            BY <2>2, PopFacts DEF IInv
        <3> QED
            BY <2>2, <3>1 DEF IInv, ControlInv
    <2> QED
        BY <2>1, <2>2
<1>4. succs[arg] = <<>>
    BY <1>1 DEF IInv, LinksInv
<1>5. \A k \in 1 .. Len(stack) : stack[k].node # arg
    BY DEF IInv, StackInv
<1>6. IsFiniteSet(visited)
    BY <1>1, LeaderFacts, FS_Subset DEF Nodes
<1>7. /\ Cardinality(visited) \in Nat
      /\ Cardinality(visited') = Cardinality(visited) + 1
    <2>1. Cardinality(visited) \in Nat
        BY <1>6, FS_CardinalityType
    <2>2. Cardinality(visited \cup {arg}) = Cardinality(visited) + 1
        BY <1>6, FS_AddElement
    <2> QED
        BY <1>1, <2>1, <2>2
<1> QED
    BY <1>1, <1>2, <1>3, <1>4, <1>5, <1>6, <1>7

(***************************************************************************)
(* A call that links its node and calls itself again: CallJump, CallFall.  *)
(***************************************************************************)
LEMMA CallLinkStep ==
    ASSUME IInv, pc = "call", arg \in Leaders(ir) \ visited, Enter(arg),
           NEW x \in BlockNext(ir, arg), NEW b \in {"true", "next"},
           b = "true" => IsJump(ir, LastInstr(arg)) /\ x = Target(ir, LastInstr(arg)),
           b = "next" => Follows(arg) = <<x>>,
           LinkAndCall(arg, x, Append(stack, Frame(arg, b))),
           UNCHANGED <<ir, ret, edges>>
    PROVE  IInv'
<1>0. /\ IsBuildable(ir) /\ arg \in Nodes /\ Pending = {arg} /\ Seen = visited
      /\ visited' = visited \cup {arg} /\ header' = 0 /\ 0 \in visited'
      /\ arg = 0 \/ \E l \in Nodes : arg \in RangeOf(succs[l])
      /\ succs[arg] = <<>>
      /\ \A k \in 1 .. Len(stack) : stack[k].node # arg
      /\ Cardinality(visited) \in Nat
      /\ Cardinality(visited') = Cardinality(visited) + 1
    BY CallFacts, Zenon
<1>1. stack \in Seq([node : Nodes, branch : {"true", "false", "next"}])
         /\ Len(stack) \in Nat
    BY LenProperties DEF IInv, TypeOK
<1>2. /\ \A k \in 1 .. Len(stack) :
            k <= Len(stack) /\ stack[k] = stack[k] /\ stack[k].node # arg
      /\ \A k \in 1 .. Len(stack) : k <= Len(stack) \/ stack[k].node = arg
    BY <1>0, <1>1
<1>3. Append(succs[arg], x) = IF b = "true" THEN <<Target(ir, LastInstr(arg))>>
                              ELSE Follows(arg)
    <2>1. Append(succs[arg], x) = <<x>>
        BY <1>0
    <2> QED
        BY <2>1
<1>4. /\ pc' = "call" /\ arg' = x /\ x \in Nodes /\ Len(stack') = Len(stack) + 1
      /\ stack' \in Seq([node : Nodes', branch : {"true", "false", "next"}])
      /\ succs' \in [Nodes' -> Seq(Nodes')] /\ \A l \in Nodes' : Len(succs'[l]) <= 2
      /\ preds' \in [Nodes' -> Seq(Nodes')]
      /\ StackInv' /\ ControlInv' /\ LinksInv' /\ MirrorInv'
    BY <1>0, <1>1, <1>2, <1>3, LinkStep
<1>5. TypeOK'
    <2>1. Nodes' = Nodes /\ IsBuildable(ir') /\ ret' = ret /\ edges' = edges
        BY <1>0 DEF Nodes
    <2>2. ret' \in Nodes' \cup {NULL} /\ edges' \in Seq(Nodes' \X Nodes')
        BY <2>1 DEF IInv, TypeOK
    <2>3. visited' \in SUBSET Nodes' /\ header' \in Nodes'
        BY <1>0, <2>1 DEF IInv, TypeOK
    <2> QED
        BY <1>4, <2>1, <2>2, <2>3 DEF TypeOK
<1>6. EdgeLedger'
    <2>1. Len(edges) \in Nat /\ Len(edges) + Len(stack) + 0 = Cardinality(visited)
        BY LenProperties DEF IInv, TypeOK, EdgeLedger
    <2> QED
        BY <1>0, <1>1, <1>4, <2>1 DEF EdgeLedger
<1> QED
    BY <1>4, <1>5, <1>6 DEF IInv

LEMMA CallJumpStep == IInv /\ CallJump => IInv'
<1> SUFFICES ASSUME IInv, CallJump PROVE IInv'
    OBVIOUS
<1> DEFINE e == LastInstr(arg)
<1>0. /\ pc = "call" /\ arg \in Leaders(ir) \ visited /\ Enter(arg)
      /\ IsJump(ir, e) /\ UNCHANGED <<ir, ret, edges>>
      /\ LinkAndCall(arg, Target(ir, e), Append(stack, Frame(arg, "true")))
    BY DEF CallJump
<1>1. Target(ir, e) \in BlockNext(ir, arg)
    BY <1>0 DEF BlockNext, InstrNext, IsJump, LastInstr
<1> QED
    BY <1>0, <1>1, CallLinkStep

LEMMA CallFallStep == IInv /\ CallFall => IInv'
<1> SUFFICES ASSUME IInv, CallFall PROVE IInv'
    OBVIOUS
<1> DEFINE e == LastInstr(arg)
<1>0. /\ pc = "call" /\ arg \in Leaders(ir) \ visited /\ Enter(arg)
      /\ ~ IsJump(ir, e) /\ ~ IsLast(e) /\ UNCHANGED <<ir, ret, edges>>
      /\ LinkAndCall(arg, e + 1, Append(stack, Frame(arg, "next")))
    BY DEF CallFall
<1>1. Follows(arg) = <<e + 1>>
    BY <1>0 DEF Follows, IsJump
<1>2. e + 1 \in BlockNext(ir, arg)
    <2>1. IsBuildable(ir) /\ arg \in Nodes
        BY <1>0, CallFacts
    <2>2. RangeOf(Follows(arg)) = BlockNext(ir, arg)
        BY <2>1, BlockFacts
    <2> QED
        BY <1>1, <2>2, RangeFacts
<1> QED
    BY <1>0, <1>1, <1>2, CallLinkStep

\* Steps that link nothing leave the mirror alone.
LEMMA MirrorKept ==
    ASSUME MirrorInv, ir' = ir, succs' = succs, preds' = preds
    PROVE  MirrorInv'
<1>1. Nodes' = Nodes
    BY DEF Nodes
<1>2. \A l, m : /\ Occurs(preds'[m], l) = Occurs(preds[m], l)
                /\ Occurs(succs'[l], m) = Occurs(succs[l], m)
    BY DEF Occurs
<1>3. \A l, m \in Nodes : Cardinality(Occurs(preds'[m], l)) = Cardinality(Occurs(succs'[l], m))
    BY <1>2 DEF MirrorInv
<1>4. \A l, m : /\ Occurs(preds[m], l)' = Occurs(preds'[m], l)
                /\ Occurs(succs[l], m)' = Occurs(succs'[l], m)
    BY DEF Occurs
<1> QED
    BY <1>1, <1>3, <1>4 DEF MirrorInv

(***************************************************************************)
(* A call that links nothing: on a node that is marked, on the last block. *)
(***************************************************************************)
LEMMA CallVisitedStep == IInv /\ CallVisited => IInv'
<1> SUFFICES ASSUME IInv, CallVisited PROVE IInv'
    OBVIOUS
<1>0. /\ pc = "call" /\ arg \in visited /\ ret' = NULL /\ pc' = "return"
      /\ ir' = ir /\ arg' = arg /\ stack' = stack /\ visited' = visited
      /\ header' = header /\ succs' = succs /\ preds' = preds /\ edges' = edges
    BY DEF CallVisited
<1>1. TypeOK'
    BY <1>0 DEF IInv, TypeOK, Nodes
<1>2. Seen = visited /\ Seen' = visited /\ Pending = {arg} /\ Pending' = {}
    BY <1>0 DEF Seen, Pending
<1>3. StackInv' /\ MirrorInv'
    <2>1. StackInv'
        BY <1>0 DEF IInv, StackInv, LastInstr
    <2>2. MirrorInv'
        BY <1>0, MirrorKept DEF IInv
    <2> QED
        BY <2>1, <2>2
<1>4. ControlInv'
    BY <1>0, <1>2 DEF IInv, ControlInv
<1>5. LinksInv'
    <2>1. \A l : LinksOf(l)' = LinksOf(l)
        BY <1>0 DEF LinksOf, Waits, Follows, LastInstr, IsLast
    <2>2. /\ \A l \in Nodes : succs[l] = IF l \in visited THEN LinksOf(l) ELSE <<>>
          /\ \A l \in visited : RangeOf(succs[l]) \subseteq visited
          /\ \A m \in visited \ {0} : \E l \in Nodes : m \in RangeOf(succs[l])
          /\ visited \subseteq Reachable(ir)
        BY <1>0, <1>2 DEF IInv, LinksInv
    <2> QED
        BY <1>0, <1>2, <2>1, <2>2 DEF LinksInv, Nodes, RangeOf
<1>6. EdgeLedger'
    <2>1. Len(edges) \in Nat /\ Len(stack) \in Nat
          /\ Len(edges) + Len(stack) + 0 = Cardinality(visited)
        BY <1>0, LenProperties DEF IInv, TypeOK, EdgeLedger
    <2>2. ~ EdgeFound'
        BY <1>0 DEF EdgeFound
    <2> QED
        BY <1>0, <2>1, <2>2 DEF EdgeLedger
<1> QED
    BY <1>1, <1>3, <1>4, <1>5, <1>6 DEF IInv

LEMMA CallEndStep == IInv /\ CallEnd => IInv'
<1> SUFFICES ASSUME IInv, CallEnd PROVE IInv'
    OBVIOUS
<1>0. /\ pc = "call" /\ arg \in Leaders(ir) \ visited /\ Enter(arg)
      /\ ~ IsJump(ir, LastInstr(arg)) /\ IsLast(LastInstr(arg))
      /\ ret' = arg /\ pc' = "return"
      /\ ir' = ir /\ arg' = arg /\ stack' = stack
      /\ succs' = succs /\ preds' = preds /\ edges' = edges
    BY DEF CallEnd
<1>1. /\ IsBuildable(ir) /\ arg \in Nodes /\ Pending = {arg} /\ Seen = visited
      /\ visited' = visited \cup {arg} /\ header' = 0 /\ 0 \in visited'
      /\ arg = 0 \/ \E l \in Nodes : arg \in RangeOf(succs[l])
      /\ succs[arg] = <<>>
      /\ \A k \in 1 .. Len(stack) : stack[k].node # arg
      /\ Cardinality(visited) \in Nat
      /\ Cardinality(visited') = Cardinality(visited) + 1
    BY <1>0, CallFacts
<1>2. TypeOK'
    <2>1. Nodes' = Nodes
        BY <1>0 DEF Nodes
    <2> QED
        BY <1>0, <1>1, <2>1 DEF IInv, TypeOK
<1>3. Seen' = visited' /\ Pending' = {}
    BY <1>0 DEF Seen, Pending
<1>4. StackInv' /\ MirrorInv'
    <2>1. StackInv'
        BY <1>0, <1>1 DEF IInv, StackInv, LastInstr
    <2>2. MirrorInv'
        BY <1>0, MirrorKept DEF IInv
    <2> QED
        BY <2>1, <2>2
<1>5. ControlInv'
    BY <1>0, <1>1, <1>3 DEF ControlInv
<1>6. LinksInv'
    <2>1. \A l : LinksOf(l)' = LinksOf(l)
        BY <1>0 DEF LinksOf, Waits, Follows, LastInstr, IsLast
    <2>2. LinksOf(arg) = <<>>
        BY <1>0, <1>1 DEF LinksOf, Waits, Follows, IsJump
    <2>3. \A l \in Nodes : succs[l] = IF l \in visited' THEN LinksOf(l) ELSE <<>>
        BY <1>1, <2>2 DEF IInv, LinksInv
    <2>4. ASSUME NEW l \in visited' PROVE RangeOf(succs[l]) \subseteq visited'
        BY <1>1, RangeFacts DEF IInv, LinksInv
    <2>5. ASSUME NEW m \in visited' \ {0}
          PROVE  \E l \in Nodes : m \in RangeOf(succs[l])
        BY <1>1 DEF IInv, LinksInv
    <2>6. visited' \subseteq Reachable(ir)
        BY <1>1 DEF IInv, LinksInv
    <2> QED
        BY <1>0, <1>3, <2>1, <2>3, <2>4, <2>5, <2>6 DEF LinksInv, Nodes, RangeOf
<1>7. EdgeLedger'
    <2>1. Len(edges) \in Nat /\ Len(stack) \in Nat
          /\ Len(edges) + Len(stack) + 0 = Cardinality(visited)
        BY <1>0, LenProperties DEF IInv, TypeOK, EdgeLedger
    <2>2. EdgeFound'
        <3>1. arg \in Int
            BY <1>1, LeaderFacts DEF Nodes, Offsets
        <3> QED
            BY <1>0, <3>1, NullAssumption DEF EdgeFound
    <2> QED
        BY <1>0, <1>1, <2>1, <2>2 DEF EdgeLedger
<1> QED
    BY <1>2, <1>4, <1>5, <1>6, <1>7 DEF IInv

-----------------------------------------------------------------------------
(***************************************************************************)
(* A pending call whose callee returned finds room for the edge: of the    *)
(* nodes marked at most as many are the target of an edge as there are     *)
(* leaders, less the one being returned and those still pending.           *)
(***************************************************************************)
LEMMA ResumeFacts ==
    ASSUME IInv, pc = "return", stack # <<>>
    PROVE  /\ IsBuildable(ir) /\ Pending = {} /\ Seen = visited
           /\ 0 \in visited /\ header = 0 /\ Top.node \in visited
           /\ Len(edges) \in Nat /\ Len(stack) \in Nat \ {0}
           /\ ~ (EdgeFound /\ EdgesFull)
           /\ RecordEdge => /\ edges' \in Seq(Nodes \X Nodes)
                            /\ Len(edges') = Len(edges) + (IF EdgeFound THEN 1 ELSE 0)
<1>1. IsBuildable(ir) /\ Pending = {} /\ Seen = visited /\ visited \in SUBSET Nodes
    BY DEF IInv, TypeOK, Pending, Seen
<1>2. 0 \in visited /\ header = 0
    BY <1>1 DEF IInv, ControlInv
<1>3. Len(edges) \in Nat /\ Len(stack) \in Nat \ {0} /\ edges \in Seq(Nodes \X Nodes)
    BY PopFacts, LenProperties DEF IInv, TypeOK
<1>4. Top.node \in visited
    BY <1>3 DEF IInv, StackInv, Top
<1>5. ASSUME EdgeFound, EdgesFull PROVE FALSE
    <2>1. Cardinality(visited) <= Cardinality(Leaders(ir))
          /\ Cardinality(visited) \in Nat /\ Cardinality(Leaders(ir)) \in Nat
        <3>1. IsFiniteSet(Leaders(ir)) /\ visited \in SUBSET Leaders(ir)
            BY <1>1, LeaderFacts DEF Nodes
        <3> QED
            BY <3>1, FS_Subset, FS_CardinalityType
    <2>2. Len(edges) + Len(stack) + 1 = Cardinality(visited)
        BY <1>5 DEF IInv, EdgeLedger
    <2>3. EdgeCapacity(ir) \in Int /\ EdgeCapacity(ir) >= Cardinality(Leaders(ir)) - 1
        BY <1>1, CapacityFacts
    <2>4. Len(edges) >= EdgeCapacity(ir)
        BY <1>5 DEF EdgesFull
    <2> QED
        BY <1>3, <2>1, <2>2, <2>3, <2>4
<1>6. ASSUME RecordEdge
      PROVE  /\ edges' \in Seq(Nodes \X Nodes)
             /\ Len(edges') = Len(edges) + (IF EdgeFound THEN 1 ELSE 0)
    <2>1. CASE EdgeFound
        <3>1. edges' = Append(edges, <<Top.node, ret>>)
            BY <1>6, <2>1 DEF RecordEdge
        <3>2. <<Top.node, ret>> \in Nodes \X Nodes
            BY <1>1, <1>4, <2>1 DEF IInv, TypeOK, EdgeFound
        <3>3. edges' \in Seq(Nodes \X Nodes) /\ Len(edges') = Len(edges) + 1
            BY <1>3, <3>1, <3>2, AppendProperties
        <3> QED
            BY <2>1, <3>3
    <2>2. CASE ~ EdgeFound
        BY <1>3, <1>6, <2>2 DEF RecordEdge
    <2> QED
        BY <2>1, <2>2
<1> QED
    BY <1>1, <1>2, <1>3, <1>4, <1>5, <1>6

LEMMA ResumeFalseStep == IInv /\ ResumeFalse => IInv'
<1> SUFFICES ASSUME IInv, ResumeFalse PROVE IInv'
    OBVIOUS
<1> DEFINE n == Top.node
           e == LastInstr(n)
<1>0. /\ pc = "return" /\ stack # <<>> /\ Top.branch = "true"
      /\ Kind(ir, e) = "ATM_CONDJMP"
      /\ ir' = ir /\ ret' = ret /\ visited' = visited /\ header' = header
    BY DEF ResumeFalse, TakesFalseBranch
<1>1. /\ IsBuildable(ir) /\ Pending = {} /\ Seen = visited
      /\ 0 \in visited /\ header = 0 /\ n \in visited
      /\ Len(edges) \in Nat /\ Len(stack) \in Nat \ {0}
      /\ ~ (EdgeFound /\ EdgesFull)
    BY <1>0, ResumeFacts
<1>2. RecordEdge /\ LinkAndCall(n, e + 1, Append(Pop, Frame(n, "false")))
    BY <1>1 DEF ResumeFalse
<1>3. /\ edges' \in Seq(Nodes \X Nodes)
      /\ Len(edges') = Len(edges) + (IF EdgeFound THEN 1 ELSE 0)
    BY <1>0, <1>2, ResumeFacts
<1>4. /\ Len(Pop) = Len(stack) - 1
      /\ Pop \in Seq([node : Nodes, branch : {"true", "false", "next"}])
      /\ \A k \in 1 .. Len(stack) - 1 : Pop[k] = stack[k]
      /\ n \in Nodes
    BY <1>0, PopFacts DEF IInv
<1>5. \A k \in 1 .. Len(Pop) : k <= Len(stack) /\ Pop[k] = stack[k] /\ Pop[k].node # n
    BY <1>1, <1>4 DEF IInv, StackInv, Top
<1>6. \A k \in 1 .. Len(stack) : k <= Len(Pop) \/ stack[k].node = n
    BY <1>1, <1>4 DEF Top
<1>7. e + 1 \in BlockNext(ir, n)
    BY <1>0 DEF BlockNext, InstrNext, LastInstr
<1>8. Append(succs[n], e + 1) = Follows(n)
    <2>1. Waits(n)
        BY <1>0, <1>1 DEF Waits, Top
    <2>2. succs[n] = <<Target(ir, e)>>
        BY <1>1, <1>4, <2>1 DEF IInv, LinksInv, LinksOf
    <2>3. Follows(n) = <<Target(ir, e), e + 1>>
        BY <1>0 DEF Follows
    <2> QED
        BY <2>2, <2>3, AppendPair, Zenon
<1>9. /\ pc' = "call" /\ arg' = e + 1 /\ e + 1 \in Nodes /\ Len(stack') = Len(Pop) + 1
      /\ stack' \in Seq([node : Nodes', branch : {"true", "false", "next"}])
      /\ succs' \in [Nodes' -> Seq(Nodes')] /\ \A l \in Nodes' : Len(succs'[l]) <= 2
      /\ preds' \in [Nodes' -> Seq(Nodes')]
      /\ StackInv' /\ ControlInv' /\ LinksInv' /\ MirrorInv'
    <2> HIDE DEF n, e
    <2>1. visited' = visited \cup {n} /\ header' = 0 /\ 0 \in visited'
        BY <1>0, <1>1
    <2>2. "false" \in {"true", "false", "next"} /\ "false" # "true"
        OBVIOUS
    <2>3. Append(succs[n], e + 1) = IF "false" = "true" THEN <<Target(ir, LastInstr(n))>>
                                    ELSE Follows(n)
        BY <1>8
    <2>4. pc # "done" /\ n \in visited \cup Pending /\ Pending \subseteq {n}
        BY <1>0, <1>1
    <2> QED
        BY <1>0, <1>1, <1>2, <1>4, <1>5, <1>6, <1>7, <2>1, <2>2, <2>3, <2>4, LinkStep
<1>10. TypeOK'
    <2>1. Nodes' = Nodes
        BY <1>0 DEF Nodes
    <2>2. ret' \in Nodes' \cup {NULL} /\ visited' \in SUBSET Nodes' /\ header' \in Nodes' \cup {NULL}
        BY <1>0, <2>1 DEF IInv, TypeOK
    <2> QED
        BY <1>0, <1>1, <1>3, <1>9, <2>1, <2>2 DEF TypeOK
<1>11. EdgeLedger'
    <2>1. Len(edges) + Len(stack) + (IF EdgeFound THEN 1 ELSE 0) = Cardinality(visited)
        BY <1>0 DEF IInv, EdgeLedger
    <2>2. Len(edges') + Len(stack') + 0 = Cardinality(visited)
        <3>1. Len(stack') = Len(stack)
            BY <1>1, <1>4, <1>9
        <3>2. CASE EdgeFound
            BY <1>1, <1>3, <2>1, <3>1, <3>2
        <3>3. CASE ~ EdgeFound
            BY <1>1, <1>3, <2>1, <3>1, <3>3
        <3> QED
            BY <3>2, <3>3
    <2> QED
        BY <1>0, <1>9, <2>2 DEF EdgeLedger
<1> QED
    BY <1>9, <1>10, <1>11 DEF IInv

LEMMA ResumeUpStep == IInv /\ ResumeUp => IInv'
<1> SUFFICES ASSUME IInv, ResumeUp PROVE IInv'
    OBVIOUS
<1> DEFINE n == Top.node
           e == LastInstr(n)
<1>0. /\ pc = "return" /\ stack # <<>> /\ ~ TakesFalseBranch
      /\ ir' = ir /\ arg' = arg /\ visited' = visited /\ header' = header
      /\ succs' = succs /\ preds' = preds
    BY DEF ResumeUp
<1>1. /\ IsBuildable(ir) /\ Pending = {} /\ Seen = visited
      /\ 0 \in visited /\ header = 0 /\ n \in visited
      /\ Len(edges) \in Nat /\ Len(stack) \in Nat \ {0}
      /\ ~ (EdgeFound /\ EdgesFull)
    BY <1>0, ResumeFacts
<1>2. RecordEdge /\ ret' = n /\ stack' = Pop /\ pc' = "return"
    BY <1>0, <1>1 DEF ResumeUp
<1>3. /\ edges' \in Seq(Nodes \X Nodes)
      /\ Len(edges') = Len(edges) + (IF EdgeFound THEN 1 ELSE 0)
    BY <1>0, <1>2, ResumeFacts
<1>4. /\ Len(stack') = Len(stack) - 1
      /\ stack' \in Seq([node : Nodes, branch : {"true", "false", "next"}])
      /\ \A k \in 1 .. Len(stack) - 1 : stack'[k] = stack[k]
      /\ n \in Nodes
    BY <1>0, <1>2, PopFacts DEF IInv
<1>5. TypeOK'
    <2>1. Nodes' = Nodes
        BY <1>0 DEF Nodes
    <2> QED
        BY <1>0, <1>1, <1>2, <1>3, <1>4, <2>1 DEF IInv, TypeOK
<1>6. StackInv'
    BY <1>0, <1>1, <1>4 DEF IInv, StackInv, LastInstr
<1>7. MirrorInv'
    BY <1>0, MirrorKept DEF IInv
<1>8. Seen' = visited /\ Pending' = {}
    BY <1>0, <1>2 DEF Seen, Pending
<1>9. ControlInv'
    BY <1>0, <1>1, <1>2, <1>8 DEF ControlInv
<1>10. LinksInv'
    <2>1. \A l \in Nodes : LinksOf(l)' = LinksOf(l)
        <3>1. \A l : Follows(l)' = Follows(l) /\ LastInstr(l)' = LastInstr(l)
            BY <1>0 DEF Follows, LastInstr, IsLast
        <3>2. ASSUME NEW l, l # n PROVE Waits(l)' <=> Waits(l)
            <4>1. ASSUME NEW k \in 1 .. Len(stack), stack[k].node = l
                  PROVE  k \in 1 .. Len(stack') /\ stack'[k] = stack[k]
                BY <1>1, <1>4, <3>2, <4>1 DEF Top
            <4>2. \A k \in 1 .. Len(stack') : k \in 1 .. Len(stack) /\ stack'[k] = stack[k]
                BY <1>1, <1>4
            <4> QED
                BY <4>1, <4>2 DEF Waits
        <3>3. ASSUME NEW l, l = n PROVE ~ Waits(l)'
            <4>1. ASSUME NEW k \in 1 .. Len(stack'), stack'[k].node = l PROVE FALSE
                <5>1. k \in 1 .. Len(stack) /\ k # Len(stack) /\ stack[k].node = n
                    BY <1>1, <1>4, <3>3, <4>1
                <5>2. Len(stack) \in 1 .. Len(stack)
                    BY <1>1
                <5> QED
                    BY <5>1, <5>2 DEF IInv, StackInv, Top
            <4> QED
                BY <4>1 DEF Waits
        <3>4. LinksOf(n) = Follows(n)
            <4>1. CASE Waits(n)
                <5>1. Top.branch = "true" /\ IsJump(ir, e)
                    BY <1>1, <4>1 DEF Waits, IInv, StackInv, Top
                <5>2. Kind(ir, e) # "ATM_CONDJMP" /\ Kind(ir, e) = "ATM_JMP"
                    BY <1>0, <5>1 DEF TakesFalseBranch, IsJump
                <5>3. Follows(n) = <<Target(ir, e)>>
                    BY <5>2 DEF Follows
                <5> QED
                    BY <4>1, <5>3 DEF LinksOf
            <4>2. CASE ~ Waits(n)
                BY <4>2 DEF LinksOf
            <4> QED
                BY <4>1, <4>2
        <3>5. ASSUME NEW l, l = n PROVE LinksOf(l)' = LinksOf(l)
            <4>1. LinksOf(l)' = Follows(l)
                BY <3>1, <3>3, <3>5 DEF LinksOf
            <4> QED
                BY <3>4, <3>5, <4>1
        <3>6. ASSUME NEW l, l # n PROVE LinksOf(l)' = LinksOf(l)
            <4>1. /\ Waits(l)' <=> Waits(l)
                  /\ LinksOf(l)' = IF Waits(l)' THEN <<Target(ir, LastInstr(l))>> ELSE Follows(l)
                BY <1>0, <3>1, <3>2, <3>6 DEF LinksOf
            <4> QED
                BY <4>1 DEF LinksOf
        <3> QED
            BY <3>5, <3>6
    <2>2. /\ \A l \in Nodes : succs[l] = IF l \in visited THEN LinksOf(l) ELSE <<>>
          /\ \A l \in visited : RangeOf(succs[l]) \subseteq visited
          /\ \A m \in visited \ {0} : \E l \in Nodes : m \in RangeOf(succs[l])
          /\ visited \subseteq Reachable(ir)
        BY <1>1 DEF IInv, LinksInv
    <2> QED
        BY <1>0, <1>8, <2>1, <2>2 DEF LinksInv, Nodes, RangeOf
<1>11. EdgeLedger'
    <2>1. Len(edges) + Len(stack) + (IF EdgeFound THEN 1 ELSE 0) = Cardinality(visited)
        BY <1>0 DEF IInv, EdgeLedger
    <2>2. Len(edges') + Len(stack') + 1 = Cardinality(visited)
        <3>2. CASE EdgeFound
            BY <1>1, <1>3, <1>4, <2>1, <3>2
        <3>3. CASE ~ EdgeFound
            BY <1>1, <1>3, <1>4, <2>1, <3>3
        <3> QED
            BY <3>2, <3>3
    <2>3. EdgeFound'
        <3>1. n \in Int
            BY <1>1, <1>4, LeaderFacts DEF Nodes, Offsets
        <3> QED
            BY <1>2, <3>1, NullAssumption DEF EdgeFound
    <2> QED
        BY <1>0, <1>2, <2>2, <2>3 DEF EdgeLedger
<1> QED
    BY <1>5, <1>6, <1>7, <1>9, <1>10, <1>11 DEF IInv

\* The links of the finished graph are what the search has marked.
LEMMA FinishLinks ==
    ASSUME IInv, pc = "return", stack = <<>>
    PROVE  Linked = visited
<1>1. Seen = visited /\ Pending = {} /\ 0 \in visited
    BY DEF IInv, ControlInv, Seen, Pending
<1>2. /\ \A l \in Nodes : succs[l] = IF l \in visited THEN LinksOf(l) ELSE <<>>
      /\ \A l \in visited : RangeOf(succs[l]) \subseteq visited
      /\ \A m \in visited \ {0} : \E l \in Nodes : m \in RangeOf(succs[l])
    BY <1>1 DEF IInv, LinksInv
<1>3. ASSUME NEW l \in Nodes PROVE RangeOf(succs[l]) \subseteq visited
    BY <1>2, RangeFacts
<1> QED
    BY <1>1, <1>2, <1>3 DEF Linked

LEMMA FinishStep == IInv /\ Finish => IInv'
<1> SUFFICES ASSUME IInv, Finish PROVE IInv'
    OBVIOUS
<1>0. /\ pc = "return" /\ stack = <<>> /\ visited' = {} /\ pc' = "done"
      /\ ir' = ir /\ arg' = arg /\ ret' = ret /\ stack' = stack
      /\ header' = header /\ succs' = succs /\ preds' = preds /\ edges' = edges
    BY DEF Finish
<1>1. /\ IsBuildable(ir) /\ visited \in SUBSET Nodes
      /\ Seen = visited /\ Pending = {} /\ 0 \in visited /\ header = 0
    BY <1>0 DEF IInv, TypeOK, ControlInv, Seen, Pending
<1>2. /\ \A l \in Nodes : succs[l] = IF l \in visited THEN LinksOf(l) ELSE <<>>
      /\ \A l \in visited : RangeOf(succs[l]) \subseteq visited
      /\ \A m \in visited \ {0} : \E l \in Nodes : m \in RangeOf(succs[l])
      /\ visited \subseteq Reachable(ir)
    BY <1>1 DEF IInv, LinksInv
<1>3. Linked = visited
    BY <1>0, FinishLinks
<1>4. Seen' = visited /\ Pending' = {}
    <2>1. Linked' = Linked
        BY <1>0 DEF Linked, Nodes, RangeOf
    <2> QED
        BY <1>0, <1>3, <2>1 DEF Seen, Pending
<1>5. TypeOK'
    <2>1. Nodes' = Nodes
        BY <1>0 DEF Nodes
    <2> QED
        BY <1>0, <2>1 DEF IInv, TypeOK, Stopped
<1>6. StackInv' /\ EdgeLedger'
    <2>1. 1 .. Len(stack') = {}
        BY <1>0
    <2> QED
        BY <1>0, <2>1 DEF StackInv, EdgeLedger
<1>7. MirrorInv'
    BY <1>0, MirrorKept DEF IInv
<1>8. ControlInv'
    BY <1>0, <1>1, <1>4 DEF ControlInv
<1>9. LinksInv'
    <2>1. \A l : LinksOf(l)' = LinksOf(l)
        BY <1>0 DEF LinksOf, Waits, Follows, LastInstr, IsLast
    <2> QED
        BY <1>0, <1>2, <1>4, <2>1 DEF LinksInv, Nodes, RangeOf
<1> QED
    BY <1>5, <1>6, <1>7, <1>8, <1>9 DEF IInv

LEMMA StepHolds == IInv /\ [Next]_vars => IInv'
<1> SUFFICES ASSUME IInv, [Next]_vars PROVE IInv'
    OBVIOUS
<1>1. CASE CallVisited
    BY <1>1, CallVisitedStep
<1>2. CASE CallJump
    BY <1>2, CallJumpStep
<1>3. CASE CallFall
    BY <1>3, CallFallStep
<1>4. CASE CallEnd
    BY <1>4, CallEndStep
<1>5. CASE ResumeFalse
    BY <1>5, ResumeFalseStep
<1>6. CASE ResumeUp
    BY <1>6, ResumeUpStep
<1>7. CASE Finish
    BY <1>7, FinishStep
<1>8. CASE UNCHANGED vars
    <2>0. /\ ir' = ir /\ pc' = pc /\ arg' = arg /\ ret' = ret /\ stack' = stack
          /\ visited' = visited /\ header' = header /\ succs' = succs
          /\ preds' = preds /\ edges' = edges
        BY <1>8 DEF vars
    <2>1. TypeOK' /\ StackInv' /\ EdgeLedger'
        BY <2>0 DEF IInv, TypeOK, Nodes, StackInv, LastInstr, EdgeLedger, EdgeFound
    <2>2. MirrorInv'
        BY <2>0, MirrorKept DEF IInv
    <2>3. Seen' = Seen /\ Pending' = Pending
        BY <2>0 DEF Seen, Pending, Linked, Nodes, RangeOf
    <2>4. ControlInv'
        BY <2>0, <2>3 DEF IInv, ControlInv, RangeOf, Top
    <2>5. LinksInv'
        <3>1. \A l : LinksOf(l)' = LinksOf(l)
            BY <2>0 DEF LinksOf, Waits, Follows, LastInstr, IsLast
        <3> QED
            BY <2>0, <2>3, <3>1 DEF IInv, LinksInv, Nodes, RangeOf
    <2> QED
        BY <2>1, <2>2, <2>4, <2>5 DEF IInv
<1> QED
    BY <1>1, <1>2, <1>3, <1>4, <1>5, <1>6, <1>7, <1>8 DEF Next

LEMMA Invariance == Spec => []IInv
BY InitHolds, StepHolds, PTL DEF Spec

-----------------------------------------------------------------------------
(***************************************************************************)
(* The search only handles nodes of the graph, and no node has more than   *)
(* two successors (CFG.h:45), whatever the program.                        *)
(***************************************************************************)
THEOREM TypeCorrect == Spec => []TypeOK
<1>1. IInv => TypeOK
    BY DEF IInv
<1> QED
    BY <1>1, Invariance, PTL

(***************************************************************************)
(* On no program does the search dereference the NULL of a failed lookup   *)
(* (graph.c:152) or meet "Too many edges" (graph.c:167).                   *)
(***************************************************************************)
THEOREM NeverAborts == Spec => []NoAbort
<1>1. IInv => NoAbort
    BY DEF IInv, ControlInv, NoAbort, Stopped
<1> QED
    BY <1>1, Invariance, PTL

(***************************************************************************)
(* The recorded edges, the pending calls and the node being returned       *)
(* account for each marked node once, at every moment.                     *)
(***************************************************************************)
THEOREM LedgerBalances == Spec => []EdgeLedger
<1>1. IInv => EdgeLedger
    BY DEF IInv
<1> QED
    BY <1>1, Invariance, PTL

\* A block that has been seen has no links but to blocks that may follow it.
LEMMA LinksFollow ==
    ASSUME IInv, NEW l \in Seen
    PROVE  /\ l \in Nodes /\ RangeOf(succs[l]) \subseteq BlockNext(ir, l)
           /\ ~ Waits(l) => succs[l] = Follows(l) /\ RangeOf(succs[l]) = BlockNext(ir, l)
<1>1. l \in Nodes /\ IsBuildable(ir)
    BY ReachableFacts DEF IInv, TypeOK, LinksInv
<1>2. succs[l] = LinksOf(l) /\ RangeOf(Follows(l)) = BlockNext(ir, l)
    BY <1>1, BlockFacts DEF IInv, LinksInv
<1>3. CASE Waits(l)
    <2>1. IsJump(ir, LastInstr(l))
        BY <1>3 DEF Waits, IInv, StackInv
    <2>2. Target(ir, LastInstr(l)) \in BlockNext(ir, l)
        BY <2>1 DEF BlockNext, InstrNext, IsJump, LastInstr
    <2>3. RangeOf(succs[l]) = {Target(ir, LastInstr(l))}
        BY <1>2, <1>3, RangeFacts DEF LinksOf
    <2> QED
        BY <1>1, <1>3, <2>2, <2>3
<1>4. CASE ~ Waits(l)
    BY <1>1, <1>2, <1>4 DEF LinksOf
<1> QED
    BY <1>3, <1>4

\* When the search is over, what it has seen is closed under the flow.
LEMMA SeenClosed ==
    ASSUME IInv, pc \in {"return", "done"}, stack = <<>>
    PROVE  /\ 0 \in Seen
           /\ \A l \in Seen : succs[l] = Follows(l) /\ BlockNext(ir, l) \subseteq Seen
<1>1. 0 \in Seen /\ Pending = {}
    BY DEF IInv, ControlInv, Pending
<1>2. ASSUME NEW l \in Seen
      PROVE  succs[l] = Follows(l) /\ BlockNext(ir, l) \subseteq Seen
    <2>1. ~ Waits(l)
        BY DEF Waits
    <2> QED
        BY <1>1, <2>1, LinksFollow DEF IInv, LinksInv
<1> QED
    BY <1>1, <1>2

\* When the search is over, the links are those of the flow.
LEMMA LinksExact == IInv => CfgExact
<1> SUFFICES ASSUME IInv, pc = "done" PROVE CfgExact
    BY DEF CfgExact
<1>1. /\ stack = <<>> /\ Seen = Linked /\ 0 \in Seen /\ header = 0
      /\ IsBuildable(ir)
    BY SeenClosed DEF IInv, ControlInv, Seen, TypeOK
<1>2. /\ \A l \in Seen : succs[l] = Follows(l) /\ BlockNext(ir, l) \subseteq Seen
      /\ Seen \subseteq Reachable(ir)
    BY <1>1, SeenClosed DEF IInv, LinksInv
<1>3. Reachable(ir) \subseteq Seen
    <2>1. Seen \in SUBSET Leaders(ir) /\ BlockClosed(ir, Seen)
        BY <1>1, <1>2 DEF Reachable, BlockClosed
    <2> QED
        BY <2>1 DEF Reachable
<1>4. \A l \in Nodes : succs[l] = IF l \in Reachable(ir) THEN Follows(l) ELSE <<>>
    BY <1>2, <1>3 DEF IInv, LinksInv
<1>5. MirrorInv
    BY DEF IInv
<1> QED
    BY <1>1, <1>2, <1>3, <1>4, <1>5 DEF CfgExact, MirrorInv

(***************************************************************************)
(* On every program the finished graph links exactly the blocks that can   *)
(* be reached from the entry, each to all the blocks that may follow it    *)
(* and to no other, with predecessors that mirror the successors.          *)
(***************************************************************************)
THEOREM CfgCorrect == Spec => []CfgExact
BY LinksExact, Invariance, PTL

-----------------------------------------------------------------------------
\* The abstract search reads the flow of the program as this module does.
LEMMA SameFlow ==
    \A p, l : Search!BlockNext(p, l) = BlockNext(p, l)
<1> USE DEF Search!Kind, Kind, Search!Target, Target, Search!IsJump, IsJump,
            Search!Offsets, Offsets
<1>1. \A p : Search!Leaders(p) = Leaders(p)
    BY DEF Search!Leaders, Leaders
<1>2. \A p, l, e : Search!IsBlockEnd(p, l, e) <=> IsBlockEnd(p, l, e)
    BY <1>1 DEF Search!IsBlockEnd, IsBlockEnd
<1>3. \A p, l : Search!BlockEnd(p, l) = BlockEnd(p, l)
    BY <1>2 DEF Search!BlockEnd, BlockEnd
<1>4. \A p, k : Search!InstrNext(p, k) = InstrNext(p, k)
    BY DEF Search!InstrNext, InstrNext
<1> QED
    BY <1>3, <1>4 DEF Search!BlockNext, BlockNext

\* A call on a block that is not marked discovers a block of the frontier.
LEMMA CallDiscovers ==
    ASSUME IInv, pc = "call", arg \in Leaders(ir) \ visited, Enter(arg),
           ir' = ir, pc' # "done"
    PROVE  Search!Discover
<1> DEFINE seen == IF pc = "done" THEN Linked ELSE visited
<1>1. seen = visited /\ seen' = visited \cup {arg} /\ Seen = visited
    BY DEF Enter, Seen
<1>2. arg \in Search!Frontier
    <2>1. CASE stack = <<>>
        BY <1>1, <2>1 DEF IInv, ControlInv, Search!Frontier
    <2>2. CASE stack # <<>>
        <3>1. Top.node \in visited
            BY <2>2, PopFacts DEF IInv, StackInv, Top
        <3>2. arg \in RangeOf(succs[Top.node])
            BY <2>2 DEF IInv, ControlInv
        <3>3. arg \in BlockNext(ir, Top.node)
            BY <1>1, <3>1, <3>2, LinksFollow
        <3>4. arg \in (UNION {Search!BlockNext(ir, l) : l \in visited}) \ visited
            BY <3>1, <3>3, SameFlow
        <3> QED
            BY <1>1, <3>1, <3>4 DEF Search!Frontier
    <2> QED
        BY <2>1, <2>2
<1> QED
    BY <1>1, <1>2 DEF Search!Discover

(***************************************************************************)
(* create_graph implements the abstract search: each call that marks a     *)
(* block discovers one that may follow a block marked before, every other  *)
(* step but the last is a stutter, and the last one comes only when there  *)
(* is nothing left to discover.                                            *)
(***************************************************************************)
THEOREM Refinement == Spec => Implements
<1>1. Init => Search!Init
    <2> USE DEF Search!Kind, Kind, Search!Target, Target, Search!IsJump, IsJump,
                Search!Offsets, Offsets, Search!Kinds, Kinds
    <2>1. \A p : Search!IsBuildable(p) <=> IsBuildable(p)
        BY DEF Search!IsBuildable, Search!IsProgram, Search!StartsInside,
               IsBuildable, IsProgram, StartsInside
    <2>2. ASSUME Init PROVE IsBuildable(ir) /\ pc = "call" /\ visited = {}
        BY <2>2, ProgramsAssumption DEF Init, Entry, IsBuildable
    <2> QED
        BY <2>1, <2>2 DEF Search!Init
<1>2. ASSUME IInv, IInv', [Next]_vars
      PROVE  [Search!Next]_(Search!vars)
    <2>1. CASE CallJump \/ CallFall \/ CallEnd
        <3>1. /\ pc = "call" /\ arg \in Leaders(ir) \ visited /\ Enter(arg) /\ ir' = ir
            BY <2>1 DEF CallJump, CallFall, CallEnd
        <3>2. pc' # "done"
            BY <2>1 DEF CallJump, CallFall, CallEnd, LinkAndCall
        <3> QED
            BY <1>2, <3>1, <3>2, CallDiscovers DEF Search!Next
    <2>2. CASE CallVisited \/ ResumeFalse \/ ResumeUp
        <3>1. ir' = ir /\ visited' = visited /\ pc # "done" /\ pc' # "done"
            BY <2>2 DEF CallVisited, ResumeFalse, ResumeUp, LinkAndCall
        <3> QED
            BY <3>1 DEF Search!vars
    <2>3. CASE Finish
        <3>1. /\ pc = "return" /\ stack = <<>> /\ pc' = "done"
              /\ ir' = ir /\ succs' = succs
            BY <2>3 DEF Finish
        <3>2. /\ 0 \in visited
              /\ \A l \in visited : succs[l] = Follows(l) /\ BlockNext(ir, l) \subseteq visited
            BY <1>2, <3>1, SeenClosed DEF Seen
        <3>3. Linked' = visited
            <4>1. Linked' = Linked
                BY <3>1 DEF Linked, Nodes, RangeOf
            <4>2. Linked = visited
                BY <1>2, <3>1, FinishLinks
            <4> QED
                BY <4>1, <4>2
        <3>4. Search!Frontier = {}
            BY <3>1, <3>2, SameFlow DEF Search!Frontier
        <3> QED
            BY <3>1, <3>3, <3>4 DEF Search!Finish, Search!Next
    <2>4. CASE UNCHANGED vars
        BY <2>4 DEF vars, Search!vars, Linked, Nodes, RangeOf
    <2> QED
        BY <1>2, <2>1, <2>2, <2>3, <2>4 DEF Next
<1> QED
    BY <1>1, <1>2, Invariance, PTL DEF Spec, Implements, Search!Spec

(***************************************************************************)
(* When every jump ends its block, and no block without instructions       *)
(* inherits the links of a jump, the blocks of the finished graph hold     *)
(* every instruction that can be executed and no other.                    *)
(***************************************************************************)
THEOREM FlowSurvives == Spec => []FlowPreserved
<1>1. IInv /\ CfgExact => FlowPreserved
    <2> SUFFICES ASSUME IInv, CfgExact, pc = "done", JumpsEndBlocks(ir),
                        EndsPlainly(ir) \/ ir.index \notin Leaders(ir)
                 PROVE  FlowIsKept
        BY DEF FlowPreserved
    <2>1. IsBuildable(ir) /\ Linked = Reachable(ir)
        BY DEF IInv, TypeOK, CfgExact
    <2> QED
        BY <2>1, FlowKept DEF FlowIsKept
<1> QED
    BY <1>1, Invariance, CfgCorrect, PTL

-----------------------------------------------------------------------------
(***************************************************************************)
(* The edge array.  Each block the search has marked is the target of an   *)
(* edge, waits on the stack or is being returned, one of them and once;    *)
(* each of these is a successor of the block the search came from, which   *)
(* starts with the entry.                                                  *)
(***************************************************************************)
Targets == {edges[k][2] : k \in 1 .. Len(edges)}
Waiting == {stack[k].node : k \in 1 .. Len(stack)}
Returned == IF pc = "return" /\ EdgeFound THEN {ret} ELSE {}

\* The edges are links, and no two lead to the same block.
LinkedOnce ==
    /\ \A j, k \in 1 .. Len(edges) : edges[j][2] = edges[k][2] => j = k
    /\ \A k \in 1 .. Len(edges) : edges[k][2] \in RangeOf(succs[edges[k][1]])

Accounted ==
    IF pc = "done" THEN Targets = Linked \ {0}
    ELSE /\ Targets \cup Waiting \cup Returned = visited
         /\ Targets \cap Waiting = {}
         /\ (Targets \cup Waiting) \cap Returned = {}

PathDown ==
    /\ stack # <<>> => stack[1].node = 0
    /\ \A k \in 1 .. Len(stack) - 1 : stack[k + 1].node \in RangeOf(succs[stack[k].node])
    /\ pc = "return" => IF stack = <<>> THEN ret = 0
                        ELSE EdgeFound => ret \in RangeOf(succs[Top.node])

TreeInv == LinkedOnce /\ Accounted /\ PathDown

\* The links of a block only grow.
LinksGrow == \A l \in Nodes : RangeOf(succs[l]) \subseteq RangeOf(succs'[l])

LEMMA LinkGrows ==
    ASSUME IInv, NEW n, NEW x, NEW f, LinkAndCall(n, x, f), pc' = "call"
    PROVE  LinksGrow /\ stack' = f /\ arg' = x
<1>1. /\ succs' = [succs EXCEPT ![n] = Append(@, FindNode(x))]
      /\ stack' = f /\ arg' = x /\ FindNode(x) # NULL
    BY DEF LinkAndCall
<1>2. succs \in [Nodes -> Seq(Nodes)] /\ FindNode(x) \in Nodes
    BY <1>1 DEF IInv, TypeOK, FindNode, Nodes
<1>3. ASSUME NEW l \in Nodes PROVE RangeOf(succs[l]) \subseteq RangeOf(succs'[l])
    <2>1. CASE l = n
        <3>1. succs'[l] = Append(succs[l], FindNode(x)) /\ succs[l] \in Seq(Nodes)
            BY <1>1, <1>2, <2>1
        <3> DEFINE s == succs[l]
                   y == FindNode(x)
        <3>2. s \in Seq(Nodes) /\ y \in Nodes /\ succs'[l] = Append(s, y)
            BY <1>2, <2>1, <3>1
        <3> HIDE DEF s, y
        <3>3. RangeOf(succs'[l]) = RangeOf(s) \cup {y}
            BY <3>2, RangeAppend, Zenon
        <3> QED
            BY <3>3 DEF s
    <2>2. CASE l # n
        BY <1>1, <1>2, <2>2
    <2> QED
        BY <2>1, <2>2
<1> QED
    BY <1>1, <1>3 DEF LinksGrow

\* What is known of the edges and of the stack.
LEMMA TreeTypes ==
    ASSUME IInv
    PROVE  /\ Len(edges) \in Nat /\ Len(stack) \in Nat
           /\ \A k \in 1 .. Len(edges) : edges[k][1] \in Nodes /\ edges[k][2] \in Nodes
           /\ \A k \in 1 .. Len(stack) : stack[k].node \in Nodes
           /\ stack # <<>> <=> Len(stack) > 0
           /\ NULL \notin Nodes /\ visited \in SUBSET Nodes
           /\ succs \in [Nodes -> Seq(Nodes)]
<1> DEFINE F == [node : Nodes, branch : {"true", "false", "next"}]
           E == Nodes \X Nodes
<1>1. /\ stack \in Seq(F) /\ edges \in Seq(E) /\ visited \in SUBSET Nodes
      /\ succs \in [Nodes -> Seq(Nodes)] /\ IsBuildable(ir)
    BY DEF IInv, TypeOK
<1>2. NULL \notin Nodes
    <2>1. Nodes \subseteq Int
        BY <1>1, LeaderFacts DEF Nodes
    <2> QED
        BY <2>1, NullAssumption
<1>3. /\ Len(edges) \in Nat /\ Len(stack) \in Nat
      /\ stack # <<>> <=> Len(stack) > 0
      /\ \A k \in 1 .. Len(edges) : edges[k] \in E
      /\ \A k \in 1 .. Len(stack) : stack[k] \in F
    <2> HIDE DEF E, F
    <2> QED
        BY <1>1, ElementOfSeq, EmptySeq, LenProperties
<1>4. /\ \A k \in 1 .. Len(edges) : edges[k][1] \in Nodes /\ edges[k][2] \in Nodes
      /\ \A k \in 1 .. Len(stack) : stack[k].node \in Nodes
    BY <1>3
<1> QED
    BY <1>1, <1>2, <1>3, <1>4

\* Edges that stay as they are stay links.
LEMMA EdgesKept ==
    ASSUME IInv, LinkedOnce, LinksGrow, edges' = edges
    PROVE  LinkedOnce' /\ Targets' = Targets
<1>1. \A k \in 1 .. Len(edges) : edges[k][1] \in Nodes
    BY TreeTypes
<1> QED
    BY <1>1 DEF LinkedOnce, LinksGrow, Targets

\* A call marks a block that is nowhere in the books.
LEMMA TreeEnters ==
    ASSUME IInv, TreeInv, pc = "call", arg \notin visited, arg \in Nodes
    PROVE  /\ arg \notin Targets \cup Waiting
           /\ IF stack = <<>> THEN arg = 0 ELSE arg \in RangeOf(succs[Top.node])
           /\ Targets \cup Waiting = visited /\ Targets \cap Waiting = {}
BY DEF IInv, ControlInv, TreeInv, Accounted, Returned

LEMMA TreeCallLink ==
    ASSUME IInv, TreeInv, pc = "call", arg \in Nodes \ visited, NEW x, NEW b,
           visited' = visited \cup {arg}, pc' = "call", edges' = edges,
           LinkAndCall(arg, x, Append(stack, Frame(arg, b)))
    PROVE  TreeInv'
<1>0. LinksGrow /\ stack' = Append(stack, Frame(arg, b))
    BY LinkGrows
<1>1. /\ arg \notin Targets \cup Waiting
      /\ IF stack = <<>> THEN arg = 0 ELSE arg \in RangeOf(succs[Top.node])
      /\ Targets \cup Waiting = visited /\ Targets \cap Waiting = {}
    BY TreeEnters
<1>2. /\ Len(stack) \in Nat /\ Len(stack') = Len(stack) + 1
      /\ \A k \in 1 .. Len(stack) : stack'[k] = stack[k]
      /\ stack'[Len(stack) + 1].node = arg
    <2> DEFINE F == [node : Nodes, branch : {"true", "false", "next"}]
    <2>1. stack \in Seq(F \cup {Frame(arg, b)})
        <3>1. stack \in Seq(F)
            BY DEF IInv, TypeOK
        <3> HIDE DEF F
        <3> QED
            BY <3>1
    <2>2. Frame(arg, b) \in F \cup {Frame(arg, b)}
        OBVIOUS
    <2>3. Frame(arg, b).node = arg
        BY DEF Frame
    <2> HIDE DEF F
    <2> QED
        BY <1>0, <2>1, <2>2, <2>3, AppendProperties, LenProperties
<1>3. LinkedOnce' /\ Targets' = Targets
    BY <1>0, EdgesKept DEF TreeInv
<1>4. Waiting' = Waiting \cup {arg}
    <2>1. 1 .. Len(stack') = (1 .. Len(stack)) \cup {Len(stack) + 1}
        BY <1>2
    <2> QED
        BY <1>2, <2>1 DEF Waiting
<1>5. Accounted'
    <2>1. Returned' = {}
        BY DEF Returned
    <2> QED
        BY <1>1, <1>3, <1>4, <2>1 DEF Accounted
<1>6. PathDown'
    <2>1. stack'[1].node = 0
        <3>1. CASE stack = <<>>
            <4>1. Len(stack) = 0
                BY <3>1
            <4> QED
                BY <1>1, <1>2, <3>1, <4>1
        <3>2. CASE stack # <<>>
            <4>1. 1 \in 1 .. Len(stack)
                BY <1>2, <3>2, TreeTypes
            <4> QED
                BY <1>2, <3>2, <4>1 DEF TreeInv, PathDown
        <3> QED
            BY <3>1, <3>2
    <2>2. ASSUME NEW k \in 1 .. Len(stack)
          PROVE  stack'[k + 1].node \in RangeOf(succs'[stack'[k].node])
        <3>1. stack'[k].node = stack[k].node /\ stack[k].node \in Nodes
            BY <1>2, TreeTypes
        <3>2. stack'[k + 1].node \in RangeOf(succs[stack[k].node])
            <4>1. CASE k = Len(stack)
                <5>1. stack # <<>> /\ Top.node = stack[k].node
                    BY <4>1, TreeTypes DEF Top
                <5> QED
                    BY <1>1, <1>2, <4>1, <5>1
            <4>2. CASE k # Len(stack)
                <5>1. k \in 1 .. Len(stack) - 1 /\ k + 1 \in 1 .. Len(stack)
                    BY <1>2, <4>2
                <5> QED
                    BY <1>2, <5>1 DEF TreeInv, PathDown
            <4> QED
                BY <4>1, <4>2
        <3> QED
            BY <1>0, <3>1, <3>2 DEF LinksGrow
    <2>3. 1 .. Len(stack') - 1 = 1 .. Len(stack)
        BY <1>2
    <2> QED
        BY <2>1, <2>2, <2>3 DEF PathDown
<1> QED
    BY <1>3, <1>5, <1>6 DEF TreeInv

LEMMA TreeCalls ==
    ASSUME IInv, IInv', TreeInv, CallJump \/ CallFall
    PROVE  TreeInv'
<1>1. /\ pc = "call" /\ arg \in Nodes \ visited /\ edges' = edges
      /\ visited' = visited \cup {arg}
    BY DEF CallJump, CallFall, Enter, Nodes
<1>2. pc' # "crash"
    BY DEF IInv, ControlInv
<1>3. CASE CallJump
    <2>1. LinkAndCall(arg, Target(ir, LastInstr(arg)), Append(stack, Frame(arg, "true")))
        BY <1>3 DEF CallJump
    <2>2. pc' = "call"
        BY <1>2, <2>1 DEF LinkAndCall
    <2> QED
        BY <1>1, <2>1, <2>2, TreeCallLink
<1>4. CASE CallFall
    <2>1. LinkAndCall(arg, LastInstr(arg) + 1, Append(stack, Frame(arg, "next")))
        BY <1>4 DEF CallFall
    <2>2. pc' = "call"
        BY <1>2, <2>1 DEF LinkAndCall
    <2> QED
        BY <1>1, <2>1, <2>2, TreeCallLink
<1> QED
    BY <1>3, <1>4

LEMMA TreeCallEnd ==
    ASSUME IInv, TreeInv, CallEnd
    PROVE  TreeInv'
<1>1. /\ pc = "call" /\ arg \in Nodes \ visited /\ visited' = visited \cup {arg}
      /\ ret' = arg /\ pc' = "return"
      /\ stack' = stack /\ succs' = succs /\ edges' = edges
    BY DEF CallEnd, Enter, Nodes
<1>2. /\ arg \notin Targets \cup Waiting
      /\ IF stack = <<>> THEN arg = 0 ELSE arg \in RangeOf(succs[Top.node])
      /\ Targets \cup Waiting = visited /\ Targets \cap Waiting = {}
    BY <1>1, TreeEnters
<1>3. Targets' = Targets /\ Waiting' = Waiting /\ Returned' = {arg}
    BY <1>1, TreeTypes DEF Targets, Waiting, Returned, EdgeFound
<1>4. LinkedOnce'
    BY <1>1 DEF TreeInv, LinkedOnce
<1>5. Accounted'
    BY <1>1, <1>2, <1>3 DEF Accounted
<1>6. PathDown'
    BY <1>1, <1>2 DEF TreeInv, PathDown, Top
<1> QED
    BY <1>4, <1>5, <1>6 DEF TreeInv

LEMMA TreeCallVisited ==
    ASSUME IInv, TreeInv, CallVisited
    PROVE  TreeInv'
<1>1. /\ pc = "call" /\ arg \in visited /\ visited' = visited
      /\ ret' = NULL /\ pc' = "return"
      /\ stack' = stack /\ succs' = succs /\ edges' = edges
    BY DEF CallVisited
<1>2. Targets' = Targets /\ Waiting' = Waiting /\ Returned' = {} /\ Returned = {}
    BY <1>1 DEF Targets, Waiting, Returned, EdgeFound
<1>3. stack # <<>>
    BY <1>1 DEF IInv, ControlInv
<1>4. LinkedOnce'
    BY <1>1 DEF TreeInv, LinkedOnce
<1>5. Accounted'
    BY <1>1, <1>2 DEF TreeInv, Accounted
<1>6. PathDown'
    BY <1>1, <1>3 DEF TreeInv, PathDown, EdgeFound
<1> QED
    BY <1>4, <1>5, <1>6 DEF TreeInv

\* A pending call that goes on records the edge to the block returned.
LEMMA TreeRecords ==
    ASSUME IInv, TreeInv, pc = "return", stack # <<>>, RecordEdge, LinksGrow
    PROVE  LinkedOnce' /\ Targets' = Targets \cup Returned
<1>1. CASE ~ EdgeFound
    <2>1. edges' = edges /\ Returned = {}
        BY <1>1 DEF RecordEdge, Returned
    <2> QED
        BY <2>1, EdgesKept DEF TreeInv
<1>2. CASE EdgeFound
    <2> DEFINE E == Nodes \X Nodes
    <2>1. /\ edges' = Append(edges, <<Top.node, ret>>) /\ Returned = {ret}
          /\ ret \notin Targets /\ ret \in RangeOf(succs[Top.node])
          /\ Top.node \in Nodes /\ ret \in Nodes /\ edges \in Seq(E)
        <3>1. Top.node \in Nodes
            BY PopFacts DEF IInv
        <3> QED
            BY <1>2, <3>1 DEF RecordEdge, Returned, TreeInv, Accounted, PathDown,
                              IInv, TypeOK, EdgeFound
    <2>2. /\ Len(edges) \in Nat /\ Len(edges') = Len(edges) + 1
          /\ \A k \in 1 .. Len(edges) : edges'[k] = edges[k]
          /\ edges'[Len(edges) + 1] = <<Top.node, ret>>
        <3>1. <<Top.node, ret>> \in E
            BY <2>1
        <3> HIDE DEF E
        <3> QED
            BY <2>1, <3>1, AppendProperties, LenProperties
    <2>3. 1 .. Len(edges') = (1 .. Len(edges)) \cup {Len(edges) + 1}
        BY <2>2
    <2>4. /\ edges'[Len(edges) + 1][1] = Top.node
          /\ edges'[Len(edges) + 1][2] = ret
        BY <2>2
    <2>5. Targets' = Targets \cup {ret}
        BY <2>2, <2>3, <2>4 DEF Targets
    <2>6. \A j, k \in 1 .. Len(edges') : edges'[j][2] = edges'[k][2] => j = k
        BY <2>1, <2>2, <2>3, <2>4 DEF TreeInv, LinkedOnce, Targets
    <2>7. \A k \in 1 .. Len(edges') : edges'[k][2] \in RangeOf(succs'[edges'[k][1]])
        <3>1. ASSUME NEW k \in 1 .. Len(edges)
              PROVE  edges'[k][2] \in RangeOf(succs'[edges'[k][1]])
            <4>1. edges[k][1] \in Nodes /\ edges[k][2] \in RangeOf(succs[edges[k][1]])
                BY TreeTypes DEF TreeInv, LinkedOnce
            <4> QED
                BY <2>2, <4>1 DEF LinksGrow
        <3>2. ret \in RangeOf(succs'[Top.node])
            BY <2>1 DEF LinksGrow
        <3> QED
            BY <2>3, <2>4, <3>1, <3>2
    <2> QED
        BY <2>1, <2>5, <2>6, <2>7 DEF LinkedOnce
<1> QED
    BY <1>1, <1>2

LEMMA TreeResumeFalse ==
    ASSUME IInv, IInv', TreeInv, ResumeFalse
    PROVE  TreeInv'
<1>0. /\ pc = "return" /\ stack # <<>> /\ visited' = visited
      /\ pc' # "exit" /\ pc' # "crash"
    BY DEF ResumeFalse, IInv, ControlInv
<1>1. /\ RecordEdge
      /\ LinkAndCall(Top.node, LastInstr(Top.node) + 1, Append(Pop, Frame(Top.node, "false")))
    BY <1>0 DEF ResumeFalse
<1>2. pc' = "call"
    BY <1>0, <1>1 DEF LinkAndCall
<1>3. LinksGrow /\ stack' = Append(Pop, Frame(Top.node, "false"))
    BY <1>1, <1>2, LinkGrows
<1>4. /\ Len(stack) \in Nat \ {0} /\ Len(stack') = Len(stack)
      /\ \A k \in 1 .. Len(stack) : stack'[k].node = stack[k].node
    <2> DEFINE F == [node : Nodes, branch : {"true", "false", "next"}]
    <2>1. /\ Len(stack) \in Nat \ {0} /\ Len(Pop) = Len(stack) - 1 /\ Pop \in Seq(F)
          /\ \A k \in 1 .. Len(stack) - 1 : Pop[k] = stack[k]
          /\ Top.node \in Nodes
        BY <1>0, PopFacts DEF IInv
    <2>2. Frame(Top.node, "false") \in F /\ Frame(Top.node, "false").node = Top.node
        BY <2>1 DEF Frame
    <2>3. /\ Len(stack') = Len(Pop) + 1
          /\ \A k \in 1 .. Len(Pop) : stack'[k] = Pop[k]
          /\ stack'[Len(Pop) + 1] = Frame(Top.node, "false")
        <3> HIDE DEF F
        <3> QED
            BY <1>3, <2>1, <2>2, AppendProperties, LenProperties
    <2> QED
        BY <2>1, <2>2, <2>3 DEF Top
<1>5. LinkedOnce' /\ Targets' = Targets \cup Returned
    BY <1>0, <1>1, <1>3, TreeRecords
<1>6. Waiting' = Waiting /\ Returned' = {}
    BY <1>2, <1>4 DEF Waiting, Returned
<1>7. Accounted'
    BY <1>0, <1>2, <1>5, <1>6 DEF TreeInv, Accounted
<1>8. PathDown'
    <2>1. stack'[1].node = 0
        BY <1>0, <1>4 DEF TreeInv, PathDown
    <2>2. ASSUME NEW k \in 1 .. Len(stack') - 1
          PROVE  stack'[k + 1].node \in RangeOf(succs'[stack'[k].node])
        <3>1. k \in 1 .. Len(stack) /\ k + 1 \in 1 .. Len(stack) /\ k \in 1 .. Len(stack) - 1
            BY <1>4
        <3>2. stack[k].node \in Nodes
            BY <3>1, TreeTypes
        <3>3. stack[k + 1].node \in RangeOf(succs[stack[k].node])
            BY <3>1 DEF TreeInv, PathDown
        <3> QED
            BY <1>3, <1>4, <3>1, <3>2, <3>3 DEF LinksGrow
    <2> QED
        BY <1>2, <2>1, <2>2 DEF PathDown
<1> QED
    BY <1>5, <1>7, <1>8 DEF TreeInv

LEMMA TreeResumeUp ==
    ASSUME IInv, IInv', TreeInv, ResumeUp
    PROVE  TreeInv'
<1>0. /\ pc = "return" /\ stack # <<>> /\ visited' = visited /\ succs' = succs
      /\ pc' # "exit"
    BY DEF ResumeUp, IInv, ControlInv
<1>1. RecordEdge /\ ret' = Top.node /\ stack' = Pop /\ pc' = "return"
    BY <1>0 DEF ResumeUp
<1>2. /\ Len(stack) \in Nat \ {0} /\ Len(stack') = Len(stack) - 1
      /\ \A k \in 1 .. Len(stack) - 1 : stack'[k] = stack[k]
      /\ Top.node \in Nodes
    BY <1>0, <1>1, PopFacts DEF IInv
<1>3. LinkedOnce' /\ Targets' = Targets \cup Returned
    BY <1>0, <1>1, TreeRecords DEF LinksGrow
<1>4. Waiting = Waiting' \cup {Top.node} /\ Top.node \notin Waiting'
    <2>1. 1 .. Len(stack) = (1 .. Len(stack) - 1) \cup {Len(stack)}
        BY <1>2
    <2>2. \A k \in 1 .. Len(stack) - 1 : stack[k].node # Top.node
        BY <1>2 DEF IInv, StackInv, Top
    <2>3. Waiting' = {stack[k].node : k \in 1 .. Len(stack) - 1}
        BY <1>2 DEF Waiting
    <2> QED
        BY <2>1, <2>2, <2>3 DEF Waiting, Top
<1>5. Returned' = {Top.node}
    BY <1>1, <1>2, TreeTypes DEF Returned, EdgeFound
<1>6. Accounted'
    <2>1. /\ Targets \cup Waiting \cup Returned = visited
          /\ Targets \cap Waiting = {}
          /\ (Targets \cup Waiting) \cap Returned = {}
        BY <1>0 DEF TreeInv, Accounted
    <2>2. /\ Targets' \cup Waiting' \cup Returned' = visited'
          /\ Targets' \cap Waiting' = {}
          /\ (Targets' \cup Waiting') \cap Returned' = {}
        BY <1>0, <1>3, <1>4, <1>5, <2>1
    <2> QED
        BY <1>1, <2>2 DEF Accounted
<1>7. PathDown'
    <2>1. CASE Len(stack) = 1
        <3>1. stack' = <<>>
            BY <1>1, <1>2, <2>1 DEF Pop
        <3>2. Top.node = 0 /\ Len(stack') = 0
            BY <1>0, <1>2, <2>1 DEF TreeInv, PathDown, Top
        <3> QED
            BY <1>1, <3>1, <3>2 DEF PathDown
    <2>2. CASE Len(stack) # 1
        <3>1. /\ 1 \in 1 .. Len(stack) - 1 /\ Len(stack) - 1 \in 1 .. Len(stack) - 1
              /\ stack' # <<>>
            BY <1>2, <2>2
        <3>2. stack'[1].node = 0
            BY <1>0, <1>2, <3>1 DEF TreeInv, PathDown
        <3>3. ASSUME NEW k \in 1 .. Len(stack') - 1
              PROVE  stack'[k + 1].node \in RangeOf(succs'[stack'[k].node])
            <4>1. /\ k \in 1 .. Len(stack) - 1 /\ k + 1 \in 1 .. Len(stack) - 1
                BY <1>2
            <4> QED
                BY <1>0, <1>2, <4>1 DEF TreeInv, PathDown
        <3>4. ret' \in RangeOf(succs'[Top'.node])
            <4>1. Top'.node = stack[Len(stack) - 1].node
                BY <1>2, <3>1 DEF Top
            <4>2. stack[Len(stack) - 1 + 1].node \in RangeOf(succs[stack[Len(stack) - 1].node])
                BY <3>1 DEF TreeInv, PathDown
            <4>3. Len(stack) - 1 + 1 = Len(stack)
                BY <1>2
            <4> QED
                BY <1>0, <1>1, <4>1, <4>2, <4>3 DEF Top
        <3> QED
            BY <3>1, <3>2, <3>3, <3>4 DEF PathDown
    <2> QED
        BY <2>1, <2>2
<1> QED
    BY <1>3, <1>6, <1>7 DEF TreeInv

LEMMA TreeFinish ==
    ASSUME IInv, TreeInv, Finish
    PROVE  TreeInv'
<1>1. /\ pc = "return" /\ stack = <<>> /\ pc' = "done" /\ ret' = ret
      /\ stack' = stack /\ succs' = succs /\ edges' = edges /\ ir' = ir
    BY DEF Finish
<1>2. Linked' = Linked /\ Linked = visited /\ Targets' = Targets
    <2>1. Linked' = Linked /\ Targets' = Targets
        BY <1>1 DEF Linked, Nodes, RangeOf, Targets
    <2>2. Linked = visited
        BY <1>1, FinishLinks
    <2> QED
        BY <2>1, <2>2
<1>3. Targets = visited \ {0}
    <2>1. Waiting = {}
        BY <1>1 DEF Waiting
    <2>2. IsBuildable(ir) /\ NULL \notin Nodes
        BY TreeTypes DEF IInv, TypeOK
    <2>3. ret = 0 /\ 0 \in Nodes
        BY <1>1, <2>2, LeaderFacts DEF TreeInv, PathDown, Nodes
    <2>4. Returned = {0}
        BY <1>1, <2>2, <2>3 DEF Returned, EdgeFound
    <2> QED
        BY <1>1, <2>1, <2>4 DEF TreeInv, Accounted
<1>4. LinkedOnce' /\ PathDown'
    BY <1>1 DEF TreeInv, LinkedOnce, PathDown
<1>5. Accounted'
    BY <1>1, <1>2, <1>3 DEF Accounted
<1> QED
    BY <1>4, <1>5 DEF TreeInv

LEMMA TreeHolds == Spec => []TreeInv
<1>1. Init => TreeInv
    <2> SUFFICES ASSUME Init PROVE TreeInv
        OBVIOUS
    <2>1. pc = "call" /\ stack = <<>> /\ visited = {} /\ edges = <<>>
        BY DEF Init, Entry
    <2>2. Targets = {} /\ Waiting = {} /\ Returned = {}
        BY <2>1 DEF Targets, Waiting, Returned
    <2> QED
        BY <2>1, <2>2 DEF TreeInv, LinkedOnce, Accounted, PathDown
<1>2. ASSUME IInv, IInv', TreeInv, [Next]_vars PROVE TreeInv'
    <2>1. CASE CallVisited
        BY <1>2, <2>1, TreeCallVisited
    <2>2. CASE CallJump \/ CallFall
        BY <1>2, <2>2, TreeCalls
    <2>3. CASE CallEnd
        BY <1>2, <2>3, TreeCallEnd
    <2>4. CASE ResumeFalse
        BY <1>2, <2>4, TreeResumeFalse
    <2>5. CASE ResumeUp
        BY <1>2, <2>5, TreeResumeUp
    <2>6. CASE Finish
        BY <1>2, <2>6, TreeFinish
    <2>7. CASE UNCHANGED vars
        <3>1. /\ ir' = ir /\ pc' = pc /\ ret' = ret /\ stack' = stack
              /\ visited' = visited /\ succs' = succs /\ edges' = edges
            BY <2>7 DEF vars
        <3>2. LinkedOnce' /\ PathDown'
            BY <1>2, <3>1 DEF TreeInv, LinkedOnce, PathDown, EdgeFound, Top, RangeOf
        <3>3. /\ Targets' = Targets /\ Waiting' = Waiting /\ Returned' = Returned
              /\ Linked' = Linked
            BY <3>1 DEF Targets, Waiting, Returned, EdgeFound, Linked, Nodes, RangeOf
        <3>4. Accounted'
            BY <1>2, <3>1, <3>3 DEF TreeInv, Accounted
        <3> QED
            BY <3>2, <3>4 DEF TreeInv
    <2> QED
        BY <1>2, <2>1, <2>2, <2>3, <2>4, <2>5, <2>6, <2>7 DEF Next
<1>3. IInv /\ IInv' /\ TreeInv /\ [Next]_vars => TreeInv'
    BY <1>2
<1> QED
    BY <1>1, <1>3, Invariance, PTL DEF Spec

(***************************************************************************)
(* The edges of the finished graph form a spanning tree of the blocks that *)
(* can be reached: one edge into each but the entry, along a link.         *)
(***************************************************************************)
THEOREM EdgesFormTree == Spec => []EdgesSpan
<1>1. IInv /\ TreeInv => EdgesSpan
    <2> SUFFICES ASSUME IInv, TreeInv, pc = "done" PROVE EdgesSpan
        BY DEF EdgesSpan
    <2>1. edges \in Seq(Nodes \X Nodes)
        BY DEF IInv, TypeOK
    <2>2. DOMAIN edges = 1 .. Len(edges) /\ Len(edges) \in Nat
        <3> DEFINE E == Nodes \X Nodes
        <3>1. edges \in Seq(E)
            BY <2>1
        <3> HIDE DEF E
        <3> QED
            BY <3>1, LenProperties
    <2>3. RangeOf([k \in DOMAIN edges |-> edges[k][2]]) = Targets
        <3> DEFINE t == [k \in 1 .. Len(edges) |-> edges[k][2]]
        <3>1. t \in Seq(Nodes) /\ Len(t) = Len(edges)
            BY <2>2, TreeTypes
        <3> QED
            BY <2>2, <3>1 DEF RangeOf, Targets
    <2> QED
        BY <2>2, <2>3 DEF EdgesSpan, TreeInv, LinkedOnce, Accounted
<1> QED
    BY <1>1, Invariance, TreeHolds, PTL
=============================================================================
