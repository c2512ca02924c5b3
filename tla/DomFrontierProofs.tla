-------------------------- MODULE DomFrontierProofs ---------------------------
(***************************************************************************)
(* The theorems about compute_dominance_frontier, for every set of graphs. *)
(***************************************************************************)
EXTENDS DomFrontier, FiniteSetTheorems, SequenceTheorems, WellFoundedInduction, TLAPS

-----------------------------------------------------------------------------
(***************************************************************************)
(* Facts of dominance, for every graph, from the definition by the sets    *)
(* that hold all that is reached around a node.  The theorems about        *)
(* compute_idom rest on them, too.                                         *)
(***************************************************************************)
LEMMA SuccNodes ==
    ASSUME NEW g, IsCfg(g), NEW x \in Nodes(g)
    PROVE  Succ(g, x) \subseteq Nodes(g) /\ Pred(g, x) \subseteq Nodes(g)
<1>1. g.succs[x] \in Seq(Nodes(g)) /\ g.preds[x] \in Seq(Nodes(g))
    BY DEF IsCfg
<1>2. ASSUME NEW S, NEW s \in Seq(S) PROVE Cells(s) \subseteq S
    BY DEF Cells
<1> QED
    BY <1>1, <1>2 DEF Succ, Pred

LEMMA HeaderIsNode == ASSUME NEW g, IsCfg(g)
                      PROVE  Header \in Nodes(g)
BY DEF IsCfg, Nodes, Header

LEMMA PredSucc ==
    ASSUME NEW g, IsCfg(g), NEW x \in Nodes(g), NEW y \in Nodes(g)
    PROVE  y \in Succ(g, x) <=> x \in Pred(g, y)
BY DEF IsCfg

\* Every node dominates itself, and the header all of them.
LEMMA DomReflexive ==
    ASSUME NEW g, IsCfg(g), NEW x \in Nodes(g)
    PROVE  Dominates(g, x, x) /\ Dominates(g, Header, x)
<1>1. IsAround(g, x, Nodes(g) \ {x})
    BY SuccNodes, HeaderIsNode DEF IsAround
<1>2. IsAround(g, Header, {})
    BY DEF IsAround
<1> QED
    BY <1>1, <1>2 DEF Dominates

LEMMA NoneAboveHeader ==
    ASSUME NEW g, NEW d
    PROVE  ~ StrictlyDominates(g, d, Header)
BY DEF StrictlyDominates, Dominates, IsAround

\* A strict dominator dominates the predecessors.
LEMMA DomPred ==
    ASSUME NEW g, IsCfg(g), NEW d \in Nodes(g), NEW x \in Nodes(g), NEW p \in Pred(g, x),
           StrictlyDominates(g, d, x)
    PROVE  Dominates(g, d, p)
<1>1. PICK S \in SUBSET (Nodes(g) \ {d}) : IsAround(g, d, S) /\ x \notin S
    BY DEF StrictlyDominates, Dominates
<1>2. d # x
    BY DEF StrictlyDominates
<1>3. p \in Nodes(g) /\ x \in Succ(g, p)
    BY SuccNodes, PredSucc
<1>4. p \notin S
    BY <1>1, <1>2, <1>3 DEF IsAround
<1> QED
    BY <1>1, <1>4 DEF Dominates

LEMMA DomTransitive ==
    ASSUME NEW g, IsCfg(g), NEW a \in Nodes(g), NEW d \in Nodes(g), NEW x \in Nodes(g),
           Dominates(g, a, d), Dominates(g, d, x)
    PROVE  Dominates(g, a, x)
<1>1. CASE a = d
    BY <1>1
<1>2. CASE a # d
    <2>1. PICK S \in SUBSET (Nodes(g) \ {a}) : IsAround(g, a, S) /\ d \notin S
        BY DEF Dominates
    <2>2. PICK T \in SUBSET (Nodes(g) \ {d}) : IsAround(g, d, T) /\ x \notin T
        BY DEF Dominates
    <2>3. IsAround(g, a, S \cap T)
        <3>1. a # Header => Header \in S \cap T
            BY <2>1, <2>2 DEF IsAround
        <3>2. \A z \in S \cap T : Succ(g, z) \subseteq (S \cap T) \cup {a}
            BY <1>2, <2>1, <2>2 DEF IsAround
        <3> QED
            BY <3>1, <3>2 DEF IsAround
    <2> QED
        BY <2>1, <2>2, <2>3 DEF Dominates
<1> QED
    BY <1>1, <1>2

LEMMA DomAntisymmetric ==
    ASSUME NEW g, IsCfg(g), AllReachable(g), NEW a \in Nodes(g), NEW d \in Nodes(g),
           Dominates(g, a, d), Dominates(g, d, a)
    PROVE  a = d
<1> SUFFICES ASSUME a # d
             PROVE  FALSE
    OBVIOUS
<1>1. PICK S \in SUBSET (Nodes(g) \ {a}) : IsAround(g, a, S) /\ d \notin S
    BY DEF Dominates
<1>2. PICK T \in SUBSET (Nodes(g) \ {d}) : IsAround(g, d, T) /\ a \notin T
    BY DEF Dominates
<1>3. Header \in S \cap T
    BY <1>1, <1>2 DEF IsAround
<1>4. \A z \in S \cap T : Succ(g, z) \subseteq S \cap T
    BY <1>1, <1>2 DEF IsAround
<1>5. S \cap T = Nodes(g)
    <2> S \cap T \in SUBSET Nodes(g)
        OBVIOUS
    <2> QED
        BY <1>3, <1>4 DEF AllReachable
<1> QED
    BY <1>5

\* Of two dominators of a node, one dominates the other.
LEMMA DomTotal ==
    ASSUME NEW g, IsCfg(g), AllReachable(g), NEW a \in Nodes(g), NEW d \in Nodes(g),
           NEW x \in Nodes(g), Dominates(g, a, x), Dominates(g, d, x)
    PROVE  Dominates(g, a, d) \/ Dominates(g, d, a)
<1> SUFFICES ASSUME ~ Dominates(g, a, d), ~ Dominates(g, d, a)
             PROVE  FALSE
    OBVIOUS
<1>1. PICK S \in SUBSET (Nodes(g) \ {a}) : IsAround(g, a, S) /\ x \notin S
    BY DEF Dominates
<1>2. PICK T \in SUBSET (Nodes(g) \ {d}) : IsAround(g, d, T) /\ x \notin T
    BY DEF Dominates
<1>3. d \in S /\ a \in T
    BY <1>1, <1>2 DEF Dominates
<1>4. Header \in S
    BY <1>1, DomReflexive DEF IsAround
<1>5. \A z \in S \cup T : Succ(g, z) \subseteq S \cup T
    BY <1>1, <1>2, <1>3 DEF IsAround
<1>6. S \cup T = Nodes(g)
    <2> S \cup T \in SUBSET Nodes(g)
        OBVIOUS
    <2> QED
        BY <1>4, <1>5 DEF AllReachable
<1> QED
    BY <1>1, <1>2, <1>6

(***************************************************************************)
(* Each node but the header has one immediate dominator: of its strict     *)
(* dominators the one that dominates the fewest of them.                   *)
(***************************************************************************)
LEMMA NodesFinite == ASSUME NEW g, IsCfg(g)
                     PROVE  IsFiniteSet(Nodes(g)) /\ Cardinality(Nodes(g)) = g.size
<1>1. ASSUME NEW n \in Nat \ {0}
      PROVE  IsFiniteSet(0 .. n - 1) /\ Cardinality(0 .. n - 1) = n
    <2>1. /\ IsFiniteSet(0 .. n - 1)
          /\ Cardinality(0 .. n - 1) = IF 0 > n - 1 THEN 0 ELSE (n - 1) - 0 + 1
        <3> n - 1 \in Int
            OBVIOUS
        <3> QED
            BY FS_Interval
    <2> QED
        BY <2>1
<1>2. g.size \in Nat \ {0}
    BY DEF IsCfg
<1> QED
    BY <1>1, <1>2 DEF Nodes

LEMMA SomeLeastSet ==
    ASSUME NEW U, IsFiniteSet(U), NEW T, T \subseteq SUBSET U, T # {}
    PROVE  \E A \in T : \A C \in T : C \subseteq A => C = A
<1>1. FiniteSubsetsOf(U) = SUBSET U
    BY FS_FiniteSubsetsOfFinite
<1>2. IsWellFoundedOn(StrictSubsetOrdering(U), SUBSET U)
    BY <1>1, FS_StrictSubsetOrderingWellFounded
<1>3. PICK A \in T : \A C \in T : ~ (<<C, A>> \in StrictSubsetOrdering(U))
    BY <1>2, WFMin
<1>4. \A C \in T : C \subseteq A => C = A
    BY <1>3 DEF StrictSubsetOrdering
<1> QED
    BY <1>4

LEMMA IdomExists ==
    ASSUME NEW g, IsCfg(g), AllReachable(g), NEW x \in Nodes(g) \ {Header}
    PROVE  \E d \in Nodes(g) : IsIdom(g, d, x)
<1> DEFINE Above == {d \in Nodes(g) : StrictlyDominates(g, d, x)}
           Low(d) == {y \in Above : Dominates(g, d, y)}
           Lows == {Low(d) : d \in Above}
<1>1. Header \in Above
    BY DomReflexive, HeaderIsNode DEF StrictlyDominates
<1>2. Lows \subseteq SUBSET Nodes(g) /\ Lows # {}
    BY <1>1
<1>3. PICK A \in Lows : \A C \in Lows : C \subseteq A => C = A
    <2> HIDE DEF Lows
    <2> QED
        BY <1>2, NodesFinite, SomeLeastSet
<1>4. PICK d \in Above : A = Low(d)
    OBVIOUS
<1>5. ASSUME NEW y \in Above
      PROVE  Dominates(g, y, d)
    <2>1. Dominates(g, y, d) \/ Dominates(g, d, y)
        BY DomTotal DEF StrictlyDominates
    <2>2. ASSUME Dominates(g, d, y)
          PROVE  d = y
        <3>1. Low(y) \subseteq Low(d)
            BY <2>2, DomTransitive
        <3>2. Low(y) = Low(d)
            BY <1>3, <1>4, <3>1
        <3>3. d \in Low(d)
            BY DomReflexive
        <3>4. Dominates(g, y, d)
            BY <3>2, <3>3
        <3> QED
            BY <2>2, <3>4, DomAntisymmetric
    <2> QED
        BY <2>1, <2>2, DomReflexive
<1>6. IsIdom(g, d, x)
    BY <1>5 DEF IsIdom
<1> QED
    BY <1>6

LEMMA IdomUnique ==
    ASSUME NEW g, IsCfg(g), AllReachable(g), NEW x \in Nodes(g),
           NEW a \in Nodes(g), NEW d \in Nodes(g), IsIdom(g, a, x), IsIdom(g, d, x)
    PROVE  a = d
BY DomAntisymmetric DEF IsIdom

-----------------------------------------------------------------------------
\* What the nodes come with: their immediate dominators.
Computed ==
    /\ IsCfg(cfg) /\ AllReachable(cfg)
    /\ dominator \in [Nodes(cfg) -> Nodes(cfg)]
    /\ dominator[Header] = Header
    /\ \A x \in Nodes(cfg) \ {Header} : IsIdom(cfg, dominator[x], x)

(***************************************************************************)
(* The runner is on the way from the predecessor it started at up to the   *)
(* dominator of b.                                                         *)
(***************************************************************************)
RunnerOK ==
    /\ pc \in {"pred", "runner"} => b \in Nodes(cfg)
    /\ pc = "runner" =>
          /\ k <= Len(cfg.preds[b])
          /\ runner \in Nodes(cfg)
          /\ Dominates(cfg, runner, cfg.preds[b][k])
          /\ Dominates(cfg, dominator[b], runner)

\* y's predecessor j has put y into every frontier it has to.
Covered(y, j) ==
    \A x \in Nodes(cfg) :
       Dominates(cfg, x, cfg.preds[y][j]) /\ ~ StrictlyDominates(cfg, x, y) => y \in Cells(df[x])

(***************************************************************************)
(* The predecessors handled are covered, those of the nodes before b and   *)
(* those of b before k; of predecessor k, all but the nodes that are still *)
(* above the runner.                                                       *)
(***************************************************************************)
CoveredSoFar ==
    /\ \A y \in Nodes(cfg) \ {Header} : y < b /\ IsJoin(y) =>
          \A j \in 1 .. Len(cfg.preds[y]) : Covered(y, j)
    /\ pc \in {"pred", "runner"} /\ b # Header =>
          \A j \in 1 .. Len(cfg.preds[b]) : j < k => Covered(b, j)
    /\ pc = "runner" /\ b # Header =>
          \A x \in Nodes(cfg) :
             Dominates(cfg, x, cfg.preds[b][k]) /\ ~ StrictlyDominates(cfg, x, b) =>
                Dominates(cfg, x, runner) \/ b \in Cells(df[x])

Inv ==
    /\ TypeOK /\ Computed /\ RunnerOK /\ FrontierSound /\ CoveredSoFar
    /\ pc = "done" => b = cfg.size

-----------------------------------------------------------------------------
\* A node with one predecessor is in no frontier.
LEMMA OnlyPred ==
    ASSUME NEW g, IsCfg(g), AllReachable(g), NEW y \in Nodes(g) \ {Header}, NEW p \in Pred(g, y),
           \A q \in Pred(g, y) : q = p, NEW x \in Nodes(g), Dominates(g, x, p)
    PROVE  StrictlyDominates(g, x, y)
<1>1. PICK S \in SUBSET (Nodes(g) \ {x}) : IsAround(g, x, S) /\ p \notin S
    BY DEF Dominates
<1>2. \A z \in S : y \notin Succ(g, z)
    BY <1>1, PredSucc
<1> DEFINE T == S \ {y}
<1>3. T \in SUBSET (Nodes(g) \ {x}) /\ y \notin T
    OBVIOUS
<1>4. IsAround(g, x, T)
    BY <1>1, <1>2 DEF IsAround
<1>5. Dominates(g, x, y)
    <2> HIDE DEF T
    <2> QED
        BY <1>3, <1>4 DEF Dominates
<1>6. CASE x = y
    <2>1. Header \in S /\ \A z \in S : Succ(g, z) \subseteq S
        BY <1>1, <1>2, <1>6 DEF IsAround
    <2>2. S = Nodes(g)
        BY <2>1 DEF AllReachable
    <2> QED
        BY <1>6, <2>2
<1> QED
    BY <1>5, <1>6 DEF StrictlyDominates

\* The predecessor the runner is for.
LEMMA PredFacts ==
    ASSUME IsCfg(cfg), NEW y \in Nodes(cfg)
    PROVE  /\ cfg.preds[y] \in Seq(Nodes(cfg)) /\ Len(cfg.preds[y]) \in Nat
           /\ \A j \in 1 .. Len(cfg.preds[y]) :
                 cfg.preds[y][j] \in Pred(cfg, y) /\ cfg.preds[y][j] \in Nodes(cfg)
<1>1. cfg.preds[y] \in Seq(Nodes(cfg)) /\ Len(cfg.preds[y]) \in Nat
    BY LenProperties DEF IsCfg
<1>2. \A j \in 1 .. Len(cfg.preds[y]) : cfg.preds[y][j] \in Nodes(cfg)
    BY <1>1, ElementOfSeq
<1> QED
    BY <1>1, <1>2 DEF Pred, Cells

LEMMA InitInv == Init => Inv
<1> SUFFICES ASSUME Init
             PROVE  Inv
    OBVIOUS
<1>1. /\ IsCfg(cfg) /\ AllReachable(cfg) /\ pc = "node" /\ b = 0 /\ k = 1 /\ runner = NULL
      /\ dominator = [x \in Nodes(cfg) |-> ComputedIdom(cfg, x)]
      /\ df = [x \in Nodes(cfg) |-> <<>>]
    BY CfgsAssumption DEF Init
<1>2. ASSUME NEW x \in Nodes(cfg) \ {Header}
      PROVE  ComputedIdom(cfg, x) \in Nodes(cfg) /\ IsIdom(cfg, ComputedIdom(cfg, x), x)
    <2>1. \E d \in Nodes(cfg) : IsIdom(cfg, d, x)
        BY <1>1, IdomExists
    <2>2. ComputedIdom(cfg, x) = CHOOSE d \in Nodes(cfg) : IsIdom(cfg, d, x)
        BY DEF ComputedIdom
    <2> QED
        BY <2>1, <2>2
<1>3. Header \in Nodes(cfg) /\ ComputedIdom(cfg, Header) = Header
    BY <1>1, HeaderIsNode DEF ComputedIdom
<1>4. Computed
    <2>1. \A x \in Nodes(cfg) : ComputedIdom(cfg, x) \in Nodes(cfg)
        BY <1>2, <1>3
    <2> QED
        BY <1>1, <1>2, <1>3, <2>1 DEF Computed
<1>5. df \in [Nodes(cfg) -> Seq(Nodes(cfg))] /\ \A x \in Nodes(cfg) : df[x] = <<>> /\ Len(df[x]) = 0
    BY <1>1
<1>6. TypeOK
    <2>1. b \in 0 .. cfg.size
        BY <1>1 DEF IsCfg
    <2> QED
        BY <1>1, <1>4, <1>5, <2>1 DEF TypeOK, Computed
<1>7. FrontierSound
    BY <1>5 DEF FrontierSound, Cells
<1>8. CoveredSoFar
    <2>1. \A y \in Nodes(cfg) : ~ (y < b)
        BY <1>1 DEF Nodes
    <2> QED
        BY <1>1, <2>1 DEF CoveredSoFar
<1> QED
    BY <1>1, <1>4, <1>6, <1>7, <1>8 DEF Inv, RunnerOK

-----------------------------------------------------------------------------
\* A step that leaves the frontiers alone keeps what has been covered.
LEMMA SameFrontiers ==
    ASSUME UNCHANGED <<cfg, dominator, df>>
    PROVE  /\ Computed => Computed'
           /\ FrontierSound => FrontierSound'
           /\ \A y, j : Covered(y, j)' <=> Covered(y, j)
           /\ \A y : IsJoin(y)' <=> IsJoin(y)
BY DEF Computed, FrontierSound, Covered, IsJoin

LEMMA NextNodeKeeps == Inv /\ NextNode => Inv'
<1> SUFFICES ASSUME Inv, NextNode
             PROVE  Inv'
    OBVIOUS
<1>1. /\ UNCHANGED <<cfg, dominator, runner, df>> /\ pc = "node" /\ b < cfg.size
      /\ IsCfg(cfg) /\ b \in 0 .. cfg.size /\ k \in Nat \ {0}
      /\ TypeOK /\ Computed /\ FrontierSound /\ CoveredSoFar /\ cfg.size \in Nat
    BY DEF NextNode, Inv, TypeOK, IsCfg
<1>2. b \in Nodes(cfg)
    BY <1>1 DEF Nodes
<1>3. CASE IsJoin(b)
    <2>1. pc' = "pred" /\ k' = 1 /\ b' = b
        BY <1>3 DEF NextNode
    <2>2. TypeOK'
        BY <1>1, <2>1 DEF TypeOK
    <2>3. RunnerOK'
        BY <1>1, <1>2, <2>1 DEF RunnerOK
    <2>4. CoveredSoFar'
        <3>1. \A j \in 1 .. Len(cfg.preds[b]) : ~ (j < 1)
            BY <1>1, <1>2, PredFacts
        <3> QED
            BY <1>1, <2>1, <3>1, SameFrontiers DEF CoveredSoFar
    <2> QED
        BY <1>1, <2>1, <2>2, <2>3, <2>4, SameFrontiers DEF Inv
<1>4. CASE ~ IsJoin(b)
    <2>1. pc' = "node" /\ k' = k /\ b' = b + 1
        BY <1>1, <1>4 DEF NextNode
    <2>2. TypeOK'
        <3>1. b + 1 \in 0 .. cfg.size
            BY <1>1
        <3> QED
            BY <1>1, <2>1, <3>1 DEF TypeOK
    <2>3. RunnerOK'
        BY <2>1 DEF RunnerOK
    <2>4. CoveredSoFar'
        <3>1. \A y \in Nodes(cfg) : y < b + 1 => y < b \/ y = b
            BY <1>1 DEF Nodes
        <3> QED
            BY <1>1, <1>4, <2>1, <3>1, SameFrontiers DEF CoveredSoFar
    <2> QED
        BY <1>1, <2>1, <2>2, <2>3, <2>4, SameFrontiers DEF Inv
<1> QED
    BY <1>3, <1>4

LEMMA NextPredKeeps == Inv /\ NextPred => Inv'
<1> SUFFICES ASSUME Inv, NextPred
             PROVE  Inv'
    OBVIOUS
<1>1. /\ UNCHANGED <<cfg, dominator, b, k, df>> /\ pc = "pred" /\ k <= Len(cfg.preds[b])
      /\ runner' = cfg.preds[b][k] /\ pc' = "runner"
      /\ IsCfg(cfg) /\ k \in Nat \ {0} /\ b \in Nodes(cfg)
      /\ TypeOK /\ Computed /\ FrontierSound /\ CoveredSoFar
    BY DEF NextPred, Inv, TypeOK, RunnerOK
<1> DEFINE p == cfg.preds[b][k]
<1>2. p \in Pred(cfg, b) /\ p \in Nodes(cfg)
    <2>1. k \in 1 .. Len(cfg.preds[b])
        BY <1>1, PredFacts
    <2> QED
        BY <1>1, <2>1, PredFacts
<1>3. Dominates(cfg, p, p) /\ Dominates(cfg, dominator[b], p)
    <2>1. CASE b = Header
        BY <1>1, <1>2, <2>1, DomReflexive DEF Computed
    <2>2. CASE b # Header
        <3>1. StrictlyDominates(cfg, dominator[b], b) /\ dominator[b] \in Nodes(cfg)
            BY <1>1, <2>2 DEF Computed, IsIdom
        <3> QED
            BY <1>1, <1>2, <3>1, DomPred, DomReflexive
    <2> QED
        BY <2>1, <2>2
<1>4. TypeOK'
    BY <1>1, <1>2 DEF TypeOK
<1>5. RunnerOK'
    BY <1>1, <1>2, <1>3 DEF RunnerOK
<1>6. CoveredSoFar'
    BY <1>1, SameFrontiers DEF CoveredSoFar
<1> QED
    BY <1>1, <1>4, <1>5, <1>6, SameFrontiers DEF Inv

LEMMA EndPredsKeeps == Inv /\ EndPreds => Inv'
<1> SUFFICES ASSUME Inv, EndPreds
             PROVE  Inv'
    OBVIOUS
<1>1. /\ UNCHANGED <<cfg, dominator, k, runner, df>> /\ pc = "pred" /\ k > Len(cfg.preds[b])
      /\ b' = b + 1 /\ pc' = "node"
      /\ IsCfg(cfg) /\ k \in Nat \ {0} /\ b \in Nodes(cfg) /\ cfg.size \in Nat
      /\ TypeOK /\ Computed /\ FrontierSound /\ CoveredSoFar
    BY DEF EndPreds, Inv, TypeOK, RunnerOK, IsCfg
<1>2. TypeOK'
    <2>1. b + 1 \in 0 .. cfg.size
        BY <1>1 DEF Nodes
    <2> QED
        BY <1>1, <2>1 DEF TypeOK
<1>3. CoveredSoFar'
    <2>1. \A y \in Nodes(cfg) : y < b + 1 => y < b \/ y = b
        BY <1>1 DEF Nodes
    <2>2. \A j \in 1 .. Len(cfg.preds[b]) : j < k
        BY <1>1, PredFacts
    <2> QED
        BY <1>1, <2>1, <2>2, SameFrontiers DEF CoveredSoFar
<1>4. RunnerOK'
    BY <1>1 DEF RunnerOK
<1> QED
    BY <1>1, <1>2, <1>3, <1>4, SameFrontiers DEF Inv

-----------------------------------------------------------------------------
\* What one call of add_to_set adds.
LEMMA AddToSetAdds ==
    ASSUME df \in [Nodes(cfg) -> Seq(Nodes(cfg))], NEW x \in Nodes(cfg), b \in Nodes(cfg)
    PROVE  /\ AddToSet(x) \in [Nodes(cfg) -> Seq(Nodes(cfg))]
           /\ Cells(AddToSet(x)[x]) = Cells(df[x]) \cup {b}
           /\ \A z \in Nodes(cfg) : z # x => AddToSet(x)[z] = df[z]
           /\ (\A m, n \in 1 .. Len(df[x]) : df[x][m] = df[x][n] => m = n) =>
                 \A m, n \in 1 .. Len(AddToSet(x)[x]) :
                    AddToSet(x)[x][m] = AddToSet(x)[x][n] => m = n
<1>1. CASE b \in Cells(df[x])
    BY <1>1 DEF AddToSet
<1>2. CASE b \notin Cells(df[x])
    <2> DEFINE s == df[x]
    <2>1. s \in Seq(Nodes(cfg)) /\ Len(s) \in Nat
        BY LenProperties
    <2>2. /\ Append(s, b) \in Seq(Nodes(cfg)) /\ Len(Append(s, b)) = Len(s) + 1
          /\ \A j \in 1 .. Len(s) : Append(s, b)[j] = s[j]
          /\ Append(s, b)[Len(s) + 1] = b
        BY <2>1, AppendProperties
    <2>3. AddToSet(x) = [df EXCEPT ![x] = Append(s, b)]
        BY <1>2 DEF AddToSet
    <2>4. /\ AddToSet(x) \in [Nodes(cfg) -> Seq(Nodes(cfg))] /\ AddToSet(x)[x] = Append(s, b)
          /\ \A z \in Nodes(cfg) : z # x => AddToSet(x)[z] = df[z]
        BY <2>2, <2>3
    <2>5. \A j \in 1 .. Len(s) : s[j] # b
        BY <1>2 DEF Cells
    <2>6. \A j \in 1 .. Len(s) + 1 : j \in 1 .. Len(s) \/ j = Len(s) + 1
        BY <2>1
    <2>7. Cells(Append(s, b)) = Cells(s) \cup {b}
        <3>1. \A j \in 1 .. Len(s) : j \in 1 .. Len(s) + 1
            BY <2>1
        <3>2. Len(s) + 1 \in 1 .. Len(s) + 1
            BY <2>1
        <3> HIDE DEF s
        <3> QED
            BY <2>2, <2>6, <3>1, <3>2 DEF Cells
    <2>8. ASSUME \A m, n \in 1 .. Len(s) : s[m] = s[n] => m = n,
                 NEW m \in 1 .. Len(s) + 1, NEW n \in 1 .. Len(s) + 1,
                 Append(s, b)[m] = Append(s, b)[n]
          PROVE  m = n
        BY <2>2, <2>5, <2>6, <2>8
    <2> QED
        BY <2>2, <2>4, <2>7, <2>8
<1> QED
    BY <1>1, <1>2

LEMMA ClimbKeeps == Inv /\ Climb => Inv'
<1> SUFFICES ASSUME Inv, Climb
             PROVE  Inv'
    OBVIOUS
<1>1. /\ UNCHANGED <<cfg, dominator, pc, b, k>> /\ pc = "runner" /\ runner # dominator[b]
      /\ df' = AddToSet(runner) /\ runner' = dominator[runner]
      /\ IsCfg(cfg) /\ AllReachable(cfg) /\ b \in Nodes(cfg) /\ k \in Nat \ {0}
      /\ df \in [Nodes(cfg) -> Seq(Nodes(cfg))]
      /\ TypeOK /\ Computed /\ RunnerOK /\ FrontierSound /\ CoveredSoFar
    BY DEF Climb, AtTop, Inv, TypeOK, RunnerOK, Computed
<1> DEFINE p == cfg.preds[b][k]
           r == runner
<1>2. /\ p \in Pred(cfg, b) /\ p \in Nodes(cfg) /\ r \in Nodes(cfg) /\ k <= Len(cfg.preds[b])
      /\ Dominates(cfg, r, p) /\ Dominates(cfg, dominator[b], r)
      /\ dominator[b] \in Nodes(cfg) /\ dominator[r] \in Nodes(cfg)
    <2>1. k \in 1 .. Len(cfg.preds[b]) /\ k <= Len(cfg.preds[b])
        BY <1>1, PredFacts DEF RunnerOK
    <2> QED
        BY <1>1, <2>1, PredFacts DEF RunnerOK, Computed
<1> HIDE DEF p, r
<1>3. StrictlyDominates(cfg, dominator[b], r)
    BY <1>1, <1>2 DEF StrictlyDominates, r
<1>4. r # Header /\ IsIdom(cfg, dominator[r], r)
    BY <1>1, <1>2, <1>3, NoneAboveHeader DEF Computed
<1>5. /\ Dominates(cfg, dominator[r], p) /\ Dominates(cfg, dominator[b], dominator[r])
    <2>1. Dominates(cfg, dominator[r], r)
        BY <1>4 DEF IsIdom, StrictlyDominates
    <2>2. Dominates(cfg, dominator[r], p)
        BY <1>1, <1>2, <2>1, DomTransitive
    <2> QED
        BY <1>2, <1>3, <1>4, <2>2 DEF IsIdom
<1>6. b \in Frontier(cfg, r)
    <2>1. ~ StrictlyDominates(cfg, r, b)
        <3> SUFFICES ASSUME StrictlyDominates(cfg, r, b)
                     PROVE  FALSE
            OBVIOUS
        <3>1. b # Header
            BY NoneAboveHeader
        <3>2. Dominates(cfg, r, dominator[b])
            BY <1>1, <1>2, <3>1 DEF Computed, IsIdom
        <3> QED
            BY <1>1, <1>2, <1>3, <3>2, DomAntisymmetric DEF StrictlyDominates
    <2> QED
        BY <1>1, <1>2, <2>1 DEF Frontier
<1>7. /\ df' \in [Nodes(cfg) -> Seq(Nodes(cfg))]
      /\ Cells(df'[r]) = Cells(df[r]) \cup {b}
      /\ \A z \in Nodes(cfg) : z # r => df'[z] = df[z]
      /\ \A m, n \in 1 .. Len(df'[r]) : df'[r][m] = df'[r][n] => m = n
    <2>1. \A m, n \in 1 .. Len(df[r]) : df[r][m] = df[r][n] => m = n
        BY <1>1, <1>2 DEF FrontierSound
    <2> QED
        BY <1>1, <1>2, <2>1, AddToSetAdds DEF r
<1>8. \A z \in Nodes(cfg) : Cells(df[z]) \subseteq Cells(df'[z])
    BY <1>7
<1>9. FrontierSound'
    <2> SUFFICES ASSUME NEW x \in Nodes(cfg)
                 PROVE  /\ Cells(df'[x]) \subseteq Frontier(cfg, x)
                        /\ \A m, n \in 1 .. Len(df'[x]) : df'[x][m] = df'[x][n] => m = n
        BY <1>1 DEF FrontierSound
    <2>1. CASE x = r
        BY <1>1, <1>2, <1>6, <1>7, <2>1 DEF FrontierSound
    <2>2. CASE x # r
        BY <1>1, <1>7, <2>2 DEF FrontierSound
    <2> QED
        BY <2>1, <2>2
<1>10. CoveredSoFar'
    <2>1. \A y, j : Covered(y, j) => Covered(y, j)'
        BY <1>1, <1>8 DEF Covered
    <2>2. ASSUME NEW x \in Nodes(cfg), b # Header,
                 Dominates(cfg, x, p), ~ StrictlyDominates(cfg, x, b)
          PROVE  Dominates(cfg, x, dominator[r]) \/ b \in Cells(df'[x])
        <3>1. Dominates(cfg, x, r) \/ b \in Cells(df[x])
            BY <1>1, <2>2 DEF CoveredSoFar, p, r
        <3>2. CASE b \in Cells(df[x])
            BY <1>8, <3>2
        <3>3. CASE x = r
            BY <1>7, <3>3
        <3>4. CASE x # r /\ Dominates(cfg, x, r)
            BY <1>4, <3>4 DEF IsIdom, StrictlyDominates
        <3> QED
            BY <3>1, <3>2, <3>3, <3>4
    <2>3. \A y : IsJoin(y)' <=> IsJoin(y)
        BY <1>1 DEF IsJoin
    <2> QED
        BY <1>1, <2>1, <2>2, <2>3 DEF CoveredSoFar, p, r
<1>11. TypeOK'
    BY <1>1, <1>2, <1>7 DEF TypeOK, r
<1>12. RunnerOK'
    BY <1>1, <1>2, <1>5 DEF RunnerOK, p, r
<1> QED
    BY <1>1, <1>9, <1>10, <1>11, <1>12 DEF Inv, Computed

LEMMA StopKeeps == Inv /\ Stop => Inv'
<1> SUFFICES ASSUME Inv, Stop
             PROVE  Inv'
    OBVIOUS
<1>1. /\ UNCHANGED <<cfg, dominator, b, runner, df>> /\ pc = "runner" /\ runner = dominator[b]
      /\ k' = k + 1 /\ pc' = "pred"
      /\ IsCfg(cfg) /\ AllReachable(cfg) /\ b \in Nodes(cfg) /\ k \in Nat \ {0}
      /\ runner \in Nodes(cfg)
      /\ TypeOK /\ Computed /\ FrontierSound /\ CoveredSoFar
    BY DEF Stop, AtTop, Inv, TypeOK, RunnerOK, Computed
<1>2. TypeOK'
    BY <1>1 DEF TypeOK
<1>3. RunnerOK'
    BY <1>1 DEF RunnerOK
<1>4. b # Header => Covered(b, k)
    <2> SUFFICES ASSUME b # Header, NEW x \in Nodes(cfg), Dominates(cfg, x, cfg.preds[b][k]),
                        ~ StrictlyDominates(cfg, x, b), Dominates(cfg, x, dominator[b])
                 PROVE  FALSE
        BY <1>1 DEF CoveredSoFar, Covered
    <2>1. Dominates(cfg, dominator[b], b) /\ dominator[b] # b
        BY <1>1 DEF Computed, IsIdom, StrictlyDominates
    <2>2. Dominates(cfg, x, b)
        BY <1>1, <2>1, DomTransitive
    <2>3. x = b
        BY <2>2 DEF StrictlyDominates
    <2> QED
        BY <1>1, <2>1, <2>3, DomAntisymmetric
<1>5. CoveredSoFar'
    <2>1. \A j \in 1 .. Len(cfg.preds[b]) : j < k + 1 => j < k \/ j = k
        BY <1>1, PredFacts
    <2> QED
        BY <1>1, <1>4, <2>1, SameFrontiers DEF CoveredSoFar
<1> QED
    BY <1>1, <1>2, <1>3, <1>5, SameFrontiers DEF Inv

LEMMA ReturnKeeps == Inv /\ Return => Inv'
<1> SUFFICES ASSUME Inv, Return
             PROVE  Inv'
    OBVIOUS
<1>1. /\ UNCHANGED <<cfg, dominator, b, k, runner, df>> /\ b >= cfg.size /\ pc' = "done"
      /\ IsCfg(cfg) /\ b \in 0 .. cfg.size /\ pc = "node"
      /\ TypeOK /\ Computed /\ FrontierSound /\ CoveredSoFar
    BY DEF Return, Inv, TypeOK
<1>2. TypeOK' /\ RunnerOK'
    BY <1>1 DEF TypeOK, RunnerOK
<1>3. CoveredSoFar'
    BY <1>1, SameFrontiers DEF CoveredSoFar
<1>4. b' = cfg'.size
    BY <1>1 DEF IsCfg
<1> QED
    BY <1>1, <1>2, <1>3, <1>4, SameFrontiers DEF Inv

THEOREM InvHolds == Spec => []Inv
<1>1. Inv /\ [Next]_vars => Inv'
    <2>1. Inv /\ UNCHANGED vars => Inv'
        BY DEF Inv, TypeOK, Computed, RunnerOK, FrontierSound, CoveredSoFar, Covered, IsJoin, vars
    <2> QED
        BY <2>1, NextNodeKeeps, NextPredKeeps, EndPredsKeeps, ClimbKeeps, StopKeeps, ReturnKeeps
           DEF Next
<1> QED
    BY <1>1, InitInv, PTL DEF Spec

-----------------------------------------------------------------------------
(***************************************************************************)
(* The runner is a node wherever it is read, and the dominators the pass   *)
(* reads exist: on a graph without unreachable nodes each node but the     *)
(* header has one immediate dominator.                                     *)
(***************************************************************************)
THEOREM TypeCorrect == Spec => []TypeOK
<1>1. Inv => TypeOK
    BY DEF Inv
<1> QED
    BY <1>1, InvHolds, PTL

(***************************************************************************)
(* The runner never climbs past the dominator of b, at which it stops.     *)
(***************************************************************************)
THEOREM RunnerStaysBelow == Spec => []RunnerBelowGoal
<1>1. Inv => RunnerBelowGoal
    BY DEF Inv, RunnerOK, RunnerBelowGoal
<1> QED
    BY <1>1, InvHolds, PTL

(***************************************************************************)
(* Whatever is put into a frontier belongs there by the definition of      *)
(* Cytron et al., and is put there once.                                   *)
(***************************************************************************)
THEOREM Sound == Spec => []FrontierSound
<1>1. Inv => FrontierSound
    BY DEF Inv
<1> QED
    BY <1>1, InvHolds, PTL

(***************************************************************************)
(* When the pass returns, nothing but the header is missing in a frontier: *)
(* looking only at the nodes with two predecessors loses none.             *)
(***************************************************************************)
THEOREM Complete == Spec => []FrontierComplete
<1>1. Inv => FrontierComplete
    <2> SUFFICES ASSUME Inv, pc = "done", NEW x \in Nodes(cfg),
                        NEW y \in Frontier(cfg, x) \ {Header}
                 PROVE  y \in Cells(df[x])
        BY DEF FrontierComplete
    <2>1. /\ IsCfg(cfg) /\ AllReachable(cfg) /\ CoveredSoFar /\ b = cfg.size
          /\ y \in Nodes(cfg) \ {Header} /\ ~ StrictlyDominates(cfg, x, y)
        BY DEF Inv, Computed, Frontier
    <2>2. PICK p \in Pred(cfg, y) : Dominates(cfg, x, p)
        BY DEF Frontier
    <2>3. PICK j \in 1 .. Len(cfg.preds[y]) : p = cfg.preds[y][j]
        BY <2>2 DEF Pred, Cells
    <2>4. CASE IsJoin(y)
        <3>1. y < b
            BY <2>1 DEF Nodes, IsCfg
        <3>2. Covered(y, j)
            BY <2>1, <2>4, <3>1 DEF CoveredSoFar
        <3> QED
            BY <2>1, <2>2, <2>3, <3>2 DEF Covered
    <2>5. CASE ~ IsJoin(y)
        <3>1. Len(cfg.preds[y]) \in Nat /\ Len(cfg.preds[y]) < 2
            BY <2>1, <2>5, PredFacts DEF IsJoin
        <3>2. \A m \in 1 .. Len(cfg.preds[y]) : m = j
            BY <3>1
        <3>3. \A q \in Pred(cfg, y) : q = p
            BY <2>3, <3>2 DEF Pred, Cells
        <3> QED
            BY <2>1, <2>2, <3>3, OnlyPred
    <2> QED
        BY <2>4, <2>5
<1> QED
    BY <1>1, InvHolds, PTL
=============================================================================
