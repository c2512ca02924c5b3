----------------------------- MODULE IdomProofs ------------------------------
(***************************************************************************)
(* The theorems about compute_idom, for every set of graphs.               *)
(***************************************************************************)
EXTENDS Idom, FiniteSetTheorems, SequenceTheorems, WellFoundedInduction, TLAPS

-----------------------------------------------------------------------------
(***************************************************************************)
(* compute_dominance_frontier, called where compute_idom returns.          *)
(***************************************************************************)
Frontiers ==
    INSTANCE DomFrontierProofs
        WITH pc <- "node", b <- 0, k <- 1, runner <- NULL, df <- [x \in Nodes(cfg) |-> <<>>]

LEMMA SameGraph ==
    /\ \A g : Frontiers!Nodes(g) = Nodes(g)
    /\ Frontiers!Header = Header
    /\ \A g, x : Frontiers!Succ(g, x) = Succ(g, x) /\ Frontiers!Pred(g, x) = Pred(g, x)
    /\ \A g : Frontiers!IsCfg(g) <=> IsCfg(g)
    /\ \A g : Frontiers!AllReachable(g) <=> AllReachable(g)
    /\ \A g, d, x : Frontiers!Dominates(g, d, x) <=> Dominates(g, d, x)
    /\ \A g, d, x : Frontiers!StrictlyDominates(g, d, x) <=> StrictlyDominates(g, d, x)
    /\ \A g, d, x : Frontiers!IsIdom(g, d, x) <=> IsIdom(g, d, x)
<1>1. /\ \A g : Frontiers!Nodes(g) = Nodes(g)
      /\ Frontiers!Header = Header
      /\ \A g, x : Frontiers!Succ(g, x) = Succ(g, x) /\ Frontiers!Pred(g, x) = Pred(g, x)
    BY DEF Frontiers!Nodes, Nodes, Frontiers!Header, Header, Frontiers!Succ, Succ,
           Frontiers!Pred, Pred, Frontiers!Cells, Cells
<1>2. \A g : Frontiers!IsCfg(g) <=> IsCfg(g)
    BY <1>1, Zenon DEF Frontiers!IsCfg, IsCfg
<1>3. \A g : Frontiers!AllReachable(g) <=> AllReachable(g)
    BY <1>1 DEF Frontiers!AllReachable, AllReachable
<1>4. \A g, d, S : Frontiers!IsAround(g, d, S) <=> IsAround(g, d, S)
    BY <1>1 DEF Frontiers!IsAround, IsAround
<1>5. \A g, d, x : Frontiers!Dominates(g, d, x) <=> Dominates(g, d, x)
    BY <1>1, <1>4 DEF Frontiers!Dominates, Dominates
<1>6. \A g, d, x : Frontiers!StrictlyDominates(g, d, x) <=> StrictlyDominates(g, d, x)
    BY <1>5 DEF Frontiers!StrictlyDominates, StrictlyDominates
<1>7. \A g, d, x : Frontiers!IsIdom(g, d, x) <=> IsIdom(g, d, x)
    BY <1>1, <1>5, <1>6 DEF Frontiers!IsIdom, IsIdom
<1> QED
    BY <1>1, <1>2, <1>3, <1>5, <1>6, <1>7

\* What the loops need of dominance: lemmas of DomFrontierProofs, on these graphs.
LEMMA SuccNodes ==
    ASSUME NEW g, IsCfg(g), NEW x \in Nodes(g)
    PROVE  Succ(g, x) \subseteq Nodes(g) /\ Pred(g, x) \subseteq Nodes(g)
BY SameGraph, Frontiers!SuccNodes, MarksAssumption, CfgsAssumption

LEMMA HeaderIsNode == ASSUME NEW g, IsCfg(g)
                      PROVE  Header \in Nodes(g)
BY SameGraph, Frontiers!HeaderIsNode, MarksAssumption, CfgsAssumption

LEMMA PredSucc ==
    ASSUME NEW g, IsCfg(g), NEW x \in Nodes(g), NEW y \in Nodes(g)
    PROVE  y \in Succ(g, x) <=> x \in Pred(g, y)
BY SameGraph, Frontiers!PredSucc, MarksAssumption, CfgsAssumption

LEMMA NoneAboveHeader ==
    ASSUME NEW g, NEW d
    PROVE  ~ StrictlyDominates(g, d, Header)
BY SameGraph, Frontiers!NoneAboveHeader, MarksAssumption, CfgsAssumption

LEMMA DomPred ==
    ASSUME NEW g, IsCfg(g), NEW d \in Nodes(g), NEW x \in Nodes(g), NEW p \in Pred(g, x),
           StrictlyDominates(g, d, x)
    PROVE  Dominates(g, d, p)
BY SameGraph, Frontiers!DomPred, MarksAssumption, CfgsAssumption

LEMMA NodesFinite == ASSUME NEW g, IsCfg(g)
                     PROVE  IsFiniteSet(Nodes(g)) /\ Cardinality(Nodes(g)) = g.size
<1>1. ASSUME NEW n \in Nat \ {0}
      PROVE  IsFiniteSet(0 .. n - 1) /\ Cardinality(0 .. n - 1) = n
    <2>1. /\ IsFiniteSet(0 .. n - 1)
          /\ Cardinality(0 .. n - 1) = IF 0 > n - 1 THEN 0 ELSE (n - 1) - 0 + 1
        <3> n - 1 \in Int
            OBVIOUS
        <3> QED
            BY FS_Interval
    <2> QED
        BY <2>1
<1>2. g.size \in Nat \ {0}
    BY DEF IsCfg
<1> QED
    BY <1>1, <1>2 DEF Nodes

LEMMA IdomUnique ==
    ASSUME NEW g, IsCfg(g), AllReachable(g), NEW x \in Nodes(g),
           NEW a \in Nodes(g), NEW d \in Nodes(g), IsIdom(g, a, x), IsIdom(g, d, x)
    PROVE  a = d
BY SameGraph, Frontiers!IdomUnique, MarksAssumption, CfgsAssumption

-----------------------------------------------------------------------------
(***************************************************************************)
(* Chains of dominators, for any array dom of pointers to the nodes N.     *)
(***************************************************************************)
Closed(dom, S) == \A z \in S : dom[z] \in S \cup {NULL, WILD}

Up(N, dom, x) == {y \in N : \A S \in SUBSET N : x \in S /\ Closed(dom, S) => y \in S}

IsDom(N, dom) == dom \in [N -> N \cup {NULL, WILD}] /\ NULL \notin N /\ WILD \notin N

\* Each pointer leads to a higher number, but that of a node to itself.
Rising(N, dom, num) ==
    /\ num \in [N -> Int]
    /\ \A z \in N : dom[z] \in N /\ dom[z] # z => num[dom[z]] > num[z]

LEMMA UpClosed ==
    ASSUME NEW N, NEW dom, IsDom(N, dom), NEW x \in N
    PROVE  x \in Up(N, dom, x) /\ Closed(dom, Up(N, dom, x)) /\ Up(N, dom, x) \in SUBSET N
<1>1. ASSUME NEW y \in Up(N, dom, x), dom[y] \in N
      PROVE  dom[y] \in Up(N, dom, x)
    <2> SUFFICES ASSUME NEW S \in SUBSET N, x \in S, Closed(dom, S)
                 PROVE  dom[y] \in S
        BY <1>1 DEF Up
    <2> QED
        BY <1>1 DEF Up, Closed, IsDom
<1>2. \A y \in Up(N, dom, x) : dom[y] \in N \cup {NULL, WILD}
    BY DEF Up, IsDom
<1> QED
    BY <1>1, <1>2 DEF Up, Closed

LEMMA UpLeast ==
    ASSUME NEW N, NEW dom, NEW x, NEW S \in SUBSET N, x \in S, Closed(dom, S)
    PROVE  Up(N, dom, x) \subseteq S
BY DEF Up

LEMMA UpTransitive ==
    ASSUME NEW N, NEW dom, IsDom(N, dom), NEW x \in N, NEW y \in Up(N, dom, x)
    PROVE  Up(N, dom, y) \subseteq Up(N, dom, x)
BY UpClosed, UpLeast

LEMMA UpUnfold ==
    ASSUME NEW N, NEW dom, IsDom(N, dom), NEW x \in N
    PROVE  /\ dom[x] \in N => Up(N, dom, x) = {x} \cup Up(N, dom, dom[x])
           /\ dom[x] \notin N => Up(N, dom, x) = {x}
<1>1. CASE dom[x] \in N
    <2> DEFINE S == {x} \cup Up(N, dom, dom[x])
    <2>1. S \in SUBSET N /\ x \in S /\ Closed(dom, S)
        BY <1>1, UpClosed DEF Closed
    <2>2. Up(N, dom, x) \subseteq S
        <3> HIDE DEF S
        <3> QED
            BY <2>1, UpLeast
    <2>3. dom[x] \in Up(N, dom, x)
        BY <1>1, UpClosed DEF Closed, IsDom
    <2> QED
        BY <1>1, <2>2, <2>3, UpTransitive, UpClosed
<1>2. CASE dom[x] \notin N
    <2>1. Closed(dom, {x})
        BY <1>2 DEF Closed, IsDom
    <2> QED
        BY <1>2, <2>1, UpLeast, UpClosed
<1> QED
    BY <1>1, <1>2

LEMMA UpRises ==
    ASSUME NEW N, NEW dom, IsDom(N, dom), NEW num, Rising(N, dom, num),
           NEW x \in N, NEW y \in Up(N, dom, x), y # x
    PROVE  num[y] > num[x]
<1> DEFINE S == {z \in N : z = x \/ num[z] > num[x]}
<1>1. x \in S /\ S \in SUBSET N
    OBVIOUS
<1>2. ASSUME NEW z \in S, dom[z] \in N
      PROVE  dom[z] \in S
    BY <1>2 DEF Rising
<1>3. Closed(dom, S)
    BY <1>2 DEF Closed, IsDom
<1>4. y \in S
    <2> HIDE DEF S
    <2> QED
        BY <1>1, <1>3, UpLeast
<1> QED
    BY <1>4

\* Of two nodes of one chain, the higher is on the chain of the lower.
LEMMA UpLinear ==
    ASSUME NEW N, NEW dom, IsDom(N, dom), NEW num, Rising(N, dom, num),
           NEW x \in N, NEW y \in Up(N, dom, x), NEW z \in Up(N, dom, x), num[z] >= num[y],
           \A u \in N : num[u] = num[y] => u = y
    PROVE  z \in Up(N, dom, y)
<1> DEFINE S == {u \in N : y \in Up(N, dom, u) \/ u \in Up(N, dom, y)}
<1>0. y \in N /\ z \in N
    BY DEF Up
<1>1. x \in S /\ S \in SUBSET N
    OBVIOUS
<1>2. ASSUME NEW u \in S, dom[u] \in N
      PROVE  dom[u] \in S
    <2>1. CASE u \in Up(N, dom, y)
        BY <2>1, <1>0, <1>2, UpClosed DEF Closed, IsDom
    <2>2. CASE y \in Up(N, dom, u)
        BY <2>2, <1>0, <1>2, UpUnfold, UpClosed
    <2> QED
        BY <2>1, <2>2
<1>3. Closed(dom, S)
    BY <1>2 DEF Closed, IsDom
<1>4. z \in S
    <2> HIDE DEF S
    <2> QED
        BY <1>1, <1>3, UpLeast
<1>5. CASE y \in Up(N, dom, z) /\ y # z
    <2>1. num[y] > num[z]
        BY <1>0, <1>5, UpRises
    <2> QED
        BY <2>1, <1>0 DEF Rising
<1> QED
    BY <1>0, <1>4, <1>5, UpClosed

-----------------------------------------------------------------------------
(***************************************************************************)
(* What one assignment, dom[b] = n, does to the chains, when n's own chain *)
(* does not pass b.                                                        *)
(***************************************************************************)
LEMMA SetIsDom ==
    ASSUME NEW N, NEW dom, IsDom(N, dom), NEW b \in N, NEW n \in N
    PROVE  /\ IsDom(N, [dom EXCEPT ![b] = n])
           /\ [dom EXCEPT ![b] = n][b] = n
           /\ \A z \in N : z # b => [dom EXCEPT ![b] = n][z] = dom[z]
BY DEF IsDom

LEMMA SetAway ==
    ASSUME NEW N, NEW dom, IsDom(N, dom), NEW b \in N, NEW n \in N,
           NEW x \in N, b \notin Up(N, dom, x)
    PROVE  Up(N, [dom EXCEPT ![b] = n], x) = Up(N, dom, x)
<1> DEFINE new == [dom EXCEPT ![b] = n]
<1>1. IsDom(N, new) /\ \A z \in N : z # b => new[z] = dom[z]
    BY SetIsDom
<1> HIDE DEF new
<1>2. Closed(new, Up(N, dom, x))
    BY <1>1, UpClosed DEF Closed
<1>3. Closed(dom, Up(N, new, x) \cap Up(N, dom, x))
    <2> SUFFICES ASSUME NEW z \in Up(N, new, x) \cap Up(N, dom, x)
                 PROVE  dom[z] \in (Up(N, new, x) \cap Up(N, dom, x)) \cup {NULL, WILD}
        BY DEF Closed
    <2>1. z \in N /\ new[z] = dom[z]
        BY <1>1, UpClosed
    <2> QED
        BY <1>1, <2>1, UpClosed DEF Closed
<1>4. Up(N, new, x) \subseteq Up(N, dom, x)
    BY <1>2, UpClosed, UpLeast
<1>5. Up(N, dom, x) \subseteq Up(N, new, x) \cap Up(N, dom, x)
    <2> DEFINE S == Up(N, new, x) \cap Up(N, dom, x)
    <2>1. S \in SUBSET N /\ x \in S
        BY <1>1, UpClosed
    <2> HIDE DEF S
    <2>2. Closed(dom, S)
        BY <1>3 DEF S
    <2>3. Up(N, dom, x) \subseteq S
        BY <2>1, <2>2, UpLeast
    <2> QED
        BY <2>3 DEF S
<1> QED
    BY <1>4, <1>5 DEF new

\* The part of a chain up to b stays.
LEMMA SetBelow ==
    ASSUME NEW N, NEW dom, IsDom(N, dom), NEW b \in N, NEW n \in N,
           NEW x \in N, NEW y \in Up(N, dom, x), y = b \/ y \notin Up(N, dom, b)
    PROVE  y \in Up(N, [dom EXCEPT ![b] = n], x)
<1> DEFINE new == [dom EXCEPT ![b] = n]
<1>1. IsDom(N, new) /\ \A z \in N : z # b => new[z] = dom[z]
    BY SetIsDom
<1> HIDE DEF new
<1> DEFINE S == Up(N, new, x)
<1>2. S \in SUBSET N /\ x \in S /\ Closed(new, S)
    BY <1>1, UpClosed
<1> HIDE DEF S
<1>3. CASE b \notin S
    <2>1. Closed(dom, S)
        BY <1>1, <1>2, <1>3 DEF Closed
    <2>2. y \in S
        BY <1>2, <2>1, UpLeast
    <2> QED
        BY <2>2 DEF S, new
<1>4. CASE b \in S
    <2> DEFINE T == S \cup Up(N, dom, b)
    <2>1. T \in SUBSET N /\ x \in T
        BY <1>2, UpClosed
    <2>2. \A z \in T : dom[z] \in T \cup {NULL, WILD}
        <3> SUFFICES ASSUME NEW z \in T
                     PROVE  dom[z] \in T \cup {NULL, WILD}
            OBVIOUS
        <3>1. CASE z \in Up(N, dom, b)
            BY <3>1, UpClosed DEF Closed
        <3>2. CASE z \in S /\ z # b
            BY <3>2, <1>1, <1>2 DEF Closed
        <3>3. b \in Up(N, dom, b)
            BY UpClosed
        <3> QED
            BY <3>1, <3>2, <3>3
    <2> HIDE DEF T
    <2>3. y \in T
        BY <2>1, <2>2, UpLeast DEF Closed
    <2> QED
        BY <1>4, <2>3 DEF S, T, new
<1> QED
    BY <1>3, <1>4

LEMMA SetHere ==
    ASSUME NEW N, NEW dom, IsDom(N, dom), NEW b \in N, NEW n \in N, b \notin Up(N, dom, n)
    PROVE  Up(N, [dom EXCEPT ![b] = n], b) = {b} \cup Up(N, dom, n)
<1>1. Up(N, [dom EXCEPT ![b] = n], n) = Up(N, dom, n)
    BY SetAway
<1> DEFINE new == [dom EXCEPT ![b] = n]
<1>2. IsDom(N, new) /\ new[b] = n
    BY SetIsDom
<1>3. Up(N, new, n) = Up(N, dom, n)
    BY <1>1
<1> HIDE DEF new
<1>4. Up(N, new, b) = {b} \cup Up(N, new, n)
    BY <1>2, UpUnfold
<1> QED
    BY <1>3, <1>4 DEF new

\* Chains only lose nodes when n is on the chain that b had.
LEMMA SetShrinks ==
    ASSUME NEW N, NEW dom, IsDom(N, dom), NEW b \in N, NEW n \in N,
           n \in Up(N, dom, b), NEW x \in N
    PROVE  Up(N, [dom EXCEPT ![b] = n], x) \subseteq Up(N, dom, x)
<1> DEFINE new == [dom EXCEPT ![b] = n]
<1>1. IsDom(N, new) /\ new[b] = n /\ \A z \in N : z # b => new[z] = dom[z]
    BY SetIsDom
<1> HIDE DEF new
<1>2. Closed(new, Up(N, dom, x))
    <2> SUFFICES ASSUME NEW z \in Up(N, dom, x)
                 PROVE  new[z] \in Up(N, dom, x) \cup {NULL, WILD}
        BY DEF Closed
    <2>1. CASE z = b
        BY <1>1, <2>1, UpTransitive
    <2>2. CASE z # b
        BY <1>1, <2>2, UpClosed DEF Closed
    <2> QED
        BY <2>1, <2>2
<1> QED
    BY <1>2, UpClosed, UpLeast DEF new

-----------------------------------------------------------------------------
(***************************************************************************)
(* x can be reached from m through nodes that are all numbered below m: no *)
(* set with m that is closed under such steps leaves x out.                *)
(***************************************************************************)
Reaches(g, num, m, x) ==
    \A S \in SUBSET Nodes(g) :
       m \in S /\ (\A z \in S : \A w \in Succ(g, z) : num[w] < num[m] => w \in S) => x \in S

\* A dominator numbered above m is not on such a path, so it dominates m.
LEMMA ReachesDominated ==
    ASSUME NEW g, IsCfg(g), NEW num \in [Nodes(g) -> Int],
           NEW m \in Nodes(g), NEW x \in Nodes(g), NEW d \in Nodes(g),
           Reaches(g, num, m, x), Dominates(g, d, x), num[d] > num[m]
    PROVE  Dominates(g, d, m)
<1>1. PICK S \in SUBSET (Nodes(g) \ {d}) : IsAround(g, d, S) /\ x \notin S
    BY DEF Dominates
<1>2. \A z \in S : \A w \in Succ(g, z) : num[w] < num[m] => w \in S
    BY <1>1 DEF IsAround
<1>3. m \notin S
    BY <1>1, <1>2 DEF Reaches
<1> QED
    BY <1>1, <1>3 DEF Dominates

LEMMA ReachesStep ==
    ASSUME NEW g, IsCfg(g), NEW num \in [Nodes(g) -> Int],
           NEW m \in Nodes(g), NEW p \in Nodes(g), NEW x \in Succ(g, p),
           Reaches(g, num, m, p), num[x] < num[m]
    PROVE  Reaches(g, num, m, x)
BY DEF Reaches

LEMMA ReachesJoin ==
    ASSUME NEW g, IsCfg(g), NEW num \in [Nodes(g) -> Int],
           NEW m \in Nodes(g), NEW y \in Nodes(g), NEW x \in Nodes(g),
           Reaches(g, num, m, y), Reaches(g, num, y, x), num[m] >= num[y]
    PROVE  Reaches(g, num, m, x)
<1> SUFFICES ASSUME NEW S \in SUBSET Nodes(g), m \in S,
                    \A z \in S : \A w \in Succ(g, z) : num[w] < num[m] => w \in S
             PROVE  x \in S
    BY DEF Reaches
<1>1. y \in S
    BY DEF Reaches
<1>2. \A z \in S : \A w \in Succ(g, z) : num[w] < num[y] => w \in S
    <2> SUFFICES ASSUME NEW z \in S, NEW w \in Succ(g, z), num[w] < num[y]
                 PROVE  w \in S
        OBVIOUS
    <2>1. w \in Nodes(g)
        BY SuccNodes
    <2>2. num[w] < num[m]
        BY <2>1
    <2> QED
        BY <2>2
<1> QED
    BY <1>1, <1>2 DEF Reaches

\* When each pointer is such a path, so is each part of a chain.
LEMMA ReachesAlong ==
    ASSUME NEW g, IsCfg(g), NEW num, NEW dom, IsDom(Nodes(g), dom), Rising(Nodes(g), dom, num),
           \A z \in Nodes(g) : dom[z] \in Nodes(g) => Reaches(g, num, dom[z], z),
           NEW x \in Nodes(g), NEW y \in Up(Nodes(g), dom, x)
    PROVE  Reaches(g, num, y, x)
<1> DEFINE S == {z \in Nodes(g) : Reaches(g, num, z, x)}
<1>1. S \in SUBSET Nodes(g) /\ x \in S
    BY DEF Reaches
<1>2. ASSUME NEW z \in S, dom[z] \in Nodes(g)
      PROVE  dom[z] \in S
    <2>1. Reaches(g, num, dom[z], z) /\ num[dom[z]] >= num[z] /\ num \in [Nodes(g) -> Int]
        BY <1>2 DEF Rising
    <2> QED
        BY <1>2, <2>1, ReachesJoin
<1>3. Closed(dom, S)
    BY <1>2 DEF Closed, IsDom
<1>4. y \in S
    <2> HIDE DEF S
    <2> QED
        BY <1>1, <1>3, UpLeast
<1> QED
    BY <1>4

-----------------------------------------------------------------------------
(***************************************************************************)
(* The search.  The frames are a path from the header; the nodes visited   *)
(* are those of the path and those listed; a node is listed once, when all *)
(* its successors have been visited, and numbered by its place.            *)
(***************************************************************************)
OnStack == {frames[n].node : n \in 1 .. Len(frames)}
Listed == Cells(post)

FramesOK ==
    /\ Len(frames) > 0 /\ frames[1].node = Header
    /\ \A n, m \in 1 .. Len(frames) : frames[n].node = frames[m].node => n = m
    /\ \A n \in 1 .. Len(frames) : frames[n].next > 0
    /\ \A n \in 1 .. Len(frames) - 1 :
          /\ frames[n].next <= Len(cfg.succs[frames[n].node])
          /\ cfg.succs[frames[n].node][frames[n].next] = frames[n + 1].node

VisitedOK ==
    /\ visited = OnStack \cup Listed
    /\ OnStack \cap Listed = {}
    /\ \A x \in Listed : Succ(cfg, x) \subseteq visited
    /\ \A n \in 1 .. Len(frames) : \A j \in 1 .. Len(cfg.succs[frames[n].node]) :
          j < frames[n].next => cfg.succs[frames[n].node][j] \in visited

ListedOK ==
    /\ Cardinality(Listed) = Len(post)
    /\ \A j \in 1 .. Len(post) : number[post[j]] = j - 1

\* What is reached around d holds the path up to d.
StackPath ==
    \A d \in Nodes(cfg) : \A S \in SUBSET Nodes(cfg) : IsAround(cfg, d, S) =>
       \A n \in 1 .. Len(frames) :
          (\A m \in 1 .. n : frames[m].node # d) => frames[n].node \in S

\* A strict dominator of a node is on the path, or is listed after it.
DomOrder ==
    \A d, x \in Nodes(cfg) : StrictlyDominates(cfg, d, x) /\ x \in visited =>
       d \in OnStack \/ (x \in Listed /\ d \in Listed /\ number[d] > number[x])

\* So is one of its predecessors.
ParentOrder ==
    \A x \in Listed : \E p \in Pred(cfg, x) :
       p \in OnStack \/ (p \in Listed /\ number[p] > number[x])

SearchInv == FramesOK /\ VisitedOK /\ ListedOK /\ StackPath /\ DomOrder /\ ParentOrder

(***************************************************************************)
(* The passes, whatever the graph.                                         *)
(***************************************************************************)
WalkOK ==
    /\ pc \notin Stopped => \A x \in Nodes(cfg) : dominator[x] # WILD
    /\ pc # "dfs" => i > 0
    /\ pc \in {"preds", "intersect"} =>
          rpo[i] \in Nodes(cfg) /\ i < Size /\ k > 0 /\ new_idom \in Nodes(cfg) \cup {WILD}
    /\ pc = "intersect" => /\ finger1 \in Nodes(cfg) /\ finger2 \in Nodes(cfg)
                           /\ new_idom \in Nodes(cfg) /\ k <= Len(cfg.preds[B])

TypeInv == TypeOK /\ WalkOK /\ (pc = "dfs" => SearchInv /\ dominator = [x \in Nodes(cfg) |-> NULL])

-----------------------------------------------------------------------------
(***************************************************************************)
(* The list of a graph without unreachable nodes.                          *)
(***************************************************************************)
Ordered ==
    /\ rpo[0] = Header
    /\ \A j \in Nodes(cfg) : rpo[j] \in Nodes(cfg) /\ number[rpo[j]] = Size - 1 - j
    /\ \A x \in Nodes(cfg) : rpo[Size - 1 - number[x]] = x
    /\ \A d, x \in Nodes(cfg) : StrictlyDominates(cfg, d, x) => number[d] > number[x]
    /\ \A x \in Nodes(cfg) \ {Header} : \E p \in Pred(cfg, x) : number[p] > number[x]

\* The nodes before rpo[i], which the pass has handled.
Behind(x) == number[x] > Size - 1 - i

\* Every node of the list up to one processed is processed.
ProcessedOK ==
    /\ \A x \in Nodes(cfg) : x \in processed <=> dominator[x] # NULL
    /\ \A x \in processed : dominator[x] \in processed
    /\ \A x \in processed : \A y \in Nodes(cfg) : number[y] >= number[x] => y \in processed
    /\ \A x \in Nodes(cfg) : Behind(x) => x \in processed
    /\ dominator[Header] = Header /\ Behind(Header) /\ i \in 1 .. Size

\* Pointers climb, along paths that stay below them.
LinksClimb ==
    /\ \A x \in processed \ {Header} : number[dominator[x]] > number[x]
    /\ \A x \in processed : Reaches(cfg, number, dominator[x], x)

OnAll(x, y) == \A p \in Pred(cfg, x) \cap processed : y \in Chain(p)

(***************************************************************************)
(* The pointer of a node is at or below all that its predecessors' chains  *)
(* share; and the nodes of its chain that the pass is still to handle, or  *)
(* all of them once the node is behind, are on the chain of every          *)
(* predecessor that comes before it.                                       *)
(***************************************************************************)
Shared == \A x \in processed \ {Header} : \A y \in Nodes(cfg) :
             OnAll(x, y) => y \in Chain(dominator[x])

Forward ==
    \A x \in processed \ {Header} : \A p \in Pred(cfg, x) : \A z \in Chain(x) \ {x} :
       number[p] > number[x] /\ (Behind(x) \/ ~ Behind(z)) => z \in Chain(p)

\* What a pass that has changed nothing yet has found.
Settled ==
    ~ changed => \A x \in Nodes(cfg) \ {Header} : Behind(x) => OnAll(x, dominator[x])

HoldDominators == \A x \in processed : Dominators(cfg, x) \subseteq Chain(x)

(***************************************************************************)
(* The meeting point of the predecessors seen so far.                      *)
(***************************************************************************)
Meeting ==
    /\ B # Header /\ new_idom \in processed
    /\ \A j \in 1 .. Len(cfg.preds[B]) :
          j < k /\ cfg.preds[B][j] \in processed => new_idom \in Chain(cfg.preds[B][j])
    /\ \A y \in Nodes(cfg) : OnAll(B, y) => y \in Chain(new_idom)

Fingers ==
    /\ P \in processed
    /\ finger1 \in Chain(P) /\ finger2 \in Chain(new_idom)
    /\ \A y \in Nodes(cfg) : OnAll(B, y) => y \in Chain(finger1) /\ y \in Chain(finger2)

\* What holds between any two steps of the passes.
Core == Ordered /\ ProcessedOK /\ LinksClimb /\ HoldDominators /\ Shared /\ Forward /\ Settled

PassInv ==
    /\ Core
    /\ pc \in {"pass", "preds", "intersect", "done"}
    /\ pc \in {"preds", "intersect"} => Meeting
    /\ pc = "intersect" => Fingers
    /\ pc = "done" => i = Size /\ ~ changed

Inv == TypeInv /\ (pc # "dfs" /\ AllReachable(cfg) => PassInv)

-----------------------------------------------------------------------------
(***************************************************************************)
(* The steps of the search.                                                *)
(***************************************************************************)
Frames == [node : Nodes(cfg), next : Nat]

LEMMA AdvancedEffect ==
    ASSUME NEW fs \in Seq(Frames), Len(fs) > 0
    PROVE  /\ Advanced(fs) \in Seq(Frames) /\ Len(Advanced(fs)) = Len(fs)
           /\ \A n \in 1 .. Len(fs) :
                 /\ Advanced(fs)[n].node = fs[n].node
                 /\ n # Len(fs) => Advanced(fs)[n] = fs[n]
           /\ Advanced(fs)[Len(fs)].next = fs[Len(fs)].next + 1
<1>1. Len(fs) \in Nat /\ Len(fs) \in 1 .. Len(fs)
    BY LenProperties
<1> DEFINE last == fs[Len(fs)]
           moved == [last EXCEPT !.next = @ + 1]
<1>2. last \in Frames
    BY <1>1, ElementOfSeq
<1>3. moved \in Frames /\ moved.node = last.node /\ moved.next = last.next + 1
    BY <1>2 DEF Frames
<1>4. Advanced(fs) = [fs EXCEPT ![Len(fs)] = moved]
    BY <1>1 DEF Advanced
<1> HIDE DEF moved
<1>5. /\ Advanced(fs) \in Seq(Frames) /\ Len(Advanced(fs)) = Len(fs)
      /\ \A n \in 1 .. Len(fs) :
            Advanced(fs)[n] = IF n = Len(fs) THEN moved ELSE fs[n]
    BY <1>1, <1>3, <1>4, ExceptSeq
<1> QED
    BY <1>1, <1>3, <1>5

LEMMA TopFacts ==
    ASSUME TypeOK, FramesOK
    PROVE  /\ Len(frames) \in Nat \ {0} /\ Top \in Frames /\ Top.node \in OnStack
           /\ frames \in Seq(Frames)
           /\ HasNext => NextNode \in Nodes(cfg) /\ NextNode \in Succ(cfg, Top.node)
           /\ cfg.succs[Top.node] \in Seq(Nodes(cfg)) /\ Top.next > 0
           /\ IsCfg(cfg)
<1>1. frames \in Seq(Frames) /\ Len(frames) \in Nat \ {0} /\ IsCfg(cfg)
    BY LenProperties DEF TypeOK, FramesOK, Frames
<1>2. Top \in Frames /\ Top.node \in OnStack /\ Top.next > 0
    BY <1>1, ElementOfSeq DEF Top, OnStack, FramesOK
<1>3. cfg.succs[Top.node] \in Seq(Nodes(cfg))
    BY <1>1, <1>2 DEF IsCfg, Frames
<1>4. HasNext => NextNode \in Succ(cfg, Top.node)
    <2> SUFFICES ASSUME HasNext
                 PROVE  NextNode \in Succ(cfg, Top.node)
        OBVIOUS
    <2>1. Top.next \in 1 .. Len(cfg.succs[Top.node])
        BY <1>2, <1>3, LenProperties DEF HasNext, Frames
    <2> QED
        BY <2>1 DEF NextNode, Succ, Cells
<1> QED
    BY <1>1, <1>2, <1>3, <1>4, SuccNodes DEF Frames

LEMMA VisitKeeps == TypeInv /\ DfsVisit => TypeInv'
<1> SUFFICES ASSUME TypeInv, DfsVisit
             PROVE  TypeInv'
    OBVIOUS
<1>1. /\ pc = "dfs" /\ TypeOK /\ SearchInv /\ dominator = [x \in Nodes(cfg) |-> NULL]
    BY DEF DfsVisit, TypeInv
<1>2. /\ pc' = pc /\ cfg' = cfg /\ post' = post /\ number' = number /\ rpo' = rpo
      /\ dominator' = dominator /\ processed' = processed /\ changed' = changed /\ i' = i
      /\ k' = k /\ new_idom' = new_idom /\ finger1' = finger1 /\ finger2' = finger2
      /\ visited' = visited \cup {NextNode} /\ NextNode \notin visited /\ HasNext
    BY DEF DfsVisit, listVars, passVars, meetVars
<1> DEFINE c == NextNode
           L == Len(frames)
<1>3. FramesOK /\ VisitedOK /\ ListedOK /\ StackPath /\ DomOrder /\ ParentOrder
    BY <1>1 DEF SearchInv
<1>4. /\ L \in Nat \ {0} /\ frames \in Seq(Frames) /\ c \in Nodes(cfg)
      /\ c \in Succ(cfg, frames[L].node) /\ IsCfg(cfg)
      /\ c = cfg.succs[frames[L].node][frames[L].next]
      /\ frames[L].next <= Len(cfg.succs[frames[L].node])
    BY <1>1, <1>2, <1>3, TopFacts DEF Top, NextNode, HasNext
<1> HIDE DEF c
<1>5. Frame(c) \in Frames /\ Frame(c).node = c /\ Frame(c).next = 1
    BY <1>4 DEF Frame, Frames
<1>6. /\ frames' \in Seq(Frames) /\ Len(frames') = L + 1
      /\ \A n \in 1 .. L : frames'[n] = frames[n]
      /\ frames'[L + 1].node = c /\ frames'[L + 1].next = 1
    <2>1. frames' = Append(frames, Frame(c))
        BY DEF DfsVisit, c
    <2> DEFINE F == Frames
    <2> HIDE DEF F
    <2>2. frames \in Seq(F) /\ Frame(c) \in F
        BY <1>4, <1>5 DEF F
    <2>3. /\ frames' \in Seq(F) /\ Len(frames') = L + 1
          /\ \A n \in 1 .. L : frames'[n] = frames[n]
          /\ frames'[L + 1] = Frame(c)
        BY <2>1, <2>2, AppendProperties
    <2> QED
        BY <2>3, <1>5 DEF F
<1>7. visited' = visited \cup {c} /\ c \notin visited
    BY <1>2 DEF c
<1>8. OnStack' = OnStack \cup {c} /\ Listed' = Listed
    BY <1>2, <1>4, <1>6 DEF OnStack, Listed
<1>9. c \notin OnStack /\ c \notin Listed
    BY <1>3, <1>7 DEF VisitedOK
<1>10. FramesOK'
    <2>1. \A n \in 1 .. L : frames[n].node # c
        BY <1>9 DEF OnStack
    <2>0. 1 .. L + 1 = (1 .. L) \cup {L + 1}
        BY <1>4
    <2>2. \A n, m \in 1 .. L + 1 : frames'[n].node = frames'[m].node => n = m
        <3>1. \A n, m \in 1 .. L : frames'[n].node = frames'[m].node => n = m
            BY <1>3, <1>6 DEF FramesOK
        <3>2. \A n \in 1 .. L : frames'[n].node # c
            BY <2>1, <1>6
        <3> QED
            BY <2>0, <3>1, <3>2, <1>6
    <2>3. ASSUME NEW n \in 1 .. L
          PROVE  /\ frames'[n].next <= Len(cfg.succs[frames'[n].node])
                 /\ cfg.succs[frames'[n].node][frames'[n].next] = frames'[n + 1].node
        <3>1. CASE n = L
            <4>1. frames'[n] = frames[L] /\ frames'[n + 1].node = c
                BY <3>1, <1>6
            <4> QED
                BY <4>1, <1>4
        <3>2. CASE n \in 1 .. L - 1
            <4>1. n + 1 \in 1 .. L
                BY <3>2, <1>4
            <4>2. frames'[n] = frames[n] /\ frames'[n + 1] = frames[n + 1]
                BY <4>1, <1>6
            <4> QED
                BY <3>2, <4>2, <1>3 DEF FramesOK
        <3> QED
            BY <3>1, <3>2, <1>4
    <2>4. \A n \in 1 .. L + 1 : frames'[n].next > 0
        <3>1. \A n \in 1 .. L : frames'[n].next > 0
            BY <1>3, <1>6 DEF FramesOK
        <3> QED
            BY <2>0, <3>1, <1>6
    <2>5. frames'[1].node = Header
        <3>1. frames'[1] = frames[1]
            BY <1>4, <1>6
        <3> QED
            BY <3>1, <1>3 DEF FramesOK
    <2>6. Len(frames') > 0 /\ 1 .. Len(frames') - 1 = 1 .. L
        BY <1>4, <1>6
    <2> QED
        BY <2>2, <2>3, <2>4, <2>5, <2>6, <1>2, <1>6 DEF FramesOK
<1>11. VisitedOK'
    <2>1. \A n \in 1 .. L + 1 : \A j \in 1 .. Len(cfg.succs[frames'[n].node]) :
              j < frames'[n].next => cfg.succs[frames'[n].node][j] \in visited'
        <3>1. ASSUME NEW n \in 1 .. L, NEW j \in 1 .. Len(cfg.succs[frames'[n].node]),
                     j < frames'[n].next
              PROVE  cfg.succs[frames'[n].node][j] \in visited'
            <4>1. frames'[n] = frames[n]
                BY <1>6
            <4>2. cfg.succs[frames[n].node][j] \in visited
                BY <1>3, <3>1, <4>1 DEF VisitedOK
            <4> QED
                BY <1>7, <4>1, <4>2
        <3>2. ASSUME NEW j \in 1 .. Len(cfg.succs[frames'[L + 1].node])
              PROVE  ~ (j < frames'[L + 1].next)
            BY <1>6
        <3>3. 1 .. L + 1 = (1 .. L) \cup {L + 1}
            BY <1>4
        <3> QED
            BY <3>1, <3>2, <3>3
    <2> QED
        BY <2>1, <1>2, <1>3, <1>6, <1>7, <1>8, <1>9 DEF VisitedOK
<1>12. ListedOK'
    BY <1>2, <1>3, <1>8 DEF ListedOK
<1>13. StackPath'
    <2> SUFFICES ASSUME NEW d \in Nodes(cfg), NEW S \in SUBSET Nodes(cfg), IsAround(cfg, d, S),
                        NEW n \in 1 .. L + 1, \A m \in 1 .. n : frames'[m].node # d
                 PROVE  frames'[n].node \in S
        BY <1>2, <1>6 DEF StackPath
    <2>1. CASE n \in 1 .. L
        BY <2>1, <1>3, <1>4, <1>6 DEF StackPath
    <2>2. CASE n = L + 1
        <3>1. frames[L].node \in S
            <4>1. \A m \in 1 .. L : frames[m].node # d
                BY <2>2, <1>4, <1>6
            <4> QED
                BY <4>1, <1>3, <1>4 DEF StackPath
        <3>2. c # d
            BY <2>2, <1>4, <1>6
        <3>3. c \in S
            BY <3>1, <3>2, <1>4 DEF IsAround
        <3> QED
            BY <3>3, <2>2, <1>6
    <2> QED
        BY <2>1, <2>2, <1>4
<1>14. DomOrder'
    <2> SUFFICES ASSUME NEW d \in Nodes(cfg), NEW x \in Nodes(cfg),
                        StrictlyDominates(cfg, d, x), x \in visited'
                 PROVE  d \in OnStack' \/ (x \in Listed /\ d \in Listed /\ number[d] > number[x])
        BY <1>2, <1>8 DEF DomOrder
    <2>1. CASE x \in visited
        BY <2>1, <1>3, <1>8 DEF DomOrder
    <2>2. CASE x = c
        <3> SUFFICES ASSUME d \notin OnStack'
                     PROVE  FALSE
            OBVIOUS
        <3>1. PICK S \in SUBSET (Nodes(cfg) \ {d}) : IsAround(cfg, d, S) /\ c \notin S
            BY <2>2 DEF StrictlyDominates, Dominates
        <3>2. \A m \in 1 .. L + 1 : frames'[m].node # d
            BY <1>6 DEF OnStack
        <3>3. frames'[L + 1].node \in S
            <4>1. L + 1 \in 1 .. Len(frames') /\ S \in SUBSET Nodes(cfg)
                BY <1>4, <1>6
            <4> QED
                BY <4>1, <3>1, <3>2, <1>2, <1>6, <1>13 DEF StackPath
        <3> QED
            BY <3>1, <3>3, <1>6
    <2> QED
        BY <2>1, <2>2, <1>7
<1>15. ParentOrder'
    BY <1>2, <1>3, <1>8 DEF ParentOrder
<1>16. TypeOK'
    BY <1>1, <1>2, <1>4, <1>6, <1>7 DEF TypeOK, Frames
<1>17. WalkOK'
    BY <1>1, <1>2, MarksAssumption DEF WalkOK
<1> QED
    BY <1>1, <1>2, <1>10, <1>11, <1>12, <1>13, <1>14, <1>15, <1>16, <1>17
       DEF TypeInv, SearchInv

LEMMA SkipKeeps == TypeInv /\ DfsSkip => TypeInv'
<1> SUFFICES ASSUME TypeInv, DfsSkip
             PROVE  TypeInv'
    OBVIOUS
<1>1. /\ pc = "dfs" /\ TypeOK /\ SearchInv /\ dominator = [x \in Nodes(cfg) |-> NULL]
    BY DEF DfsSkip, TypeInv
<1>2. /\ pc' = pc /\ cfg' = cfg /\ post' = post /\ number' = number /\ rpo' = rpo
      /\ dominator' = dominator /\ processed' = processed /\ changed' = changed /\ i' = i
      /\ k' = k /\ new_idom' = new_idom /\ finger1' = finger1 /\ finger2' = finger2
      /\ visited' = visited /\ NextNode \in visited /\ HasNext /\ frames' = Advanced(frames)
    BY DEF DfsSkip, listVars, passVars, meetVars
<1> DEFINE L == Len(frames)
<1>3. FramesOK /\ VisitedOK /\ ListedOK /\ StackPath /\ DomOrder /\ ParentOrder
    BY <1>1 DEF SearchInv
<1>4. /\ L \in Nat \ {0} /\ frames \in Seq(Frames) /\ IsCfg(cfg)
      /\ \A n \in 1 .. L : frames[n] \in Frames
      /\ cfg.succs[frames[L].node][frames[L].next] \in visited
    BY <1>1, <1>2, <1>3, TopFacts, ElementOfSeq DEF Top, NextNode
<1>5. /\ frames' \in Seq(Frames) /\ Len(frames') = L
      /\ \A n \in 1 .. L :
            /\ frames'[n].node = frames[n].node
            /\ n # L => frames'[n] = frames[n]
      /\ frames'[L].next = frames[L].next + 1
    BY <1>2, <1>4, AdvancedEffect
<1>6. \A n \in 1 .. L : frames[n].next \in Nat /\ frames'[n].next =
                           IF n = L THEN frames[n].next + 1 ELSE frames[n].next
    BY <1>4, <1>5 DEF Frames
<1>7. OnStack' = OnStack /\ Listed' = Listed
    BY <1>2, <1>5 DEF OnStack, Listed
<1>8. FramesOK'
    <2>1. ASSUME NEW n \in 1 .. L - 1
          PROVE  /\ frames'[n].next <= Len(cfg.succs[frames'[n].node])
                 /\ cfg.succs[frames'[n].node][frames'[n].next] = frames'[n + 1].node
        <3>1. n \in 1 .. L /\ n # L /\ n + 1 \in 1 .. L
            BY <1>4
        <3> QED
            BY <3>1, <1>3, <1>5 DEF FramesOK
    <2>2. \A n, m \in 1 .. L : frames'[n].node = frames'[m].node => n = m
        BY <1>3, <1>5 DEF FramesOK
    <2>3. \A n \in 1 .. L : frames'[n].next > 0
        BY <1>3, <1>6 DEF FramesOK
    <2>4. frames'[1].node = Header
        BY <1>3, <1>4, <1>5 DEF FramesOK
    <2> QED
        BY <2>1, <2>2, <2>3, <2>4, <1>2, <1>4, <1>5 DEF FramesOK
<1>9. VisitedOK'
    <2> SUFFICES ASSUME NEW n \in 1 .. L, NEW j \in 1 .. Len(cfg.succs[frames[n].node]),
                        j < frames'[n].next
                 PROVE  cfg.succs[frames[n].node][j] \in visited
        BY <1>2, <1>3, <1>5, <1>7 DEF VisitedOK
    <2>1. CASE j < frames[n].next
        BY <2>1, <1>3 DEF VisitedOK
    <2>2. CASE n = L /\ j = frames[n].next
        BY <2>2, <1>4
    <2>3. cfg.succs[frames[n].node] \in Seq(Nodes(cfg))
        BY <1>4 DEF IsCfg, Frames
    <2>4. j \in Int
        BY <2>3, LenProperties
    <2> QED
        BY <2>1, <2>2, <2>4, <1>6
<1>10. StackPath'
    BY <1>2, <1>3, <1>4, <1>5 DEF StackPath
<1>11. ListedOK' /\ DomOrder' /\ ParentOrder'
    BY <1>2, <1>3, <1>7 DEF ListedOK, DomOrder, ParentOrder
<1>12. TypeOK'
    BY <1>1, <1>2, <1>5 DEF TypeOK, Frames
<1>13. WalkOK'
    BY <1>1, <1>2, MarksAssumption DEF WalkOK
<1> QED
    BY <1>1, <1>2, <1>8, <1>9, <1>10, <1>11, <1>12, <1>13 DEF TypeInv, SearchInv

\* The search has listed each node at most once, and not the header.
LEMMA ListedFew ==
    ASSUME TypeOK, SearchInv
    PROVE  /\ IsFiniteSet(Listed) /\ Listed \in SUBSET Nodes(cfg) /\ Header \notin Listed
           /\ Len(post) \in Nat /\ Len(post) <= Size - 1
           /\ Len(post) = Size - 1 => Listed = Nodes(cfg) \ {Header}
           /\ Listed = Nodes(cfg) \ {Header} => Len(post) = Size - 1
<1>1. post \in Seq(Nodes(cfg)) /\ Len(post) \in Nat /\ IsCfg(cfg)
    BY LenProperties DEF TypeOK
<1>2. Listed \in SUBSET Nodes(cfg)
    BY <1>1, ElementOfSeq DEF Listed, Cells
<1>3. Header \notin Listed
    <2>1. Len(frames) \in Nat \ {0}
        BY TopFacts DEF SearchInv
    <2>2. Header \in OnStack
        BY <2>1 DEF SearchInv, FramesOK, OnStack
    <2> QED
        BY <2>2 DEF SearchInv, VisitedOK
<1>4. IsFiniteSet(Nodes(cfg)) /\ Cardinality(Nodes(cfg)) = Size /\ Size \in Nat
    BY <1>1, NodesFinite DEF Size, IsCfg
<1>5. /\ IsFiniteSet(Nodes(cfg) \ {Header}) /\ Cardinality(Nodes(cfg) \ {Header}) = Size - 1
    BY <1>1, <1>4, HeaderIsNode, FS_RemoveElement
<1>6. Listed \in SUBSET (Nodes(cfg) \ {Header})
    BY <1>2, <1>3
<1>7. /\ IsFiniteSet(Listed) /\ Cardinality(Listed) <= Size - 1
      /\ Cardinality(Listed) = Size - 1 => Listed = Nodes(cfg) \ {Header}
    BY <1>5, <1>6, FS_Subset
<1> QED
    BY <1>1, <1>2, <1>3, <1>5, <1>7 DEF SearchInv, ListedOK

LEMMA ReturnKeeps == TypeInv /\ DfsReturn => TypeInv'
<1> SUFFICES ASSUME TypeInv, DfsReturn
             PROVE  TypeInv'
    OBVIOUS
<1>1. /\ pc = "dfs" /\ TypeOK /\ SearchInv /\ dominator = [x \in Nodes(cfg) |-> NULL]
    BY DEF DfsReturn, TypeInv
<1> DEFINE t == Top.node
           L == Len(frames)
<1>2. /\ pc' = pc /\ cfg' = cfg /\ rpo' = rpo /\ visited' = visited
      /\ dominator' = dominator /\ processed' = processed /\ changed' = changed /\ i' = i
      /\ k' = k /\ new_idom' = new_idom /\ finger1' = finger1 /\ finger2' = finger2
      /\ ~ HasNext /\ L > 1
      /\ number' = [number EXCEPT ![t] = Len(post)] /\ post' = Append(post, t)
      /\ frames' = Advanced(Pop)
    BY DEF DfsReturn, passVars, meetVars
<1>3. FramesOK /\ VisitedOK /\ ListedOK /\ StackPath /\ DomOrder /\ ParentOrder
    BY <1>1 DEF SearchInv
<1>4. /\ L \in Nat /\ frames \in Seq(Frames) /\ IsCfg(cfg) /\ t \in Nodes(cfg) /\ t \in OnStack
      /\ \A n \in 1 .. L : frames[n] \in Frames
      /\ cfg.succs[t] \in Seq(Nodes(cfg)) /\ t = frames[L].node
      /\ frames[L].next \in Nat /\ frames[L].next > Len(cfg.succs[t])
      /\ Len(cfg.succs[t]) \in Nat
    <2>1. /\ Len(frames) \in Nat \ {0} /\ Top \in Frames /\ t \in OnStack
          /\ frames \in Seq(Frames) /\ cfg.succs[t] \in Seq(Nodes(cfg)) /\ IsCfg(cfg)
        BY <1>1, <1>3, TopFacts
    <2>2. \A n \in 1 .. L : frames[n] \in Frames
        BY <2>1, ElementOfSeq
    <2>3. t \in Nodes(cfg) /\ Top.next \in Nat
        BY <2>1 DEF Frames
    <2>4. Len(cfg.succs[t]) \in Nat
        BY <2>1, LenProperties
    <2>5. Top.next > Len(cfg.succs[t])
        BY <1>2, <2>3, <2>4 DEF HasNext
    <2> QED
        BY <2>1, <2>2, <2>3, <2>4, <2>5 DEF Top
<1> HIDE DEF t
<1> DEFINE M == L - 1
<1>0. /\ M \in Nat \ {0} /\ L = M + 1 /\ L - 1 = M /\ M \in 1 .. M /\ 1 \in 1 .. M
      /\ L \in 1 .. L /\ M \in 1 .. L /\ M # L
      /\ \A n \in 1 .. M : n \in 1 .. L /\ n # L /\ n \in Nat
      /\ \A n \in 1 .. L : n = L \/ n \in 1 .. M
      /\ \A n \in 1 .. M - 1 : n \in 1 .. M /\ n # M /\ n + 1 \in 1 .. M
    BY <1>2, <1>4
<1> HIDE DEF M
<1>5. /\ Pop \in Seq(Frames) /\ Len(Pop) = M
      /\ \A n \in 1 .. M : Pop[n] = frames[n]
    <2>1. Pop = SubSeq(frames, 1, M)
        BY DEF Pop, M
    <2>2. /\ SubSeq(frames, 1, M) \in Seq(Frames)
          /\ Len(SubSeq(frames, 1, M)) = IF 1 <= M THEN M - 1 + 1 ELSE 0
          /\ \A n \in 1 .. M - 1 + 1 : SubSeq(frames, 1, M)[n] = frames[1 + n - 1]
        BY <1>0, <1>4, SubSeqProperties
    <2>3. M - 1 + 1 = M /\ \A n \in 1 .. M : 1 + n - 1 = n
        BY <1>0
    <2> HIDE DEF L
    <2>4. 1 <= M
        BY <1>0
    <2> QED
        BY <2>1, <2>2, <2>3, <2>4
<1>6. /\ frames' \in Seq(Frames) /\ Len(frames') = M
      /\ \A n \in 1 .. M :
            /\ frames'[n].node = frames[n].node
            /\ n # M => frames'[n] = frames[n]
      /\ frames'[M].next = frames[M].next + 1
    <2>2. /\ Advanced(Pop) \in Seq(Frames) /\ Len(Advanced(Pop)) = Len(Pop)
          /\ \A n \in 1 .. Len(Pop) :
                /\ Advanced(Pop)[n].node = Pop[n].node
                /\ n # Len(Pop) => Advanced(Pop)[n] = Pop[n]
          /\ Advanced(Pop)[Len(Pop)].next = Pop[Len(Pop)].next + 1
        <3>1. Pop \in Seq(Frames) /\ Len(Pop) > 0
            BY <1>0, <1>5
        <3> QED
            BY <3>1, AdvancedEffect
    <2> QED
        BY <1>2, <1>5, <1>0, <2>2
<1>7. \A n \in 1 .. M : frames[n].next \in Nat /\ frames'[n].next =
                           IF n = M THEN frames[n].next + 1 ELSE frames[n].next
    BY <1>0, <1>4, <1>6 DEF Frames
<1>8. /\ frames[M].next <= Len(cfg.succs[frames[M].node])
      /\ cfg.succs[frames[M].node][frames[M].next] = t
    BY <1>0, <1>3, <1>4 DEF FramesOK, M
<1>9. /\ \A n \in 1 .. M : frames[n].node # t
      /\ t # Header
    <2>1. \A n \in 1 .. M : frames[n].node # t
        BY <1>0, <1>3, <1>4 DEF FramesOK
    <2> QED
        BY <2>1, <1>0, <1>3 DEF FramesOK
<1>10. /\ t \notin Listed /\ OnStack' = OnStack \ {t} /\ Listed' = Listed \cup {t}
       /\ post \in Seq(Nodes(cfg)) /\ post' \in Seq(Nodes(cfg)) /\ Len(post') = Len(post) + 1
       /\ \A j \in 1 .. Len(post) : post'[j] = post[j] /\ post[j] \in Listed
       /\ post'[Len(post) + 1] = t /\ Len(post) \in Nat
    <2>1. post \in Seq(Nodes(cfg)) /\ Len(post) \in Nat
        BY <1>1, LenProperties DEF TypeOK
    <2>2. /\ post' \in Seq(Nodes(cfg)) /\ Len(post') = Len(post) + 1
          /\ \A j \in 1 .. Len(post) : post'[j] = post[j]
          /\ post'[Len(post) + 1] = t
        BY <1>2, <1>4, <2>1, AppendProperties
    <2>3. Listed' = Listed \cup {t} /\ \A j \in 1 .. Len(post) : post[j] \in Listed
        BY <2>1, <2>2 DEF Listed, Cells
    <2>4. OnStack' = OnStack \ {t}
        <3>1. 1 .. L = (1 .. M) \cup {L}
            BY <1>0
        <3>2. OnStack = {frames[n].node : n \in 1 .. M} \cup {t}
            BY <3>1, <1>4 DEF OnStack
        <3>3. OnStack' = {frames[n].node : n \in 1 .. M}
            BY <1>6 DEF OnStack
        <3> QED
            BY <3>2, <3>3, <1>9
    <2>5. t \notin Listed
        BY <1>3, <1>4 DEF VisitedOK
    <2> QED
        BY <2>1, <2>2, <2>3, <2>4, <2>5
<1>11. /\ Len(post) \in Nodes(cfg) /\ number' \in [Nodes(cfg) -> Nodes(cfg)]
       /\ number'[t] = Len(post)
       /\ \A x \in Nodes(cfg) : x # t => number'[x] = number[x]
       /\ \A x \in Listed : x \in Nodes(cfg) /\ number[x] < Len(post)
    <2>1. Len(post) \in Nat /\ Len(post) <= Size - 1 /\ Listed \in SUBSET Nodes(cfg)
        BY <1>1, ListedFew
    <2>2. Len(post) \in Nodes(cfg) /\ number \in [Nodes(cfg) -> Nodes(cfg)]
        <3>1. Len(post) \in 0 .. cfg.size - 1
            BY <2>1, <1>4 DEF Size, IsCfg
        <3> QED
            BY <3>1, <1>1 DEF Nodes, TypeOK
    <2>3. \A x \in Listed : number[x] < Len(post)
        <3> SUFFICES ASSUME NEW j \in 1 .. Len(post)
                     PROVE  number[post[j]] < Len(post)
            BY DEF Listed, Cells
        <3>1. number[post[j]] = j - 1
            BY <1>3 DEF ListedOK
        <3> QED
            BY <3>1, <1>10
    <2> QED
        BY <1>2, <1>4, <2>1, <2>2, <2>3
<1>12. FramesOK'
    <2>1. ASSUME NEW n \in 1 .. M - 1
          PROVE  /\ frames'[n].next <= Len(cfg.succs[frames'[n].node])
                 /\ cfg.succs[frames'[n].node][frames'[n].next] = frames'[n + 1].node
        <3>1. n \in 1 .. M /\ n # M /\ n + 1 \in 1 .. M
            BY <1>0
        <3>2. /\ frames[n].next <= Len(cfg.succs[frames[n].node])
              /\ cfg.succs[frames[n].node][frames[n].next] = frames[n + 1].node
            BY <3>1, <1>3 DEF FramesOK, M
        <3> QED
            BY <3>1, <3>2, <1>6
    <2>2. ASSUME NEW n \in 1 .. M, NEW m \in 1 .. M, frames'[n].node = frames'[m].node
          PROVE  n = m
        <3>1. n \in 1 .. L /\ m \in 1 .. L /\ frames[n].node = frames[m].node
            BY <2>2, <1>0, <1>6
        <3> QED
            BY <3>1, <1>3 DEF FramesOK
    <2>3. ASSUME NEW n \in 1 .. M
          PROVE  frames'[n].next > 0
        <3>1. n \in 1 .. L /\ frames[n].next > 0
            BY <1>0, <1>3 DEF FramesOK
        <3> QED
            BY <3>1, <1>7
    <2>4. frames'[1].node = Header
        BY <1>0, <1>3, <1>6 DEF FramesOK
    <2> QED
        BY <2>1, <2>2, <2>3, <2>4, <1>2, <1>0, <1>6 DEF FramesOK
<1>13. VisitedOK'
    <2>1. Succ(cfg, t) \subseteq visited
        <3> SUFFICES ASSUME NEW j \in 1 .. Len(cfg.succs[t])
                     PROVE  cfg.succs[t][j] \in visited
            BY DEF Succ, Cells
        <3>1. L \in 1 .. Len(frames) /\ j < frames[L].next
            BY <1>0, <1>4
        <3> QED
            BY <3>1, <1>3, <1>4 DEF VisitedOK
    <2>2. ASSUME NEW n \in 1 .. M, NEW j \in 1 .. Len(cfg.succs[frames[n].node]),
                 j < frames'[n].next
          PROVE  cfg.succs[frames[n].node][j] \in visited
        <3>1. n \in 1 .. L
            BY <1>0
        <3>2. CASE j < frames[n].next
            BY <3>1, <3>2, <1>3 DEF VisitedOK
        <3>3. CASE n = M /\ j = frames[n].next
            BY <3>3, <1>3, <1>4, <1>8 DEF VisitedOK
        <3>4. j \in Int
            <4>1. cfg.succs[frames[n].node] \in Seq(Nodes(cfg))
                BY <3>1, <1>4 DEF IsCfg, Frames
            <4> QED
                BY <4>1, LenProperties
        <3> QED
            BY <3>2, <3>3, <3>4, <2>2, <1>7
    <2>3. visited = OnStack' \cup Listed' /\ OnStack' \cap Listed' = {}
        BY <1>3, <1>4, <1>10 DEF VisitedOK
    <2>4. \A x \in Listed' : Succ(cfg, x) \subseteq visited
        BY <2>1, <1>3, <1>10 DEF VisitedOK
    <2>5. \A n \in 1 .. M : \A j \in 1 .. Len(cfg.succs[frames'[n].node]) :
             j < frames'[n].next => cfg.succs[frames'[n].node][j] \in visited
        BY <2>2, <1>6
    <2> QED
        BY <2>3, <2>4, <2>5, <1>2, <1>6 DEF VisitedOK
<1>14. ListedOK'
    <2>1. Cardinality(Listed') = Len(post')
        <3>1. IsFiniteSet(Listed)
            BY <1>1, ListedFew
        <3> QED
            <4>1. /\ Cardinality(Listed') = Cardinality(Listed) + 1
                  /\ Cardinality(Listed) = Len(post)
                BY <3>1, <1>3, <1>10, FS_AddElement DEF ListedOK
            <4> QED
                BY <4>1, <1>10
    <2>2. ASSUME NEW j \in 1 .. Len(post) + 1
          PROVE  number'[post'[j]] = j - 1
        <3>1. CASE j \in 1 .. Len(post)
            BY <3>1, <1>3, <1>10, <1>11 DEF ListedOK
        <3>2. CASE j = Len(post) + 1
            BY <3>2, <1>10, <1>11
        <3> QED
            BY <3>1, <3>2, <1>10
    <2>3. \A j \in 1 .. Len(post) + 1 : number'[post'[j]] = j - 1
        BY <2>2
    <2>4. Len(post') = Len(post) + 1
        BY <1>10
    <2> QED
        BY <2>1, <2>3, <2>4 DEF ListedOK
<1>15. StackPath'
    <2> SUFFICES ASSUME NEW d \in Nodes(cfg), NEW S \in SUBSET Nodes(cfg), IsAround(cfg, d, S),
                        NEW n \in 1 .. Len(frames'), \A m \in 1 .. n : frames'[m].node # d
                 PROVE  frames'[n].node \in S
        BY <1>2 DEF StackPath
    <2>1. n \in 1 .. M /\ n \in 1 .. L /\ \A m \in 1 .. n : m \in 1 .. M
        BY <1>0, <1>6
    <2>2. frames'[n].node = frames[n].node /\ \A m \in 1 .. n : frames[m].node # d
        BY <2>1, <1>6
    <2>3. frames[n].node \in S
        BY <2>1, <2>2, <1>3 DEF StackPath
    <2> QED
        BY <2>2, <2>3
<1>16. DomOrder'
    <2> SUFFICES ASSUME NEW d \in Nodes(cfg), NEW x \in Nodes(cfg),
                        StrictlyDominates(cfg, d, x), x \in visited
                 PROVE  \/ d \in OnStack'
                        \/ x \in Listed' /\ d \in Listed' /\ number'[d] > number'[x]
        BY <1>2 DEF DomOrder
    <2>0. d # x
        BY DEF StrictlyDominates
    <2>1. CASE d \in OnStack /\ d # t
        BY <2>1, <1>10
    <2>2. CASE d = t
        <3>1. x \notin OnStack
            <4> SUFFICES ASSUME NEW n \in 1 .. L, x = frames[n].node
                         PROVE  FALSE
                BY DEF OnStack
            <4>1. PICK S \in SUBSET (Nodes(cfg) \ {d}) : IsAround(cfg, d, S) /\ x \notin S
                BY DEF StrictlyDominates, Dominates
            <4>2. n # L /\ \A m \in 1 .. n : m \in 1 .. M
                <5>1. n # L
                    BY <2>0, <2>2, <1>4
                <5> QED
                    BY <5>1, <1>0
            <4>3. \A m \in 1 .. n : frames[m].node # d
                BY <4>2, <2>2, <1>9
            <4>4. S \in SUBSET Nodes(cfg)
                OBVIOUS
            <4> QED
                BY <4>1, <4>3, <4>4, <1>3 DEF StackPath
        <3>2. x \in Listed
            BY <3>1, <1>3 DEF VisitedOK
        <3>3. x # t /\ number'[x] = number[x] /\ number[x] < Len(post)
            BY <3>2, <1>10, <1>11
        <3> QED
            BY <3>2, <3>3, <2>2, <1>10, <1>11
    <2>3. CASE x \in Listed /\ d \in Listed /\ number[d] > number[x]
        <3>1. d # t /\ x # t
            BY <2>3, <1>10
        <3> QED
            BY <3>1, <2>3, <1>10, <1>11
    <2> QED
        BY <2>1, <2>2, <2>3, <1>3 DEF DomOrder
<1>17. ParentOrder'
    <2> SUFFICES ASSUME NEW x \in Listed'
                 PROVE  \E p \in Pred(cfg, x) :
                           p \in OnStack' \/ (p \in Listed' /\ number'[p] > number'[x])
        BY <1>2 DEF ParentOrder
    <2>1. CASE x = t
        <3> DEFINE p == frames[M].node
        <3>1. p \in OnStack'
            BY <1>0, <1>6 DEF OnStack
        <3>2. p \in Nodes(cfg)
            BY <1>0, <1>4 DEF Frames
        <3>3. t \in Succ(cfg, p)
            <4>1. frames[M].next \in 1 .. Len(cfg.succs[p])
                <5>1. cfg.succs[p] \in Seq(Nodes(cfg))
                    BY <3>2, <1>4 DEF IsCfg
                <5>3. frames[M].next > 0
                    BY <1>0, <1>3 DEF FramesOK
                <5>4. frames[M].next \in Nat
                    BY <1>0, <1>4 DEF Frames
                <5> QED
                    BY <5>1, <5>3, <5>4, <1>8, LenProperties
            <4> QED
                BY <4>1, <1>8 DEF Succ, Cells
        <3>4. p \in Pred(cfg, t)
            BY <3>2, <3>3, <1>4, PredSucc
        <3> QED
            BY <2>1, <3>1, <3>4
    <2>2. CASE x \in Listed
        <3>1. PICK p \in Pred(cfg, x) : p \in OnStack \/ (p \in Listed /\ number[p] > number[x])
            BY <2>2, <1>3 DEF ParentOrder
        <3>2. x # t /\ x \in Nodes(cfg) /\ number'[x] = number[x] /\ number[x] < Len(post)
            BY <2>2, <1>10, <1>11
        <3>3. CASE p = t
            BY <3>2, <3>3, <1>10, <1>11
        <3>4. CASE p # t /\ p \in OnStack
            BY <3>4, <1>10
        <3>5. CASE p # t /\ p \in Listed /\ number[p] > number[x]
            BY <3>2, <3>5, <1>10, <1>11
        <3> QED
            BY <3>1, <3>3, <3>4, <3>5
    <2> QED
        BY <2>1, <2>2, <1>10
<1>18. TypeOK'
    BY <1>1, <1>2, <1>6, <1>10, <1>11 DEF TypeOK, Frames
<1>19. WalkOK'
    BY <1>1, <1>2, MarksAssumption DEF WalkOK
<1> QED
    BY <1>1, <1>2, <1>12, <1>13, <1>14, <1>15, <1>16, <1>17, <1>18, <1>19
       DEF TypeInv, SearchInv

LEMMA InitTypeInv == Init => TypeInv
<1> SUFFICES ASSUME Init
             PROVE  TypeInv
    OBVIOUS
<1>1. /\ IsCfg(cfg) /\ pc = "dfs" /\ frames = <<Frame(Header)>> /\ visited = {Header}
      /\ post = <<>> /\ number = [x \in Nodes(cfg) |-> 0]
      /\ rpo = [x \in Nodes(cfg) |-> WILD] /\ dominator = [x \in Nodes(cfg) |-> NULL]
      /\ processed = {} /\ changed = TRUE /\ i = 0 /\ k = 0
      /\ new_idom = WILD /\ finger1 = WILD /\ finger2 = WILD
    BY CfgsAssumption DEF Init
<1>2. Header \in Nodes(cfg)
    BY <1>1, HeaderIsNode
<1>3. /\ Len(frames) = 1 /\ frames[1] = Frame(Header) /\ frames \in Seq(Frames)
      /\ frames[1].node = Header /\ frames[1].next = 1
    <2>1. Frame(Header) \in Frames /\ Frame(Header).node = Header /\ Frame(Header).next = 1
        BY <1>2 DEF Frame, Frames
    <2> HIDE DEF Frame
    <2> QED
        BY <1>1, <2>1
<1>4. OnStack = {Header} /\ Listed = {} /\ Len(post) = 0
    <2>1. Len(post) = 0
        BY <1>1, EmptySeq
    <2> QED
        BY <1>3, <2>1 DEF OnStack, Listed, Cells
<1>5. TypeOK
    <2>1. post \in Seq(Nodes(cfg))
        BY <1>1
    <2>2. number \in [Nodes(cfg) -> Nodes(cfg)]
        BY <1>1, <1>2 DEF Header
    <2> QED
        BY <1>1, <1>2, <1>3, <2>1, <2>2 DEF TypeOK, Frames
<1>6. FramesOK
    BY <1>3 DEF FramesOK
<1>7. VisitedOK
    BY <1>1, <1>3, <1>4 DEF VisitedOK
<1>8. ListedOK
    BY <1>4, FS_EmptySet DEF ListedOK
<1>9. StackPath
    BY <1>3 DEF StackPath, IsAround
<1>10. DomOrder
    BY <1>1, <1>4, NoneAboveHeader DEF DomOrder
<1>11. ParentOrder
    BY <1>4 DEF ParentOrder
<1>12. WalkOK
    BY <1>1, MarksAssumption DEF WalkOK
<1> QED
    BY <1>1, <1>5, <1>6, <1>7, <1>8, <1>9, <1>10, <1>11, <1>12 DEF TypeInv, SearchInv

-----------------------------------------------------------------------------
(***************************************************************************)
(* The list that reverse_post_order hands over.                            *)
(***************************************************************************)
LEMMA TempType ==
    ASSUME TypeOK, NEW j \in Nodes(cfg)
    PROVE  Temp(j) \in Nodes(cfg) \cup {WILD}
<1>1. j \in Nat /\ post \in Seq(Nodes(cfg)) /\ Len(post) \in Nat /\ Header \in Nodes(cfg)
    BY LenProperties, HeaderIsNode DEF TypeOK, Nodes
<1>2. CASE j = Size - 1
    BY <1>1, <1>2 DEF Temp
<1>3. CASE j # Size - 1 /\ j < Len(post)
    <2>1. post[j + 1] \in Nodes(cfg)
        BY <1>1, <1>3, ElementOfSeq
    <2> QED
        BY <1>3, <2>1 DEF Temp
<1>4. CASE j # Size - 1 /\ ~ (j < Len(post))
    BY <1>4 DEF Temp
<1> QED
    BY <1>2, <1>3, <1>4

LEMMA InvertKeeps == TypeInv /\ Invert => TypeInv'
<1> SUFFICES ASSUME TypeInv, Invert
             PROVE  TypeInv'
    OBVIOUS
<1>1. /\ pc = "dfs" /\ TypeOK /\ dominator = [x \in Nodes(cfg) |-> NULL]
      /\ IsCfg(cfg) /\ Header \in Nodes(cfg)
    BY HeaderIsNode DEF Invert, TypeInv, TypeOK
<1>2. /\ cfg' = cfg /\ pc' = "pass" /\ frames' = <<>> /\ visited' = {} /\ post' = post
      /\ number' = [number EXCEPT ![Header] = Size - 1]
      /\ rpo' = [j \in Nodes(cfg) |-> Inverted(j)]
      /\ dominator' = [dominator EXCEPT ![Header] = Header]
      /\ processed' = {Header} /\ changed' = FALSE /\ i' = 1
      /\ k' = k /\ new_idom' = new_idom /\ finger1' = finger1 /\ finger2' = finger2
    BY DEF Invert, meetVars, LastNumber
<1>3. rpo' \in [Nodes(cfg) -> Nodes(cfg) \cup {WILD}]
    <2>1. \A j \in Nodes(cfg) : Inverted(j) \in Nodes(cfg) \cup {WILD}
        <3> SUFFICES ASSUME NEW j \in Nodes(cfg)
                     PROVE  Temp(Size - 1 - j) \in Nodes(cfg) \cup {WILD}
            BY DEF Inverted
        <3>1. Size - 1 - j \in Nodes(cfg)
            BY <1>1 DEF Nodes, Size, IsCfg
        <3> QED
            BY <1>1, <3>1, TempType
    <2> QED
        BY <1>2, <2>1
<1>4. number' \in [Nodes(cfg) -> Nodes(cfg)]
    <2>1. Size - 1 \in Nodes(cfg)
        BY <1>1 DEF Nodes, Size, IsCfg
    <2> QED
        BY <1>1, <1>2, <2>1 DEF TypeOK
<1>5. dominator' \in [Nodes(cfg) -> Nodes(cfg) \cup {NULL, WILD}]
      /\ \A x \in Nodes(cfg) : dominator'[x] # WILD
    BY <1>1, <1>2, MarksAssumption DEF Nodes
<1>6. TypeOK'
    <2>1. frames' \in Seq([node : Nodes(cfg), next : Nat])
        BY <1>2
    <2>2. /\ Nodes(cfg)' = Nodes(cfg) /\ {Header} \in SUBSET Nodes(cfg)
          /\ pc' \in {"dfs", "pass", "preds", "intersect"} \cup Stopped
        BY <1>1, <1>2
    <2>3. /\ post' \in Seq(Nodes(cfg)) /\ i' \in Nat /\ k' \in Nat
          /\ {new_idom', finger1', finger2'} \subseteq Nodes(cfg) \cup {NULL, WILD}
        BY <1>1, <1>2 DEF TypeOK
    <2>4. changed' \in BOOLEAN
        BY <1>2
    <2> QED
        BY <1>1, <1>2, <1>3, <1>4, <1>5, <2>1, <2>2, <2>3, <2>4 DEF TypeOK
<1>7. WalkOK'
    BY <1>2, <1>5 DEF WalkOK
<1> QED
    BY <1>2, <1>6, <1>7 DEF TypeInv

\* The search of a graph without unreachable nodes lists all but the header.
LEMMA SearchComplete ==
    ASSUME TypeInv, Invert, AllReachable(cfg)
    PROVE  /\ OnStack = {Header} /\ Listed = Nodes(cfg) \ {Header} /\ visited = Nodes(cfg)
           /\ Len(post) = Size - 1 /\ TypeOK /\ SearchInv
<1>1. /\ TypeOK /\ SearchInv /\ FramesOK /\ VisitedOK /\ ~ HasNext /\ Len(frames) = 1
      /\ IsCfg(cfg)
    BY DEF Invert, TypeInv, SearchInv, TypeOK
<1>2. OnStack = {Header} /\ Top = frames[1] /\ Top.node = Header
    BY <1>1 DEF OnStack, FramesOK, Top
<1>3. Succ(cfg, Header) \subseteq visited
    <2> SUFFICES ASSUME NEW j \in 1 .. Len(cfg.succs[Header])
                 PROVE  cfg.succs[Header][j] \in visited
        BY DEF Succ, Cells
    <2>1. cfg.succs[Header] \in Seq(Nodes(cfg)) /\ Top \in Frames
        BY <1>1, <1>2, TopFacts
    <2>2. j < frames[1].next
        BY <1>1, <1>2, <2>1, LenProperties DEF HasNext, Frames
    <2>3. 1 \in 1 .. Len(frames) /\ frames[1].node = Header
        BY <1>1, <1>2
    <2> QED
        BY <1>1, <2>2, <2>3 DEF VisitedOK
<1>4. visited = Nodes(cfg)
    <2>1. Header \in visited /\ visited \in SUBSET Nodes(cfg)
        BY <1>1, <1>2 DEF VisitedOK, TypeOK
    <2>2. \A x \in visited : Succ(cfg, x) \subseteq visited
        BY <1>1, <1>2, <1>3 DEF VisitedOK
    <2> QED
        BY <2>1, <2>2 DEF AllReachable
<1>5. Listed = Nodes(cfg) \ {Header}
    BY <1>1, <1>2, <1>4 DEF VisitedOK
<1> QED
    BY <1>1, <1>2, <1>4, <1>5, ListedFew

LEMMA InvertOrders ==
    ASSUME TypeInv, Invert, AllReachable(cfg)
    PROVE  /\ Ordered'
           /\ \A x \in Nodes(cfg) : number'[x] > Size - 2 => x = Header
           /\ number'[Header] = Size - 1
<1>1. /\ OnStack = {Header} /\ Listed = Nodes(cfg) \ {Header} /\ visited = Nodes(cfg)
      /\ Len(post) = Size - 1 /\ TypeOK /\ ListedOK /\ DomOrder /\ ParentOrder
    BY SearchComplete DEF SearchInv
<1>2. /\ IsCfg(cfg) /\ Header \in Nodes(cfg) /\ Size \in Nat \ {0} /\ Size' = Size
      /\ cfg' = cfg /\ Header = 0
    BY <1>1, HeaderIsNode DEF TypeOK, IsCfg, Size, Invert, Header
<1>3. /\ number' = [number EXCEPT ![Header] = Size - 1]
      /\ rpo' = [j \in Nodes(cfg) |-> Temp(Size - 1 - j)]
      /\ number \in [Nodes(cfg) -> Nodes(cfg)]
    BY <1>1 DEF Invert, LastNumber, TypeOK, Inverted
<1>4. /\ number'[Header] = Size - 1
      /\ \A x \in Listed : number'[x] = number[x]
    BY <1>1, <1>2, <1>3
<1>5. ASSUME NEW x \in Listed
      PROVE  \E j \in 1 .. Size - 1 : x = post[j] /\ number[x] = j - 1
    BY <1>1 DEF Listed, Cells, ListedOK
<1>6. \A x \in Listed : number[x] \in Nat /\ number[x] < Size - 1
    BY <1>2, <1>5
<1>7. ASSUME NEW j \in 1 .. Size - 1
      PROVE  post[j] \in Listed /\ number[post[j]] = j - 1
    BY <1>1, <1>7 DEF Listed, Cells, ListedOK
<1>8. ASSUME NEW j \in 1 .. Size - 1
      PROVE  rpo'[j] = post[Size - j] /\ rpo'[Size - j] = post[j]
    <2>1. \A m \in 1 .. Size - 1 : m \in Nodes(cfg) /\ Temp(Size - 1 - m) = post[Size - m]
        <3> SUFFICES ASSUME NEW m \in 1 .. Size - 1
                     PROVE  m \in Nodes(cfg) /\ Temp(Size - 1 - m) = post[Size - m]
            OBVIOUS
        <3>1. m \in Nodes(cfg)
            BY <1>2 DEF Nodes, Size
        <3>2. Size - 1 - m # Size - 1 /\ Size - 1 - m < Len(post) /\ Size - 1 - m + 1 = Size - m
            BY <1>1, <1>2
        <3> QED
            BY <3>1, <3>2 DEF Temp
    <2>2. j \in 1 .. Size - 1 /\ Size - j \in 1 .. Size - 1 /\ Size - (Size - j) = j
        BY <1>2
    <2> QED
        BY <2>1, <2>2, <1>3
<1>9. rpo'[0] = Header
    <2>1. 0 \in Nodes(cfg) /\ Size - 1 - 0 = Size - 1
        BY <1>2
    <2>2. ASSUME NEW j \in Nodes(cfg), j = Size - 1
          PROVE  Temp(j) = Header
        <3>1. ~ (j < Len(post))
            BY <1>1, <1>2, <2>2
        <3> QED
            BY <2>2, <3>1 DEF Temp
    <2>3. Temp(Size - 1) = Header
        <3>1. Size - 1 \in Nodes(cfg)
            BY <1>2 DEF Nodes, Size
        <3> QED
            BY <2>2, <3>1
    <2> QED
        BY <2>1, <2>3, <1>3
<1>10. ASSUME NEW j \in Nodes(cfg)
       PROVE  rpo'[j] \in Nodes(cfg) /\ number'[rpo'[j]] = Size - 1 - j
    <2>1. CASE j = 0
        BY <2>1, <1>2, <1>4, <1>9
    <2>2. CASE j \in 1 .. Size - 1
        <3>1. Size - j \in 1 .. Size - 1 /\ (Size - j) - 1 = Size - 1 - j
            BY <2>2, <1>2
        <3>2. post[Size - j] \in Listed /\ number[post[Size - j]] = (Size - j) - 1
            BY <3>1, <1>7
        <3> QED
            BY <2>2, <3>1, <3>2, <1>1, <1>4, <1>8
    <2>3. j = 0 \/ j \in 1 .. Size - 1
        BY <1>2 DEF Nodes, Size
    <2> QED
        BY <2>1, <2>2, <2>3
<1>11. ASSUME NEW x \in Nodes(cfg)
       PROVE  rpo'[Size - 1 - number'[x]] = x
    <2>1. CASE x = Header
        BY <2>1, <1>2, <1>4, <1>9
    <2>2. CASE x \in Listed
        <3>1. PICK j \in 1 .. Size - 1 : x = post[j] /\ number[x] = j - 1
            BY <2>2, <1>5
        <3>2. Size - 1 - number'[x] = Size - j
            BY <2>2, <3>1, <1>2, <1>4
        <3> QED
            BY <3>1, <3>2, <1>8
    <2> QED
        BY <2>1, <2>2, <1>1
<1>12. ASSUME NEW d \in Nodes(cfg), NEW x \in Nodes(cfg), StrictlyDominates(cfg, d, x)
       PROVE  number'[d] > number'[x]
    <2>1. d # x
        BY <1>12 DEF StrictlyDominates
    <2>2. d = Header \/ (x \in Listed /\ d \in Listed /\ number[d] > number[x])
        BY <1>1, <1>12 DEF DomOrder
    <2>3. CASE d = Header
        <3>1. x \in Listed
            BY <2>1, <2>3, <1>1
        <3> QED
            BY <2>3, <3>1, <1>2, <1>4, <1>6
    <2>4. CASE x \in Listed /\ d \in Listed /\ number[d] > number[x]
        BY <2>4, <1>4
    <2> QED
        BY <2>2, <2>3, <2>4
<1>13. ASSUME NEW x \in Nodes(cfg) \ {Header}
       PROVE  \E p \in Pred(cfg, x) : number'[p] > number'[x]
    <2>1. x \in Listed
        BY <1>1
    <2>2. PICK p \in Pred(cfg, x) : p = Header \/ (p \in Listed /\ number[p] > number[x])
        BY <2>1, <1>1 DEF ParentOrder
    <2> QED
        BY <2>1, <2>2, <1>2, <1>4, <1>6
<1>14. Ordered'
    BY <1>2, <1>9, <1>10, <1>11, <1>12, <1>13 DEF Ordered
<1>15. \A x \in Nodes(cfg) : number'[x] > Size - 2 => x = Header
    BY <1>1, <1>2, <1>4, <1>6
<1> QED
    BY <1>4, <1>14, <1>15

LEMMA InvertStarts ==
    ASSUME TypeInv, Invert, AllReachable(cfg)
    PROVE  PassInv'
<1>1. /\ TypeOK /\ IsCfg(cfg) /\ Header \in Nodes(cfg) /\ Size \in Nat \ {0}
      /\ dominator = [x \in Nodes(cfg) |-> NULL]
    BY HeaderIsNode DEF Invert, TypeInv, TypeOK, IsCfg, Size
<1>2. /\ cfg' = cfg /\ Size' = Size /\ pc' = "pass" /\ processed' = {Header} /\ changed' = FALSE
      /\ i' = 1 /\ dominator' = [dominator EXCEPT ![Header] = Header]
    BY DEF Invert, Size
<1>3. /\ Ordered' /\ \A x \in Nodes(cfg) : number'[x] > Size - 2 => x = Header
      /\ number'[Header] = Size - 1
    BY InvertOrders
<1>4. /\ dominator'[Header] = Header
      /\ \A x \in Nodes(cfg) : x # Header => dominator'[x] = NULL
      /\ Header # NULL
    BY <1>1, <1>2, MarksAssumption DEF Header
<1>5. \A x \in Nodes(cfg) : number'[x] \in Int
    <2>1. TypeOK'
        BY InvertKeeps DEF TypeInv
    <2>2. number' \in [Nodes(cfg) -> Nodes(cfg)]
        BY <2>1, <1>2 DEF TypeOK
    <2> QED
        BY <2>2 DEF Nodes
<1>6. Size - 1 - 1 = Size - 2 /\ Size - 1 > Size - 2
    BY <1>1
<1>7. \A x \in Nodes(cfg) : Behind(x)' <=> number'[x] > Size - 2
    BY <1>2, <1>6 DEF Behind
<1>8. ProcessedOK'
    <2>1. \A x \in Nodes(cfg) : x \in processed' <=> dominator'[x] # NULL
        BY <1>2, <1>4
    <2>2. \A y \in Nodes(cfg) : number'[y] >= number'[Header] => y \in processed'
        <3> SUFFICES ASSUME NEW y \in Nodes(cfg), number'[y] >= number'[Header]
                     PROVE  y = Header
            BY <1>2
        <3>1. number'[y] > Size - 2
            BY <1>1, <1>3, <1>5
        <3> QED
            BY <3>1, <1>3
    <2>3. \A x \in Nodes(cfg) : Behind(x)' => x \in processed'
        BY <1>2, <1>3, <1>7
    <2>4. Behind(Header)' /\ i' \in 1 .. Size
        BY <1>1, <1>2, <1>3, <1>6, <1>7
    <2> QED
        BY <2>1, <2>2, <2>3, <2>4, <1>2, <1>4 DEF ProcessedOK
<1>9. LinksClimb'
    BY <1>2, <1>4 DEF LinksClimb, Reaches
<1>10. HoldDominators'
    <2> SUFFICES ASSUME NEW d \in Nodes(cfg), Dominates(cfg, d, Header)
                 PROVE  d \in Chain(Header)'
        BY <1>2 DEF HoldDominators, Dominators
    <2>1. d = Header
        BY NoneAboveHeader DEF StrictlyDominates
    <2> QED
        BY <2>1, <1>1, <1>2 DEF Chain
<1>11. Shared' /\ Forward'
    BY <1>2 DEF Shared, Forward
<1>12. Settled'
    BY <1>2, <1>3, <1>7 DEF Settled
<1> QED
    BY <1>2, <1>3, <1>8, <1>9, <1>10, <1>11, <1>12 DEF PassInv, Core

-----------------------------------------------------------------------------
(***************************************************************************)
(* The passes keep the types, whatever the graph.                          *)
(***************************************************************************)
\* FirstProcessed takes the first of the predecessors that are processed.
LEMMA FirstProcessedIs ==
    ASSUME IsCfg(cfg), NEW b \in Nodes(cfg)
    PROVE  LET s == cfg.preds[b]
           IN  \/ FirstProcessed(b) = WILD /\ \A j \in 1 .. Len(s) : s[j] \notin processed
               \/ \E j \in 1 .. Len(s) :
                     /\ FirstProcessed(b) = s[j] /\ s[j] \in processed /\ s[j] \in Nodes(cfg)
                     /\ \A m \in 1 .. Len(s) : s[m] \in processed => j <= m
<1> DEFINE s == cfg.preds[b]
           found == {j \in 1 .. Len(s) : s[j] \in processed}
<1>1. s \in Seq(Nodes(cfg)) /\ Len(s) \in Nat
    BY LenProperties DEF IsCfg
<1>2. \A j \in 1 .. Len(s) : s[j] \in Nodes(cfg)
    BY <1>1, ElementOfSeq
<1>3. CASE found = {}
    BY <1>3 DEF FirstProcessed
<1>4. CASE found # {}
    <2>1. \E j \in found : \A m \in found : j <= m
        <3>1. found \subseteq Nat
            BY <1>1
        <3> HIDE DEF found
        <3>2. \E j \in found : \A m \in found : ~ (<<m, j>> \in OpToRel(<, Nat))
            BY <1>4, <3>1, NatLessThanWellFounded, WFMin, Zenon
        <3>3. \E j \in found : \A m \in found : ~ (m < j)
            BY <3>1, <3>2, Zenon DEF OpToRel
        <3> QED
            BY <3>1, <3>3
    <2> DEFINE least == CHOOSE j \in found : \A m \in found : j <= m
    <2>2. least \in found /\ \A m \in found : least <= m
        BY <2>1
    <2>3. FirstProcessed(b) = s[least]
        BY <1>4 DEF FirstProcessed
    <2> HIDE DEF least
    <2> QED
        BY <1>2, <2>2, <2>3
<1> QED
    BY <1>3, <1>4

\* The predecessors a node of the list has, while the pass is at it.
LEMMA AtNode ==
    ASSUME TypeInv, pc \in {"preds", "intersect"}
    PROVE  /\ B \in Nodes(cfg) /\ i \in Nodes(cfg) /\ IsCfg(cfg)
           /\ cfg.preds[B] \in Seq(Nodes(cfg)) /\ Len(cfg.preds[B]) \in Nat /\ k \in Nat \ {0}
           /\ k <= Len(cfg.preds[B]) => P \in Nodes(cfg) /\ P \in Pred(cfg, B)
           /\ dominator \in [Nodes(cfg) -> Nodes(cfg) \cup {NULL}]
<1>1. /\ TypeOK /\ WalkOK /\ IsCfg(cfg) /\ B \in Nodes(cfg) /\ i \in Nat \ {0} /\ i < Size
      /\ k \in Nat \ {0}
    BY DEF TypeInv, WalkOK, TypeOK, B
<1>2. cfg.preds[B] \in Seq(Nodes(cfg)) /\ Len(cfg.preds[B]) \in Nat
    BY <1>1, LenProperties DEF IsCfg
<1>3. ASSUME k <= Len(cfg.preds[B])
      PROVE  P \in Nodes(cfg) /\ P \in Pred(cfg, B)
    <2>1. k \in 1 .. Len(cfg.preds[B])
        BY <1>1, <1>2, <1>3
    <2> QED
        BY <1>2, <2>1, ElementOfSeq DEF P, Pred, Cells
<1>4. i \in Nodes(cfg)
    BY <1>1 DEF Nodes, Size, IsCfg
<1>5. dominator \in [Nodes(cfg) -> Nodes(cfg) \cup {NULL}]
    <2>1. dominator \in [Nodes(cfg) -> Nodes(cfg) \cup {NULL, WILD}]
        BY <1>1 DEF TypeOK
    <2>2. \A x \in Nodes(cfg) : dominator[x] # WILD
        BY <1>1 DEF WalkOK, Stopped
    <2> QED
        BY <2>1, <2>2
<1> QED
    BY <1>1, <1>2, <1>3, <1>4, <1>5

LEMMA StartNodeTypes == TypeInv /\ StartNode => TypeInv'
<1> SUFFICES ASSUME TypeInv, StartNode
             PROVE  TypeInv'
    OBVIOUS
<1>1. /\ pc = "pass" /\ TypeOK /\ WalkOK /\ IsCfg(cfg) /\ i \in Nat \ {0} /\ i < Size
    BY DEF StartNode, TypeInv, WalkOK, TypeOK
<1>2. /\ cfg' = cfg /\ frames' = frames /\ visited' = visited /\ post' = post
      /\ number' = number /\ rpo' = rpo /\ dominator' = dominator /\ processed' = processed
      /\ changed' = changed /\ i' = i /\ finger1' = finger1 /\ finger2' = finger2
    BY DEF StartNode, dfsVars, listVars, passVars
<1>3. i \in Nodes(cfg) /\ B \in Nodes(cfg) \cup {WILD}
    <2>1. i \in Nodes(cfg)
        BY <1>1 DEF Nodes, Size, IsCfg
    <2>2. rpo \in [Nodes(cfg) -> Nodes(cfg) \cup {WILD}]
        BY <1>1 DEF TypeOK
    <2> QED
        BY <2>1, <2>2 DEF B
<1>4. CASE B = WILD
    <2>1. pc' = "wild" /\ k' = k /\ new_idom' = new_idom
        BY <1>4 DEF StartNode
    <2> QED
        BY <1>1, <1>2, <2>1 DEF TypeInv, TypeOK, WalkOK, Stopped
<1>5. CASE B # WILD
    <2>1. pc' = "preds" /\ k' = 1 /\ new_idom' = FirstProcessed(B)
        BY <1>5 DEF StartNode
    <2>2. B \in Nodes(cfg) /\ B' = B /\ rpo'[i'] = B
        BY <1>2, <1>3, <1>5 DEF B
    <2>3. new_idom' \in Nodes(cfg) \cup {WILD}
        BY <1>1, <2>1, <2>2, FirstProcessedIs
    <2>4. TypeOK'
        BY <1>1, <1>2, <2>1, <2>3 DEF TypeOK
    <2>5. WalkOK'
        BY <1>1, <1>2, <2>1, <2>2, <2>3 DEF WalkOK, Stopped, Size
    <2> QED
        BY <2>1, <2>4, <2>5 DEF TypeInv
<1> QED
    BY <1>4, <1>5

LEMMA SkipPredTypes == TypeInv /\ SkipPred => TypeInv'
<1> SUFFICES ASSUME TypeInv, SkipPred
             PROVE  TypeInv'
    OBVIOUS
<1>1. /\ pc = "preds" /\ TypeOK /\ WalkOK /\ k \in Nat
    BY DEF SkipPred, TypeInv, TypeOK
<1>2. /\ cfg' = cfg /\ frames' = frames /\ visited' = visited /\ post' = post /\ pc' = pc
      /\ number' = number /\ rpo' = rpo /\ dominator' = dominator /\ processed' = processed
      /\ changed' = changed /\ i' = i /\ finger1' = finger1 /\ finger2' = finger2
      /\ new_idom' = new_idom /\ k' = k + 1
    BY DEF SkipPred, dfsVars, listVars, passVars
<1>3. TypeOK'
    BY <1>1, <1>2 DEF TypeOK
<1>4. WalkOK'
    BY <1>1, <1>2 DEF WalkOK, Size
<1> QED
    BY <1>1, <1>2, <1>3, <1>4 DEF TypeInv

LEMMA MeetPredTypes == TypeInv /\ MeetPred => TypeInv'
<1> SUFFICES ASSUME TypeInv, MeetPred
             PROVE  TypeInv'
    OBVIOUS
<1>1. /\ pc = "preds" /\ TypeOK /\ WalkOK /\ k \in Nat /\ k <= Len(cfg.preds[B])
    BY DEF MeetPred, TypeInv, TypeOK
<1>2. /\ cfg' = cfg /\ frames' = frames /\ visited' = visited /\ post' = post
      /\ number' = number /\ rpo' = rpo /\ dominator' = dominator /\ processed' = processed
      /\ changed' = changed /\ i' = i /\ k' = k /\ new_idom' = new_idom
      /\ finger1' = P /\ finger2' = new_idom
      /\ pc' = IF new_idom = WILD THEN "wild" ELSE "intersect"
    BY DEF MeetPred, dfsVars, listVars, passVars
<1>3. P \in Nodes(cfg) /\ new_idom \in Nodes(cfg) \cup {WILD} /\ B' = B
    BY <1>1, <1>2, AtNode DEF WalkOK, B
<1>4. pc' \in {"wild", "intersect"} /\ (pc' = "intersect" => new_idom \in Nodes(cfg))
    BY <1>2, <1>3
<1>5. TypeOK'
    BY <1>1, <1>2, <1>3, <1>4 DEF TypeOK, Stopped
<1>6. WalkOK'
    BY <1>1, <1>2, <1>3, <1>4 DEF WalkOK, Size, Stopped
<1> QED
    BY <1>4, <1>5, <1>6 DEF TypeInv

LEMMA ClimbTypes == TypeInv /\ Climb => TypeInv'
<1> SUFFICES ASSUME TypeInv, Climb
             PROVE  TypeInv'
    OBVIOUS
<1>1. /\ pc = "intersect" /\ TypeOK /\ WalkOK
      /\ finger1 \in Nodes(cfg) /\ finger2 \in Nodes(cfg)
    BY DEF Climb, TypeInv, WalkOK
<1>2. /\ cfg' = cfg /\ frames' = frames /\ visited' = visited /\ post' = post
      /\ number' = number /\ rpo' = rpo /\ dominator' = dominator /\ processed' = processed
      /\ changed' = changed /\ i' = i /\ k' = k /\ new_idom' = new_idom /\ B' = B
    BY DEF Climb, dfsVars, listVars, passVars, B
<1>3. finger1' \in Nodes(cfg) \cup {NULL} /\ finger2' \in Nodes(cfg) \cup {NULL}
    <2>1. dominator[finger1] \in Nodes(cfg) \cup {NULL} /\ dominator[finger2] \in Nodes(cfg) \cup {NULL}
        BY <1>1, AtNode
    <2> QED
        BY <1>1, <2>1 DEF Climb
<1>4. /\ pc' \in {"crash", "intersect"}
      /\ pc' = "intersect" => finger1' \in Nodes(cfg) /\ finger2' \in Nodes(cfg)
    <2>1. pc' = IF NULL \in {finger1', finger2'} THEN "crash" ELSE pc
        BY DEF Climb
    <2> QED
        BY <1>1, <1>3, <2>1
<1>5. TypeOK'
    BY <1>1, <1>2, <1>3, <1>4 DEF TypeOK, Stopped
<1>6. WalkOK'
    BY <1>1, <1>2, <1>3, <1>4 DEF WalkOK, Size, Stopped
<1> QED
    BY <1>4, <1>5, <1>6 DEF TypeInv

LEMMA MeetTypes == TypeInv /\ Meet => TypeInv'
<1> SUFFICES ASSUME TypeInv, Meet
             PROVE  TypeInv'
    OBVIOUS
<1>1. /\ pc = "intersect" /\ TypeOK /\ WalkOK /\ finger1 \in Nodes(cfg) /\ k \in Nat
    BY DEF Meet, TypeInv, WalkOK, TypeOK
<1>2. /\ cfg' = cfg /\ frames' = frames /\ visited' = visited /\ post' = post
      /\ number' = number /\ rpo' = rpo /\ dominator' = dominator /\ processed' = processed
      /\ changed' = changed /\ i' = i /\ k' = k + 1 /\ new_idom' = finger1 /\ B' = B
      /\ finger1' = finger1 /\ finger2' = finger2 /\ pc' = "preds"
    BY DEF Meet, dfsVars, listVars, passVars, B
<1>3. TypeOK'
    BY <1>1, <1>2 DEF TypeOK
<1>4. WalkOK'
    BY <1>1, <1>2 DEF WalkOK, Size, Stopped
<1> QED
    BY <1>2, <1>3, <1>4 DEF TypeInv

LEMMA SetDominatorTypes == TypeInv /\ SetDominator => TypeInv'
<1> SUFFICES ASSUME TypeInv, SetDominator
             PROVE  TypeInv'
    OBVIOUS
<1>1. /\ pc = "preds" /\ TypeOK /\ WalkOK /\ new_idom \in Nodes(cfg) \cup {WILD} /\ i \in Nat
      /\ B \in Nodes(cfg)
    BY AtNode DEF SetDominator, TypeInv, WalkOK, TypeOK
<1>2. /\ cfg' = cfg /\ frames' = frames /\ visited' = visited /\ post' = post
      /\ number' = number /\ rpo' = rpo /\ i' = i + 1 /\ k' = k /\ new_idom' = new_idom
      /\ finger1' = finger1 /\ finger2' = finger2
      /\ pc' = IF new_idom = WILD THEN "wild" ELSE "pass"
    BY DEF SetDominator, dfsVars, listVars, meetVars
<1>3. /\ dominator' \in [Nodes(cfg) -> Nodes(cfg) \cup {NULL, WILD}]
      /\ processed' \in SUBSET Nodes(cfg) /\ changed' \in BOOLEAN
      /\ new_idom # WILD => \A x \in Nodes(cfg) : dominator'[x] # WILD
    <2>1. CASE dominator[B] # new_idom
        <3>1. dominator' = [dominator EXCEPT ![B] = new_idom] /\ processed' = processed \cup {B}
              /\ changed' = TRUE
            BY <2>1 DEF SetDominator
        <3> QED
            BY <1>1, <3>1 DEF TypeOK, WalkOK, Stopped
    <2>2. CASE dominator[B] = new_idom
        <3>1. dominator' = dominator /\ processed' = processed /\ changed' = changed
            BY <2>2 DEF SetDominator
        <3> QED
            BY <1>1, <3>1 DEF TypeOK, WalkOK, Stopped
    <2> QED
        BY <2>1, <2>2
<1>4. TypeOK'
    BY <1>1, <1>2, <1>3 DEF TypeOK, Stopped
<1>5. WalkOK'
    BY <1>1, <1>2, <1>3 DEF WalkOK, Stopped
<1> QED
    BY <1>2, <1>4, <1>5 DEF TypeInv

LEMMA EndPassTypes == TypeInv /\ EndPass => TypeInv'
<1> SUFFICES ASSUME TypeInv, EndPass
             PROVE  TypeInv'
    OBVIOUS
<1>1. pc = "pass" /\ TypeOK /\ WalkOK /\ i > 0
    BY DEF EndPass, TypeInv, WalkOK
<1>2. /\ cfg' = cfg /\ frames' = frames /\ visited' = visited /\ post' = post
      /\ number' = number /\ rpo' = rpo /\ dominator' = dominator /\ processed' = processed
      /\ k' = k /\ new_idom' = new_idom /\ finger1' = finger1 /\ finger2' = finger2
    BY DEF EndPass, dfsVars, listVars, meetVars
<1>3. pc' \in {"pass", "done"} /\ changed' \in BOOLEAN /\ i' \in Nat /\ i' > 0
    <2>1. changed \in BOOLEAN /\ i \in Nat
        BY <1>1 DEF TypeOK
    <2>2. CASE AnotherPass
        <3>1. pc' = "pass" /\ changed' = FALSE /\ i' = 1
            BY <1>1, <2>2 DEF EndPass
        <3>2. changed' \in BOOLEAN
            BY <3>1
        <3> QED
            BY <3>1, <3>2
    <2>3. CASE ~ AnotherPass
        BY <1>1, <2>1, <2>3 DEF EndPass
    <2> QED
        BY <2>2, <2>3
<1>4. TypeOK'
    BY <1>1, <1>2, <1>3 DEF TypeOK, Stopped
<1>5. WalkOK'
    BY <1>1, <1>2, <1>3 DEF WalkOK, Stopped
<1> QED
    BY <1>3, <1>4, <1>5 DEF TypeInv

LEMMA TypesStep == TypeInv /\ [Next]_vars => TypeInv'
<1> SUFFICES ASSUME TypeInv, [Next]_vars
             PROVE  TypeInv'
    OBVIOUS
<1>1. CASE UNCHANGED vars
    <2>1. TypeOK' /\ WalkOK'
        <3>1. /\ UNCHANGED <<cfg, pc, frames, visited, post, number, rpo, dominator>>
              /\ UNCHANGED <<processed, changed, i, k, new_idom, finger1, finger2>>
            BY <1>1 DEF vars, dfsVars, listVars, passVars, meetVars
        <3>2. TypeOK'
            BY <3>1 DEF TypeInv, TypeOK
        <3>3. WalkOK'
            BY <3>1 DEF TypeInv, WalkOK, Size, B
        <3> QED
            BY <3>2, <3>3
    <2>2. SearchInv => SearchInv'
        <3>1. UNCHANGED <<cfg, frames, visited, post, number>>
            BY <1>1 DEF vars, dfsVars, listVars
        <3>2. OnStack' = OnStack /\ Listed' = Listed
            BY <3>1 DEF OnStack, Listed
        <3>3. (FramesOK => FramesOK') /\ (VisitedOK => VisitedOK')
            BY <3>1, <3>2 DEF FramesOK, VisitedOK
        <3>4. (ListedOK => ListedOK') /\ (StackPath => StackPath')
            BY <3>1, <3>2 DEF ListedOK, StackPath
        <3>5. (DomOrder => DomOrder') /\ (ParentOrder => ParentOrder')
            BY <3>1, <3>2 DEF DomOrder, ParentOrder
        <3> QED
            BY <3>3, <3>4, <3>5 DEF SearchInv
    <2> QED
        BY <1>1, <2>1, <2>2 DEF TypeInv, vars, passVars
<1> QED
    BY <1>1, VisitKeeps, SkipKeeps, ReturnKeeps, InvertKeeps, StartNodeTypes, SkipPredTypes,
       MeetPredTypes, ClimbTypes, MeetTypes, SetDominatorTypes, EndPassTypes DEF Next

\* At the end of a pass every node is behind the cursor.
LEMMA AllBehind ==
    ASSUME TypeOK, i = Size
    PROVE  \A x \in Nodes(cfg) : Behind(x)
<1>1. Size \in Nat
    BY DEF TypeOK, IsCfg, Size
<1>2. ASSUME NEW x \in Nodes(cfg) PROVE number[x] > Size - 1 - i
    <2>1. number[x] \in Nat
        BY DEF TypeOK, Nodes
    <2> QED
        BY <1>1, <2>1
<1> QED
    BY <1>2 DEF Behind

-----------------------------------------------------------------------------
(***************************************************************************)
(* The passes over a graph without unreachable nodes.  First, what the     *)
(* lemmas on chains and on paths need to know.                             *)
(***************************************************************************)
LEMMA Grounds ==
    ASSUME TypeInv, Core
    PROVE  /\ IsCfg(cfg) /\ Header \in Nodes(cfg) /\ processed \in SUBSET Nodes(cfg)
           /\ IsDom(Nodes(cfg), dominator) /\ Rising(Nodes(cfg), dominator, number)
           /\ number \in [Nodes(cfg) -> Int] /\ Size \in Nat \ {0}
           /\ \A x, y \in Nodes(cfg) : number[x] = number[y] => x = y
           /\ \A x : Chain(x) = Up(Nodes(cfg), dominator, x)
           /\ \A x \in Nodes(cfg) : x \in processed <=> dominator[x] \in Nodes(cfg)
           /\ \A x \in processed : Chain(x) \subseteq processed
           /\ \A x \in processed : dominator[x] \in Chain(x) /\ Chain(dominator[x]) \subseteq Chain(x)
           /\ \A x \in processed : Chain(x) = {x} \cup Chain(dominator[x])
           /\ \A x \in Nodes(cfg) : x \in Chain(x)
           /\ \A x \in Nodes(cfg) : \A y \in Chain(x) : number[y] >= number[x]
<1> DEFINE N == Nodes(cfg)
<1>1. /\ TypeOK /\ IsCfg(cfg) /\ Header \in N /\ Size \in Nat \ {0}
      /\ processed \in SUBSET N /\ NULL \notin N /\ WILD \notin N
    <2>1. TypeOK /\ IsCfg(cfg) /\ processed \in SUBSET N
        BY DEF TypeInv, TypeOK
    <2>2. Header \in N /\ Size \in Nat \ {0}
        BY <2>1, HeaderIsNode DEF IsCfg, Size
    <2>3. NULL \notin N /\ WILD \notin N
        BY MarksAssumption DEF Nodes
    <2> QED
        BY <2>1, <2>2, <2>3
<1>2. number \in [N -> Int]
    BY <1>1 DEF TypeOK, Nodes
<1>3. IsDom(N, dominator)
    BY <1>1 DEF TypeOK, IsDom
<1>4. \A x \in N : x \in processed <=> dominator[x] \in N
    BY <1>1 DEF Core, ProcessedOK
<1>5. Rising(N, dominator, number)
    BY <1>1, <1>2, <1>4 DEF Core, LinksClimb, ProcessedOK, Rising
<1>6. \A x : Chain(x) = Up(N, dominator, x)
    BY DEF Chain, Up, Closed
<1>7. ASSUME NEW x \in N, NEW y \in N, number[x] = number[y]
      PROVE  x = y
    BY <1>7 DEF Core, Ordered
<1>8. ASSUME NEW x \in processed
      PROVE  Chain(x) \subseteq processed
    <2>1. Closed(dominator, processed)
        BY <1>1 DEF Core, ProcessedOK, Closed
    <2> QED
        BY <1>1, <1>6, <2>1, UpLeast
<1>9. ASSUME NEW x \in N
      PROVE  /\ x \in Chain(x)
             /\ dominator[x] \in N => dominator[x] \in Chain(x)
             /\ \A y \in Chain(x) : number[y] >= number[x]
    <2>1. \A y \in Up(N, dominator, x) : y \in N /\ (y # x => number[y] > number[x])
        BY <1>3, <1>5, UpRises DEF Up
    <2>2. x \in Up(N, dominator, x)
        BY <1>3, UpClosed
    <2>3. dominator[x] \in N => dominator[x] \in Up(N, dominator, x)
        BY <1>3, <2>2, UpClosed DEF Closed, IsDom
    <2>4. \A y \in Up(N, dominator, x) : number[y] >= number[x]
        BY <2>1, <1>2
    <2> QED
        BY <1>6, <2>2, <2>3, <2>4
<1>10. ASSUME NEW x \in processed
       PROVE  Chain(x) = {x} \cup Chain(dominator[x])
    BY <1>1, <1>3, <1>4, <1>6, UpUnfold
<1>11. \A x \in processed : dominator[x] \in N /\ x \in N
    BY <1>1, <1>4
<1>12. \A x \in processed : dominator[x] \in Chain(x) /\ Chain(dominator[x]) \subseteq Chain(x)
    BY <1>9, <1>10, <1>11
<1>13. \A x, y \in N : number[x] = number[y] => x = y
    BY <1>7
<1>14. \A x \in N : x \in Chain(x) /\ \A y \in Chain(x) : number[y] >= number[x]
    BY <1>9
<1>15. \A x \in processed : Chain(x) \subseteq processed /\ Chain(x) = {x} \cup Chain(dominator[x])
    BY <1>8, <1>10
<1> QED
    BY <1>1, <1>2, <1>3, <1>4, <1>5, <1>6, <1>12, <1>13, <1>14, <1>15

\* The node the pass is at.
LEMMA AtPass ==
    ASSUME TypeInv, Core, i < Size
    PROVE  /\ B \in Nodes(cfg) \ {Header} /\ number[B] = Size - 1 - i
           /\ \A x \in Nodes(cfg) : Behind(x) <=> number[x] > number[B]
           /\ \E p \in Pred(cfg, B) \cap processed : number[p] > number[B]
<1>1. /\ IsCfg(cfg) /\ Ordered /\ ProcessedOK /\ Header \in Nodes(cfg)
      /\ number \in [Nodes(cfg) -> Int]
    BY Grounds DEF Core
<1>2. i \in Nodes(cfg)
    BY <1>1 DEF ProcessedOK, Nodes, Size, IsCfg
<1>3. B \in Nodes(cfg) /\ number[B] = Size - 1 - i
    BY <1>1, <1>2 DEF Ordered, B
<1>4. \A x \in Nodes(cfg) : Behind(x) <=> number[x] > number[B]
    BY <1>3 DEF Behind
<1>5. B # Header
    BY <1>1, <1>3, <1>4 DEF ProcessedOK
<1>6. PICK p \in Pred(cfg, B) : number[p] > number[B]
    BY <1>1, <1>3, <1>5 DEF Ordered
<1>7. p \in Nodes(cfg)
    BY <1>1, <1>3, SuccNodes
<1>8. p \in processed
    BY <1>1, <1>4, <1>6, <1>7 DEF ProcessedOK
<1> QED
    BY <1>3, <1>4, <1>5, <1>6, <1>8

\* Steps that only look for the meeting point.
LEMMA Carried ==
    Core /\ UNCHANGED <<cfg, number, rpo, dominator, processed, changed, i>> => Core'
BY DEF Core, Ordered, ProcessedOK, LinksClimb, HoldDominators, Shared, Forward, Settled,
       Behind, Chain, OnAll, Size

LEMMA StartNodeKeeps == TypeInv /\ PassInv /\ StartNode => PassInv'
<1> SUFFICES ASSUME TypeInv, PassInv, StartNode
             PROVE  PassInv'
    OBVIOUS
<1>1. /\ UNCHANGED <<cfg, number, rpo, dominator, processed, changed, i>>
      /\ Core /\ i < Size
    BY DEF StartNode, PassInv, listVars, passVars
<1>2. /\ B \in Nodes(cfg) \ {Header} /\ IsCfg(cfg) /\ B # WILD /\ B' = B
      /\ \E p \in Pred(cfg, B) : p \in processed
      /\ cfg.preds[B] \in Seq(Nodes(cfg))
    <2>1. /\ B \in Nodes(cfg) \ {Header} /\ IsCfg(cfg)
          /\ \E p \in Pred(cfg, B) : p \in processed
        BY <1>1, AtPass, Grounds
    <2>2. cfg.preds[B] \in Seq(Nodes(cfg))
        BY <2>1 DEF IsCfg
    <2>3. B' = B
        BY <1>1 DEF B
    <2>4. B # WILD
        BY <2>1, MarksAssumption DEF Nodes
    <2> QED
        BY <2>1, <2>2, <2>3, <2>4
<1>3. new_idom' = FirstProcessed(B) /\ k' = 1 /\ pc' = "preds"
    BY <1>2 DEF StartNode
<1>4. PICK j \in 1 .. Len(cfg.preds[B]) :
         FirstProcessed(B) = cfg.preds[B][j] /\ cfg.preds[B][j] \in processed
    <2>1. \E n \in 1 .. Len(cfg.preds[B]) : cfg.preds[B][n] \in processed
        BY <1>2 DEF Pred, Cells
    <2> QED
        BY <1>2, <2>1, FirstProcessedIs
<1>5. new_idom' \in Pred(cfg, B) \cap processed
    BY <1>3, <1>4 DEF Pred, Cells
<1>6. Meeting'
    <2>1. \A n \in 1 .. Len(cfg.preds[B]) : ~ (n < 1)
        BY <1>2, LenProperties
    <2>2. \A y \in Nodes(cfg) : OnAll(B, y)' => y \in Chain(new_idom)'
        BY <1>1, <1>2, <1>5 DEF OnAll
    <2> QED
        BY <1>1, <1>2, <1>3, <1>5, <2>1, <2>2 DEF Meeting
<1> QED
    BY <1>1, <1>3, <1>6, Carried DEF PassInv

LEMMA SkipPredKeeps == TypeInv /\ PassInv /\ SkipPred => PassInv'
<1> SUFFICES ASSUME TypeInv, PassInv, SkipPred
             PROVE  PassInv'
    OBVIOUS
<1>1. /\ UNCHANGED <<cfg, number, rpo, dominator, processed, changed, i, new_idom, pc>>
      /\ Core /\ pc = "preds" /\ Meeting /\ k' = k + 1 /\ B' = B
      /\ dominator[P] = NULL /\ k <= Len(cfg.preds[B])
    BY DEF SkipPred, PassInv, listVars, passVars, B
<1>2. /\ P \in Nodes(cfg) /\ Len(cfg.preds[B]) \in Nat /\ k \in Nat
    BY <1>1, AtNode
<1>3. P \notin processed
    BY <1>1, <1>2 DEF Core, ProcessedOK
<1>4. \A j \in 1 .. Len(cfg.preds[B]) : j < k + 1 => j < k \/ cfg.preds[B][j] = P
    BY <1>2 DEF P
<1>5. Meeting'
    <2>1. \A y : OnAll(B, y)' <=> OnAll(B, y)
        BY <1>1 DEF OnAll, Chain
    <2>2. \A x : Chain(x)' = Chain(x)
        BY <1>1 DEF Chain
    <2> QED
        BY <1>1, <1>3, <1>4, <2>1, <2>2 DEF Meeting
<1> QED
    BY <1>1, <1>5, Carried DEF PassInv

LEMMA MeetPredKeeps == TypeInv /\ PassInv /\ MeetPred => PassInv'
<1> SUFFICES ASSUME TypeInv, PassInv, MeetPred
             PROVE  PassInv'
    OBVIOUS
<1>1. /\ UNCHANGED <<cfg, number, rpo, dominator, processed, changed, i, new_idom, k>>
      /\ Core /\ pc = "preds" /\ Meeting /\ B' = B /\ P' = P
      /\ dominator[P] # NULL /\ k <= Len(cfg.preds[B])
      /\ finger1' = P /\ finger2' = new_idom
      /\ pc' = IF new_idom = WILD THEN "wild" ELSE "intersect"
    BY DEF MeetPred, PassInv, listVars, passVars, B, P
<1>2. /\ P \in Nodes(cfg) /\ P \in Pred(cfg, B) /\ processed \in SUBSET Nodes(cfg)
      /\ \A x \in Nodes(cfg) : x \in Chain(x)
    BY <1>1, AtNode, Grounds
<1>3. P \in processed /\ new_idom \in processed
    BY <1>1, <1>2 DEF Core, ProcessedOK, Meeting
<1>4. pc' = "intersect"
    BY <1>1, <1>2, <1>3, MarksAssumption DEF Nodes
<1>5. /\ \A x : Chain(x)' = Chain(x)
      /\ \A y : OnAll(B, y)' <=> OnAll(B, y)
    BY <1>1 DEF OnAll, Chain
<1>6. Meeting'
    BY <1>1, <1>5 DEF Meeting
<1>7. Fingers'
    <2>1. \A y \in Nodes(cfg) : OnAll(B, y) => y \in Chain(P) /\ y \in Chain(new_idom)
        BY <1>1, <1>2, <1>3 DEF OnAll, Meeting
    <2> QED
        BY <1>1, <1>2, <1>3, <1>5, <2>1 DEF Fingers
<1> QED
    BY <1>1, <1>4, <1>6, <1>7, Carried DEF PassInv

\* The finger further from the header is not yet the meeting point.
LEMMA ClimbsOn ==
    ASSUME TypeInv, Core, NEW f \in processed, NEW g \in Nodes(cfg), number[f] < number[g],
           NEW y \in Nodes(cfg), y \in Chain(f), y \in Chain(g)
    PROVE  y \in Chain(dominator[f])
<1>1. /\ number[y] >= number[g] /\ number \in [Nodes(cfg) -> Int] /\ f \in Nodes(cfg)
      /\ Chain(f) = {f} \cup Chain(dominator[f])
    BY Grounds
<1>2. y # f
    BY <1>1
<1> QED
    BY <1>1, <1>2

LEMMA ClimbKeeps == TypeInv /\ PassInv /\ Climb => PassInv'
<1> SUFFICES ASSUME TypeInv, PassInv, Climb
             PROVE  PassInv'
    OBVIOUS
<1>1. /\ UNCHANGED <<cfg, number, rpo, dominator, processed, changed, i, new_idom, k>>
      /\ Core /\ pc = "intersect" /\ Meeting /\ Fingers /\ B' = B /\ P' = P
      /\ number[finger1] # number[finger2]
      /\ pc' = IF NULL \in {finger1', finger2'} THEN "crash" ELSE pc
    BY DEF Climb, PassInv, listVars, passVars, B, P
<1>2. /\ processed \in SUBSET Nodes(cfg) /\ P \in processed /\ new_idom \in processed
      /\ \A x \in processed : Chain(x) \subseteq processed
      /\ \A x \in processed : dominator[x] \in Chain(x) /\ Chain(dominator[x]) \subseteq Chain(x)
      /\ number \in [Nodes(cfg) -> Int] /\ IsDom(Nodes(cfg), dominator)
      /\ \A x : Chain(x) = Up(Nodes(cfg), dominator, x)
    BY <1>1, Grounds DEF Meeting, Fingers
<1>3. /\ finger1 \in processed /\ finger2 \in processed
      /\ finger1 \in Nodes(cfg) /\ finger2 \in Nodes(cfg)
    BY <1>1, <1>2 DEF Fingers
<1>4. \A x \in processed : \A y \in Chain(x) : Chain(y) \subseteq Chain(x)
    BY <1>2, UpTransitive
<1>5. \A y \in Nodes(cfg) : OnAll(B, y) => y \in Chain(finger1) /\ y \in Chain(finger2)
    BY <1>1 DEF Fingers
<1>6. /\ finger1' \in Chain(P) /\ finger2' \in Chain(new_idom)
      /\ \A y \in Nodes(cfg) : OnAll(B, y) => y \in Chain(finger1') /\ y \in Chain(finger2')
    <2>1. CASE number[finger1] < number[finger2]
        <3>1. finger1' = dominator[finger1] /\ finger2' = finger2
            BY <2>1 DEF Climb, Below
        <3>2. dominator[finger1] \in Chain(P)
            BY <1>1, <1>2, <1>3, <1>4 DEF Fingers
        <3>3. \A y \in Nodes(cfg) : OnAll(B, y) => y \in Chain(dominator[finger1])
            BY <1>1, <1>3, <1>5, <2>1, ClimbsOn
        <3> QED
            BY <1>1, <1>5, <3>1, <3>2, <3>3 DEF Fingers
    <2>2. CASE ~ (number[finger1] < number[finger2])
        <3>1. finger1' = finger1 /\ finger2' = dominator[finger2]
            BY <2>2 DEF Climb, Below
        <3>2. dominator[finger2] \in Chain(new_idom)
            BY <1>1, <1>2, <1>3, <1>4 DEF Fingers
        <3>3. number[finger2] < number[finger1]
            BY <1>1, <1>2, <1>3, <2>2
        <3>4. \A y \in Nodes(cfg) : OnAll(B, y) => y \in Chain(dominator[finger2])
            BY <1>1, <1>3, <1>5, <3>3, ClimbsOn
        <3> QED
            BY <1>1, <1>5, <3>1, <3>2, <3>4 DEF Fingers
    <2> QED
        BY <2>1, <2>2
<1>7. pc' = "intersect"
    <2>1. finger1' \in Nodes(cfg) /\ finger2' \in Nodes(cfg)
        BY <1>2, <1>6
    <2> QED
        BY <1>1, <2>1, MarksAssumption DEF Nodes
<1>8. /\ \A x : Chain(x)' = Chain(x)
      /\ \A y : OnAll(B, y)' <=> OnAll(B, y)
    BY <1>1 DEF OnAll, Chain
<1>9. Meeting'
    BY <1>1, <1>8 DEF Meeting
<1>10. Fingers'
    <2>1. \A y \in Nodes(cfg) : OnAll(B, y)' => y \in Chain(finger1)' /\ y \in Chain(finger2)'
        BY <1>1, <1>6 DEF OnAll, Chain
    <2>2. finger1' \in Chain(P)' /\ finger2' \in Chain(new_idom)'
        BY <1>1, <1>6 DEF Chain
    <2> QED
        BY <1>1, <1>2, <2>1, <2>2 DEF Fingers
<1> QED
    BY <1>1, <1>7, <1>9, <1>10, Carried DEF PassInv

LEMMA MeetKeeps == TypeInv /\ PassInv /\ Meet => PassInv'
<1> SUFFICES ASSUME TypeInv, PassInv, Meet
             PROVE  PassInv'
    OBVIOUS
<1>1. /\ UNCHANGED <<cfg, number, rpo, dominator, processed, changed, i>>
      /\ Core /\ pc = "intersect" /\ Meeting /\ Fingers /\ B' = B
      /\ number[finger1] = number[finger2]
      /\ new_idom' = finger1 /\ k' = k + 1 /\ pc' = "preds"
    BY DEF Meet, PassInv, listVars, passVars, B
<1>2. /\ processed \in SUBSET Nodes(cfg) /\ P \in processed /\ new_idom \in processed
      /\ \A x \in processed : Chain(x) \subseteq processed
      /\ \A x, y \in Nodes(cfg) : number[x] = number[y] => x = y
      /\ \A x : Chain(x) = Up(Nodes(cfg), dominator, x)
      /\ IsDom(Nodes(cfg), dominator)
    BY <1>1, Grounds DEF Meeting, Fingers
<1>3. finger1 \in processed /\ finger2 \in processed /\ finger1 = finger2
    BY <1>1, <1>2 DEF Fingers
<1>4. \A x \in processed : \A y \in Chain(x) : Chain(y) \subseteq Chain(x)
    BY <1>2, UpTransitive
<1>5. k \in Nat /\ Len(cfg.preds[B]) \in Nat
    BY <1>1, AtNode
<1>6. \A j \in 1 .. Len(cfg.preds[B]) : j < k + 1 => j < k \/ cfg.preds[B][j] = P
    BY <1>5 DEF P
<1>7. ASSUME NEW j \in 1 .. Len(cfg.preds[B]), j < k + 1, cfg.preds[B][j] \in processed
      PROVE  finger1 \in Chain(cfg.preds[B][j])
    <2>1. CASE j < k
        <3>1. new_idom \in Chain(cfg.preds[B][j])
            BY <1>1, <1>7, <2>1 DEF Meeting
        <3>2. finger1 \in Chain(new_idom)
            BY <1>1, <1>3 DEF Fingers
        <3> QED
            BY <1>4, <1>7, <3>1, <3>2
    <2>2. CASE cfg.preds[B][j] = P
        BY <1>1, <2>2 DEF Fingers
    <2> QED
        BY <1>6, <1>7, <2>1, <2>2
<1>8. Meeting'
    <2>1. \A x : Chain(x)' = Chain(x)
        BY <1>1 DEF Chain
    <2>2. \A y \in Nodes(cfg) : OnAll(B, y)' => y \in Chain(finger1)
        BY <1>1 DEF OnAll, Chain, Fingers
    <2> QED
        BY <1>1, <1>3, <1>7, <2>1, <2>2 DEF Meeting
<1> QED
    BY <1>1, <1>8, Carried DEF PassInv

LEMMA EndPassKeeps == TypeInv /\ PassInv /\ EndPass => PassInv'
<1> SUFFICES ASSUME TypeInv, PassInv, EndPass
             PROVE  PassInv'
    OBVIOUS
<1>1. /\ UNCHANGED <<cfg, number, rpo, dominator, processed>>
      /\ Core /\ pc = "pass" /\ i >= Size
    BY DEF EndPass, PassInv, listVars
<1>2. /\ i = Size /\ Size \in Nat \ {0} /\ number \in [Nodes(cfg) -> Nat]
      /\ IsCfg(cfg) /\ Header \in Nodes(cfg) /\ processed \in SUBSET Nodes(cfg)
    <2>1. number \in [Nodes(cfg) -> Nat]
        BY DEF TypeInv, TypeOK, Nodes
    <2> QED
        BY <1>1, <2>1, Grounds DEF Core, ProcessedOK
<1>3. CASE ~ changed
    <2>1. pc' = "done" /\ changed' = changed /\ i' = i
        BY <1>3 DEF EndPass, AnotherPass
    <2> QED
        BY <1>1, <1>2, <1>3, <2>1, Carried DEF PassInv, Size
<1>4. CASE changed
    <2>1. pc' = "pass" /\ changed' = FALSE /\ i' = 1
        BY <1>1, <1>4 DEF EndPass, AnotherPass
    <2>2. /\ \A x \in Nodes(cfg) : Behind(x)
          /\ \A x \in Nodes(cfg) : Behind(x)' <=> number[x] > Size - 2
        BY <1>1, <1>2, <2>1 DEF Behind, Size
    <2>3. /\ number[Header] = Size - 1
          /\ \A x \in Nodes(cfg) : number[x] > Size - 2 => x = Header
        <3>1. number[Header] = Size - 1 - 0 /\ \A x \in Nodes(cfg) : number[x] \in 0 .. Size - 1
            BY <1>1, <1>2 DEF Core, Ordered, Header, TypeInv, TypeOK, Nodes, Size
        <3>2. \A x \in Nodes(cfg) : number[x] = number[Header] => x = Header
            BY <1>1, <1>2, Grounds
        <3> QED
            BY <1>2, <3>1, <3>2
    <2>4. Ordered' /\ LinksClimb' /\ HoldDominators' /\ Shared'
        BY <1>1 DEF Core, Ordered, LinksClimb, HoldDominators, Shared, Size, Chain, OnAll
    <2>5. ProcessedOK'
        <3>1. Behind(Header)' /\ i' \in 1 .. Size
            BY <1>2, <2>1, <2>2, <2>3
        <3>2. \A x \in Nodes(cfg) : x \in processed
            BY <1>1, <2>2 DEF Core, ProcessedOK
        <3>3. /\ \A x \in Nodes(cfg) : x \in processed <=> dominator[x] # NULL
              /\ \A x \in processed : dominator[x] \in processed
              /\ dominator[Header] = Header
            BY <1>1 DEF Core, ProcessedOK
        <3>4. Size' = Size
            BY <1>1 DEF Size
        <3> QED
            BY <1>1, <3>1, <3>2, <3>3, <3>4 DEF ProcessedOK
    <2>6. Forward'
        BY <1>1, <1>2, <2>2 DEF Core, Forward, Chain
    <2>7. Settled'
        BY <1>1, <2>2, <2>3 DEF Settled
    <2> QED
        BY <2>1, <2>4, <2>5, <2>6, <2>7 DEF PassInv, Core
<1> QED
    BY <1>3, <1>4

-----------------------------------------------------------------------------
(***************************************************************************)
(* The assignment of a dominator.  New(x) is the chain of x after it.      *)
(***************************************************************************)
NewDominator == [dominator EXCEPT ![B] = new_idom]
New(x) == Up(Nodes(cfg), NewDominator, x)

AtSet == TypeInv /\ PassInv /\ pc = "preds" /\ k > Len(cfg.preds[B])

\* Where the new pointer leads.
LEMMA SetTarget ==
    ASSUME AtSet
    PROVE  /\ Core /\ Meeting /\ i < Size /\ new_idom \in processed
           /\ B \in Nodes(cfg) \ {Header}
           /\ \A p \in Pred(cfg, B) \cap processed : new_idom \in Chain(p)
           /\ \A p \in Nodes(cfg) : number[p] > number[B] => p \in processed
           /\ number[new_idom] > number[B] /\ B \notin Chain(new_idom)
           /\ B \in processed => new_idom \in Chain(dominator[B])
           /\ Reaches(cfg, number, new_idom, B)
<1>1. /\ Core /\ Meeting /\ i < Size /\ TypeInv /\ WalkOK /\ new_idom \in processed
      /\ Len(cfg.preds[B]) \in Nat /\ k \in Nat /\ k > Len(cfg.preds[B])
    BY AtNode DEF AtSet, PassInv, TypeInv, WalkOK, Meeting
<1>2. /\ B \in Nodes(cfg) \ {Header} /\ number[B] = Size - 1 - i
      /\ \A x \in Nodes(cfg) : Behind(x) <=> number[x] > number[B]
    BY <1>1, AtPass
<1>3. PICK p \in Pred(cfg, B) \cap processed : number[p] > number[B]
    BY <1>1, AtPass
<1>4. \A q \in Pred(cfg, B) \cap processed : new_idom \in Chain(q)
    BY <1>1 DEF Pred, Cells, Meeting
<1>5. /\ number \in [Nodes(cfg) -> Int] /\ processed \in SUBSET Nodes(cfg) /\ IsCfg(cfg)
      /\ \A x \in Nodes(cfg) : \A y \in Chain(x) : number[y] >= number[x]
      /\ \A x : Chain(x) = Up(Nodes(cfg), dominator, x)
      /\ IsDom(Nodes(cfg), dominator) /\ Rising(Nodes(cfg), dominator, number)
      /\ \A x \in Nodes(cfg) : dominator[x] \in Nodes(cfg) => x \in processed
    BY <1>1, Grounds
<1>6. number[new_idom] > number[B]
    <2>1. number[new_idom] >= number[p]
        BY <1>3, <1>4, <1>5
    <2> QED
        BY <1>1, <1>2, <1>3, <1>5, <2>1
<1>7. B \notin Chain(new_idom)
    BY <1>1, <1>2, <1>5, <1>6
<1>8. B \in processed => new_idom \in Chain(dominator[B])
    BY <1>1, <1>2, <1>4, <1>5 DEF Core, Shared, OnAll
<1>9. Reaches(cfg, number, new_idom, B)
    <2>1. \A z \in Nodes(cfg) : dominator[z] \in Nodes(cfg) => Reaches(cfg, number, dominator[z], z)
        BY <1>1, <1>5 DEF Core, LinksClimb
    <2>2. new_idom \in Up(Nodes(cfg), dominator, p) /\ p \in Nodes(cfg)
        BY <1>3, <1>4, <1>5
    <2>3. Reaches(cfg, number, new_idom, p)
        BY <1>5, <2>1, <2>2, ReachesAlong
    <2>4. B \in Succ(cfg, p)
        BY <1>2, <1>3, <1>5, <2>2, PredSucc
    <2> QED
        BY <1>1, <1>2, <1>5, <1>6, <2>2, <2>3, <2>4, ReachesStep
<1>10. \A q \in Nodes(cfg) : number[q] > number[B] => q \in processed
    BY <1>1, <1>2 DEF Core, ProcessedOK
<1> QED
    BY <1>1, <1>2, <1>4, <1>6, <1>7, <1>8, <1>9, <1>10

\* What becomes of the chains.
LEMMA SetChains ==
    ASSUME AtSet
    PROVE  /\ IsDom(Nodes(cfg), NewDominator) /\ Rising(Nodes(cfg), NewDominator, number)
           /\ NewDominator[B] = new_idom
           /\ \A x \in Nodes(cfg) : x # B => NewDominator[x] = dominator[x]
           /\ \A x \in Nodes(cfg) : B \notin Chain(x) => New(x) = Chain(x)
           /\ \A x \in Nodes(cfg) : \A y \in Chain(x) : y = B \/ y \notin Chain(B) => y \in New(x)
           /\ New(B) = {B} \cup Chain(new_idom) /\ New(new_idom) = Chain(new_idom)
           /\ \A x \in processed : New(x) \subseteq Chain(x)
           /\ \A x \in Nodes(cfg) : \A y \in New(x) : New(y) \subseteq New(x)
<1> DEFINE N == Nodes(cfg)
<1>1. /\ Core /\ TypeInv /\ new_idom \in processed /\ B \in N \ {Header}
      /\ number[new_idom] > number[B] /\ B \notin Chain(new_idom)
      /\ B \in processed => new_idom \in Chain(dominator[B])
    BY SetTarget DEF AtSet
<1>2. /\ number \in [N -> Int] /\ processed \in SUBSET N
      /\ IsDom(N, dominator) /\ Rising(N, dominator, number)
      /\ \A x : Chain(x) = Up(N, dominator, x)
      /\ \A x \in processed : Chain(x) \subseteq processed
      /\ \A x \in processed : Chain(dominator[x]) \subseteq Chain(x)
    BY <1>1, Grounds
<1>3. new_idom \in N /\ B \in N
    BY <1>1, <1>2
<1>4. /\ IsDom(N, NewDominator) /\ NewDominator[B] = new_idom
      /\ \A x \in N : x # B => NewDominator[x] = dominator[x]
    BY <1>2, <1>3, SetIsDom DEF NewDominator
<1>5. Rising(N, NewDominator, number)
    BY <1>1, <1>2, <1>4 DEF Rising
<1>6. \A x \in N : B \notin Chain(x) => New(x) = Chain(x)
    BY <1>2, <1>3, SetAway DEF New, NewDominator
<1>7. \A x \in N : \A y \in Chain(x) : y = B \/ y \notin Chain(B) => y \in New(x)
    BY <1>2, <1>3, SetBelow DEF New, NewDominator
<1>8. New(B) = {B} \cup Chain(new_idom) /\ New(new_idom) = Chain(new_idom)
    <2>1. B \notin Up(N, dominator, new_idom)
        BY <1>1, <1>2
    <2>2. New(B) = {B} \cup Up(N, dominator, new_idom)
        BY <1>2, <1>3, <2>1, SetHere DEF New, NewDominator
    <2> QED
        BY <1>1, <1>2, <1>3, <1>6, <2>2
<1>9. ASSUME NEW x \in processed
      PROVE  New(x) \subseteq Chain(x)
    <2>1. CASE B \in processed
        <3>1. new_idom \in Up(N, dominator, B)
            BY <1>1, <1>2, <2>1
        <3> QED
            BY <1>2, <1>3, <3>1, SetShrinks DEF New, NewDominator
    <2>2. CASE B \notin processed
        BY <1>2, <1>6, <2>2
    <2> QED
        BY <2>1, <2>2
<1>10. \A x \in N : \A y \in New(x) : New(y) \subseteq New(x)
    BY <1>4, UpTransitive DEF New
<1> QED
    BY <1>4, <1>5, <1>6, <1>7, <1>8, <1>9, <1>10

\* The chains still hold the dominators.
LEMMA SetHolds ==
    ASSUME AtSet, NEW x \in processed \cup {B}, NEW d \in Nodes(cfg), Dominates(cfg, d, x)
    PROVE  d \in New(x)
<1> DEFINE N == Nodes(cfg)
<1>1. /\ Core /\ TypeInv /\ Meeting /\ B \in N \ {Header}
    BY SetTarget DEF AtSet
<1>2. /\ number \in [N -> Int] /\ processed \in SUBSET N /\ IsCfg(cfg)
      /\ IsDom(N, dominator) /\ Rising(N, dominator, number)
      /\ \A y : Chain(y) = Up(N, dominator, y)
      /\ \A y \in N : dominator[y] \in N => y \in processed
    BY <1>1, Grounds
<1>3. /\ \A y \in N : B \notin Chain(y) => New(y) = Chain(y)
      /\ \A y \in N : \A z \in Chain(y) : z = B \/ z \notin Chain(B) => z \in New(y)
      /\ New(B) = {B} \cup Chain(new_idom)
      /\ \A y \in N : \A z \in New(y) : New(z) \subseteq New(y)
    BY SetChains
<1>4. ASSUME Dominates(cfg, d, B), d # B
      PROVE  d \in Chain(new_idom)
    <2>1. \A p \in Pred(cfg, B) : Dominates(cfg, d, p)
        BY <1>1, <1>2, <1>4, DomPred DEF StrictlyDominates
    <2>2. \A p \in Pred(cfg, B) \cap processed : d \in Chain(p)
        BY <1>1, <2>1 DEF Core, HoldDominators, Dominators
    <2> QED
        BY <1>1, <2>2 DEF Meeting, OnAll
<1>5. CASE x = B
    BY <1>3, <1>4, <1>5
<1>6. CASE x \in processed /\ x # B
    <2>1. x \in N /\ d \in Chain(x)
        BY <1>1, <1>2, <1>6 DEF Core, HoldDominators, Dominators
    <2>2. CASE B \notin Chain(x)
        BY <1>3, <2>1, <2>2
    <2>3. CASE B \in Chain(x) /\ (d = B \/ d \notin Chain(B))
        BY <1>3, <2>1, <2>3
    <2>4. CASE B \in Chain(x) /\ d # B /\ d \in Chain(B)
        <3>1. number[d] > number[B]
            BY <1>1, <1>2, <2>4, UpRises
        <3>2. \A z \in N : dominator[z] \in N => Reaches(cfg, number, dominator[z], z)
            BY <1>1, <1>2 DEF Core, LinksClimb
        <3>3. Reaches(cfg, number, B, x)
            BY <1>2, <2>1, <2>4, <3>2, ReachesAlong
        <3>4. Dominates(cfg, d, B)
            BY <1>1, <1>2, <2>1, <3>1, <3>3, ReachesDominated
        <3>5. d \in New(B) /\ B \in New(x)
            BY <1>3, <1>4, <2>1, <2>4, <3>4
        <3> QED
            BY <1>3, <2>1, <3>5
    <2> QED
        BY <2>2, <2>3, <2>4
<1> QED
    BY <1>5, <1>6

\* A pointer is still at or below what the predecessors' chains share.
LEMMA SetShares ==
    ASSUME AtSet, NEW x \in (processed \cup {B}) \ {Header}, NEW y \in Nodes(cfg),
           \A p \in Pred(cfg, x) \cap (processed \cup {B}) : y \in New(p)
    PROVE  y \in New(NewDominator[x])
<1> DEFINE N == Nodes(cfg)
<1>1. /\ Core /\ TypeInv /\ Meeting /\ B \in N \ {Header} /\ i < Size
    BY SetTarget DEF AtSet
<1>2. /\ number \in [N -> Int] /\ processed \in SUBSET N /\ IsCfg(cfg)
      /\ \A z \in N : \A w \in Chain(z) : number[w] >= number[z]
      /\ \A z, w \in N : number[z] = number[w] => z = w
      /\ \A z \in processed : dominator[z] \in Chain(z) /\ Chain(dominator[z]) \subseteq Chain(z)
      /\ \A z \in N : z \in processed <=> dominator[z] \in N
    BY <1>1, Grounds
<1>3. /\ \A z \in N : B \notin Chain(z) => New(z) = Chain(z)
      /\ \A z \in N : \A w \in Chain(z) : w = B \/ w \notin Chain(B) => w \in New(z)
      /\ New(B) = {B} \cup Chain(new_idom) /\ New(new_idom) = Chain(new_idom)
      /\ \A z \in processed : New(z) \subseteq Chain(z)
      /\ \A z \in N : \A w \in New(z) : New(w) \subseteq New(z)
      /\ NewDominator[B] = new_idom /\ \A z \in N : z # B => NewDominator[z] = dominator[z]
      /\ IsDom(N, NewDominator) /\ Rising(N, NewDominator, number)
    BY SetChains
<1>4. OnAll(x, y)
    BY <1>3 DEF OnAll
<1>5. CASE x = B
    BY <1>1, <1>3, <1>4, <1>5 DEF Meeting
<1>6. CASE x \in processed /\ x # B
    <2> DEFINE e == dominator[x]
    <2>1. /\ e \in N /\ x \in N /\ y \in Chain(e) /\ NewDominator[x] = e
          /\ Chain(e) \subseteq Chain(x) /\ number[e] > number[x]
        BY <1>1, <1>2, <1>3, <1>4, <1>6 DEF Core, Shared, LinksClimb
    <2> HIDE DEF e
    <2>2. CASE B \notin Chain(e) \/ y = B \/ y \notin Chain(B)
        BY <1>3, <2>1, <2>2
    <2>3. CASE B \in Chain(e) /\ y # B /\ y \in Chain(B)
        <3>1. PICK p \in Pred(cfg, x) : number[p] > number[x]
            BY <1>1, <1>6, <2>1 DEF Core, Ordered
        <3>2. p \in N
            BY <1>2, <2>1, <3>1, SuccNodes
        <3>3. p \in processed
            <4>1. number[p] >= number[x]
                BY <1>2, <2>1, <3>1, <3>2
            <4> QED
                BY <1>1, <1>6, <3>2, <4>1 DEF Core, ProcessedOK
        <3>4. B \in Chain(x) \ {x} /\ ~ Behind(B)
            <4>1. ~ (number[B] > number[B])
                BY <1>1, <1>2
            <4> QED
                BY <1>1, <1>6, <2>1, <2>3, <4>1, AtPass
        <3>5. B \in Chain(p)
            BY <1>1, <1>6, <3>1, <3>4 DEF Core, Forward
        <3>6. B \in New(p) /\ y \in New(p)
            BY <1>3, <3>1, <3>2, <3>3, <3>5
        <3>7. number[y] >= number[B]
            BY <1>1, <1>2, <2>3
        <3>8. y \in New(B)
            BY <1>1, <1>2, <1>3, <3>2, <3>6, <3>7, UpLinear DEF New
        <3>9. B \in New(e)
            BY <1>3, <2>1, <2>3
        <3> QED
            BY <1>3, <2>1, <3>8, <3>9
    <2> QED
        BY <2>2, <2>3, <2>1
<1> QED
    BY <1>5, <1>6

\* The chains of the nodes up to B agree with those of their predecessors.
LEMMA SetForward ==
    ASSUME AtSet, NEW x \in (processed \cup {B}) \ {Header}, NEW p \in Pred(cfg, x),
           NEW z \in New(x) \ {x}, number[p] > number[x],
           number[x] >= number[B] \/ number[z] < number[B]
    PROVE  z \in New(p)
<1> DEFINE N == Nodes(cfg)
<1>1. /\ Core /\ TypeInv /\ B \in N \ {Header} /\ i < Size /\ new_idom \in processed
      /\ \A q \in Pred(cfg, B) \cap processed : new_idom \in Chain(q)
      /\ \A q \in N : number[q] > number[B] => q \in processed
    BY SetTarget DEF AtSet
<1>2. /\ number \in [N -> Int] /\ processed \in SUBSET N /\ IsCfg(cfg)
      /\ \A w \in N : \A u \in Chain(w) : number[u] >= number[w]
      /\ \A w, u \in N : number[w] = number[u] => w = u
      /\ \A w : Chain(w) = Up(N, dominator, w)
      /\ IsDom(N, dominator)
    BY <1>1, Grounds
<1>3. /\ \A w \in N : B \notin Chain(w) => New(w) = Chain(w)
      /\ \A w \in N : \A u \in Chain(w) : u = B \/ u \notin Chain(B) => u \in New(w)
      /\ New(B) = {B} \cup Chain(new_idom)
      /\ \A w \in processed : New(w) \subseteq Chain(w)
    BY SetChains
<1>4. \A w \in N : Behind(w) <=> number[w] > number[B]
    BY <1>1, AtPass
<1>5. x \in N /\ p \in N
    BY <1>1, <1>2, SuccNodes
<1>6. z \in N
    BY DEF New, Up
<1>7. ASSUME number[p] > number[B]
      PROVE  p \in processed /\ New(p) = Chain(p)
    <2>1. B \notin Chain(p)
        BY <1>1, <1>2, <1>5, <1>7
    <2> QED
        BY <1>1, <1>3, <1>5, <1>7, <2>1
<1>8. CASE x = B
    <2>1. p \in processed /\ New(p) = Chain(p)
        BY <1>7, <1>8
    <2>2. new_idom \in Chain(p)
        BY <1>1, <1>8, <2>1
    <2>3. Chain(new_idom) \subseteq Chain(p)
        BY <1>2, <1>5, <2>2, UpTransitive
    <2> QED
        BY <1>3, <1>8, <2>1, <2>3
<1>9. CASE x # B /\ number[x] >= number[B]
    <2>1. number[x] > number[B] /\ number[p] > number[B]
        BY <1>1, <1>2, <1>5, <1>9
    <2>2. z \in Chain(x) \ {x} /\ Behind(x)
        BY <1>3, <1>4, <1>5, <1>9, <2>1
    <2>3. z \in Chain(p)
        BY <1>1, <1>9, <2>2 DEF Core, Forward
    <2> QED
        BY <1>7, <2>1, <2>3
<1>10. CASE x # B /\ number[z] < number[B]
    <2>1. z \in Chain(x) \ {x}
        BY <1>3, <1>10
    <2>2. ~ Behind(z) /\ z \notin Chain(B)
        <3>1. ~ (number[z] > number[B]) /\ ~ (number[z] >= number[B])
            BY <1>1, <1>2, <1>6, <1>10
        <3> QED
            BY <1>1, <1>2, <1>4, <1>6, <3>1
    <2>3. z \in Chain(p)
        BY <1>1, <1>10, <2>1, <2>2 DEF Core, Forward
    <2> QED
        BY <1>3, <1>5, <2>2, <2>3
<1> QED
    BY <1>8, <1>9, <1>10

LEMMA SetDominatorKeeps == TypeInv /\ PassInv /\ SetDominator => PassInv'
<1> SUFFICES ASSUME TypeInv, PassInv, SetDominator
             PROVE  PassInv'
    OBVIOUS
<1> DEFINE N == Nodes(cfg)
<1>0. AtSet
    BY DEF SetDominator, AtSet
<1>1. /\ Core /\ Meeting /\ i < Size /\ new_idom \in processed /\ B \in N \ {Header}
      /\ \A p \in Pred(cfg, B) \cap processed : new_idom \in Chain(p)
      /\ \A p \in N : number[p] > number[B] => p \in processed
      /\ number[new_idom] > number[B]
      /\ B \in processed => new_idom \in Chain(dominator[B])
      /\ Reaches(cfg, number, new_idom, B)
    BY <1>0, SetTarget
<1>2. /\ number \in [N -> Int] /\ processed \in SUBSET N /\ Size \in Nat \ {0}
      /\ NULL \notin N /\ WILD \notin N /\ Header \in N
      /\ IsDom(N, dominator)
      /\ \A x \in N : x \in processed <=> dominator[x] \in N
      /\ \A x, y \in N : number[x] = number[y] => x = y
      /\ \A x : Chain(x) = Up(N, dominator, x)
    BY <1>1, Grounds DEF IsDom
<1>3. /\ NewDominator[B] = new_idom
      /\ \A x \in N : x # B => NewDominator[x] = dominator[x]
      /\ \A x \in processed : New(x) \subseteq Chain(x)
    BY <1>0, SetChains
<1>4. /\ number[B] = Size - 1 - i
      /\ \A x \in N : Behind(x) <=> number[x] > number[B]
    BY <1>1, AtPass
<1>5. /\ cfg' = cfg /\ number' = number /\ rpo' = rpo /\ i' = i + 1 /\ pc' = "pass"
      /\ Size' = Size
    BY <1>1, <1>2 DEF SetDominator, listVars, Size
<1>6. /\ dominator' = NewDominator /\ processed' = processed \cup {B}
      /\ dominator[B] # new_idom => changed' = TRUE
      /\ dominator[B] = new_idom => changed' = changed
    <2>1. CASE dominator[B] # new_idom
        BY <2>1 DEF SetDominator, NewDominator
    <2>2. CASE dominator[B] = new_idom
        <3>1. dominator' = dominator /\ processed' = processed /\ changed' = changed
            BY <2>2 DEF SetDominator
        <3>2. B \in processed
            BY <1>1, <1>2, <2>2
        <3>3. NewDominator = dominator
            BY <1>2, <2>2 DEF NewDominator, IsDom
        <3> QED
            BY <2>2, <3>1, <3>2, <3>3
    <2> QED
        BY <2>1, <2>2
<1>7. /\ \A x : Chain(x)' = New(x)
      /\ \A x \in N : Behind(x)' <=> number[x] >= number[B]
    <2>1. \A x : Chain(x)' = New(x)
        BY <1>5, <1>6 DEF Chain, New, Up, Closed
    <2>2. i \in Int
        BY <1>1 DEF Core, ProcessedOK
    <2>3. \A x \in N : Behind(x)' <=> number[x] > Size - 1 - (i + 1)
        BY <1>5 DEF Behind
    <2>4. \A x \in N : number[x] > Size - 1 - (i + 1) <=> number[x] >= number[B]
        BY <1>2, <1>4, <2>2
    <2> QED
        BY <2>1, <2>3, <2>4
<1>8. \A x \in N : number[x] >= number[B] => x \in processed \cup {B}
    BY <1>1, <1>2
<1>9. Ordered'
    BY <1>1, <1>5 DEF Core, Ordered
<1>10. ProcessedOK'
    <2>1. \A x \in N : x \in processed \cup {B} <=> NewDominator[x] # NULL
        BY <1>1, <1>2, <1>3 DEF Core, ProcessedOK
    <2>2. \A x \in processed \cup {B} : NewDominator[x] \in processed \cup {B}
        BY <1>1, <1>2, <1>3 DEF Core, ProcessedOK
    <2>3. \A x \in processed \cup {B} : \A y \in N : number[y] >= number[x] => y \in processed \cup {B}
        BY <1>1, <1>8 DEF Core, ProcessedOK
    <2>4. NewDominator[Header] = Header /\ i + 1 \in 1 .. Size
        BY <1>1, <1>2, <1>3 DEF Core, ProcessedOK
    <2>5. Behind(Header)'
        BY <1>1, <1>2, <1>4, <1>7 DEF Core, ProcessedOK
    <2> QED
        BY <2>1, <2>2, <2>3, <2>4, <2>5, <1>5, <1>6, <1>7, <1>8 DEF ProcessedOK
<1>11. LinksClimb'
    BY <1>1, <1>2, <1>3, <1>5, <1>6 DEF Core, LinksClimb
<1>12. HoldDominators'
    <2>1. \A x \in processed \cup {B} : \A d \in N : Dominates(cfg, d, x) => d \in New(x)
        BY <1>0, SetHolds
    <2> QED
        BY <1>5, <1>6, <1>7, <2>1 DEF HoldDominators, Dominators
<1>13. Shared'
    <2>1. \A x \in (processed \cup {B}) \ {Header} : \A y \in N :
             (\A p \in Pred(cfg, x) \cap (processed \cup {B}) : y \in New(p))
                => y \in New(NewDominator[x])
        BY <1>0, SetShares
    <2> QED
        BY <1>5, <1>6, <1>7, <2>1 DEF Shared, OnAll
<1>14. Forward'
    <2> SUFFICES ASSUME NEW x \in (processed \cup {B}) \ {Header}, NEW p \in Pred(cfg, x),
                        NEW z \in New(x) \ {x}, number[p] > number[x],
                        Behind(x)' \/ ~ Behind(z)'
                 PROVE  z \in New(p)
        BY <1>5, <1>6, <1>7 DEF Forward
    <2>1. x \in N /\ z \in N
        BY <1>1, <1>2 DEF New, Up
    <2>2. number[x] >= number[B] \/ number[z] < number[B]
        BY <1>1, <1>2, <1>7, <2>1
    <2> QED
        BY <1>0, <2>2, SetForward
<1>15. Settled'
    <2> SUFFICES ASSUME ~ changed', NEW x \in N \ {Header}, Behind(x)',
                        NEW p \in Pred(cfg, x) \cap processed'
                 PROVE  dominator'[x] \in Chain(p)'
        BY <1>5 DEF Settled, OnAll
    <2>1. dominator[B] = new_idom /\ ~ changed /\ B \in processed
        BY <1>1, <1>2, <1>6
    <2>2. dominator' = dominator /\ processed' = processed /\ \A w : Chain(w)' = Chain(w)
        <3>1. dominator' = dominator
            BY <1>2, <1>6, <2>1 DEF NewDominator, IsDom
        <3> QED
            BY <1>5, <1>6, <2>1, <3>1 DEF Chain
    <2>3. CASE x = B
        BY <1>1, <2>1, <2>2, <2>3
    <2>4. CASE x # B
        <3>1. Behind(x)
            BY <1>1, <1>2, <1>4, <1>7, <2>4
        <3> QED
            BY <1>1, <2>1, <2>2, <3>1 DEF Core, Settled, OnAll
    <2> QED
        BY <2>3, <2>4
<1> QED
    BY <1>5, <1>9, <1>10, <1>11, <1>12, <1>13, <1>14, <1>15 DEF PassInv, Core

-----------------------------------------------------------------------------
\* When the passes have ended, what is on a chain dominates.
LEMMA ChainsDominate ==
    ASSUME TypeInv, PassInv, pc = "done", NEW b \in Nodes(cfg), NEW c \in Chain(b)
    PROVE  Dominates(cfg, c, b)
<1> DEFINE N == Nodes(cfg)
           S == {x \in N : c \notin Chain(x)}
<1>1. /\ Core /\ i = Size /\ ~ changed
    BY DEF PassInv
<1>2. /\ IsCfg(cfg) /\ Header \in N /\ Size \in Nat \ {0} /\ IsDom(N, dominator)
      /\ \A x : Chain(x) = Up(N, dominator, x)
      /\ \A x \in processed : Chain(x) = {x} \cup Chain(dominator[x])
      /\ \A x \in N : x \in Chain(x)
      /\ number \in [N -> Nat]
    <2>1. number \in [N -> Nat]
        BY DEF TypeInv, TypeOK, Nodes
    <2> QED
        BY <1>1, <2>1, Grounds
<1>3. \A x \in N : Behind(x) /\ x \in processed
    <2>1. \A x \in N : Behind(x)
        BY <1>1, <1>2 DEF Behind
    <2> QED
        BY <1>1, <2>1 DEF Core, ProcessedOK
<1>4. \A x \in N \ {Header} : \A p \in Pred(cfg, x) : p \in N => dominator[x] \in Chain(p)
    BY <1>1, <1>3 DEF Core, Settled, OnAll
<1>5. Chain(Header) = {Header}
    <2>1. Closed(dominator, {Header}) /\ {Header} \in SUBSET N
        BY <1>1, <1>2 DEF Core, ProcessedOK, Closed
    <2>2. Up(N, dominator, Header) \subseteq {Header}
        BY <2>1, UpLeast
    <2> QED
        BY <1>2, <2>2
<1>6. c \in N /\ S \in SUBSET (N \ {c}) /\ b \notin S
    BY <1>2 DEF Chain
<1>7. ASSUME NEW x \in S, NEW w \in Succ(cfg, x), w # c
      PROVE  w \in S
    <2>1. x \in N /\ w \in N /\ x \in Pred(cfg, w) /\ c \notin Chain(x)
        BY <1>2, SuccNodes, PredSucc
    <2> SUFFICES ASSUME c \in Chain(w)
                 PROVE  FALSE
        BY <2>1
    <2>2. w # Header
        BY <1>5, <1>7
    <2>3. c \in Chain(dominator[w])
        BY <1>2, <1>3, <1>7, <2>1
    <2>4. dominator[w] \in Chain(x)
        BY <1>4, <2>1, <2>2
    <2>5. Chain(dominator[w]) \subseteq Chain(x)
        BY <1>2, <2>1, <2>4, UpTransitive
    <2> QED
        BY <2>1, <2>3, <2>5
<1>8. c # Header => Header \in S
    BY <1>2, <1>5
<1>9. IsAround(cfg, c, S)
    <2> HIDE DEF S
    <2> QED
        BY <1>7, <1>8 DEF IsAround
<1> QED
    BY <1>6, <1>9 DEF Dominates

LEMMA InitInv == Init => Inv
BY InitTypeInv DEF Inv, Init

LEMMA InvStep == Inv /\ [Next]_vars => Inv'
<1> SUFFICES ASSUME Inv, [Next]_vars
             PROVE  Inv'
    OBVIOUS
<1>1. TypeInv /\ TypeInv'
    BY TypesStep DEF Inv
<1>2. cfg' = cfg
    BY DEF Next, vars, DfsVisit, DfsSkip, DfsReturn, Invert, StartNode, SkipPred, MeetPred,
           Climb, Meet, SetDominator, EndPass
<1> SUFFICES ASSUME pc' # "dfs", AllReachable(cfg)
             PROVE  PassInv'
    BY <1>1, <1>2 DEF Inv
<1>3. CASE pc = "dfs"
    <2>1. Invert
        BY <1>3 DEF Next, vars, DfsVisit, DfsSkip, DfsReturn, StartNode, SkipPred, MeetPred,
                    Climb, Meet, SetDominator, EndPass
    <2> QED
        BY <1>1, <2>1, InvertStarts
<1>4. CASE pc # "dfs"
    <2>1. PassInv
        BY <1>4 DEF Inv
    <2>2. CASE UNCHANGED vars
        <3>1. UNCHANGED <<cfg, number, rpo, dominator, processed, changed, i, k, pc,
                          new_idom, finger1, finger2>>
            BY <2>2 DEF vars, listVars, passVars, meetVars
        <3>2. Core'
            BY <2>1, <3>1, Carried DEF PassInv
        <3>3. (Meeting => Meeting') /\ (Fingers => Fingers')
            BY <3>1 DEF Meeting, Fingers, B, P, OnAll, Chain
        <3> QED
            BY <2>1, <3>1, <3>2, <3>3 DEF PassInv, Size
    <2>3. ~ (DfsVisit \/ DfsSkip \/ DfsReturn \/ Invert)
        BY <1>4 DEF DfsVisit, DfsSkip, DfsReturn, Invert
    <2> QED
        BY <1>1, <2>1, <2>2, <2>3, StartNodeKeeps, SkipPredKeeps, MeetPredKeeps, ClimbKeeps,
           MeetKeeps, SetDominatorKeeps, EndPassKeeps DEF Next
<1> QED
    BY <1>3, <1>4

-----------------------------------------------------------------------------
(***************************************************************************)
(* The types hold on every graph, one with unreachable nodes too.          *)
(***************************************************************************)
THEOREM TypeCorrect == Spec => []TypeOK
<1>1. Init => TypeInv
    BY InitTypeInv
<1>2. TypeInv /\ [Next]_vars => TypeInv'
    BY TypesStep
<1>3. TypeInv => TypeOK
    BY DEF TypeInv
<1> QED
    BY <1>1, <1>2, <1>3, PTL DEF Spec

THEOREM InvHolds == Spec => []Inv
<1>1. Init => Inv
    BY InitInv
<1>2. Inv /\ [Next]_vars => Inv'
    BY InvStep
<1> QED
    BY <1>1, <1>2, PTL DEF Spec

(***************************************************************************)
(* reverse_post_order hands over a list of all the nodes, header first, in *)
(* descending number, in which a strict dominator comes before the node.   *)
(***************************************************************************)
THEOREM ListOrdered == Spec => []RpoOrder
<1>1. Inv => RpoOrder
    BY DEF Inv, PassInv, Core, Ordered, RpoOrder
<1> QED
    BY <1>1, InvHolds, PTL

(***************************************************************************)
(* At every step of every pass the chain of a processed node holds all its *)
(* dominators: the pointers approach the immediate dominators from above.  *)
(***************************************************************************)
THEOREM ChainsHold == Spec => []ChainsHoldDominators
<1>1. Inv => ChainsHoldDominators
    BY DEF Inv, PassInv, Core, HoldDominators, ChainsHoldDominators
<1> QED
    BY <1>1, InvHolds, PTL

(***************************************************************************)
(* compute_idom never uses a cell or a local that was not written, and     *)
(* intersect never follows a NULL dominator: the two ends a run could have *)
(* other than the one at which IdomExact says what was computed.           *)
(***************************************************************************)
THEOREM NoWildUse == Spec => [](AllReachable(cfg) => pc \notin {"wild", "crash"})
<1>1. Inv => (AllReachable(cfg) => pc \notin {"wild", "crash"})
    BY DEF Inv, PassInv
<1> QED
    BY <1>1, InvHolds, PTL

(***************************************************************************)
(* When compute_idom returns, dominator is the immediate dominator of      *)
(* every node but the header, whatever the shape of the loops.             *)
(***************************************************************************)
THEOREM IdomCorrect == Spec => []IdomExact
<1>1. Inv => IdomExact
    <2> SUFFICES ASSUME Inv, pc = "done", AllReachable(cfg)
                 PROVE  /\ dominator[Header] = Header
                        /\ \A b \in Nodes(cfg) \ {Header} : IsIdom(cfg, dominator[b], b)
        BY DEF IdomExact
    <2>1. TypeInv /\ PassInv /\ Core
        BY DEF Inv, PassInv
    <2>2. /\ number \in [Nodes(cfg) -> Int] /\ processed \in SUBSET Nodes(cfg)
          /\ \A x \in processed : dominator[x] \in Chain(x)
          /\ \A x \in processed : Chain(x) = {x} \cup Chain(dominator[x])
          /\ \A x \in Nodes(cfg) : x \in processed <=> dominator[x] \in Nodes(cfg)
        BY <2>1, Grounds
    <2>3. \A x \in Nodes(cfg) : x \in processed
        <3>1. i = Size /\ TypeOK
            BY <2>1 DEF PassInv, TypeInv
        <3>2. \A x \in Nodes(cfg) : Behind(x)
            BY <3>1, AllBehind
        <3> QED
            BY <2>1, <3>2 DEF Core, ProcessedOK
    <2>4. ASSUME NEW b \in Nodes(cfg) \ {Header}
          PROVE  IsIdom(cfg, dominator[b], b)
        <3>1. /\ dominator[b] \in Nodes(cfg) /\ dominator[b] \in Chain(b)
              /\ Chain(b) = {b} \cup Chain(dominator[b])
            BY <2>2, <2>3
        <3>2. dominator[b] # b
            BY <2>1, <2>2, <2>3 DEF Core, LinksClimb
        <3>3. StrictlyDominates(cfg, dominator[b], b)
            BY <2>1, <3>1, <3>2, ChainsDominate DEF StrictlyDominates
        <3>4. ASSUME NEW x \in Nodes(cfg), StrictlyDominates(cfg, x, b)
              PROVE  Dominates(cfg, x, dominator[b])
            <4>1. x \in Chain(b) /\ x # b
                BY <2>1, <2>3, <3>4
                   DEF Core, HoldDominators, Dominators, StrictlyDominates
            <4> QED
                BY <2>1, <3>1, <4>1, ChainsDominate
        <3> QED
            BY <3>3, <3>4 DEF IsIdom
    <2> QED
        BY <2>1, <2>4 DEF Core, ProcessedOK
<1> QED
    BY <1>1, InvHolds, PTL

(***************************************************************************)
(* A pointer that is set only ever climbs, to a node of a higher number.   *)
(***************************************************************************)
THEOREM Climbing == Spec => DominatorsClimb
<1> DEFINE Climbs == AllReachable(cfg) =>
              \A x \in Nodes(cfg) :
                 dominator[x] # NULL /\ dominator'[x] # dominator[x] =>
                    number[dominator'[x]] > number[dominator[x]]
<1>1. Inv /\ [Next]_vars => Climbs
    <2> SUFFICES ASSUME Inv, Next, AllReachable(cfg), NEW x \in Nodes(cfg),
                        dominator[x] # NULL, dominator'[x] # dominator[x]
                 PROVE  number[dominator'[x]] > number[dominator[x]]
        BY DEF vars, passVars
    <2>1. pc # "dfs"
        BY DEF Inv, TypeInv
    <2>2. SetDominator
        BY <2>1 DEF Next, DfsVisit, DfsSkip, DfsReturn, Invert, StartNode, SkipPred, MeetPred,
                    Climb, Meet, EndPass, passVars
    <2>3. AtSet
        BY <2>1, <2>2 DEF SetDominator, AtSet, Inv
    <2>4. dominator' = NewDominator
        BY <2>2 DEF SetDominator, NewDominator
    <2>5. Core /\ TypeInv /\ x = B /\ dominator'[x] = new_idom
        BY <2>3, <2>4, SetTarget, SetChains DEF AtSet
    <2>6. x \in processed
        BY <2>5 DEF Core, ProcessedOK
    <2>7. new_idom \in Chain(dominator[x])
        BY <2>3, <2>5, <2>6, SetTarget
    <2>8. /\ IsDom(Nodes(cfg), dominator) /\ Rising(Nodes(cfg), dominator, number)
          /\ Chain(dominator[x]) = Up(Nodes(cfg), dominator, dominator[x])
          /\ dominator[x] \in Nodes(cfg)
        BY <2>5, <2>6, Grounds
    <2> QED
        BY <2>5, <2>7, <2>8, UpRises
<1> QED
    BY <1>1, InvHolds, PTL DEF Spec, DominatorsClimb

-----------------------------------------------------------------------------
(***************************************************************************)
(* The state in which compute_idom returns is an initial state of the      *)
(* frontier pass: the dominators DomFrontier starts from are those the     *)
(* loops compute, not only the same by definition.                         *)
(***************************************************************************)
THEOREM HandsOver == Spec => [](pc = "done" /\ AllReachable(cfg) => Frontiers!Init)
<1> DEFINE Given == cfg \in Cfgs
           Handed == pc = "done" /\ AllReachable(cfg) => Frontiers!Init
<1>1. Init => Given
    BY DEF Init
<1>2. Given /\ [Next]_vars => Given'
    BY DEF Next, vars, DfsVisit, DfsSkip, DfsReturn, Invert, StartNode, SkipPred, MeetPred,
           Climb, Meet, SetDominator, EndPass
<1>3. Inv /\ IdomExact /\ Given => Handed
    <2> SUFFICES ASSUME Inv, IdomExact, cfg \in Cfgs, pc = "done", AllReachable(cfg)
                 PROVE  Frontiers!Init
        OBVIOUS
    <2>1. /\ IsCfg(cfg) /\ dominator[Header] = Header
          /\ \A x \in Nodes(cfg) \ {Header} : IsIdom(cfg, dominator[x], x)
          /\ IsDom(Nodes(cfg), dominator) /\ Header \in Nodes(cfg) /\ processed \in SUBSET Nodes(cfg)
          /\ Core /\ \A x \in Nodes(cfg) : x \in processed <=> dominator[x] \in Nodes(cfg)
        BY Grounds DEF IdomExact, Inv, PassInv
    <2>2. \A x \in Nodes(cfg) : dominator[x] \in Nodes(cfg)
        <3>1. i = Size
            BY DEF Inv, PassInv
        <3>2. \A x \in Nodes(cfg) : Behind(x)
            BY <2>1, <3>1, AllBehind DEF Inv, TypeInv
        <3> QED
            BY <2>1, <3>2 DEF Core, ProcessedOK
    <2>3. ASSUME NEW x \in Nodes(cfg)
          PROVE  dominator[x] = Frontiers!ComputedIdom(cfg, x)
        <3>1. CASE x = Header
            BY <2>1, <3>1, SameGraph DEF Frontiers!ComputedIdom
        <3>2. CASE x # Header
            <4> DEFINE d == CHOOSE d \in Nodes(cfg) : IsIdom(cfg, d, x)
            <4>1. d \in Nodes(cfg) /\ IsIdom(cfg, d, x)
                BY <2>1, <2>2, <3>2
            <4>2. d = dominator[x]
                BY <2>1, <2>2, <3>2, <4>1, IdomUnique
            <4>3. Frontiers!ComputedIdom(cfg, x) =
                     CHOOSE y \in Frontiers!Nodes(cfg) : Frontiers!IsIdom(cfg, y, x)
                BY <3>2, SameGraph DEF Frontiers!ComputedIdom
            <4>4. (CHOOSE y \in Frontiers!Nodes(cfg) : Frontiers!IsIdom(cfg, y, x)) = d
                BY SameGraph
            <4> QED
                BY <4>2, <4>3, <4>4
        <3> QED
            BY <3>1, <3>2
    <2>4. dominator = [x \in Nodes(cfg) |-> Frontiers!ComputedIdom(cfg, x)]
        BY <2>1, <2>3 DEF IsDom
    <2> QED
        BY <2>4, SameGraph DEF Frontiers!Init
<1>4. Spec => []Handed
    <2> HIDE DEF Given, Handed
    <2> QED
        BY <1>1, <1>2, <1>3, InvHolds, IdomCorrect, PTL DEF Spec
<1> QED
    BY <1>4
=============================================================================
