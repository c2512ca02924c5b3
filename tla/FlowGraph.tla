----------------------------- MODULE FlowGraph ------------------------------
(***************************************************************************)
(* The control flow graph as the dominance pass reads it (CFG.h): nodes    *)
(* numbered by their place in cfg->nodes, of which node 0 is the header    *)
(* (module CfgBuilder), and for each node the arrays of its successors and *)
(* of its predecessors.  The rest are the textbook notions the pass is     *)
(* meant to compute, defined on the graph without any of its algorithms.   *)
(***************************************************************************)
EXTENDS Integers, Sequences, FiniteSets

CONSTANT Cfgs   \* the graphs to analyse

Nodes(g) == 0 .. g.size - 1
Header == 0

Cells(s) == {s[k] : k \in 1 .. Len(s)}
Succ(g, x) == Cells(g.succs[x])
Pred(g, x) == Cells(g.preds[x])

IsCfg(g) ==
    /\ g.size \in Nat \ {0}
    /\ g.succs \in [Nodes(g) -> Seq(Nodes(g))]
    /\ g.preds \in [Nodes(g) -> Seq(Nodes(g))]
    /\ \A x, y \in Nodes(g) : y \in Succ(g, x) <=> x \in Pred(g, y)

ASSUME CfgsAssumption == \A g \in Cfgs : IsCfg(g)

(***************************************************************************)
(* Every node can be reached from the header: only the set of all nodes    *)
(* holds the header and is closed under successors.                        *)
(***************************************************************************)
AllReachable(g) ==
    \A S \in SUBSET Nodes(g) :
       Header \in S /\ (\A x \in S : Succ(g, x) \subseteq S) => S = Nodes(g)

(***************************************************************************)
(* d dominates b when no path from the header reaches b around d: some set *)
(* holds all that is reached around d, and b is not in it.                 *)
(***************************************************************************)
IsAround(g, d, S) ==
    /\ d # Header => Header \in S
    /\ \A x \in S : Succ(g, x) \subseteq S \cup {d}

Dominates(g, d, b) ==
    \E S \in SUBSET (Nodes(g) \ {d}) : IsAround(g, d, S) /\ b \notin S

Dominators(g, b) == {d \in Nodes(g) : Dominates(g, d, b)}

StrictlyDominates(g, d, b) == d # b /\ Dominates(g, d, b)

\* The strict dominator of b that every strict dominator of b dominates.
IsIdom(g, d, b) ==
    /\ StrictlyDominates(g, d, b)
    /\ \A x \in Nodes(g) : StrictlyDominates(g, x, b) => Dominates(g, x, d)

\* Where the dominance of x ends.
Frontier(g, x) ==
    {y \in Nodes(g) : /\ \E p \in Pred(g, y) : Dominates(g, x, p)
                      /\ ~ StrictlyDominates(g, x, y)}
=============================================================================
