----------------------------- MODULE DomFrontier -----------------------------
(***************************************************************************)
(* compute_dominance_frontier (domfrontier.c): for each node with at least *)
(* two predecessors, a runner climbs from each predecessor to the node's   *)
(* immediate dominator and puts the node into the frontier of every node   *)
(* it passes.                                                              *)
(*                                                                         *)
(* It starts from what compute_idom leaves on a graph without unreachable  *)
(* nodes (Idom, invariant IdomExact).                                      *)
(***************************************************************************)
EXTENDS FlowGraph

CONSTANT NULL

ASSUME NullAssumption == NULL \notin Int

VARIABLES
    cfg,        \* the argument
    dominator,  \* node->dominator, computed
    pc,         \* the loop being run
    b,          \* node_idx
    k,          \* predecessor_idx, from 1
    runner,
    df          \* node->dominator_frontier up to dominator_idx

vars == <<cfg, dominator, pc, b, k, runner, df>>

\* Fault: the header has no dominator.
ComputedIdomBare(g, x) ==
    IF x = Header THEN NULL ELSE CHOOSE d \in Nodes(g) : IsIdom(g, d, x)

ComputedIdom(g, x) ==
    IF x = Header THEN Header ELSE CHOOSE d \in Nodes(g) : IsIdom(g, d, x)

Init ==
    /\ cfg \in Cfgs /\ AllReachable(cfg)
    /\ dominator = [x \in Nodes(cfg) |-> ComputedIdom(cfg, x)]
    /\ pc = "node"
    /\ b = 0 /\ k = 1
    /\ runner = NULL
    /\ df = [x \in Nodes(cfg) |-> <<>>]

\* Fault: only a node with three predecessors is a join.
IsJoinWide(x) == Len(cfg.preds[x]) >= 3

IsJoin(x) == Len(cfg.preds[x]) >= 2

NextNode ==
    /\ pc = "node" /\ b < cfg.size
    /\ IF IsJoin(b)
       THEN pc' = "pred" /\ k' = 1 /\ b' = b
       ELSE b' = b + 1 /\ UNCHANGED <<pc, k>>
    /\ UNCHANGED <<cfg, dominator, runner, df>>

NextPred ==
    /\ pc = "pred" /\ k <= Len(cfg.preds[b])
    /\ runner' = cfg.preds[b][k]
    /\ pc' = "runner"
    /\ UNCHANGED <<cfg, dominator, b, k, df>>

EndPreds ==
    /\ pc = "pred" /\ k > Len(cfg.preds[b])
    /\ b' = b + 1
    /\ pc' = "node"
    /\ UNCHANGED <<cfg, dominator, k, runner, df>>

\* Fault: the node is appended again.
AddAgain(x) == [df EXCEPT ![x] = Append(@, b)]

\* add_to_set
AddToSet(x) ==
    IF b \in Cells(df[x]) THEN df ELSE [df EXCEPT ![x] = Append(@, b)]

\* Faults: the runner stops at the header only; at b itself.
AtTopHeader == runner = Header
AtTopSelf == runner = b

AtTop == runner = dominator[b]

Climb ==
    /\ pc = "runner" /\ ~ AtTop
    /\ df' = AddToSet(runner)
    /\ runner' = dominator[runner]
    /\ UNCHANGED <<cfg, dominator, pc, b, k>>

Stop ==
    /\ pc = "runner" /\ AtTop
    /\ k' = k + 1
    /\ pc' = "pred"
    /\ UNCHANGED <<cfg, dominator, b, runner, df>>

Return ==
    /\ pc = "node" /\ b >= cfg.size
    /\ pc' = "done"
    /\ UNCHANGED <<cfg, dominator, b, k, runner, df>>

Next ==
    \/ NextNode \/ NextPred \/ EndPreds
    \/ Climb \/ Stop \/ Return

\* One thread, no blocking call.
Fairness == WF_vars(Next)

Spec == Init /\ [][Next]_vars /\ Fairness

-----------------------------------------------------------------------------
(***************************************************************************)
(* The runner is a node whenever it is used: no climb leaves the tree.     *)
(***************************************************************************)
TypeOK ==
    /\ IsCfg(cfg)
    /\ dominator \in [Nodes(cfg) -> Nodes(cfg)]
    /\ pc \in {"node", "pred", "runner", "done"}
    /\ b \in 0 .. cfg.size
    /\ k \in Nat \ {0}
    /\ runner \in Nodes(cfg) \cup (IF pc = "runner" THEN {} ELSE {NULL})
    /\ df \in [Nodes(cfg) -> Seq(Nodes(cfg))]

(***************************************************************************)
(* The loop of domfrontier.c:191 ends because its runner never passes its  *)
(* goal: the dominator of b dominates wherever the runner is.              *)
(***************************************************************************)
RunnerBelowGoal == pc = "runner" => Dominates(cfg, dominator[b], runner)

(***************************************************************************)
(* A frontier holds no node that is not in it by the definition of Cytron  *)
(* et al., and holds none twice, although a runner may pass a node once    *)
(* for each predecessor of b.                                              *)
(***************************************************************************)
FrontierSound ==
    \A x \in Nodes(cfg) :
       /\ Cells(df[x]) \subseteq Frontier(cfg, x)
       /\ \A m, n \in 1 .. Len(df[x]) : df[x][m] = df[x][n] => m = n

(***************************************************************************)
(* At the end every frontier is complete, but for the header: a node in    *)
(* the frontier by definition, and not the header, has been put there.     *)
(* (One with a single predecessor is in no frontier.)                      *)
(***************************************************************************)
FrontierComplete ==
    pc = "done" =>
       \A x \in Nodes(cfg) : Frontier(cfg, x) \ {Header} \subseteq Cells(df[x])

(***************************************************************************)
(* The pass comes to an end.                                               *)
(***************************************************************************)
Termination == <>(pc = "done")

=============================================================================
