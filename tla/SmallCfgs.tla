----------------------------- MODULE SmallCfgs ------------------------------
(***************************************************************************)
(* The graphs of n nodes that create_graph (module CfgBuilder) delivers,   *)
(* for the model-checking runs: the last block falls off the end or jumps; *)
(* any other jumps, falls through to the next, or does either.  When the   *)
(* last block is empty, the instruction before it passes for its last: it  *)
(* has the links of a conditional jump there, or none of the two has any.  *)
(***************************************************************************)
EXTENDS Integers, Sequences

LOCAL Flows(n) ==
    {f \in [0 .. n - 1 -> {<<>>} \cup {<<t>> : t \in 0 .. n - 1}
                            \cup {<<t, u>> : t \in 0 .. n - 1, u \in 1 .. n - 1}] :
        \A l \in 0 .. n - 1 :
           IF l = n - 1 THEN Len(f[l]) = 2 => n > 1 /\ f[l] = f[n - 2]
           ELSE /\ f[l] = <<>> => l = n - 2 /\ f[n - 1] = <<>>
                /\ Len(f[l]) = 2 => f[l][2] = l + 1}

(***************************************************************************)
(* The depth-first search that registers the links: a node links to its    *)
(* successor before it visits it, and a node never visited has no links.   *)
(***************************************************************************)
RECURSIVE Visited(_, _, _), Links(_, _, _, _)

Visited(f, node, g) ==
    IF node \in g.seen THEN g
    ELSE Links(f, node, 1, [g EXCEPT !.seen = @ \cup {node}])

Links(f, node, j, g) ==
    IF j > Len(f[node]) THEN g
    ELSE Links(f, node, j + 1,
               Visited(f, f[node][j],
                       [g EXCEPT !.succs[node] = Append(@, f[node][j]),
                                 !.preds[f[node][j]] = Append(@, node)]))

CfgOf(n, f) ==
    LET none == [l \in 0 .. n - 1 |-> <<>>]
        g == Visited(f, 0, [seen |-> {}, succs |-> none, preds |-> none])
    IN  [size |-> n, succs |-> g.succs, preds |-> g.preds]

CfgsUpTo(n) == UNION {{CfgOf(m, f) : f \in Flows(m)} : m \in 1 .. n}
=============================================================================
