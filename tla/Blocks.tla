------------------------------- MODULE Blocks -------------------------------
(***************************************************************************)
(* initialize_graph (graph.c): the nodes of the graph, one for each start  *)
(* that get_info_graph found, each with its first instruction and the      *)
(* number of its instructions; none of them linked yet.  The first and the *)
(* last node have code of their own, and are one node when there is only   *)
(* one start.                                                              *)
(*                                                                         *)
(* Cell k of cfg->nodes is nodes[k + 1].  The links are kept by the offset *)
(* of the first instruction, as in CfgBuilder.                             *)
(***************************************************************************)
EXTENDS Integers, Sequences

CONSTANT Garbage   \* what may lie in the cell behind the array of starts

VARIABLES
    ir,        \* the program
    list,      \* list_node_indices
    nodes,     \* cfg->nodes
    node_idx,  \* the loop index over the middle nodes
    succs, preds,
    pc         \* the part being run

Starts == {list[k] : k \in 1 .. Len(list)}

\* A node of calloc, whose pointer is NULL, and one that has been filled in.
Blank == [start |-> -1, size |-> 0]
Node(first, next) == [start |-> first, size |-> next - first]

Entry ==
    /\ pc = "allocate"
    /\ nodes = <<>>
    /\ node_idx = 1

Allocate ==
    /\ pc = "allocate"
    /\ \/ /\ pc' = "start"
          /\ nodes' = [k \in 1 .. Len(list) |-> Blank]
          /\ succs' = [l \in Starts |-> <<>>]
          /\ preds' = [l \in Starts |-> <<>>]
       \/ pc' = "exit" /\ UNCHANGED <<nodes, succs, preds>>   \* calloc() returned NULL
    /\ UNCHANGED <<ir, list, node_idx>>

\* The second start is read even if there is one only.
StartNode ==
    /\ pc = "start"
    /\ \E second \in IF Len(list) > 1 THEN {list[2]} ELSE Garbage :
          nodes' = [nodes EXCEPT ![1] = Node(list[1], second)]
    /\ pc' = "middle"
    /\ UNCHANGED <<ir, list, node_idx, succs, preds>>

MiddleNode ==
    /\ pc = "middle" /\ node_idx < Len(list) - 1
    /\ nodes' = [nodes EXCEPT ![node_idx + 1] = Node(list[node_idx + 1], list[node_idx + 2])]
    /\ node_idx' = node_idx + 1
    /\ UNCHANGED <<ir, list, succs, preds, pc>>

\* Fault: the last node is filled in only when it is not the first.
EndNodeNotFirst ==
    /\ pc = "middle" /\ node_idx >= Len(list) - 1
    /\ nodes' = IF Len(list) > 1
                THEN [nodes EXCEPT ![Len(list)] = Node(list[Len(list)], ir.index)]
                ELSE nodes
    /\ pc' = "done"
    /\ UNCHANGED <<ir, list, node_idx, succs, preds>>

EndNode ==
    /\ pc = "middle" /\ node_idx >= Len(list) - 1
    /\ nodes' = [nodes EXCEPT ![Len(list)] = Node(list[Len(list)], ir.index)]
    /\ pc' = "done"
    /\ UNCHANGED <<ir, list, node_idx, succs, preds>>

Next == Allocate \/ StartNode \/ MiddleNode \/ EndNode
=============================================================================
