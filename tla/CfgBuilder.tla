----------------------------- MODULE CfgBuilder -----------------------------
(***************************************************************************)
(* create_graph (graph.c): the basic blocks become nodes, and a recursive  *)
(* depth-first search from the first of them links each node it visits to  *)
(* its successors and records an edge when a recursive call comes back     *)
(* with a node.                                                            *)
(*                                                                         *)
(* A node is identified by the offset of its first instruction, a leader:  *)
(* what get_info_graph delivers (module Leaders) is the ascending list of  *)
(* the leaders and the number of cells of the edge array.  The C stack is  *)
(* explicit: one frame per pending call of                                 *)
(* generate_subgraph_from_instruction_offset, with the point it returns to.*)
(***************************************************************************)
EXTENDS AtomicIR, Sequences

CONSTANT NULL

ASSUME NullAssumption == NULL \notin Int

VARIABLES
    ir,       \* the program
    pc,       \* "call": about to run a call on arg; "return": one gave ret
    arg,      \* instruction_offset of the call
    ret,      \* the node the last call returned, or NULL
    stack,    \* the pending calls, innermost last
    visited,  \* the nodes whose visited flag is set
    header,   \* cfg->header
    succs,    \* node -> successors
    preds,    \* node -> predecessors
    edges     \* cfg->edges up to edge_idx, as <<start, target>>

vars == <<ir, pc, arg, ret, stack, visited, header, succs, preds, edges>>

\* generate_subgraph_from_instruction_offset is waiting for the call on its
\* true branch, its false branch or the block that follows.
Frame(node, branch) == [node |-> node, branch |-> branch]

Top == stack[Len(stack)]
Pop == SubSeq(stack, 1, Len(stack) - 1)

(***************************************************************************)
(* initialize_graph gives each node the instructions up to the next leader *)
(* and no links; create_graph then calls the search on START_NODE.         *)
(***************************************************************************)
Entry ==
    /\ pc = "call"
    /\ arg = 0
    /\ ret = NULL
    /\ stack = <<>>
    /\ visited = {}
    /\ header = NULL
    /\ succs = [l \in Leaders(ir) |-> <<>>]
    /\ preds = [l \in Leaders(ir) |-> <<>>]
    /\ edges = <<>>

\* create_graph is called when get_info_graph has found every start inside.
Init == ir \in Programs /\ StartsInside(ir) /\ Entry

\* last_instruction of the node
LastInstr(node) == BlockEnd(ir, node)

\* Fault: create_graph passes ir->index instead of ir->index - 1.
IsLastOff(k) == k = ir.index

\* k is last_instruction_last_node
IsLast(k) == k = ir.index - 1

FindNode(offset) == IF offset \in Leaders(ir) THEN offset ELSE NULL

(***************************************************************************)
(* update_neighbour_nodes, then the recursive call on the same offset.  An *)
(* offset at which no node starts makes the former dereference NULL.       *)
(***************************************************************************)
LinkAndCall(node, offset, frames) ==
    LET next == FindNode(offset)
    IN  IF next = NULL
        THEN pc' = "crash" /\ UNCHANGED <<arg, stack, succs, preds>>
        ELSE /\ succs' = [succs EXCEPT ![node] = Append(@, next)]
             /\ preds' = [preds EXCEPT ![next] = Append(@, node)]
             /\ arg' = offset
             /\ stack' = frames
             /\ pc' = "call"

(***************************************************************************)
(* A call on a node that has been visited returns NULL at once.  (A call   *)
(* on no node at all would exit, graph.c:190-194: the entry is always a    *)
(* node, and for any other offset LinkAndCall has crashed before.)         *)
(***************************************************************************)
\* Fault: the call returns the node it found visited.
CallVisitedNode ==
    /\ pc = "call" /\ arg \in visited
    /\ ret' = arg
    /\ pc' = "return"
    /\ UNCHANGED <<ir, arg, stack, visited, header, succs, preds, edges>>

CallVisited ==
    /\ pc = "call" /\ arg \in visited
    /\ ret' = NULL
    /\ pc' = "return"
    /\ UNCHANGED <<ir, arg, stack, visited, header, succs, preds, edges>>

\* The call marks its node, and the one on the entry makes it the header.
Enter(node) ==
    /\ visited' = visited \cup {node}
    /\ header' = IF arg = 0 THEN node ELSE header

\* On an IR without instructions, which Init excludes and module Decompile does
\* not, the last instruction of the only node is looked for before the buffer.
CallNothing ==
    /\ pc = "call" /\ arg \in Leaders(ir) \ visited
    /\ LastInstr(arg) \notin Offsets(ir)
    /\ pc' = "wild"
    /\ UNCHANGED <<ir, arg, ret, stack, visited, header, succs, preds, edges>>

CallJump ==
    /\ pc = "call" /\ arg \in Leaders(ir) \ visited
    /\ LastInstr(arg) \in Offsets(ir)
    /\ IsJump(ir, LastInstr(arg))
    /\ Enter(arg)
    /\ LinkAndCall(arg, Target(ir, LastInstr(arg)), Append(stack, Frame(arg, "true")))
    /\ UNCHANGED <<ir, ret, edges>>

CallFall ==
    /\ pc = "call" /\ arg \in Leaders(ir) \ visited
    /\ LastInstr(arg) \in Offsets(ir)
    /\ ~ IsJump(ir, LastInstr(arg)) /\ ~ IsLast(LastInstr(arg))
    /\ Enter(arg)
    /\ LinkAndCall(arg, LastInstr(arg) + 1, Append(stack, Frame(arg, "next")))
    /\ UNCHANGED <<ir, ret, edges>>

CallEnd ==
    /\ pc = "call" /\ arg \in Leaders(ir) \ visited
    /\ LastInstr(arg) \in Offsets(ir)
    /\ ~ IsJump(ir, LastInstr(arg)) /\ IsLast(LastInstr(arg))
    /\ Enter(arg)
    /\ ret' = arg
    /\ pc' = "return"
    /\ UNCHANGED <<ir, arg, stack, succs, preds, edges>>

\* What a pending call does with the node its callee returned.
EdgeFound == ret # NULL

\* Fault: one cell too few.
EdgesFullEarly == Len(edges) + 1 >= EdgeCapacity(ir)

\* create_edge exits when the array is full.
EdgesFull == Len(edges) >= EdgeCapacity(ir)

\* Fault: the edge is recorded from the successor to the node.
RecordEdgeBack ==
    edges' = IF EdgeFound THEN Append(edges, <<ret, Top.node>>) ELSE edges

RecordEdge ==
    edges' = IF EdgeFound THEN Append(edges, <<Top.node, ret>>) ELSE edges

\* Faults: the false branch is taken after the false branch; after every
\* jump; never.
TakesFalseAgain == Kind(ir, LastInstr(Top.node)) = "ATM_CONDJMP"
TakesFalseAfterJmp == Top.branch = "true"
TakesFalseNever == FALSE

TakesFalseBranch ==
    /\ Top.branch = "true"
    /\ Kind(ir, LastInstr(Top.node)) = "ATM_CONDJMP"

ResumeFalse ==
    /\ pc = "return" /\ stack # <<>> /\ TakesFalseBranch
    /\ IF EdgeFound /\ EdgesFull
       THEN pc' = "exit" /\ UNCHANGED <<arg, stack, succs, preds, edges>>
       ELSE /\ RecordEdge
            /\ LinkAndCall(Top.node, LastInstr(Top.node) + 1,
                           Append(Pop, Frame(Top.node, "false")))
    /\ UNCHANGED <<ir, ret, visited, header>>

ResumeUp ==
    /\ pc = "return" /\ stack # <<>> /\ ~ TakesFalseBranch
    /\ IF EdgeFound /\ EdgesFull
       THEN pc' = "exit" /\ UNCHANGED <<ret, stack, edges>>
       ELSE /\ RecordEdge
            /\ ret' = Top.node
            /\ stack' = Pop
            /\ pc' = pc
    /\ UNCHANGED <<ir, arg, visited, header, succs, preds>>

\* create_graph clears the flags the search has set.
Finish ==
    /\ pc = "return" /\ stack = <<>>
    /\ visited' = {}
    /\ pc' = "done"
    /\ UNCHANGED <<ir, arg, ret, stack, header, succs, preds, edges>>

Next ==
    \/ CallVisited
    \/ CallJump
    \/ CallFall
    \/ CallEnd
    \/ ResumeFalse
    \/ ResumeUp
    \/ Finish

\* One thread, no blocking call.
Fairness == WF_vars(Next)

Spec == Init /\ [][Next]_vars /\ Fairness

-----------------------------------------------------------------------------
Stopped == {"done", "exit", "crash"}

Nodes == Leaders(ir)

RangeOf(s) == {s[k] : k \in 1 .. Len(s)}

\* The nodes the graph links: the header and every successor.
Linked == {0} \cup UNION {RangeOf(succs[l]) : l \in Nodes}

(***************************************************************************)
(* The search only ever handles nodes of the graph, and a node has at most *)
(* the two successors the comment of CFG.h:45 allows.                      *)
(***************************************************************************)
TypeOK ==
    /\ IsBuildable(ir)
    /\ pc \in {"call", "return"} \cup Stopped
    /\ arg \in Nodes
    /\ ret \in Nodes \cup {NULL}
    /\ stack \in Seq([node : Nodes, branch : {"true", "false", "next"}])
    /\ visited \in SUBSET Nodes
    /\ header \in Nodes \cup {NULL}
    /\ succs \in [Nodes -> Seq(Nodes)] /\ \A l \in Nodes : Len(succs[l]) <= 2
    /\ preds \in [Nodes -> Seq(Nodes)]
    /\ edges \in Seq(Nodes \X Nodes)

(***************************************************************************)
(* The search never dereferences the NULL of a failed lookup (graph.c:152) *)
(* and never meets "Too many edges" (graph.c:167): every offset it looks   *)
(* up starts a node, and get_info_graph's count, although it is not the    *)
(* number of edges, leaves room for those that are recorded.               *)
(***************************************************************************)
NoAbort == pc \notin Stopped \ {"done"}

(***************************************************************************)
(* The books of the recursion: at every moment each node visited is one of *)
(* the recorded edges' targets, or waits on the stack for its call to come *)
(* back, or is being returned.  So an edge is recorded once per node, when *)
(* its call returns, and never for a call that found its node visited.     *)
(***************************************************************************)
EdgeLedger ==
    pc \in {"call", "return"} =>
       Len(edges) + Len(stack) + (IF pc = "return" /\ EdgeFound THEN 1 ELSE 0)
         = Cardinality(visited)

(***************************************************************************)
(* The finished graph links exactly the blocks the flow of the blocks can  *)
(* reach from the entry (a loop, a join or a jump over dead code changes   *)
(* nothing to that), each to all the blocks that may follow its last       *)
(* instruction, in the order target, fall-through; a node that cannot be   *)
(* reached has no links; and predecessors mirror successors, link by link. *)
(***************************************************************************)
Follows(l) ==
    LET e == LastInstr(l)
    IN  IF Kind(ir, e) = "ATM_CONDJMP" THEN <<Target(ir, e), e + 1>>
        ELSE IF Kind(ir, e) = "ATM_JMP" THEN <<Target(ir, e)>>
        ELSE IF IsLast(e) THEN <<>> ELSE <<e + 1>>

Occurs(s, l) == {k \in 1 .. Len(s) : s[k] = l}

CfgExact ==
    LET reached == Reachable(ir)
    IN  pc = "done" =>
       /\ header = 0
       /\ Linked = reached
       /\ \A l \in Nodes : succs[l] = IF l \in reached THEN Follows(l) ELSE <<>>
       /\ \A l, m \in Nodes :
             Cardinality(Occurs(preds[m], l)) = Cardinality(Occurs(succs[l], m))

(***************************************************************************)
(* The edge array of the finished graph is a spanning tree: each block     *)
(* linked but the header is the target of one edge, which joins it to one  *)
(* of its predecessors.                                                    *)
(***************************************************************************)
EdgesSpan ==
    pc = "done" =>
       /\ RangeOf([k \in DOMAIN edges |-> edges[k][2]]) = Linked \ {0}
       /\ \A j, k \in DOMAIN edges : edges[j][2] = edges[k][2] => j = k
       /\ \A k \in DOMAIN edges : edges[k][2] \in RangeOf(succs[edges[k][1]])

(***************************************************************************)
(* When every jump ends its block and no block starts behind a jump that   *)
(* is the last instruction, the instructions of the blocks linked are      *)
(* those the program can execute: decompiling the graph loses none and     *)
(* keeps no dead code.                                                     *)
(***************************************************************************)
FlowIsKept == UNION {Block(ir, l) : l \in Linked} = Executable(ir)

FlowPreserved ==
    /\ pc = "done" /\ JumpsEndBlocks(ir)
    /\ EndsPlainly(ir) \/ ir.index \notin Leaders(ir)
    => FlowIsKept

(***************************************************************************)
(* The recursion comes to an end on every program, loops included, and     *)
(* create_graph has its graph.                                             *)
(***************************************************************************)
Termination == <>(pc = "done")

(***************************************************************************)
(* The search implements the abstract one: each block it marks is one that *)
(* may follow a block marked before, and it returns to create_graph only   *)
(* when nothing is left to discover.                                       *)
(***************************************************************************)
Search ==
    INSTANCE FlowSearch WITH
        seen <- IF pc = "done" THEN Linked ELSE visited,
        finished <- pc = "done"

Implements == Search!Spec

=============================================================================
