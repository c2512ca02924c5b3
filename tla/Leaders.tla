------------------------------- MODULE Leaders -------------------------------
(***************************************************************************)
(* get_info_graph (graph.c): the offsets that start a basic block are      *)
(* appended to an array while the instructions are scanned, sorted,        *)
(* compacted in place, and the array is cut to what is left; a last loop   *)
(* computes how many edges the graph is given room for.                    *)
(*                                                                         *)
(* The array is allocated for ir.index offsets before the scan knows how   *)
(* many it will write.  list holds what has been written, cell k of the C  *)
(* array being list[k + 1]; overrun records that a write went past the     *)
(* allocation.  During the scan the C variable *nb_edges is Len(list).     *)
(***************************************************************************)
EXTENDS AtomicIR, Sequences

VARIABLES
    ir,              \* the argument: never written
    pc,              \* the loop being run
    i,               \* its index
    list,            \* *list_node_indices
    nb_basic_nodes,  \* *nb_basic_nodes
    nb_edges,        \* nb_edges_final
    overrun          \* the scan wrote outside the allocation

vars == <<ir, pc, i, list, nb_basic_nodes, nb_edges, overrun>>

Stopped == {"done", "exit", "abort", "wild"}

\* The locals when get_info_graph is called.
Entry ==
    /\ pc = "alloc"
    /\ i = 0
    /\ list = <<>>
    /\ nb_basic_nodes = 0
    /\ nb_edges = 0
    /\ overrun = FALSE

Init == ir \in Programs /\ Entry

\* malloc, and the entry of the program as the first leader.
Alloc ==
    /\ pc = "alloc"
    /\ \/ pc' = "scan" /\ list' = <<0>>
       \/ pc' = "exit" /\ list' = list      \* malloc() returned NULL
    /\ overrun' = (Len(list') > ir.index)
    /\ UNCHANGED <<ir, i, nb_basic_nodes, nb_edges>>

\* Faults: the instruction after an unconditional jump is a leader too; the
\* instruction after a conditional one is not; it is the one after that.
WrittenAfterJmp(p, k) == IF IsJump(p, k) THEN <<Target(p, k), k + 1>> ELSE <<>>
WrittenTargetOnly(p, k) == IF IsJump(p, k) THEN <<Target(p, k)>> ELSE <<>>
WrittenNextBut(p, k) == IF IsJump(p, k) THEN <<Target(p, k), k + 2>> ELSE <<>>

\* What the scan appends for instruction k.
Written(p, k) ==
    CASE Kind(p, k) = "ATM_JMP" -> <<Target(p, k)>>
      [] Kind(p, k) = "ATM_CONDJMP" -> <<Target(p, k), k + 1>>
      [] OTHER -> <<>>

ScanInstr ==
    /\ pc = "scan" /\ i < ir.index
    /\ list' = list \o Written(ir, i)
    /\ overrun' = (overrun \/ Len(list') > ir.index)
    /\ i' = i + 1
    /\ UNCHANGED <<ir, pc, nb_basic_nodes, nb_edges>>

(***************************************************************************)
(* qsort with compare_ints: cell k of the result is the value that at most *)
(* k - 1 cells are below and at least k cells do not exceed.               *)
(***************************************************************************)
Below(s, v) == {j \in 1 .. Len(s) : s[j] < v}
UpTo(s, v) == {j \in 1 .. Len(s) : s[j] <= v}

IsKthSmallest(s, k, v) ==
    Cardinality(Below(s, v)) < k /\ k <= Cardinality(UpTo(s, v))

\* Fault: the array is not sorted.
SortedNot(s) == s

Sorted(s) ==
    [k \in 1 .. Len(s) |->
        CHOOSE v \in {s[j] : j \in 1 .. Len(s)} : IsKthSmallest(s, k, v)]

Sort ==
    /\ pc = "scan" /\ i = ir.index
    /\ list' = Sorted(list)
    /\ pc' = "dedup" /\ i' = 0
    /\ UNCHANGED <<ir, nb_basic_nodes, nb_edges, overrun>>

\* Fault: a cell is kept only when it has a left neighbour it differs from.
IsFreshLater(s, k) == k > 0 /\ s[k + 1] # s[k]

\* Cell i is kept when it differs from its left neighbour, as the array is now.
IsFresh(s, k) == k = 0 \/ s[k + 1] # s[k]

Dedup ==
    /\ pc = "dedup" /\ i < Len(list)
    /\ IF IsFresh(list, i)
       THEN /\ list' = [list EXCEPT ![nb_basic_nodes + 1] = list[i + 1]]
            /\ nb_basic_nodes' = nb_basic_nodes + 1
       ELSE UNCHANGED <<list, nb_basic_nodes>>
    /\ i' = i + 1
    /\ UNCHANGED <<ir, pc, nb_edges, overrun>>

(***************************************************************************)
(* realloc to the offsets kept.  After an overrun the allocator may find   *)
(* its metadata corrupted and abort, or go on.                             *)
(***************************************************************************)
Truncate ==
    /\ pc = "dedup" /\ i = Len(list)
    /\ \/ pc' = "count" /\ list' = SubSeq(list, 1, nb_basic_nodes)
       \/ overrun /\ pc' = "abort" /\ list' = list
    /\ i' = 0
    /\ UNCHANGED <<ir, nb_basic_nodes, nb_edges, overrun>>

\* The room one pair of neighbouring blocks adds to the edge array.
EdgeRoom(p, next) == IF Kind(p, next - 1) = "ATM_JMP" THEN 2 ELSE 1

CountEdges ==
    /\ pc = "count" /\ i < nb_basic_nodes - 1
    /\ list[i + 2] - 1 \in Offsets(ir)
    /\ nb_edges' = nb_edges + EdgeRoom(ir, list[i + 2])
    /\ i' = i + 1
    /\ UNCHANGED <<ir, pc, list, nb_basic_nodes, overrun>>

\* The kind of a cell that holds no instruction is read.
CountWild ==
    /\ pc = "count" /\ i < nb_basic_nodes - 1
    /\ list[i + 2] - 1 \notin Offsets(ir)
    /\ pc' = "wild"
    /\ UNCHANGED <<ir, i, list, nb_basic_nodes, nb_edges, overrun>>

Return ==
    /\ pc = "count" /\ i >= nb_basic_nodes - 1
    /\ pc' = "done"
    /\ UNCHANGED <<ir, i, list, nb_basic_nodes, nb_edges, overrun>>

Next ==
    \/ Alloc
    \/ ScanInstr
    \/ Sort
    \/ Dedup
    \/ Truncate
    \/ CountEdges
    \/ CountWild
    \/ Return

\* The function runs on the only thread and never blocks.
Fairness == WF_vars(Next)

Spec == Init /\ [][Next]_vars /\ Fairness

-----------------------------------------------------------------------------
(***************************************************************************)
(* The variables of get_info_graph keep the ranges the code relies on, and *)
(* graph.c:62, which indexes the IR with the cells of the array, reads a   *)
(* cell that holds no instruction only when a jump goes further than right *)
(* behind the last one.                                                    *)
(***************************************************************************)
TypeOK ==
    /\ IsProgram(ir)
    /\ pc \in {"alloc", "scan", "dedup", "count"} \cup Stopped
    /\ i \in Nat
    /\ list \in Seq(Nat)
    /\ nb_basic_nodes \in Nat
    /\ nb_edges \in Nat
    /\ overrun \in BOOLEAN
    /\ pc = "wild" => ~ StartsInside(ir)

(***************************************************************************)
(* graph.c:21 allocates one cell per instruction and graph.c:36-41 writes  *)
(* up to two per instruction without a check: the writes stay inside as    *)
(* long as every conditional jump has a non-jump in front of it to pay for *)
(* its second cell and the last instruction pays for the entry's.          *)
(***************************************************************************)
ListFits == JumpsArePaced(ir) => ~ overrun

(***************************************************************************)
(* The compaction of graph.c:49-55 reads its left neighbour in the array   *)
(* it is overwriting: at every step the kept cells and the cells not yet   *)
(* read still hold every leader between them, and the kept ones ascend.    *)
(***************************************************************************)
CompactionLosesNoLeader ==
    pc = "dedup" =>
       /\ {list[k] : k \in (1 .. nb_basic_nodes) \cup (i + 1 .. Len(list))}
            = Leaders(ir)
       /\ \A j, k \in 1 .. nb_basic_nodes : j < k => list[j] < list[k]

(***************************************************************************)
(* When graph.c:56 has cut the array, it is what create_graph takes it     *)
(* for: the offsets that start a block, each once and in ascending order,  *)
(* even after an overrun the allocator did not notice; and create_graph    *)
(* is called only when none of them lies beyond the cell that follows the  *)
(* last instruction.                                                       *)
(***************************************************************************)
StartsExact ==
    pc \in {"count", "done"} =>
       /\ \A j, k \in 1 .. Len(list) : j < k => list[j] < list[k]
       /\ {list[k] : k \in 1 .. Len(list)} = Leaders(ir)
       /\ Len(list) = nb_basic_nodes
       /\ pc = "done" /\ ir.index > 0 => StartsInside(ir)

(***************************************************************************)
(* get_info_graph delivers in one step what LeaderSpec promises, and what  *)
(* it computes on the way is invisible.                                    *)
(***************************************************************************)
Promise ==
    INSTANCE LeaderSpec WITH
        starts <- IF pc = "done" THEN list ELSE <<>>,
        room <- IF pc = "done" THEN nb_edges ELSE 0

Implements == Promise!Spec

=============================================================================
