----------------------------- MODULE FlowSearch -----------------------------
(***************************************************************************)
(* What the construction of the graph (graph.c) promises about the blocks  *)
(* it links: it discovers them from the entry along the flow of the        *)
(* program, in whatever order, each once, and it is finished only when the *)
(* successors of every block discovered have been discovered.              *)
(***************************************************************************)
EXTENDS AtomicIR

VARIABLES ir, seen, finished

vars == <<ir, seen, finished>>

Init ==
    /\ IsBuildable(ir)
    /\ seen = {}
    /\ finished = FALSE

\* The blocks the search may discover next.
Frontier ==
    IF seen = {} THEN {0} ELSE (UNION {BlockNext(ir, l) : l \in seen}) \ seen

Discover ==
    /\ ~ finished
    /\ \E l \in Frontier : seen' = seen \cup {l}
    /\ UNCHANGED <<ir, finished>>

Finish ==
    /\ ~ finished
    /\ Frontier = {}
    /\ finished' = TRUE
    /\ UNCHANGED <<ir, seen>>

Next == Discover \/ Finish

Spec == Init /\ [][Next]_vars
=============================================================================
