----------------------------- MODULE LeaderSpec -----------------------------
(***************************************************************************)
(* What get_info_graph (graph.c) promises its caller: in one step, the     *)
(* offsets that start a basic block, each once and in ascending order, and *)
(* the number of cells of the edge array.  It comes back only when every   *)
(* start is one that create_graph can look at.                             *)
(***************************************************************************)
EXTENDS AtomicIR, Sequences

VARIABLES ir, starts, room

vars == <<ir, starts, room>>

IsEnumeration(s, S) ==
    /\ \A j, k \in 1 .. Len(s) : j < k => s[j] < s[k]
    /\ {s[j] : j \in 1 .. Len(s)} = S

Init ==
    /\ IsProgram(ir)
    /\ starts = <<>>
    /\ room = 0

Deliver ==
    /\ starts = <<>>
    /\ ir.index > 0 => StartsInside(ir)
    /\ IsEnumeration(starts', Leaders(ir))
    /\ room' = EdgeCapacity(ir)
    /\ ir' = ir

Spec == Init /\ [][Deliver]_vars
=============================================================================
