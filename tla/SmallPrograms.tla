---------------------------- MODULE SmallPrograms ----------------------------
(***************************************************************************)
(* The programs of at most n instructions for the model-checking runs:     *)
(* every kind at every place, every target up to one beyond the cell that  *)
(* follows the last instruction.  An instruction that is no jump has no    *)
(* target: its field is 0, so that two programs that differ do so in what  *)
(* they do.                                                                *)
(***************************************************************************)
EXTENDS Integers, FiniteSets

LOCAL Instrs(n) ==
    [kind : {"ATM_JMP", "ATM_CONDJMP"}, target : 0 .. n + 1]
      \cup [kind : {"ATM_OTHER"}, target : {0}]

ProgramsUpTo(n) ==
    {[index |-> Cardinality(DOMAIN code), code |-> code] :
        code \in UNION {[0 .. m - 1 -> Instrs(m)] : m \in 0 .. n}}
=============================================================================
