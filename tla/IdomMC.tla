------------------------------- MODULE IdomMC -------------------------------
(***************************************************************************)
(* Idom on every graph of at most MaxNodes nodes.                          *)
(***************************************************************************)
EXTENDS Idom, SmallCfgs

CONSTANT MaxNodes

MCCfgs == CfgsUpTo(MaxNodes)

\* Those of the programs that do not end with a jump, as graph.c:211 supposes.
MCPlainCfgs == {g \in MCCfgs : g.succs[g.size - 1] = <<>>}
=============================================================================
