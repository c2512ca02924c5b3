---------------------------- MODULE CfgBuilderMC ----------------------------
(***************************************************************************)
(* CfgBuilder on every program of at most MaxLen instructions.             *)
(***************************************************************************)
EXTENDS CfgBuilder, SmallPrograms

CONSTANT MaxLen

MCPrograms == ProgramsUpTo(MaxLen)
=============================================================================
