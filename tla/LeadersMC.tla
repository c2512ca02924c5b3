------------------------------ MODULE LeadersMC ------------------------------
(***************************************************************************)
(* Leaders on every program of at most MaxLen instructions.                *)
(***************************************************************************)
EXTENDS Leaders, SmallPrograms

CONSTANT MaxLen

MCPrograms == ProgramsUpTo(MaxLen)
=============================================================================
