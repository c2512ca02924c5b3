------------------------------ MODULE LifterMC ------------------------------
(***************************************************************************)
(* Lifter on every assembly program of at most MaxLen instructions.        *)
(***************************************************************************)
EXTENDS Lifter, SmallAsms

CONSTANT MaxLen

MCAsms == AsmsUpTo(MaxLen)
=============================================================================
