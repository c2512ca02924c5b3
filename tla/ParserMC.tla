------------------------------ MODULE ParserMC ------------------------------
(***************************************************************************)
(* Parser on the listings of small programs with at most one word changed, *)
(* and a count of instructions that may be wrong.                          *)
(***************************************************************************)
EXTENDS Parser, SmallListings

CONSTANT MaxCount

MCLists == ListsAround(SmallPrograms, 1 .. MaxCount)

=============================================================================
