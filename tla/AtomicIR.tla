------------------------------ MODULE AtomicIR ------------------------------
(***************************************************************************)
(* The intermediate representation that the back end reads (IR.h), cut     *)
(* down to what the construction of the control flow graph looks at: for   *)
(* each atomic instruction its kind and, for a jump, the offset it jumps   *)
(* to.  Instruction k of the IR has offset k (the lifter stamps them so).  *)
(*                                                                         *)
(* The operators below the record type describe the PROGRAM, not the code  *)
(* that reads it: what may execute, which offsets start a basic block.     *)
(***************************************************************************)
EXTENDS Integers, FiniteSets

CONSTANT Programs   \* the programs to decompile

\* ATM_OTHER stands for the seventeen kinds that transfer no control.
Kinds == {"ATM_JMP", "ATM_CONDJMP", "ATM_OTHER"}

Offsets(p) == 0 .. p.index - 1

Kind(p, k) == p.code[k].kind
Target(p, k) == p.code[k].target

IsJump(p, k) == Kind(p, k) \in {"ATM_JMP", "ATM_CONDJMP"}

(***************************************************************************)
(* What the lifter hands over: it may have no instruction at all (a        *)
(* listing of calls), may end with a jump of either kind, and a jump has   *)
(* whatever number its operand holds for its target.                       *)
(***************************************************************************)
IsProgram(p) ==
    /\ p.index \in Nat
    /\ p.code \in [Offsets(p) -> [kind : Kinds, target : Nat]]

(***************************************************************************)
(* There is an instruction, and no jump goes further than right behind the *)
(* last one.  (The cell there holds no instruction, but the lifter has     *)
(* written its offset, so a block that starts there is found: graph.c:139, *)
(* lifter_weeperVM.c:179.)                                                 *)
(***************************************************************************)
StartsInside(p) ==
    /\ p.index > 0
    /\ \A k \in Offsets(p) : IsJump(p, k) => Target(p, k) <= p.index

\* What create_graph supposes of its argument.
IsBuildable(p) == IsProgram(p) /\ StartsInside(p)

ASSUME ProgramsAssumption == \A p \in Programs : IsProgram(p)

-----------------------------------------------------------------------------
(***************************************************************************)
(* The offsets that start a basic block as get_info_graph collects them:   *)
(* the entry, every target, and what follows a conditional jump.  What     *)
(* follows an unconditional jump is not one of them.                       *)
(***************************************************************************)
Leaders(p) ==
    {0} \cup {Target(p, k) : k \in {j \in Offsets(p) : IsJump(p, j)}}
        \cup {k + 1 : k \in {j \in Offsets(p) : Kind(p, j) = "ATM_CONDJMP"}}

\* The size get_info_graph gives the edge array.
EdgeCapacity(p) ==
    Cardinality(Leaders(p)) - 1
      + Cardinality({l \in Leaders(p) \ {0} : Kind(p, l - 1) = "ATM_JMP"})

\* The offsets the flow goes to directly after k; p.index is the end.
InstrNext(p, k) ==
    CASE Kind(p, k) = "ATM_JMP" -> {Target(p, k)}
      [] Kind(p, k) = "ATM_CONDJMP" -> {Target(p, k), k + 1}
      [] OTHER -> {k + 1} \cap Offsets(p)

-----------------------------------------------------------------------------
(***************************************************************************)
(* The basic blocks: a block runs from its leader to the instruction       *)
(* before the next leader, the last one to the end of the program, and     *)
(* what follows it is what may follow its last instruction.  A block that  *)
(* starts behind the last instruction is empty, and the instruction before *)
(* it passes for its last one.                                             *)
(***************************************************************************)
IsBlockEnd(p, l, e) ==
    LET later == {m \in Leaders(p) : m > l}
    IN  IF later = {} THEN e = p.index - 1
        ELSE e + 1 \in later /\ \A m \in later : e < m

BlockEnd(p, l) == CHOOSE e \in -1 .. p.index - 1 : IsBlockEnd(p, l, e)

Block(p, l) == l .. BlockEnd(p, l)

BlockNext(p, l) == InstrNext(p, BlockEnd(p, l))

(***************************************************************************)
(* What can be reached from the entry: the instructions along the flow of  *)
(* the program, and the leaders along that of its blocks.  Both are the    *)
(* least set that holds the entry and is closed under the flow.            *)
(***************************************************************************)
FlowClosed(p, S) ==
    0 \in S /\ \A k \in S : InstrNext(p, k) \cap Offsets(p) \subseteq S

Executable(p) ==
    {k \in Offsets(p) :
        \A S \in SUBSET Offsets(p) : FlowClosed(p, S) => k \in S}

BlockClosed(p, S) == 0 \in S /\ \A l \in S : BlockNext(p, l) \subseteq S

Reachable(p) ==
    {l \in Leaders(p) :
        \A S \in SUBSET Leaders(p) : BlockClosed(p, S) => l \in S}

-----------------------------------------------------------------------------
(***************************************************************************)
(* Shapes of programs: one that does not end with a jump, as graph.c:211   *)
(* supposes; one in which, besides, a conditional jump follows an          *)
(* instruction that is no jump (its comparison); one in which every jump   *)
(* ends its basic block.                                                   *)
(***************************************************************************)
EndsPlainly(p) == Kind(p, p.index - 1) = "ATM_OTHER"

JumpsArePaced(p) ==
    /\ p.index > 0 /\ EndsPlainly(p)
    /\ \A k \in Offsets(p) :
          Kind(p, k) = "ATM_CONDJMP" => k > 0 /\ ~ IsJump(p, k - 1)

JumpsEndBlocks(p) ==
    \A k \in Offsets(p) :
       IsJump(p, k) /\ k + 1 < p.index => k + 1 \in Leaders(p)
=============================================================================
