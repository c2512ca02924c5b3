-------------------------------- MODULE Idom --------------------------------
(***************************************************************************)
(* compute_idom (domfrontier.c): a depth-first search numbers the nodes in *)
(* postorder, the list is inverted, and passes over it set each node's     *)
(* dominator to the meeting point of its predecessors' chains of           *)
(* dominators, until a pass changes none.                                  *)
(*                                                                         *)
(* Reading a list cell or a local variable that was never written is       *)
(* undefined behaviour: it yields WILD, and the first use of WILD as a     *)
(* node ends the run in the state "wild", which stands for whatever the    *)
(* process does from there.  Following a NULL pointer ends it in "crash".  *)
(***************************************************************************)
EXTENDS FlowGraph

CONSTANTS NULL, WILD

ASSUME MarksAssumption == NULL \notin Int /\ WILD \notin Int /\ NULL # WILD

VARIABLES
    cfg,        \* the argument
    pc,         \* the loop being run
    frames,     \* the pending calls of DFS: a node and the loop index in it
    visited,    \* the nodes whose visited flag is set
    post,       \* the list DFS fills, up to its index
    number,     \* node->number
    rpo,        \* list_post_order
    dominator,  \* node->dominator
    processed,  \* the nodes whose processed flag is set
    changed, i, k, new_idom,   \* the locals of compute_idom
    finger1, finger2           \* those of intersect

dfsVars == <<frames, visited, post>>
listVars == <<number, rpo>>
passVars == <<dominator, processed, changed, i>>
meetVars == <<k, new_idom, finger1, finger2>>
vars == <<cfg, pc, dfsVars, listVars, passVars, meetVars>>

Stopped == {"done", "wild", "crash"}

Size == cfg.size

Frame(node) == [node |-> node, next |-> 1]
Top == frames[Len(frames)]
Pop == SubSeq(frames, 1, Len(frames) - 1)

\* The nodes as the construction of the graph leaves them, and the call on
\* the header.
Init ==
    /\ cfg \in Cfgs
    /\ pc = "dfs"
    /\ frames = <<Frame(Header)>>
    /\ visited = {Header}
    /\ post = <<>>
    /\ number = [x \in Nodes(cfg) |-> 0]
    /\ rpo = [x \in Nodes(cfg) |-> WILD]
    /\ dominator = [x \in Nodes(cfg) |-> NULL]
    /\ processed = {}
    /\ changed = TRUE
    /\ i = 0 /\ k = 0
    /\ new_idom = WILD /\ finger1 = WILD /\ finger2 = WILD

-----------------------------------------------------------------------------
\* DFS and reverse_post_order

HasNext == Top.next <= Len(cfg.succs[Top.node])
NextNode == cfg.succs[Top.node][Top.next]

\* The loop index of the innermost call moves on.
Advanced(fs) == [fs EXCEPT ![Len(fs)].next = @ + 1]

DfsVisit ==
    /\ pc = "dfs" /\ HasNext /\ NextNode \notin visited
    /\ visited' = visited \cup {NextNode}
    /\ frames' = Append(frames, Frame(NextNode))
    /\ UNCHANGED <<cfg, pc, post, listVars, passVars, meetVars>>

DfsSkip ==
    /\ pc = "dfs" /\ HasNext /\ NextNode \in visited
    /\ frames' = Advanced(frames)
    /\ UNCHANGED <<cfg, pc, visited, post, listVars, passVars, meetVars>>

(***************************************************************************)
(* A call returns, and its caller numbers and lists the node.  (The number *)
(* of the tree edge is written to a local copy of the edge and lost.)      *)
(***************************************************************************)
DfsReturn ==
    /\ pc = "dfs" /\ ~ HasNext /\ Len(frames) > 1
    /\ number' = [number EXCEPT ![Top.node] = Len(post)]
    /\ post' = Append(post, Top.node)
    /\ frames' = Advanced(Pop)
    /\ UNCHANGED <<cfg, pc, visited, rpo, passVars, meetVars>>

\* Faults: nb_nodes, not nb_nodes - 1; the header is not numbered.
LastNumberOff == Size
LastNumberNone == 0

\* What reverse_post_order sets node->number of the header to.
LastNumber == Size - 1

\* temp: what DFS listed, the header in the last cell, WILD in between.
Temp(j) ==
    CASE j = Size - 1 -> Header
      [] j < Len(post) -> post[j + 1]
      [] OTHER -> WILD

\* Fault: the list is not inverted.
InvertedNot(j) == Temp(j)

Inverted(j) == Temp(Size - 1 - j)

(***************************************************************************)
(* The call on the header has returned: the header gets the last number,   *)
(* the flags are cleared, the list is inverted, and compute_idom makes the *)
(* header its own dominator.                                               *)
(***************************************************************************)
Invert ==
    /\ pc = "dfs" /\ ~ HasNext /\ Len(frames) = 1
    /\ number' = [number EXCEPT ![Header] = LastNumber]
    /\ rpo' = [j \in Nodes(cfg) |-> Inverted(j)]
    /\ visited' = {}
    /\ frames' = <<>>
    /\ dominator' = [dominator EXCEPT ![Header] = Header]
    /\ processed' = {Header}
    /\ changed' = FALSE
    /\ i' = 1
    /\ pc' = "pass"
    /\ UNCHANGED <<cfg, post, meetVars>>

-----------------------------------------------------------------------------
\* compute_idom and intersect

B == rpo[i]
P == cfg.preds[B][k]

\* Fault: new_idom starts at the header, not at a predecessor.
FirstProcessedHeader(b) == Header

\* The first processed predecessor, or the uninitialised local.
FirstProcessed(b) ==
    LET s == cfg.preds[b]
        found == {j \in 1 .. Len(s) : s[j] \in processed}
    IN  IF found = {} THEN WILD
        ELSE s[CHOOSE j \in found : \A m \in found : j <= m]

StartNode ==
    /\ pc = "pass" /\ i < Size
    /\ IF B = WILD
       THEN pc' = "wild" /\ UNCHANGED <<k, new_idom>>
       ELSE /\ new_idom' = FirstProcessed(B)
            /\ k' = 1
            /\ pc' = "preds"
    /\ UNCHANGED <<cfg, dfsVars, listVars, passVars, finger1, finger2>>

SkipPred ==
    /\ pc = "preds" /\ k <= Len(cfg.preds[B]) /\ dominator[P] = NULL
    /\ k' = k + 1
    /\ UNCHANGED <<cfg, pc, dfsVars, listVars, passVars, new_idom, finger1, finger2>>

MeetPred ==
    /\ pc = "preds" /\ k <= Len(cfg.preds[B]) /\ dominator[P] # NULL
    /\ finger1' = P
    /\ finger2' = new_idom
    /\ pc' = IF new_idom = WILD THEN "wild" ELSE "intersect"
    /\ UNCHANGED <<cfg, dfsVars, listVars, passVars, k, new_idom>>

\* Fault: the comparison of the fingers is swapped.
BelowSwapped(x, y) == number[x] > number[y]

\* x is the finger further from the header.
Below(x, y) == number[x] < number[y]

\* The finger with the smaller number climbs to its dominator.
Climb ==
    /\ pc = "intersect" /\ number[finger1] # number[finger2]
    /\ IF Below(finger1, finger2)
       THEN finger1' = dominator[finger1] /\ finger2' = finger2
       ELSE finger1' = finger1 /\ finger2' = dominator[finger2]
    /\ pc' = IF NULL \in {finger1', finger2'} THEN "crash" ELSE pc
    /\ UNCHANGED <<cfg, dfsVars, listVars, passVars, k, new_idom>>

Meet ==
    /\ pc = "intersect" /\ number[finger1] = number[finger2]
    /\ new_idom' = finger1
    /\ k' = k + 1
    /\ pc' = "preds"
    /\ UNCHANGED <<cfg, dfsVars, listVars, passVars, finger1, finger2>>

SetDominator ==
    /\ pc = "preds" /\ k > Len(cfg.preds[B])
    /\ IF dominator[B] # new_idom
       THEN /\ dominator' = [dominator EXCEPT ![B] = new_idom]
            /\ processed' = processed \cup {B}
            /\ changed' = TRUE
       ELSE UNCHANGED <<dominator, processed, changed>>
    /\ i' = i + 1
    /\ pc' = IF new_idom = WILD THEN "wild" ELSE "pass"
    /\ UNCHANGED <<cfg, dfsVars, listVars, meetVars>>

\* Fault: a single pass.
AnotherPassNever == FALSE

AnotherPass == changed

EndPass ==
    /\ pc = "pass" /\ i >= Size
    /\ IF AnotherPass
       THEN pc' = pc /\ changed' = FALSE /\ i' = 1
       ELSE pc' = "done" /\ UNCHANGED <<changed, i>>
    /\ UNCHANGED <<cfg, dfsVars, listVars, dominator, processed, meetVars>>

Next ==
    \/ DfsVisit \/ DfsSkip \/ DfsReturn \/ Invert
    \/ StartNode \/ SkipPred \/ MeetPred \/ Climb \/ Meet
    \/ SetDominator \/ EndPass

\* One thread, no blocking call.
Fairness == WF_vars(Next)

Spec == Init /\ [][Next]_vars /\ Fairness

-----------------------------------------------------------------------------
(***************************************************************************)
(* The lists hold nodes or what was never written, the numbers stay below  *)
(* nb_nodes, and the fingers are nodes, NULL or a value never written.     *)
(***************************************************************************)
TypeOK ==
    /\ IsCfg(cfg)
    /\ pc \in {"dfs", "pass", "preds", "intersect"} \cup Stopped
    /\ frames \in Seq([node : Nodes(cfg), next : Nat])
    /\ visited \in SUBSET Nodes(cfg)
    /\ post \in Seq(Nodes(cfg))
    /\ number \in [Nodes(cfg) -> Nodes(cfg)]
    /\ rpo \in [Nodes(cfg) -> Nodes(cfg) \cup {WILD}]
    /\ dominator \in [Nodes(cfg) -> Nodes(cfg) \cup {NULL, WILD}]
    /\ processed \in SUBSET Nodes(cfg)
    /\ changed \in BOOLEAN
    /\ i \in Nat /\ k \in Nat
    /\ {new_idom, finger1, finger2} \subseteq Nodes(cfg) \cup {NULL, WILD}

(***************************************************************************)
(* What intersect relies on when it compares numbers: the list of a graph  *)
(* without unreachable nodes holds each node once, header first, in        *)
(* descending number, and a strict dominator is numbered above the node.   *)
(***************************************************************************)
RpoOrder ==
    pc \notin {"dfs", "wild"} /\ AllReachable(cfg) =>
       /\ rpo[0] = Header
       /\ \A x \in Nodes(cfg) : rpo[Size - 1 - number[x]] = x
       /\ \A d, b \in Nodes(cfg) :
             StrictlyDominates(cfg, d, b) => number[d] > number[b]

\* The nodes met by following dominators up from x.
Chain(x) ==
    {y \in Nodes(cfg) :
        \A S \in SUBSET Nodes(cfg) :
           x \in S /\ (\A z \in S : dominator[z] \in S \cup {NULL, WILD}) => y \in S}

(***************************************************************************)
(* The iteration approaches the dominators from above: at every step, in   *)
(* the middle of a pass too, the chain of a processed node still holds all *)
(* the nodes that dominate it, so stopping is the only thing left to       *)
(* justify.                                                                *)
(***************************************************************************)
ChainsHoldDominators ==
    pc \notin {"dfs", "wild"} /\ AllReachable(cfg) =>
       \A x \in processed : Dominators(cfg, x) \subseteq Chain(x)

(***************************************************************************)
(* When no pass changes anything any more (domfrontier.c:102), each node   *)
(* but the header has its immediate dominator, and the header is its own.  *)
(***************************************************************************)
IdomExact ==
    pc = "done" /\ AllReachable(cfg) =>
       /\ dominator[Header] = Header
       /\ \A b \in Nodes(cfg) \ {Header} : IsIdom(cfg, dominator[b], b)

(***************************************************************************)
(* A dominator, once set, only climbs: no step moves it down the numbering *)
(* or back to NULL, which is what makes the passes come to an end.         *)
(***************************************************************************)
DominatorsClimb ==
    [][AllReachable(cfg) =>
         \A x \in Nodes(cfg) :
            dominator[x] # NULL /\ dominator'[x] # dominator[x] =>
               number[dominator'[x]] > number[dominator[x]]]_vars

(***************************************************************************)
(* On a graph without unreachable nodes the passes come to an end, and     *)
(* neither in "wild" nor in "crash": no cell of the list and no new_idom   *)
(* that was not written is used (domfrontier.c:108-125), and intersect     *)
(* never climbs off a chain (domfrontier.c:75, 79).                        *)
(***************************************************************************)
Termination == AllReachable(cfg) => <>(pc = "done")

(***************************************************************************)
(* domfrontier.c:105 announces "for all nodes b in reverse postorder       *)
(* except for start_node": the list has a node in every cell, whatever the *)
(* graph.                                                                  *)
(***************************************************************************)
ListComplete == pc # "wild"
=============================================================================
