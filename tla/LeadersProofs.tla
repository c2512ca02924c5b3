---------------------------- MODULE LeadersProofs ----------------------------
(***************************************************************************)
(* The theorems about get_info_graph, for every set of programs.           *)
(***************************************************************************)
EXTENDS Leaders, FiniteSetTheorems, SequenceTheorems, TLAPS

(***************************************************************************)
(* A nonempty set of naturals has a least element.                         *)
(***************************************************************************)
LEMMA NatHasLeast ==
    ASSUME NEW S \in SUBSET Nat, S # {}
    PROVE  \E m \in S : \A x \in S : m <= x
<1>1. \E m \in S : \A x \in S : ~ (<<x, m>> \in OpToRel(<, Nat))
    BY WFMin, NatLessThanWellFounded, Zenon
<1>2. \E m \in S : \A x \in S : ~ (x < m)
    BY <1>1, Zenon DEF OpToRel
<1> QED
    BY <1>2

(***************************************************************************)
(* What is known of an instruction of a program.                           *)
(***************************************************************************)
LEMMA InstrFacts ==
    ASSUME NEW p, IsProgram(p), NEW k \in Offsets(p)
    PROVE  /\ p.index \in Nat \ {0}
           /\ Kind(p, k) \in Kinds
           /\ Target(p, k) \in Nat
<1>1. p.code[k] \in [kind : Kinds, target : Nat]
    BY DEF IsProgram
<1> QED
    BY <1>1 DEF IsProgram, Kind, Target, Offsets

Cells(s) == {s[j] : j \in 1 .. Len(s)}

(***************************************************************************)
(* The sets of cells that qsort's result is defined by are finite, at most *)
(* as large as the array, and grow with the bound.                         *)
(***************************************************************************)
LEMMA CellCounts ==
    ASSUME NEW s \in Seq(Nat), NEW v \in Nat
    PROVE  /\ IsFiniteSet(Below(s, v)) /\ Cardinality(Below(s, v)) \in Nat
           /\ IsFiniteSet(UpTo(s, v)) /\ Cardinality(UpTo(s, v)) \in Nat
           /\ Cardinality(UpTo(s, v)) <= Len(s)
           /\ \A w \in Nat : w < v => Cardinality(UpTo(s, w)) <= Cardinality(Below(s, v))
<1>1. IsFiniteSet(1 .. Len(s)) /\ Cardinality(1 .. Len(s)) = Len(s)
    <2> Len(s) \in Nat
        BY LenProperties
    <2>1. /\ IsFiniteSet(1 .. Len(s))
          /\ Cardinality(1 .. Len(s)) = IF 1 > Len(s) THEN 0 ELSE Len(s) - 1 + 1
        BY FS_Interval
    <2> QED
        BY <2>1
<1>2. Below(s, v) \in SUBSET (1 .. Len(s)) /\ UpTo(s, v) \in SUBSET (1 .. Len(s))
    BY DEF Below, UpTo
<1>3. IsFiniteSet(Below(s, v)) /\ IsFiniteSet(UpTo(s, v))
         /\ Cardinality(UpTo(s, v)) <= Len(s)
    BY <1>1, <1>2, FS_Subset
<1>4. Cardinality(Below(s, v)) \in Nat /\ Cardinality(UpTo(s, v)) \in Nat
    BY <1>3, FS_CardinalityType
<1>5. ASSUME NEW w \in Nat, w < v
      PROVE  Cardinality(UpTo(s, w)) <= Cardinality(Below(s, v))
    <2>1. UpTo(s, w) \in SUBSET Below(s, v)
        <3> SUFFICES ASSUME NEW j \in 1 .. Len(s), s[j] <= w
                     PROVE  s[j] < v
            BY DEF UpTo, Below
        <3>1. s[j] \in Nat
            BY ElementOfSeq
        <3> QED
            BY <3>1, <1>5
    <2> QED
        BY <2>1, <1>3, FS_Subset
<1> QED
    BY <1>3, <1>4, <1>5

(***************************************************************************)
(* The cells of an array have an upper bound: a shortest beginning without *)
(* one would have one cell more than a beginning that has one.             *)
(***************************************************************************)
LEMMA CellsBounded ==
    ASSUME NEW s \in Seq(Nat)
    PROVE  \E n \in Nat : \A j \in 1 .. Len(s) : s[j] < n
<1> DEFINE Fits(h, b) == \A j \in 1 .. h : s[j] < b
           B == {h \in 0 .. Len(s) : \A b \in Nat : ~ Fits(h, b)}
<1>0. Len(s) \in Nat /\ \A j \in 1 .. Len(s) : s[j] \in Nat
    BY LenProperties, ElementOfSeq
<1>1. SUFFICES ASSUME B # {} PROVE FALSE
    <2>1. Len(s) \in 0 .. Len(s)
        BY <1>0
    <2> QED
        BY <2>1
<1>2. PICK m \in B : \A x \in B : m <= x
    <2>1. B \in SUBSET Nat
        BY <1>0
    <2> HIDE DEF B
    <2> QED
        BY <1>1, <2>1, NatHasLeast
<1>3. m # 0
    <2>1. Fits(0, 0)
        OBVIOUS
    <2> QED
        BY <2>1
<1>4. m \in 1 .. Len(s) /\ m - 1 \in 0 .. Len(s) /\ m - 1 < m
    BY <1>0, <1>3
<1>5. PICK n \in Nat : Fits(m - 1, n)
    <2>1. m - 1 \notin B
        <3> HIDE DEF B
        <3> QED
            BY <1>2, <1>4
    <2> QED
        BY <1>4, <2>1
<1>6. \A j \in 1 .. m : j = m \/ j \in 1 .. m - 1
    BY <1>4
<1>7. \A b \in Nat : ~ Fits(m, b)
    OBVIOUS
<1> HIDE DEF B
<1>8. s[m] \in Nat
    BY <1>0, <1>4
<1>9. CASE s[m] < n
    <2>1. Fits(m, n)
        BY <1>5, <1>6, <1>9
    <2> QED
        BY <1>7, <2>1
<1>10. CASE ~ (s[m] < n)
    <2>1. ASSUME NEW j \in 1 .. m - 1 PROVE s[j] < s[m] + 1
        <3>1. s[j] < n /\ s[j] \in Nat
            BY <1>0, <1>4, <1>5
        <3> HIDE DEF Fits
        <3> QED
            BY <1>8, <1>10, <3>1
    <2>2. s[m] < s[m] + 1 /\ s[m] + 1 \in Nat
        BY <1>8
    <2>3. Fits(m, s[m] + 1)
        BY <1>6, <2>1, <2>2
    <2> QED
        BY <1>7, <2>2, <2>3
<1> QED
    BY <1>9, <1>10

(***************************************************************************)
(* Each cell of qsort's result exists: for every k up to the length of the *)
(* array, some cell of it is the k-th smallest.                            *)
(***************************************************************************)
LEMMA KthSmallestExists ==
    ASSUME NEW s \in Seq(Nat), NEW k \in 1 .. Len(s)
    PROVE  \E v \in Cells(s) : IsKthSmallest(s, k, v)
<1>0. PICK n \in Nat : \A j \in 1 .. Len(s) : s[j] < n
    BY CellsBounded
<1> DEFINE N == {v \in Nat : k <= Cardinality(UpTo(s, v))}
<1>1. n \in N
    <2>1. \A j \in 1 .. Len(s) : s[j] <= n
        BY <1>0, ElementOfSeq
    <2>2. UpTo(s, n) = 1 .. Len(s)
        BY <2>1 DEF UpTo
    <2> QED
        BY <2>2, FS_Interval, LenProperties
<1>2. PICK v \in N : \A x \in N : v <= x
    <2> N \in SUBSET Nat /\ N # {}
        BY <1>1
    <2> HIDE DEF N
    <2> QED
        BY NatHasLeast
<1>3. Cardinality(Below(s, v)) < k
    <2>1. CASE v = 0
        <3>1. Below(s, v) = {}
            <4> SUFFICES ASSUME NEW j \in 1 .. Len(s), s[j] < 0
                         PROVE  FALSE
                BY <2>1 DEF Below
            <4> s[j] \in Nat
                BY ElementOfSeq
            <4> QED
                OBVIOUS
        <3> QED
            BY <3>1, FS_EmptySet
    <2>2. CASE v # 0
        <3>1. v - 1 \in Nat /\ v - 1 \notin N
            BY <1>2, <2>2
        <3>2. Below(s, v) = UpTo(s, v - 1)
            <4>1. \A j \in 1 .. Len(s) : s[j] \in Nat
                BY ElementOfSeq
            <4> QED
                BY <4>1, <3>1 DEF Below, UpTo
        <3>3. Cardinality(UpTo(s, v - 1)) \in Nat
            BY <3>1, CellCounts
        <3> QED
            BY <3>1, <3>2, <3>3
    <2> QED
        BY <2>1, <2>2
<1>4. v \in Cells(s)
    <2>1. ASSUME v \notin Cells(s)
          PROVE  FALSE
        <3>1. \A j \in 1 .. Len(s) : s[j] \in Nat /\ s[j] # v
            BY <2>1, ElementOfSeq DEF Cells
        <3>2. Below(s, v) = UpTo(s, v)
            BY <3>1, <1>2 DEF Below, UpTo
        <3> QED
            BY <3>2, <1>2, <1>3, CellCounts
    <2> QED
        BY <2>1
<1> QED
    BY <1>2, <1>3, <1>4 DEF IsKthSmallest

(***************************************************************************)
(* qsort returns an array of the same length with the same cells, in       *)
(* ascending order.                                                        *)
(***************************************************************************)
LEMMA SortedProperties ==
    ASSUME NEW s \in Seq(Nat)
    PROVE  /\ Sorted(s) \in Seq(Nat)
           /\ Len(Sorted(s)) = Len(s)
           /\ Cells(Sorted(s)) = Cells(s)
           /\ \A j, k \in 1 .. Len(s) : j < k => Sorted(s)[j] <= Sorted(s)[k]
<1> DEFINE t == Sorted(s)
<1>0. Len(s) \in Nat /\ \A j \in 1 .. Len(s) : s[j] \in Nat
    BY LenProperties, ElementOfSeq
<1>1. ASSUME NEW k \in 1 .. Len(s)
      PROVE  t[k] \in Cells(s) /\ IsKthSmallest(s, k, t[k])
    <2>1. t[k] = CHOOSE v \in Cells(s) : IsKthSmallest(s, k, v)
        BY DEF Sorted, Cells
    <2>2. \E v \in Cells(s) : IsKthSmallest(s, k, v)
        BY KthSmallestExists
    <2> QED
        BY <2>1, <2>2, Zenon
<1>2. \A v \in Cells(s) : v \in Nat
    BY <1>0 DEF Cells
<1>3. t \in Seq(Nat) /\ Len(t) = Len(s)
    <2>1. t \in [1 .. Len(s) -> Nat]
        <3>1. t = [k \in 1 .. Len(s) |-> t[k]]
            BY DEF Sorted
        <3> HIDE DEF t
        <3> QED
            BY <3>1, <1>1, <1>2
    <2> HIDE DEF t
    <2>2. t \in Seq(Nat)
        BY <2>1, <1>0, SeqDef
    <2>3. Len(t) \in Nat /\ 1 .. Len(t) = 1 .. Len(s)
        BY <2>1, <2>2, LenProperties
    <2> QED
        BY <2>2, <2>3, <1>0
<1>4. ASSUME NEW j \in 1 .. Len(s), NEW k \in 1 .. Len(s), j < k
      PROVE  t[j] <= t[k]
    <2>1. t[j] \in Nat /\ t[k] \in Nat
        BY <1>1, <1>2
    <2>2. Cardinality(Below(s, t[j])) < j /\ k <= Cardinality(UpTo(s, t[k]))
        BY <1>1 DEF IsKthSmallest
    <2>3. t[k] < t[j] => Cardinality(UpTo(s, t[k])) <= Cardinality(Below(s, t[j]))
        BY <2>1, CellCounts
    <2>4. Cardinality(Below(s, t[j])) \in Nat /\ Cardinality(UpTo(s, t[k])) \in Nat
        BY <2>1, CellCounts
    <2> HIDE DEF t
    <2> QED
        BY <2>1, <2>2, <2>3, <2>4, <1>0, <1>4
<1>5. Cells(s) \subseteq Cells(t)
    <2> SUFFICES ASSUME NEW v \in Cells(s)
                 PROVE  v \in Cells(t)
        OBVIOUS
    <2> DEFINE k == Cardinality(UpTo(s, v))
    <2>1. v \in Nat
        BY <1>2
    <2>2. k \in Nat /\ k <= Len(s)
             /\ IsFiniteSet(UpTo(s, v)) /\ Cardinality(Below(s, v)) \in Nat
        BY <2>1, CellCounts
    <2>3. PICK p \in 1 .. Len(s) : s[p] = v
        BY DEF Cells
    <2>4. Below(s, v) \in SUBSET UpTo(s, v) /\ p \in UpTo(s, v) /\ p \notin Below(s, v)
        BY <2>1, <2>3, <1>0 DEF Below, UpTo
    <2>5. Cardinality(Below(s, v)) < k
        <3>1. Cardinality(Below(s, v)) <= k /\ Cardinality(Below(s, v)) # k
            BY <2>2, <2>4, FS_Subset
        <3> HIDE DEF k
        <3> QED
            BY <3>1, <2>2
    <2>6. k \in 1 .. Len(s)
        BY <2>2, <2>5
    <2>7. t[k] \in Nat /\ Cardinality(Below(s, t[k])) < k
             /\ k <= Cardinality(UpTo(s, t[k])) /\ Cardinality(Below(s, t[k])) \in Nat
             /\ Cardinality(UpTo(s, t[k])) \in Nat
        BY <1>1, <1>2, <2>6, CellCounts DEF IsKthSmallest
    <2>8. t[k] < v => Cardinality(UpTo(s, t[k])) <= Cardinality(Below(s, v))
        BY <2>1, <2>7, CellCounts
    <2>9. v < t[k] => Cardinality(UpTo(s, v)) <= Cardinality(Below(s, t[k]))
        BY <2>1, <2>7, CellCounts
    <2>10. t[k] = v
        <3> HIDE DEF t, k
        <3>1. ~ (t[k] < v)
            BY <2>2, <2>5, <2>7, <2>8
        <3>2. ~ (v < t[k])
            <4> k = Cardinality(UpTo(s, v))
                BY DEF k
            <4> QED
                BY <2>2, <2>7, <2>9
        <3> QED
            BY <3>1, <3>2, <2>1, <2>7
    <2> QED
        BY <2>6, <2>10, <1>3 DEF Cells
<1>6. Cells(t) \subseteq Cells(s)
    BY <1>1, <1>3 DEF Cells
<1> QED
    BY <1>3, <1>4, <1>5, <1>6

-----------------------------------------------------------------------------
(***************************************************************************)
(* The inductive invariant.  While scanning, the array holds the leaders   *)
(* of the instructions read, and a paced program has written at most one   *)
(* cell more than it has read instructions, and no cell more after an      *)
(* instruction that is no jump.  While compacting, the cells not yet read  *)
(* ascend and the last cell kept equals the last cell read.  While         *)
(* counting, an instruction precedes each start counted.                   *)
(***************************************************************************)
LeadersUpTo(p, n) ==
    {0} \cup {Target(p, k) : k \in {j \in 0 .. n - 1 : IsJump(p, j)}}
        \cup {k + 1 : k \in {j \in 0 .. n - 1 : Kind(p, j) = "ATM_CONDJMP"}}

Paid ==
    /\ Len(list) <= i + 1
    /\ i > 0 /\ ~ IsJump(ir, i - 1) => Len(list) <= i

ScanInv ==
    pc = "scan" =>
       /\ i \in 0 .. ir.index
       /\ nb_basic_nodes = 0
       /\ Cells(list) = LeadersUpTo(ir, i)
       /\ JumpsArePaced(ir) => Paid

DedupInv ==
    pc = "dedup" =>
       /\ i \in 0 .. Len(list)
       /\ nb_basic_nodes \in 0 .. i
       /\ \A j, k \in i + 1 .. Len(list) : j < k => list[j] <= list[k]
       /\ i > 0 => /\ nb_basic_nodes > 0
                   /\ list[nb_basic_nodes] = list[i]
                   /\ i < Len(list) => list[i] <= list[i + 1]

AllocInv ==
    pc = "alloc" => i = 0 /\ nb_basic_nodes = 0 /\ Len(list) = 0

CountedInv ==
    pc \in {"count", "done"} =>
       /\ \A j \in 2 .. i + 1 : j <= nb_basic_nodes => list[j] - 1 \in Offsets(ir)
       /\ pc = "done" => i >= nb_basic_nodes - 1

IInv ==
    /\ TypeOK
    /\ AllocInv
    /\ ScanInv
    /\ DedupInv
    /\ ListFits
    /\ CompactionLosesNoLeader
    /\ StartsExact
    /\ CountedInv

\* The cells an instruction appends, and the leaders it adds.
LEMMA WrittenProperties ==
    ASSUME NEW p, IsProgram(p), NEW k \in Offsets(p)
    PROVE  /\ Written(p, k) \in Seq(Nat)
           /\ LeadersUpTo(p, k + 1) = LeadersUpTo(p, k) \cup Cells(Written(p, k))
           /\ Len(Written(p, k)) =
                 IF Kind(p, k) = "ATM_JMP" THEN 1
                 ELSE IF Kind(p, k) = "ATM_CONDJMP" THEN 2 ELSE 0
<1> DEFINE w == Written(p, k)
<1>0. /\ Kind(p, k) \in Kinds /\ k \in Nat
      /\ Target(p, k) \in Nat
      /\ 0 .. (k + 1) - 1 = (0 .. k - 1) \cup {k} /\ k \notin 0 .. k - 1
    BY InstrFacts DEF Offsets
<1>1. CASE Kind(p, k) = "ATM_JMP"
    <2>1. w = <<Target(p, k)>>
        BY <1>1 DEF Written
    <2>2. Cells(w) = {Target(p, k)}
        BY <2>1 DEF Cells
    <2>3. LeadersUpTo(p, k + 1) = LeadersUpTo(p, k) \cup {Target(p, k)}
        BY <1>0, <1>1 DEF LeadersUpTo, IsJump
    <2> QED
        BY <2>1, <2>2, <2>3, <1>0, <1>1
<1>2. CASE Kind(p, k) = "ATM_CONDJMP"
    <2>1. w = <<Target(p, k), k + 1>>
        BY <1>2 DEF Written
    <2>2. Cells(w) = {Target(p, k), k + 1}
        <3>1. w[1] = Target(p, k) /\ w[2] = k + 1 /\ Len(w) = 2
            BY <2>1
        <3>2. 1 .. 2 = {1, 2}
            OBVIOUS
        <3> HIDE DEF w
        <3> QED
            BY <3>1, <3>2 DEF Cells
    <2>3. LeadersUpTo(p, k + 1) = LeadersUpTo(p, k) \cup {Target(p, k), k + 1}
        BY <1>0, <1>2 DEF LeadersUpTo, IsJump
    <2> QED
        BY <2>1, <2>2, <2>3, <1>0, <1>2
<1>3. CASE Kind(p, k) = "ATM_OTHER"
    <2>1. w = <<>>
        BY <1>3 DEF Written
    <2>2. Cells(w) = {}
        BY <2>1 DEF Cells
    <2>3. LeadersUpTo(p, k + 1) = LeadersUpTo(p, k)
        BY <1>0, <1>3 DEF LeadersUpTo, IsJump
    <2> QED
        BY <2>1, <2>2, <2>3, <1>0, <1>3
<1> QED
    BY <1>0, <1>1, <1>2, <1>3 DEF Kinds

LEMMA EntryHolds ==
    ASSUME IsProgram(ir), Entry
    PROVE  IInv
<1>1. TypeOK
    <2>1. list \in Seq(Nat) /\ overrun \in BOOLEAN
        BY EmptySeq, Zenon DEF Entry
    <2> QED
        BY <2>1 DEF Entry, TypeOK, Stopped
<1> QED
    BY <1>1 DEF Entry, IInv, CountedInv, AllocInv, ScanInv, DedupInv, ListFits,
                CompactionLosesNoLeader, StartsExact

LEMMA InitHolds == Init => IInv
BY EntryHolds, ProgramsAssumption DEF Init

LEMMA ConcatCells ==
    ASSUME NEW S, NEW s \in Seq(S), NEW t \in Seq(S)
    PROVE  Cells(s \o t) = Cells(s) \cup Cells(t)
<1>1. /\ Len(s) \in Nat /\ Len(t) \in Nat
      /\ Len(s \o t) = Len(s) + Len(t)
      /\ \A k \in 1 .. Len(s) + Len(t) :
            (s \o t)[k] = IF k <= Len(s) THEN s[k] ELSE t[k - Len(s)]
    BY ConcatProperties, LenProperties
<1>2. Cells(s \o t) \subseteq Cells(s) \cup Cells(t)
    BY <1>1 DEF Cells
<1>3. Cells(s) \subseteq Cells(s \o t)
    BY <1>1 DEF Cells
<1>4. ASSUME NEW k \in 1 .. Len(t)
      PROVE  t[k] \in Cells(s \o t)
    <2>1. Len(s) + k \in 1 .. Len(s) + Len(t) /\ (s \o t)[Len(s) + k] = t[k]
        BY <1>1
    <2> QED
        BY <2>1, <1>1 DEF Cells
<1> QED
    BY <1>2, <1>3, <1>4 DEF Cells

LEMMA AllocStep == IInv /\ Alloc => IInv'
<1> SUFFICES ASSUME IInv, Alloc PROVE IInv'
    OBVIOUS
<1> USE DEF IInv, Alloc
<1>0. IsProgram(ir) /\ ir.index \in Nat /\ pc' \in {"scan", "exit"}
    BY DEF TypeOK, IsProgram
<1>1. TypeOK'
    <2>1. list \in Seq(Nat) /\ <<0>> \in Seq(Nat)
        BY <1>0 DEF TypeOK
    <2>2. list' \in Seq(Nat)
        BY <2>1
    <2>3. overrun' \in BOOLEAN
        OBVIOUS
    <2> QED
        BY <1>0, <2>2, <2>3 DEF TypeOK, Stopped
<1>2. AllocInv' /\ DedupInv' /\ CompactionLosesNoLeader' /\ StartsExact' /\ CountedInv'
    BY DEF AllocInv, DedupInv, CompactionLosesNoLeader, StartsExact, CountedInv
<1>3. ListFits'
    <2> SUFFICES ASSUME JumpsArePaced(ir) PROVE ~ overrun'
        BY DEF ListFits
    <2>1. ir.index > 0
        BY DEF JumpsArePaced
    <2>2. CASE list' = <<0>>
        <3>1. ~ (Len(list') > ir.index)
            BY <1>0, <2>1, <2>2
        <3> QED
            BY <3>1, Zenon
    <2>3. CASE list' = list
        <3>1. Len(list) = 0
            BY DEF AllocInv
        <3>2. ~ (Len(list') > ir.index)
            BY <1>0, <2>1, <2>3, <3>1
        <3> QED
            BY <3>2, Zenon
    <2> QED
        BY <2>2, <2>3
<1>4. ScanInv'
    <2> SUFFICES ASSUME pc' = "scan" PROVE ScanInv'
        BY DEF ScanInv
    <2>1. list' = <<0>> /\ i' = 0 /\ nb_basic_nodes' = 0 /\ ir' = ir
        BY DEF AllocInv
    <2>2. Cells(list') = {0} /\ LeadersUpTo(ir, 0) = {0}
        <3>1. Cells(<<0>>) = {0}
            BY DEF Cells
        <3>2. 0 .. 0 - 1 = {}
            OBVIOUS
        <3> QED
            BY <2>1, <3>1, <3>2 DEF LeadersUpTo
    <2> QED
        BY <1>0, <2>1, <2>2 DEF ScanInv, Paid
<1> QED
    BY <1>1, <1>2, <1>3, <1>4

LEMMA ScanStep == IInv /\ ScanInstr => IInv'
<1> SUFFICES ASSUME IInv, ScanInstr PROVE IInv'
    OBVIOUS
<1>0. /\ IsProgram(ir) /\ ir.index \in Nat \ {0} /\ i \in Offsets(ir) /\ i \in Nat
      /\ list \in Seq(Nat) /\ Len(list) \in Nat
      /\ ir' = ir /\ i' = i + 1 /\ pc = "scan" /\ pc' = "scan"
      /\ list' = list \o Written(ir, i)
      /\ nb_basic_nodes' = nb_basic_nodes /\ nb_edges' = nb_edges
    BY LenProperties DEF IInv, ScanInstr, TypeOK, IsProgram, Offsets, ScanInv
<1>1. /\ list' \in Seq(Nat)
      /\ Len(list') = Len(list) + Len(Written(ir, i))
      /\ Cells(list') = Cells(list) \cup Cells(Written(ir, i))
    BY <1>0, WrittenProperties, ConcatProperties, ConcatCells
<1>2. TypeOK'
    <2>1. overrun' \in BOOLEAN
        BY DEF IInv, ScanInstr, TypeOK
    <2> QED
        BY <1>0, <1>1, <2>1 DEF IInv, TypeOK
<1>3. AllocInv' /\ DedupInv' /\ CompactionLosesNoLeader' /\ StartsExact' /\ CountedInv'
    BY <1>0 DEF AllocInv, DedupInv, CompactionLosesNoLeader, StartsExact, CountedInv
<1>4. JumpsArePaced(ir) => Paid' /\ Len(list') <= ir.index
    <2> SUFFICES ASSUME JumpsArePaced(ir)
                 PROVE  Paid' /\ Len(list') <= ir.index
        OBVIOUS
    <2>1. Len(list) <= i + 1 /\ (i > 0 /\ ~ IsJump(ir, i - 1) => Len(list) <= i)
        BY <1>0 DEF IInv, ScanInv, Paid
    <2>2. Kind(ir, i) \in Kinds
        BY <1>0, InstrFacts
    <2>3. /\ Kind(ir, i) = "ATM_CONDJMP" => i > 0 /\ ~ IsJump(ir, i - 1)
          /\ i = ir.index - 1 => Kind(ir, i) = "ATM_OTHER"
        BY <1>0 DEF JumpsArePaced, EndsPlainly
    <2>4. Len(Written(ir, i)) = IF Kind(ir, i) = "ATM_JMP" THEN 1
                                ELSE IF Kind(ir, i) = "ATM_CONDJMP" THEN 2 ELSE 0
        BY <1>0, WrittenProperties
    <2>5. Len(list') <= i + 2 /\ (Kind(ir, i) = "ATM_OTHER" => Len(list') <= i + 1)
        BY <1>0, <1>1, <2>1, <2>2, <2>3, <2>4 DEF Kinds
    <2>6. i' - 1 = i /\ i + 1 <= ir.index /\ Len(list') \in Nat
        BY <1>0, <1>1, LenProperties DEF Offsets
    <2>7. ~ IsJump(ir, i) => Kind(ir, i) = "ATM_OTHER"
        BY <2>2 DEF Kinds, IsJump
    <2>8. Len(list') <= i' + 1 /\ (~ IsJump(ir', i' - 1) => Len(list') <= i')
        BY <1>0, <2>5, <2>6, <2>7
    <2>9. Len(list') <= ir.index
        <3>1. CASE i = ir.index - 1
            BY <1>0, <2>3, <2>5, <2>6, <3>1
        <3>2. CASE i # ir.index - 1
            BY <1>0, <2>5, <2>6, <3>2
        <3> QED
            BY <3>1, <3>2
    <2> QED
        BY <2>8, <2>9 DEF Paid
<1>5. ListFits'
    <2>1. Len(list') \in Nat
        BY <1>1, LenProperties
    <2>2. JumpsArePaced(ir) => ~ (Len(list') > ir.index)
        BY <1>0, <1>4, <2>1
    <2>3. overrun' = (overrun \/ Len(list') > ir.index)
        BY Zenon DEF ScanInstr
    <2> QED
        BY <1>0, <2>2, <2>3, Zenon DEF IInv, ListFits
<1>6. ScanInv'
    BY <1>0, <1>1, <1>4, WrittenProperties DEF IInv, ScanInv, Offsets
<1> QED
    BY <1>2, <1>3, <1>5, <1>6 DEF IInv

LEMMA LeadersUpToEnd ==
    ASSUME NEW p PROVE LeadersUpTo(p, p.index) = Leaders(p)
BY DEF LeadersUpTo, Leaders, Offsets

LEMMA SortStep == IInv /\ Sort => IInv'
<1> SUFFICES ASSUME IInv, Sort PROVE IInv'
    OBVIOUS
<1> USE DEF IInv, Sort
<1>0. /\ IsProgram(ir) /\ ir.index \in Nat
      /\ list \in Seq(Nat) /\ Len(list) \in Nat
      /\ ir' = ir /\ i' = 0 /\ pc' = "dedup" /\ nb_basic_nodes' = 0
      /\ nb_edges' = nb_edges /\ overrun' = overrun
      /\ Cells(list) = Leaders(ir)
    BY LenProperties, LeadersUpToEnd DEF TypeOK, IsProgram, Offsets, ScanInv
<1>1. /\ list' \in Seq(Nat)
      /\ Len(list') = Len(list)
      /\ Cells(list') = Cells(list)
      /\ \A j, k \in 1 .. Len(list) : j < k => list'[j] <= list'[k]
    BY <1>0, SortedProperties, Zenon
<1>2. TypeOK'
    BY <1>0, <1>1 DEF TypeOK
<1>3. AllocInv' /\ ScanInv' /\ StartsExact' /\ CountedInv'
    BY <1>0 DEF AllocInv, ScanInv, StartsExact, CountedInv
<1>4. ListFits'
    BY <1>0 DEF ListFits
<1>5. DedupInv'
    BY <1>0, <1>1 DEF DedupInv
<1>6. CompactionLosesNoLeader'
    <2>1. (1 .. 0) \cup (0 + 1 .. Len(list')) = 1 .. Len(list')
        OBVIOUS
    <2>2. {list'[k] : k \in (1 .. nb_basic_nodes') \cup (i' + 1 .. Len(list'))}
            = Leaders(ir')
        BY <1>0, <1>1, <2>1 DEF Cells
    <2> QED
        BY <1>0, <2>2 DEF CompactionLosesNoLeader
<1> QED
    BY <1>2, <1>3, <1>4, <1>5, <1>6

LEMMA DedupStep == IInv /\ Dedup => IInv'
<1> SUFFICES ASSUME IInv, Dedup PROVE IInv'
    OBVIOUS
<1> DEFINE nb == nb_basic_nodes
           n == Len(list)
           Value == Nat
<1>0. /\ IsProgram(ir) /\ list \in Seq(Value) /\ n \in Nat
      /\ i \in 0 .. n - 1 /\ nb \in 0 .. i /\ nb + 1 \in 1 .. n /\ i + 1 \in 1 .. n
      /\ \A k \in 1 .. n : list[k] \in Value /\ list[k] \in Int
      /\ pc = "dedup" /\ pc' = "dedup" /\ ir' = ir /\ i' = i + 1
      /\ nb_edges' = nb_edges /\ UNCHANGED overrun
    <2>1. /\ IsProgram(ir) /\ list \in Seq(Nat) /\ i \in Nat
          /\ pc = "dedup" /\ pc' = "dedup" /\ ir' = ir /\ i' = i + 1
          /\ nb_edges' = nb_edges /\ UNCHANGED overrun
        BY DEF IInv, Dedup, TypeOK
    <2>2. n \in Nat /\ i < n /\ nb \in 0 .. i
        BY <2>1, LenProperties DEF IInv, Dedup, DedupInv
    <2>3. \A k \in 1 .. n : list[k] \in Nat
        BY <2>1, ElementOfSeq
    <2> HIDE DEF nb, n
    <2> QED
        BY <2>1, <2>2, <2>3
<1> HIDE DEF Value
<1>1. /\ \A j, k \in i + 1 .. n : j < k => list[j] <= list[k]
      /\ i > 0 => nb > 0 /\ list[nb] = list[i] /\ list[i] <= list[i + 1]
      /\ {list[k] : k \in (1 .. nb) \cup (i + 1 .. n)} = Leaders(ir)
      /\ \A j, k \in 1 .. nb : j < k => list[j] < list[k]
    BY <1>0 DEF IInv, DedupInv, CompactionLosesNoLeader
<1>2. \/ /\ i = 0 \/ list[i + 1] # list[i]
         /\ list' = [list EXCEPT ![nb + 1] = list[i + 1]]
         /\ nb' = nb + 1
      \/ /\ i # 0 /\ list[i + 1] = list[i]
         /\ list' = list
         /\ nb' = nb
    BY <1>0 DEF Dedup, IsFresh
\* The two outcomes, with the array cell by cell.
<1>3. /\ list' \in Seq(Value) /\ Len(list') = n
      /\ \A k \in 1 .. n : list'[k] = IF k = nb + 1 /\ nb' = nb + 1
                                     THEN list[i + 1] ELSE list[k]
      /\ nb' \in 1 .. i'
      /\ nb' = nb + 1 \/ nb' = nb
    <2>1. list[i + 1] \in Value
        BY <1>0
    <2>2. CASE list' = [list EXCEPT ![nb + 1] = list[i + 1]] /\ nb' = nb + 1
        <3>1. /\ list' \in Seq(Value) /\ Len(list') = n
              /\ \A k \in 1 .. n : list'[k] = IF k = nb + 1 THEN list[i + 1] ELSE list[k]
            BY <1>0, <2>1, <2>2, ExceptSeq
        <3> QED
            BY <1>0, <2>2, <3>1
    <2>3. CASE i # 0 /\ list' = list /\ nb' = nb
        BY <1>0, <1>1, <2>3
    <2> QED
        BY <1>2, <2>2, <2>3
<1>4. TypeOK'
    <2>1. overrun' \in BOOLEAN
        BY <1>0 DEF IInv, TypeOK
    <2> QED
        BY <1>0, <1>3, <2>1 DEF IInv, TypeOK, Value
<1>5. AllocInv' /\ ScanInv' /\ StartsExact' /\ CountedInv'
    BY <1>0 DEF AllocInv, ScanInv, StartsExact, CountedInv
<1>6. ListFits'
    BY <1>0, Zenon DEF IInv, ListFits
<1>7. list'[nb'] = list[i + 1] /\ list'[i'] = list[i + 1]
    BY <1>0, <1>1, <1>2, <1>3
<1>8. \A k \in i' + 1 .. n : list'[k] = list[k]
    BY <1>0, <1>3
<1>9. DedupInv'
    <2>1. ASSUME NEW j \in i' + 1 .. n, NEW k \in i' + 1 .. n, j < k
          PROVE  list'[j] <= list'[k]
        <3>1. j \in i + 1 .. n /\ k \in i + 1 .. n
            BY <1>0
        <3>2. list[j] <= list[k]
            BY <1>1, <2>1, <3>1
        <3> QED
            BY <1>8, <3>2
    <2>2. ASSUME i' < n
          PROVE  list'[i'] <= list'[i' + 1]
        <3>1. /\ i + 1 \in i + 1 .. n /\ i + 2 \in i + 1 .. n /\ i + 1 < i + 2
              /\ i' + 1 \in i' + 1 .. n /\ i' + 1 = i + 2
            BY <1>0, <2>2
        <3>2. list[i + 1] <= list[i + 2]
            BY <1>1, <3>1
        <3>3. list'[i' + 1] = list[i + 2]
            BY <1>8, <3>1
        <3> QED
            BY <1>7, <3>2, <3>3
    <2> QED
        BY <1>0, <1>3, <1>7, <2>1, <2>2 DEF DedupInv
<1>10. \A j, k \in 1 .. nb' : j < k => list'[j] < list'[k]
    <2>1. CASE nb' = nb
        BY <1>0, <1>1, <1>3, <2>1
    <2>2. CASE nb' = nb + 1
        <3>1. nb > 0 => list[nb] < list[i + 1]
            BY <1>0, <1>1, <1>2, <2>2
        <3>2. \A j \in 1 .. nb : list[j] < list[i + 1]
            <4> SUFFICES ASSUME NEW j \in 1 .. nb PROVE list[j] < list[i + 1]
                OBVIOUS
            <4>1. nb > 0 /\ nb \in 1 .. nb /\ j \in 1 .. n /\ nb \in 1 .. n
                BY <1>0
            <4>2. list[j] \in Int /\ list[nb] \in Int /\ list[i + 1] \in Int
                BY <1>0, <4>1
            <4>3. list[nb] < list[i + 1]
                BY <3>1, <4>1
            <4>4. CASE j = nb
                BY <4>3, <4>4
            <4>5. CASE j # nb
                <5>1. list[j] < list[nb]
                    <6>1. j < nb
                        BY <1>0, <4>5
                    <6> QED
                        BY <1>1, <4>1, <6>1
                <5> HIDE DEF nb, n
                <5> QED
                    BY <4>2, <4>3, <5>1
            <4> QED
                BY <4>4, <4>5
        <3>3. \A j \in 1 .. nb : list'[j] = list[j]
            BY <1>0, <1>3
        <3> QED
            BY <1>0, <1>1, <1>7, <2>2, <3>2, <3>3
    <2> QED
        BY <1>3, <2>1, <2>2
<1>11. {list'[k] : k \in (1 .. nb') \cup (i' + 1 .. n)} = Leaders(ir)
    <2> DEFINE Old == (1 .. nb) \cup (i + 1 .. n)
               New == (1 .. nb') \cup (i' + 1 .. n)
    <2>1. ASSUME NEW k \in Old
          PROVE  \E m \in New : list'[m] = list[k]
        <3>1. CASE k = i + 1
            <4>1. nb' \in New /\ list'[nb'] = list[k]
                BY <1>0, <1>3, <1>7, <3>1
            <4> QED
                BY <4>1
        <3>2. CASE k # i + 1
            <4>1. k \in New /\ list'[k] = list[k]
                BY <1>0, <1>3, <3>2
            <4> QED
                BY <4>1
        <3> QED
            BY <3>1, <3>2
    <2>2. ASSUME NEW m \in New
          PROVE  \E k \in Old : list'[m] = list[k]
        <3>1. CASE m = nb + 1 /\ nb' = nb + 1
            <4>1. i + 1 \in Old /\ list'[m] = list[i + 1]
                BY <1>0, <1>3, <3>1
            <4> QED
                BY <4>1
        <3>2. CASE ~ (m = nb + 1 /\ nb' = nb + 1)
            <4>1. m \in Old /\ list'[m] = list[m]
                BY <1>0, <1>3, <3>2
            <4> QED
                BY <4>1
        <3> QED
            BY <3>1, <3>2
    <2> HIDE DEF Old, New
    <2>3. {list'[m] : m \in New} = {list[k] : k \in Old}
        BY <2>1, <2>2
    <2>4. {list[k] : k \in Old} = Leaders(ir)
        BY <1>1 DEF Old
    <2> QED
        BY <2>3, <2>4 DEF New
<1>12. CompactionLosesNoLeader'
    BY <1>0, <1>3, <1>10, <1>11 DEF CompactionLosesNoLeader
<1> QED
    BY <1>4, <1>5, <1>6, <1>9, <1>12 DEF IInv

LEMMA TruncateStep == IInv /\ Truncate => IInv'
<1> SUFFICES ASSUME IInv, Truncate PROVE IInv'
    OBVIOUS
<1> DEFINE nb == nb_basic_nodes
<1>0. /\ IsProgram(ir) /\ list \in Seq(Nat) /\ Len(list) \in Nat
      /\ nb \in 0 .. Len(list) /\ nb \in Nat
      /\ \A k \in 1 .. Len(list) : list[k] \in Nat
      /\ pc = "dedup" /\ ir' = ir /\ i' = 0 /\ nb' = nb
      /\ nb_edges' = nb_edges /\ UNCHANGED overrun
      /\ pc' \in {"count", "abort"}
    BY LenProperties, ElementOfSeq DEF IInv, Truncate, TypeOK, DedupInv
<1>1. /\ {list[k] : k \in 1 .. nb} = Leaders(ir)
      /\ \A j, k \in 1 .. nb : j < k => list[j] < list[k]
    <2>1. (1 .. nb) \cup (Len(list) + 1 .. Len(list)) = 1 .. nb
        BY <1>0
    <2> QED
        BY <1>0, <2>1 DEF IInv, CompactionLosesNoLeader, Truncate
<1>2. /\ SubSeq(list, 1, nb) \in Seq(Nat)
      /\ Len(SubSeq(list, 1, nb)) = nb
      /\ \A k \in 1 .. nb : SubSeq(list, 1, nb)[k] = list[k]
    <2>1. /\ SubSeq(list, 1, nb) \in Seq(Nat)
          /\ Len(SubSeq(list, 1, nb)) = IF 1 <= nb THEN nb - 1 + 1 ELSE 0
          /\ \A k \in 1 .. nb - 1 + 1 : SubSeq(list, 1, nb)[k] = list[1 + k - 1]
        BY <1>0, SubSeqProperties
    <2> QED
        BY <1>0, <2>1
<1>3. \/ pc' = "count" /\ list' = SubSeq(list, 1, nb)
      \/ pc' = "abort" /\ list' = list
    BY DEF Truncate
<1>4. TypeOK'
    <2>1. overrun' \in BOOLEAN
        BY <1>0 DEF IInv, TypeOK
    <2>2. list' \in Seq(Nat)
        BY <1>0, <1>2, <1>3
    <2> QED
        BY <1>0, <2>1, <2>2 DEF IInv, TypeOK, Stopped
<1>5. AllocInv' /\ ScanInv' /\ DedupInv' /\ CompactionLosesNoLeader'
    BY <1>0 DEF AllocInv, ScanInv, DedupInv, CompactionLosesNoLeader
<1>6. ListFits'
    BY <1>0, Zenon DEF IInv, ListFits
<1>7. StartsExact'
    <2> SUFFICES ASSUME pc' = "count" PROVE StartsExact'
        BY <1>0 DEF StartsExact
    <2> QED
        BY <1>0, <1>1, <1>2, <1>3 DEF StartsExact
<1>8. CountedInv'
    BY <1>0 DEF CountedInv
<1> QED
    BY <1>4, <1>5, <1>6, <1>7, <1>8 DEF IInv

(***************************************************************************)
(* The array that has been cut begins with the entry, and a start has an   *)
(* instruction before it unless it lies beyond the cell behind the last    *)
(* instruction, where only a target can lie.                               *)
(***************************************************************************)
LEMMA CutFacts ==
    ASSUME IInv, pc \in {"count", "done"}
    PROVE  /\ IsProgram(ir) /\ ir.index \in Nat
           /\ nb_basic_nodes \in Nat /\ Len(list) = nb_basic_nodes
           /\ nb_basic_nodes > 0 /\ list[1] = 0
           /\ \A k \in 1 .. nb_basic_nodes : list[k] \in Nat
           /\ \A j, k \in 1 .. nb_basic_nodes : j < k => list[j] < list[k]
           /\ \A k \in 2 .. nb_basic_nodes :
                 list[k] - 1 \notin Offsets(ir) => ~ StartsInside(ir)
<1> DEFINE nb == nb_basic_nodes
<1>1. /\ IsProgram(ir) /\ ir.index \in Nat /\ nb \in Nat /\ Len(list) = nb
      /\ \A k \in 1 .. nb : list[k] \in Nat
      /\ \A j, k \in 1 .. nb : j < k => list[j] < list[k]
      /\ {list[k] : k \in 1 .. nb} = Leaders(ir)
    BY ElementOfSeq DEF IInv, TypeOK, StartsExact, IsProgram
<1>2. nb > 0 /\ list[1] = 0
    <2>1. PICK m \in 1 .. nb : list[m] = 0
        BY <1>1 DEF Leaders
    <2>2. 1 \in 1 .. nb /\ m \in Int
        BY <1>1, <2>1
    <2>3. ~ (1 < m)
        BY <1>1, <2>1, <2>2
    <2> QED
        BY <1>1, <2>1, <2>2, <2>3
<1>3. ASSUME NEW k \in 2 .. nb, list[k] - 1 \notin Offsets(ir)
      PROVE  ~ StartsInside(ir)
    <2>1. list[k] \in Leaders(ir) /\ list[k] \in Nat /\ list[k] > 0
        BY <1>1, <1>2
    <2>2. list[k] > ir.index
        BY <1>1, <1>3, <2>1 DEF Offsets
    <2>3. \A x \in Offsets(ir) : x + 1 <= ir.index
        BY <1>1 DEF Offsets
    <2>4. \E x \in Offsets(ir) : IsJump(ir, x) /\ Target(ir, x) = list[k]
        BY <1>1, <2>1, <2>2, <2>3 DEF Leaders
    <2> QED
        BY <1>1, <2>1, <2>2, <2>4, InstrFacts DEF StartsInside
<1> QED
    BY <1>1, <1>2, <1>3

\* When an instruction precedes each start but the entry, the starts are inside.
LEMMA CountedInside ==
    ASSUME IInv, pc = "count", i >= nb_basic_nodes - 1
    PROVE  ir.index > 0 => StartsInside(ir)
<1> DEFINE nb == nb_basic_nodes
<1>1. /\ IsProgram(ir) /\ ir.index \in Nat /\ nb \in Nat /\ list[1] = 0
      /\ \A k \in 1 .. nb : list[k] \in Nat
    BY CutFacts
<1>2. i \in Nat /\ {list[k] : k \in 1 .. nb} = Leaders(ir)
    BY DEF IInv, TypeOK, StartsExact
<1>3. \A k \in 2 .. nb : list[k] - 1 \in Offsets(ir)
    BY <1>1, <1>2 DEF IInv, CountedInv
<1>4. \A k \in 1 .. nb : list[k] <= ir.index
    <2>1. \A k \in 1 .. nb : k = 1 \/ k \in 2 .. nb
        OBVIOUS
    <2> QED
        BY <1>1, <1>3, <2>1 DEF Offsets
<1>5. \A k \in Offsets(ir) : IsJump(ir, k) => Target(ir, k) <= ir.index
    BY <1>2, <1>4 DEF Leaders
<1> QED
    BY <1>5 DEF StartsInside

LEMMA CountStep == IInv /\ (CountEdges \/ CountWild \/ Return) => IInv'
<1> SUFFICES ASSUME IInv, CountEdges \/ CountWild \/ Return PROVE IInv'
    OBVIOUS
<1>0. /\ pc = "count" /\ pc' \in {"count", "wild", "done"} /\ i' \in Nat /\ i \in Nat
      /\ nb_edges' \in Nat
      /\ ir' = ir /\ list' = list /\ nb_basic_nodes' = nb_basic_nodes
      /\ UNCHANGED overrun
    BY DEF IInv, TypeOK, CountEdges, CountWild, Return, EdgeRoom
<1>1. pc' = "wild" => ~ StartsInside(ir)
    <2> SUFFICES ASSUME pc' = "wild" PROVE ~ StartsInside(ir)
        OBVIOUS
    <2>1. i < nb_basic_nodes - 1 /\ list[i + 2] - 1 \notin Offsets(ir)
        BY <1>0 DEF CountEdges, CountWild, Return
    <2>2. nb_basic_nodes \in Nat
        BY DEF IInv, TypeOK
    <2>3. i + 2 \in 2 .. nb_basic_nodes
        BY <1>0, <2>1, <2>2
    <2> QED
        BY <1>0, <2>1, <2>3, CutFacts
<1>2. TypeOK'
    <2>1. overrun' \in BOOLEAN
        BY <1>0 DEF IInv, TypeOK
    <2> QED
        BY <1>0, <1>1, <2>1 DEF IInv, TypeOK, Stopped
<1>3. AllocInv' /\ ScanInv' /\ DedupInv' /\ CompactionLosesNoLeader'
    BY <1>0 DEF AllocInv, ScanInv, DedupInv, CompactionLosesNoLeader
<1>4. ListFits'
    BY <1>0, Zenon DEF IInv, ListFits
<1>5. StartsExact'
    <2>1. pc' = "done" => i >= nb_basic_nodes - 1
        BY <1>0 DEF CountEdges, CountWild, Return
    <2>2. pc' = "done" /\ ir.index > 0 => StartsInside(ir)
        BY <1>0, <2>1, CountedInside
    <2> QED
        BY <1>0, <2>2 DEF IInv, StartsExact
<1>6. CountedInv'
    <2>1. CASE CountEdges
        <3>1. i' = i + 1 /\ pc' = "count" /\ list[i + 2] - 1 \in Offsets(ir)
            BY <1>0, <2>1 DEF CountEdges
        <3>2. \A j \in 2 .. i' + 1 : j = i + 2 \/ j \in 2 .. i + 1
            BY <1>0, <3>1
        <3> QED
            BY <1>0, <3>1, <3>2 DEF IInv, CountedInv
    <2>2. CASE CountWild
        BY <2>2 DEF CountWild, CountedInv
    <2>3. CASE Return
        BY <1>0, <2>3 DEF Return, IInv, CountedInv
    <2> QED
        BY <2>1, <2>2, <2>3
<1> QED
    BY <1>2, <1>3, <1>4, <1>5, <1>6 DEF IInv

LEMMA StutterStep == IInv /\ UNCHANGED vars => IInv'
BY DEF IInv, vars, TypeOK, AllocInv, ScanInv, Paid, DedupInv, ListFits,
       CompactionLosesNoLeader, StartsExact, CountedInv, Cells

LEMMA StepHolds == IInv /\ [Next]_vars => IInv'
BY AllocStep, ScanStep, SortStep, DedupStep, TruncateStep, CountStep, StutterStep DEF Next

LEMMA Invariance == Spec => []IInv
BY InitHolds, StepHolds, PTL DEF Spec

-----------------------------------------------------------------------------
(***************************************************************************)
(* The variables keep their types, and graph.c:62 reads a cell without an  *)
(* instruction only when a jump goes too far, for programs of every        *)
(* length.                                                                 *)
(***************************************************************************)
THEOREM TypeCorrect == Spec => []TypeOK
BY Invariance, PTL DEF IInv

(***************************************************************************)
(* The array of graph.c:21 is large enough for every paced program.        *)
(***************************************************************************)
THEOREM ScanFits == Spec => []ListFits
BY Invariance, PTL DEF IInv

(***************************************************************************)
(* The in-place compaction of graph.c:49-55 never overwrites a leader it   *)
(* has not read yet.                                                       *)
(***************************************************************************)
THEOREM CompactionSafe == Spec => []CompactionLosesNoLeader
BY Invariance, PTL DEF IInv

(***************************************************************************)
(* What get_info_graph returns is the ascending enumeration of the block   *)
(* starts of the program, without repetition.                              *)
(***************************************************************************)
THEOREM StartsCorrect == Spec => []StartsExact
BY Invariance, PTL DEF IInv

-----------------------------------------------------------------------------
(***************************************************************************)
(* The refinement needs one more fact: after i rounds the last loop has    *)
(* counted one edge per round and one more for each block start, among the *)
(* first i + 1 but the entry, that a JMP precedes.                         *)
(***************************************************************************)
AfterJmp(S) == {l \in S : Kind(ir, l - 1) = "ATM_JMP"}

CountInv ==
    /\ pc \notin {"count", "done", "wild"} => nb_edges = 0
    /\ pc \in {"count", "done"} =>
          /\ nb_basic_nodes > 0 /\ i \in 0 .. nb_basic_nodes - 1
          /\ nb_edges = i + Cardinality(AfterJmp({list[j] : j \in 2 .. i + 1}))
    /\ pc = "done" => i = nb_basic_nodes - 1

LEMMA CountInit == Init => CountInv
BY DEF Init, Entry, CountInv

LEMMA AfterJmpFinite ==
    ASSUME NEW S, IsFiniteSet(S)
    PROVE  IsFiniteSet(AfterJmp(S)) /\ Cardinality(AfterJmp(S)) \in Nat
<1>1. AfterJmp(S) \in SUBSET S
    BY DEF AfterJmp
<1> QED
    BY <1>1, FS_Subset, FS_CardinalityType

\* The cells from the second on are finite in number.
LEMMA BeginningFinite ==
    ASSUME list \in Seq(Nat), NEW n \in Nat, n <= Len(list)
    PROVE  IsFiniteSet({list[j] : j \in 2 .. n})
<1>1. PICK b \in Nat : \A j \in 1 .. Len(list) : list[j] < b
    BY CellsBounded
<1>2. \A j \in 1 .. Len(list) : list[j] \in Nat
    BY ElementOfSeq
<1>3. {list[j] : j \in 2 .. n} \in SUBSET (0 .. b)
    BY <1>1, <1>2, LenProperties
<1>4. IsFiniteSet(0 .. b)
    BY FS_Interval
<1> QED
    BY <1>3, <1>4, FS_Subset

LEMMA CountInvStep == IInv /\ IInv' /\ CountInv /\ Next => CountInv'
<1> SUFFICES ASSUME IInv, IInv', CountInv, Next PROVE CountInv'
    OBVIOUS
<1> DEFINE nb == nb_basic_nodes
<1>0. IsProgram(ir) /\ nb \in Nat /\ i \in Nat
    BY DEF IInv, TypeOK
<1>1. CASE Alloc \/ ScanInstr \/ Sort \/ Dedup \/ CountWild
    <2>1. pc \notin {"count", "done", "wild"} \/ pc' = "wild"
        BY <1>1 DEF Alloc, ScanInstr, Sort, Dedup, CountWild
    <2>2. pc' \notin {"count", "done"} /\ nb_edges' = nb_edges
        BY <1>1 DEF Alloc, ScanInstr, Sort, Dedup, CountWild
    <2> QED
        BY <2>1, <2>2 DEF CountInv
<1>2. CASE Truncate
    <2>1. CASE pc' = "abort"
        BY <1>2, <2>1 DEF Truncate, CountInv
    <2>2. CASE pc' = "count"
        <3>1. i' = 0 /\ ir' = ir /\ nb_edges' = 0 /\ nb' = nb
            BY <1>2 DEF Truncate, CountInv
        <3>2. 0 \in Leaders(ir) /\ nb > 0
            <4>1. 0 \in {list'[k] : k \in 1 .. nb'}
                BY <2>2, <3>1 DEF IInv, StartsExact, Leaders
            <4> QED
                BY <4>1, <3>1, <1>0 DEF Leaders
        <3>4. nb_edges' = i' + Cardinality(AfterJmp({list[j] : j \in 2 .. i + 1}))'
            <4>1. {list'[j] : j \in 2 .. i' + 1} = {}
                BY <3>1
            <4>2. AfterJmp({list[j] : j \in 2 .. i + 1})' = {}
                BY <4>1 DEF AfterJmp
            <4> QED
                BY <3>1, <4>2, FS_EmptySet
        <3> QED
            BY <1>0, <2>2, <3>1, <3>2, <3>4 DEF CountInv
    <2> QED
        BY <1>2, <2>1, <2>2 DEF Truncate
<1>3. CASE CountEdges
    <2> DEFINE S == {list[j] : j \in 2 .. i + 1}
               T == {list[j] : j \in 2 .. i + 2}
               x == list[i + 2]
    <2>1. /\ pc = "count" /\ pc' = "count" /\ list \in Seq(Nat) /\ i + 1 \in 0 .. nb - 1
          /\ ir' = ir /\ i' = i + 1 /\ list' = list /\ nb' = nb /\ nb > 0
          /\ nb_edges' = nb_edges + EdgeRoom(ir, x)
          /\ nb_edges = i + Cardinality(AfterJmp(S))
        BY <1>0, <1>3 DEF CountEdges, CountInv, IInv, TypeOK
    <2>2. /\ Len(list) = nb
          /\ \A k \in 1 .. nb : list[k] \in Nat
          /\ \A j, k \in 1 .. nb : j < k => list[j] < list[k]
        BY <2>1, ElementOfSeq DEF IInv, StartsExact, TypeOK
    <2>3. T = S \cup {x}
        BY <1>0
    <2>4. x \notin S
        <3>1. ASSUME NEW j \in 2 .. i + 1
              PROVE  list[j] # x
            <4>1. j \in 1 .. nb /\ i + 2 \in 1 .. nb /\ j < i + 2
                BY <1>0, <2>1
            <4>2. list[j] < x /\ list[j] \in Int /\ x \in Int
                BY <4>1, <2>2
            <4> QED
                BY <4>2
        <3> QED
            BY <3>1
    <2>5. IsFiniteSet(S) /\ IsFiniteSet(T)
        <3>1. i + 1 \in Nat /\ i + 1 <= Len(list) /\ i + 2 \in Nat /\ i + 2 <= Len(list)
            BY <1>0, <2>1, <2>2
        <3> HIDE DEF nb
        <3>2. IsFiniteSet({list[j] : j \in 2 .. i + 1})
            BY <2>1, <3>1, BeginningFinite
        <3>3. IsFiniteSet({list[j] : j \in 2 .. i + 2})
            BY <2>1, <3>1, BeginningFinite
        <3> QED
            BY <3>2, <3>3
    <2> HIDE DEF S, T, x
    <2>6. IsFiniteSet(AfterJmp(S)) /\ Cardinality(AfterJmp(S)) \in Nat
        BY <1>0, <2>5, AfterJmpFinite
    <2>7. Cardinality(AfterJmp(T)) + 1 = Cardinality(AfterJmp(S)) + EdgeRoom(ir, x)
        <3>1. CASE Kind(ir, x - 1) = "ATM_JMP"
            <4>1. AfterJmp(T) = AfterJmp(S) \cup {x} /\ x \notin AfterJmp(S)
                BY <2>3, <2>4, <3>1 DEF AfterJmp
            <4>2. Cardinality(AfterJmp(T)) = Cardinality(AfterJmp(S)) + 1
                BY <2>6, <4>1, FS_AddElement
            <4> QED
                BY <2>6, <3>1, <4>2 DEF EdgeRoom
        <3>2. CASE Kind(ir, x - 1) # "ATM_JMP"
            <4>1. AfterJmp(T) = AfterJmp(S)
                BY <2>3, <2>4, <3>2 DEF AfterJmp
            <4> QED
                BY <2>6, <3>2, <4>1 DEF EdgeRoom
        <3> QED
            BY <3>1, <3>2
    <2>8. AfterJmp({list[j] : j \in 2 .. i + 1})' = AfterJmp(T)
        <3>1. (i + 1) + 1 = i + 2
            BY <1>0
        <3>2. {list'[j] : j \in 2 .. i' + 1} = T
            BY <2>1, <3>1 DEF T
        <3> QED
            BY <2>1, <3>2 DEF AfterJmp
    <2>9. nb_edges' = i' + Cardinality(AfterJmp({list[j] : j \in 2 .. i + 1}))'
        <3>1. EdgeRoom(ir, x) \in Nat
            BY DEF EdgeRoom
        <3>2. Cardinality(AfterJmp(T)) = Cardinality(AfterJmp(S)) + EdgeRoom(ir, x) - 1
            <4>1. Cardinality(AfterJmp(T)) \in Nat
                BY <2>5, AfterJmpFinite
            <4> QED
                BY <2>6, <2>7, <3>1, <4>1
        <3>3. i \in Nat /\ i' = i + 1 /\ Cardinality(AfterJmp(S)) \in Nat
            BY <1>0, <2>1, <2>6
        <3>4. nb_edges' = i + Cardinality(AfterJmp(S)) + EdgeRoom(ir, x)
            BY <2>1
        <3>5. nb_edges' = i' + Cardinality(AfterJmp(T))
            BY <3>1, <3>2, <3>3, <3>4
        <3> QED
            BY <2>8, <3>5
    <2> QED
        BY <2>1, <2>9 DEF CountInv
<1>4. CASE Return
    <2>1. i' = nb - 1 /\ nb' = nb /\ list' = list /\ ir' = ir /\ nb_edges' = nb_edges
            /\ pc = "count" /\ pc' = "done" /\ i' = i
        BY <1>0, <1>4 DEF Return, CountInv
    <2>2. AfterJmp({list[j] : j \in 2 .. i + 1})'
            = AfterJmp({list[j] : j \in 2 .. i + 1})
        BY <2>1 DEF AfterJmp
    <2> QED
        BY <2>1, <2>2 DEF CountInv
<1> QED
    BY <1>1, <1>2, <1>3, <1>4 DEF Next

\* The array delivered has one cell per leader, the first being the entry.
LEMMA StartsCount ==
    ASSUME IInv, pc \in {"count", "done"}
    PROVE  /\ Cardinality(Leaders(ir)) = nb_basic_nodes
           /\ {list[j] : j \in 2 .. nb_basic_nodes} = Leaders(ir) \ {0}
<1> DEFINE nb == nb_basic_nodes
<1>1. /\ nb \in Nat /\ Len(list) = nb
      /\ \A k \in 1 .. nb : list[k] \in Nat
      /\ \A j, k \in 1 .. nb : j < k => list[j] < list[k]
      /\ {list[k] : k \in 1 .. nb} = Leaders(ir)
      /\ list \in [1 .. nb -> Nat]
    <2>1. /\ list \in Seq(Nat) /\ nb \in Nat /\ Len(list) = nb
          /\ \A j, k \in 1 .. nb : j < k => list[j] < list[k]
          /\ {list[k] : k \in 1 .. nb} = Leaders(ir)
        BY DEF IInv, TypeOK, StartsExact
    <2>2. list \in [1 .. nb -> Nat]
        BY <2>1, LenProperties
    <2>3. \A k \in 1 .. nb : list[k] \in Nat
        BY <2>2
    <2> QED
        BY <2>1, <2>2, <2>3
<1>2. Cardinality(Leaders(ir)) = nb
    <2>1. list \in [1 .. nb -> Leaders(ir)]
        BY <1>1
    <2>2. \A j, k \in 1 .. nb : list[j] = list[k] => j = k
        BY <1>1
    <2>3. list \in Bijection(1 .. nb, Leaders(ir))
        BY <1>1, <2>1, <2>2 DEF Bijection, Injection, Surjection, IsInjective
    <2>4. ExistsBijection(1 .. nb, Leaders(ir))
        BY <2>3 DEF ExistsBijection
    <2> QED
        BY <1>1, <2>4, FS_CountingElements
<1>3. nb > 0 /\ list[1] = 0
    <2>1. PICK m \in 1 .. nb : list[m] = 0
        BY <1>1 DEF Leaders
    <2>2. 1 \in 1 .. nb /\ m \in Int
        BY <1>1, <2>1
    <2>3. ~ (1 < m)
        BY <1>1, <2>1, <2>2
    <2> QED
        BY <1>1, <2>1, <2>2, <2>3
<1>4. \A j \in 2 .. nb : list[j] # 0
    BY <1>1, <1>3
<1>5. 1 .. nb = {1} \cup (2 .. nb)
    BY <1>1, <1>3
<1> QED
    BY <1>1, <1>2, <1>3, <1>4, <1>5

(***************************************************************************)
(* get_info_graph implements its promise, for programs of every length.    *)
(***************************************************************************)
THEOREM Refinement == Spec => Implements
<1> USE DEF Promise!Leaders, Promise!IsJump, Promise!Kind, Promise!Target, Promise!Offsets
<1>1. Init => Promise!Init
    <2>1. \A p : Promise!IsProgram(p) <=> IsProgram(p)
        BY DEF Promise!IsProgram, IsProgram, Promise!Kinds, Kinds, Offsets
    <2>2. ASSUME Init PROVE IsProgram(ir) /\ pc = "alloc"
        BY <2>2, ProgramsAssumption DEF Init, Entry
    <2> QED
        BY <2>1, <2>2 DEF Promise!Init
<1>2. ASSUME IInv, IInv', CountInv, CountInv', Next
      PROVE  Promise!Deliver \/ UNCHANGED Promise!vars
    <2>1. CASE Alloc \/ ScanInstr \/ Sort \/ Dedup \/ Truncate \/ CountEdges \/ CountWild
        BY <2>1 DEF Alloc, ScanInstr, Sort, Dedup, Truncate, CountEdges, CountWild,
                    Promise!vars
    <2>2. CASE Return
        <3>1. /\ pc = "count" /\ pc' = "done" /\ ir' = ir /\ list' = list
              /\ nb_edges' = nb_edges /\ nb_basic_nodes' = nb_basic_nodes
            BY <2>2 DEF Return
        <3>2. Promise!Leaders(ir) = Leaders(ir)
            BY DEF Leaders, IsJump, Kind, Target, Offsets
        <3>3. Promise!IsEnumeration(list, Promise!Leaders(ir))
            BY <1>2, <3>1, <3>2 DEF Promise!IsEnumeration, IInv, StartsExact
        <3>4. nb_edges' = Promise!EdgeCapacity(ir)
            <4>1. i' = nb_basic_nodes - 1 /\ nb_basic_nodes \in Nat
                     /\ i' + 1 = nb_basic_nodes
                BY <3>1, <1>2 DEF CountInv, IInv, TypeOK
            <4>2. nb_edges' = i' + Cardinality(AfterJmp(Leaders(ir) \ {0}))
                <5>1. {list[j] : j \in 2 .. nb_basic_nodes} = Leaders(ir) \ {0}
                    BY <3>1, <1>2, StartsCount
                <5>2. AfterJmp({list[j] : j \in 2 .. i + 1})' = AfterJmp(Leaders(ir) \ {0})
                    BY <3>1, <4>1, <5>1 DEF AfterJmp
                <5> QED
                    BY <3>1, <1>2, <5>2 DEF CountInv
            <4>3. Cardinality(Leaders(ir)) = nb_basic_nodes
                BY <3>1, <1>2, StartsCount
            <4>4. EdgeCapacity(ir) = nb_edges'
                BY <4>1, <4>2, <4>3 DEF EdgeCapacity, AfterJmp
            <4>5. Promise!EdgeCapacity(ir) = EdgeCapacity(ir)
                <5>1. \A S : Promise!Cardinality(S) = Cardinality(S)
                    BY Zenon DEF Promise!Cardinality, Cardinality
                <5> QED
                    BY <3>2, <5>1 DEF Promise!EdgeCapacity, EdgeCapacity, Kind
            <4> QED
                BY <4>4, <4>5
        <3>5. ir.index > 0 => Promise!StartsInside(ir)
            <4>1. ir.index > 0 => StartsInside(ir)
                BY <1>2, <3>1 DEF IInv, StartsExact
            <4> QED
                BY <4>1 DEF StartsInside, Promise!StartsInside, IsJump, Kind, Target, Offsets
        <3> QED
            BY <3>1, <3>3, <3>4, <3>5 DEF Promise!Deliver
    <2> QED
        BY <1>2, <2>1, <2>2 DEF Next
<1>3. UNCHANGED vars => UNCHANGED Promise!vars
    BY DEF vars, Promise!vars
<1>4. CountInv /\ UNCHANGED vars => CountInv'
    BY DEF CountInv, AfterJmp, vars
<1>5. Spec => []CountInv
    BY CountInit, CountInvStep, Invariance, <1>4, PTL DEF Spec
<1> QED
    BY <1>1, <1>2, <1>3, <1>5, Invariance, PTL DEF Spec, Implements, Promise!Spec
=============================================================================
