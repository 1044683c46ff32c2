----------------------------- MODULE HeapsProofs -----------------------------
(***************************************************************************)
(* The heaps side by side, for every value of the constants.  What         *)
(* BuddyHeapProofs shows of the buddy heap holds in every behaviour of     *)
(* HeapsSpec: its theorems are about an instance of that module, whose     *)
(* definitions are those of MCHeaps' instance of the heap.  The invariants *)
(* of kernel_heap, of the slab heap that one thread uses and of the page   *)
(* heap are proved here.                                                   *)
(***************************************************************************)
EXTENDS MCHeaps, FiniteSetTheorems, SequenceTheorems, WellFoundedInduction,
        TLAPS

-----------------------------------------------------------------------------
\* A set of numbers that is not empty has a smallest one.
LEMMA LeastIn ==
  ASSUME NEW S \in SUBSET Nat, S # {}
  PROVE  \E x \in S : \A y \in S : x <= y
<1> DEFINE R == OpToRel(<, Nat)
<1>1. PICK x \in S : \A y \in S : <<y, x>> \notin R
  <2>1. IsWellFoundedOn(R, Nat) BY NatLessThanWellFounded
  <2> HIDE DEF R
  <2> QED BY <2>1, WFMin
<1>2. \A y \in S : x <= y
  <2> TAKE y \in S
  <2>1. ~(y < x) BY <1>1 DEF OpToRel
  <2> QED BY <2>1
<1> QED BY <1>2

LEMMA CellIn ==
  ASSUME NEW S \in SUBSET Nat, S # {}
  PROVE  slab!Min(S) \in S
BY LeastIn DEF slab!Min

-----------------------------------------------------------------------------
\* The slab heap that one thread uses.  Between two statements of alloc or
\* free the slab they work on is not where it belongs; the invariant says, for
\* each such place, where it is.  (With two threads it does not hold, because
\* free takes no lock.)

\* The place in the sets that a count calls for.
FiledAs(i, count) ==
  /\ i \in full_set <=> count = 0
  /\ i \in empty_set <=> count = CellsPerSlab
  /\ i \in partial_set <=> 0 < count /\ count < CellsPerSlab

Unfiled(i) == i \notin full_set /\ i \notin empty_set
InNoSet(i) == Unfiled(i) /\ i \notin partial_set

\* Where slab i is while thread t works on it.
Misfiled(t, i) ==
  /\ slab!At(t, "from empty") => InNoSet(i) /\ free_count[i] = CellsPerSlab
  /\ slab!At(t, "count") =>
       Unfiled(i) /\ i \in partial_set /\ free_count[i] > 0
  /\ slab!At(t, "mask") =>
       /\ Unfiled(i) /\ i \in partial_set
       /\ free_count[i] < CellsPerSlab /\ (flag[t] <=> free_count[i] = 0)
  /\ slab!At(t, "now full") =>
       Unfiled(i) /\ i \in partial_set /\ free_count[i] = 0
  /\ slab!At(t, "full set") => InNoSet(i) /\ free_count[i] = 0
  /\ slab!At(t, "free count") => FiledAs(i, free_count[i]) /\ free_count[i] < CellsPerSlab
  /\ slab!At(t, "free sets") =>
       /\ free_count[i] > 0 /\ (flag[t] <=> free_count[i] = CellsPerSlab)
       /\ FiledAs(i, free_count[i] - 1)
  /\ slab!At(t, "free sets 2") =>
       /\ Unfiled(i) /\ free_count[i] > 0
       /\ flag[t] <=> free_count[i] = CellsPerSlab
       /\ flag[t] => i \notin partial_set

\* Each slab is where its count says, or thread t is working on it.
Placed(t, i) ==
  IF slab!At(t, "idle") \/ i # s_index[t] THEN FiledAs(i, free_count[i]) ELSE Misfiled(t, i)
Filed == \A t \in {Taker}, i \in slab!Slab : Placed(t, i)

\* The count of a slab is behind its mask between two statements.
Behind(t, i) == s_pc[t] \in {"mask", "free count"} /\ i = s_index[t]
Counts == \A t \in {Taker}, i \in slab!Slab :
  free_count[i] = Cardinality(free_mask[i]) - (IF Behind(t, i) THEN 1 ELSE 0)

\* A cell outside its mask is in use, or alloc is about to return it.
Returning(t, i, c) ==
  s_pc[t] \in {"now full", "full set"} /\ i = s_index[t] /\ c = cell[t]
Owned == \A t \in {Taker}, i \in slab!Slab, c \in slab!Cell :
  /\ <<i, c>> \in s_held => c \notin free_mask[i]
  /\ c \notin free_mask[i] => <<i, c>> \in s_held \/ Returning(t, i, c)
  /\ Returning(t, i, c) => c \notin free_mask[i] /\ <<i, c>> \notin s_held
Chosen == \A t \in {Taker} : slab!At(t, "mask") => cell[t] \in free_mask[s_index[t]]

SlabInv == slab!TypeOK /\ Filed /\ Counts /\ Owned /\ Chosen

\* A mask is a finite set of at most Cells cells.
LEMMA MaskSize ==
  ASSUME slab!SizeAssumption, NEW m \in SUBSET slab!Cell
  PROVE  /\ IsFiniteSet(m) /\ Cardinality(m) \in 0 .. CellsPerSlab
         /\ Cardinality(m) = 0 <=> m = {}
         /\ \A c : Cardinality(m \ {c}) = Cardinality(m) - (IF c \in m THEN 1 ELSE 0)
         /\ \A c : Cardinality(m \cup {c}) = Cardinality(m) + (IF c \in m THEN 0 ELSE 1)
<1>1. IsFiniteSet(slab!Cell) /\ Cardinality(slab!Cell) = CellsPerSlab
  BY FS_Interval DEF slab!SizeAssumption, slab!Cell
<1>2. IsFiniteSet(m) /\ Cardinality(m) <= CellsPerSlab
  BY <1>1, FS_Subset
<1>3. Cardinality(m) \in Nat BY <1>2, FS_CardinalityType
<1>4. CellsPerSlab \in Nat BY DEF slab!SizeAssumption
<1>5. \A c : Cardinality(m \ {c}) = Cardinality(m) - (IF c \in m THEN 1 ELSE 0)
  BY <1>2, <1>3, FS_RemoveElement
<1>6. \A c : Cardinality(m \cup {c}) = Cardinality(m) + (IF c \in m THEN 0 ELSE 1)
  BY <1>2, <1>3, FS_AddElement
<1>7. Cardinality(m) = 0 <=> m = {} BY <1>2, FS_EmptySet
<1> QED BY <1>2, <1>3, <1>4, <1>5, <1>6, <1>7

-----------------------------------------------------------------------------
LEMMA SlabInit == ASSUME slab!SizeAssumption, slab!Init PROVE SlabInv
<1> USE DEF slab!Init, slab!At
<1>1. Cardinality(slab!Cell) = CellsPerSlab
  BY FS_Interval DEF slab!SizeAssumption, slab!Cell
<1>2. slab!TypeOK BY DEF slab!TypeOK, slab!Pc, slab!SizeAssumption, slab!Slab, slab!Cell
<1>3. Filed BY DEF Filed, Placed, FiledAs, slab!SizeAssumption
<1>4. Counts BY <1>1 DEF Counts, Behind, slab!SizeAssumption
<1>5. Owned BY DEF Owned, Returning
<1>6. Chosen BY DEF Chosen
<1> QED BY <1>2, <1>3, <1>4, <1>5, <1>6 DEF SlabInv

\* A function on threads that is changed at one of them.
LEMMA SetFlag ==
  ASSUME NEW t, NEW f, NEW g, NEW b \in BOOLEAN,
         f \in [{Taker} -> BOOLEAN], t \in {Taker}, g = [f EXCEPT ![t] = b]
  PROVE  g \in [{Taker} -> BOOLEAN] /\ (g[t] <=> b)
OBVIOUS

LEMMA CellCount == ASSUME slab!SizeAssumption PROVE CellsPerSlab \in Nat /\ CellsPerSlab > 1
BY DEF slab!SizeAssumption

LEMMA CountOf ==
  ASSUME slab!SizeAssumption, SlabInv, NEW i \in slab!Slab
  PROVE  /\ free_count[i] \in Nat /\ free_count[i] <= CellsPerSlab
         /\ free_mask[i] \in SUBSET slab!Cell
BY CellCount DEF SlabInv, slab!TypeOK

\* The slab a thread works on, and all others.
LEMMA Places ==
  ASSUME slab!SizeAssumption, NEW t, t = Taker, SlabInv
  PROVE  /\ s_index[t] \in slab!Slab /\ cell[t] \in slab!Cell /\ s_pc[t] \in slab!Pc /\ flag[t] \in BOOLEAN
         /\ Placed(t, s_index[t])
         /\ \A i \in slab!Slab : i # s_index[t] => FiledAs(i, free_count[i])
         /\ slab!At(t, "idle") => \A i \in slab!Slab : FiledAs(i, free_count[i])
<1>1. s_index[t] \in slab!Slab /\ cell[t] \in slab!Cell /\ s_pc[t] \in slab!Pc /\ flag[t] \in BOOLEAN
  BY DEF SlabInv, slab!TypeOK
<1>2. \A i \in slab!Slab : Placed(t, i) BY DEF SlabInv, Filed
<1> QED BY <1>1, <1>2 DEF Placed

LEMMA FiledStep ==
  ASSUME NEW t, t = Taker, Placed(t, s_index[t])',
         \A i \in slab!Slab : i # s_index'[t] => FiledAs(i, free_count[i])'
  PROVE  Filed'
BY DEF Filed, Placed

LEMMA AllocPartialInv ==
  ASSUME slab!SizeAssumption, NEW t, t = Taker, SlabInv, slab!AllocPartial(t)
  PROVE  SlabInv'
<1>1. PICK i \in partial_set : i = slab!Min(partial_set) /\ i \in slab!Slab
  <2>1. partial_set \in SUBSET slab!Slab /\ partial_set # {}
    BY DEF slab!AllocPartial, SlabInv, slab!TypeOK
  <2>2. slab!Slab \in SUBSET Nat BY DEF slab!Slab, slab!SizeAssumption
  <2>3. slab!Min(partial_set) \in partial_set BY <2>1, <2>2, CellIn
  <2> QED BY <2>1, <2>3
<1>2. /\ slab!At(t, "idle") /\ s_pc' = [s_pc EXCEPT ![t] = "count"]
      /\ s_index' = [s_index EXCEPT ![t] = i] /\ sets_m' = t
      /\ UNCHANGED <<free_mask, free_count, full_set, empty_set, partial_set,
                     cell, flag, s_held>>
  BY <1>1 DEF slab!AllocPartial, slab!Goto, slab!slabs, slab!sets
<1>3. slab!TypeOK' BY <1>1, <1>2 DEF SlabInv, slab!TypeOK, slab!Pc
<1>4. s_pc'[t] = "count" /\ s_index'[t] = i BY <1>1, <1>2 DEF SlabInv, slab!TypeOK
<1>5. \A j \in slab!Slab : FiledAs(j, free_count[j])'
  BY <1>1, <1>2, Places DEF FiledAs
<1>6. (Unfiled(i) /\ i \in partial_set /\ free_count[i] > 0)'
  BY <1>1, <1>2, Places, CountOf, CellCount DEF FiledAs, Unfiled
<1>7. Filed'
  BY <1>1, <1>4, <1>5, <1>6, FiledStep DEF Placed, Misfiled, slab!At
<1>8. Counts' BY <1>1, <1>2 DEF SlabInv, slab!TypeOK, Counts, Behind, slab!At
<1>9. Owned' /\ Chosen' BY <1>1, <1>2 DEF SlabInv, slab!TypeOK, Owned, Returning, Chosen, slab!At
<1> QED BY <1>1, <1>3, <1>7, <1>8, <1>9 DEF SlabInv

LEMMA AllocEmptyInv ==
  ASSUME slab!SizeAssumption, NEW t, t = Taker, SlabInv, slab!AllocEmpty(t)
  PROVE  SlabInv'
<1>1. PICK i \in empty_set : i = slab!Min(empty_set) /\ i \in slab!Slab
  <2>1. empty_set \in SUBSET slab!Slab /\ empty_set # {}
    BY DEF slab!AllocEmpty, SlabInv, slab!TypeOK
  <2>2. slab!Slab \in SUBSET Nat BY DEF slab!Slab, slab!SizeAssumption
  <2>3. slab!Min(empty_set) \in empty_set BY <2>1, <2>2, CellIn
  <2> QED BY <2>1, <2>3
<1>2. /\ slab!At(t, "idle") /\ s_pc' = [s_pc EXCEPT ![t] = "from empty"]
      /\ s_index' = [s_index EXCEPT ![t] = i] /\ sets_m' = t
      /\ empty_set' = empty_set \ {i}
      /\ UNCHANGED <<free_mask, free_count, full_set, partial_set, cell, flag, s_held>>
  BY <1>1 DEF slab!AllocEmpty, slab!Goto, slab!slabs
<1>3. slab!TypeOK' BY <1>1, <1>2 DEF SlabInv, slab!TypeOK, slab!Pc
<1>4. s_pc'[t] = "from empty" /\ s_index'[t] = i BY <1>1, <1>2 DEF SlabInv, slab!TypeOK
<1>5. \A j \in slab!Slab : j # i => FiledAs(j, free_count[j])'
  BY <1>1, <1>2, Places DEF FiledAs
<1>6. (InNoSet(i) /\ free_count[i] = CellsPerSlab)'
  <2>1. FiledAs(i, free_count[i]) BY <1>1, <1>2, Places
  <2>2. i \notin full_set /\ i \notin partial_set /\ free_count[i] = CellsPerSlab
    BY <1>1, <2>1, CellCount DEF FiledAs
  <2> QED BY <1>2, <2>2 DEF Unfiled, InNoSet
<1>7. Filed'
  BY <1>1, <1>4, <1>5, <1>6, FiledStep DEF Placed, Misfiled, slab!At
<1>8. Counts' BY <1>1, <1>2 DEF SlabInv, slab!TypeOK, Counts, Behind, slab!At
<1>9. Owned' /\ Chosen' BY <1>1, <1>2 DEF SlabInv, slab!TypeOK, Owned, Returning, Chosen, slab!At
<1> QED BY <1>1, <1>3, <1>7, <1>8, <1>9 DEF SlabInv

LEMMA FromEmptyInv ==
  ASSUME slab!SizeAssumption, NEW t, t = Taker, SlabInv, slab!FromEmpty(t)
  PROVE  SlabInv'
<1>1. PICK i \in slab!Slab : i = s_index[t] BY Places
<1>2. /\ slab!At(t, "from empty") /\ s_pc' = [s_pc EXCEPT ![t] = "count"]
      /\ partial_set' = partial_set \cup {i}
      /\ UNCHANGED <<free_mask, free_count, full_set, empty_set, sets_m,
                     s_index, cell, flag, s_held>>
  BY <1>1 DEF slab!FromEmpty, slab!Goto, slab!slabs, slab!locals
<1>3. slab!TypeOK' BY <1>1, <1>2 DEF SlabInv, slab!TypeOK, slab!Pc
<1>4. s_pc'[t] = "count" /\ s_index'[t] = i BY <1>1, <1>2 DEF SlabInv, slab!TypeOK
<1>5. \A j \in slab!Slab : j # i => FiledAs(j, free_count[j])'
  BY <1>1, <1>2, Places DEF FiledAs
<1>6. InNoSet(i) /\ free_count[i] > 0
  <2>1. InNoSet(i) /\ free_count[i] = CellsPerSlab
    BY <1>1, <1>2, Places DEF Placed, Misfiled, slab!At
  <2> QED BY <2>1, CellCount
<1>7. (Unfiled(i) /\ i \in partial_set /\ free_count[i] > 0)'
  BY <1>2, <1>6 DEF Unfiled, InNoSet
<1>8. Filed'
  BY <1>1, <1>4, <1>5, <1>7, FiledStep DEF Placed, Misfiled, slab!At
<1>9. Counts' BY <1>1, <1>2 DEF SlabInv, slab!TypeOK, Counts, Behind, slab!At
<1>10. Owned' /\ Chosen' BY <1>1, <1>2 DEF SlabInv, slab!TypeOK, Owned, Returning, Chosen, slab!At
<1> QED BY <1>1, <1>3, <1>8, <1>9, <1>10 DEF SlabInv

LEMMA AllocCountInv ==
  ASSUME slab!SizeAssumption, NEW t, t = Taker, SlabInv, slab!AllocCount(t)
  PROVE  SlabInv'
<1>1. PICK i \in slab!Slab : i = s_index[t] BY Places
<1>2. PICK c \in free_mask[i] : c = slab!Min(free_mask[i]) /\ c \in slab!Cell
  <2>1. free_mask[i] \in SUBSET slab!Cell /\ free_mask[i] # {}
    BY <1>1, CountOf DEF slab!AllocCount, slab!HasFree
  <2> QED BY <2>1, CellIn DEF slab!Cell
<1>3. /\ slab!At(t, "count") /\ s_pc' = [s_pc EXCEPT ![t] = "mask"]
      /\ cell' = [cell EXCEPT ![t] = c]
      /\ free_count' = [free_count EXCEPT ![i] = @ - 1]
      /\ UNCHANGED <<free_mask, full_set, empty_set, partial_set, sets_m, s_index, s_held>>
  BY <1>1, <1>2 DEF slab!AllocCount, slab!Goto, slab!sets, slab!OneFewer
<1>4. Unfiled(i) /\ i \in partial_set /\ free_count[i] > 0
  BY <1>1, <1>3, Places DEF Placed, Misfiled, slab!At
<1>5. flag' \in [{Taker} -> BOOLEAN] /\ (flag'[t] <=> free_count[i] = 1)
  <2>1. flag' = [flag EXCEPT ![t] = slab!IsLast(i)] BY <1>1 DEF slab!AllocCount
  <2>2. slab!IsLast(i) \in BOOLEAN BY DEF slab!IsLast
  <2>3. flag \in [{Taker} -> BOOLEAN] BY DEF SlabInv, slab!TypeOK
  <2> HIDE DEF slab!IsLast
  <2>4. flag' \in [{Taker} -> BOOLEAN] /\ (flag'[t] <=> slab!IsLast(i))
    BY <2>1, <2>2, <2>3, SetFlag
  <2> QED BY <2>4 DEF slab!IsLast
<1>6. /\ s_pc'[t] = "mask" /\ s_index'[t] = i /\ cell'[t] = c
      /\ free_count'[i] = free_count[i] - 1
      /\ \A j \in slab!Slab : j # i => free_count'[j] = free_count[j]
  BY <1>1, <1>3 DEF SlabInv, slab!TypeOK
<1>7. slab!TypeOK'
  <2>1. free_count[i] - 1 \in 0 .. CellsPerSlab BY <1>4, CountOf, CellCount
  <2>2. free_count' \in [slab!Slab -> 0 .. CellsPerSlab] BY <1>1, <1>3, <2>1 DEF SlabInv, slab!TypeOK
  <2> QED BY <1>1, <1>2, <1>3, <1>5, <2>2 DEF SlabInv, slab!TypeOK, slab!Pc
<1>8. \A j \in slab!Slab : j # i => FiledAs(j, free_count[j])'
  BY <1>1, <1>3, <1>6, Places DEF FiledAs
<1>9. (/\ Unfiled(i) /\ i \in partial_set
       /\ free_count[i] < CellsPerSlab /\ (flag[t] <=> free_count[i] = 0))'
  BY <1>1, <1>3, <1>4, <1>6, <1>5, Places, CountOf, CellCount DEF Unfiled
<1>10. Filed'
  BY <1>1, <1>6, <1>8, <1>9, FiledStep DEF Placed, Misfiled, slab!At
<1>11. Counts'
  BY <1>1, <1>3, <1>6, MaskSize DEF SlabInv, slab!TypeOK, Counts, Behind, slab!At
<1>12. Owned' BY <1>1, <1>3, <1>6 DEF SlabInv, Owned, Returning, slab!At
<1>13. Chosen' BY <1>1, <1>2, <1>3, <1>6 DEF Chosen
<1> QED BY <1>7, <1>10, <1>11, <1>12, <1>13 DEF SlabInv

LEMMA AllocMaskInv ==
  ASSUME slab!SizeAssumption, NEW t, t = Taker, SlabInv, slab!AllocMask(t)
  PROVE  SlabInv'
<1>1. PICK i \in slab!Slab, c \in slab!Cell : i = s_index[t] /\ c = cell[t]
  BY Places
<1>2. c \in free_mask[i] BY <1>1 DEF slab!AllocMask, SlabInv, Chosen
<1>3. /\ slab!At(t, "mask")
      /\ free_mask' = [free_mask EXCEPT ![i] = @ \ {c}]
      /\ UNCHANGED <<free_count, full_set, empty_set, partial_set, s_index, cell, flag>>
  BY <1>1 DEF slab!AllocMask, slab!sets, slab!locals, slab!Taken
<1>4. /\ Unfiled(i) /\ i \in partial_set
      /\ free_count[i] < CellsPerSlab /\ (flag[t] <=> free_count[i] = 0)
  BY <1>1, <1>3, Places DEF Placed, Misfiled, slab!At
<1>5. /\ s_index'[t] = i /\ cell'[t] = c
      /\ free_mask'[i] = free_mask[i] \ {c}
      /\ \A j \in slab!Slab : j # i => free_mask'[j] = free_mask[j]
  BY <1>1, <1>3 DEF SlabInv, slab!TypeOK
<1>6. \A j \in slab!Slab : j # i => FiledAs(j, free_count[j])'
  BY <1>1, <1>3, Places DEF FiledAs
<1>7. Counts' /\ Chosen' /\ Owned' /\ Filed' /\ slab!TypeOK'
  <2>1. \A j \in slab!Slab : free_count[j] = Cardinality(free_mask'[j])
    <3> TAKE j \in slab!Slab
    <3>1. free_count[j] = Cardinality(free_mask[j]) - (IF j = i THEN 1 ELSE 0)
      BY <1>1, <1>3 DEF SlabInv, Counts, Behind, slab!At
    <3>2. free_mask[j] \in SUBSET slab!Cell BY CountOf
    <3>3. Cardinality(free_mask[i] \ {c}) = Cardinality(free_mask[i]) - 1
      BY <1>1, <1>2, CountOf, MaskSize
    <3>4. Cardinality(free_mask[j]) \in Int BY <3>2, MaskSize
    <3>5. j = i => free_mask'[j] = free_mask[i] \ {c} BY <1>5
    <3>6. j # i => free_mask'[j] = free_mask[j] BY <1>5
    <3>7. CASE j = i BY <3>1, <3>3, <3>5, <3>7
    <3>8. CASE j # i BY <3>1, <3>4, <3>6, <3>8
    <3> QED BY <3>7, <3>8
  <2>2. \A j \in slab!Slab, d \in slab!Cell : <<j, d>> \in s_held <=> d \notin free_mask[j]
    BY <1>3 DEF SlabInv, Owned, Returning, slab!At
  <2>3. \A j \in slab!Slab, d \in slab!Cell :
          d \in free_mask'[j] <=> d \in free_mask[j] /\ ~(j = i /\ d = c)
    BY <1>1, <1>5
  <2>4. CASE flag[t]
    <3>1. /\ s_pc' = [s_pc EXCEPT ![t] = "now full"]
          /\ UNCHANGED <<sets_m, s_held>>
      BY <2>4 DEF slab!AllocMask, slab!Goto
    <3>2. s_pc'[t] = "now full" BY <3>1 DEF SlabInv, slab!TypeOK
    <3>3. (Unfiled(i) /\ i \in partial_set /\ free_count[i] = 0)'
      BY <1>3, <1>4, <2>4 DEF Unfiled
    <3>4. Filed' BY <1>5, <1>6, <3>2, <3>3, FiledStep DEF Placed, Misfiled, slab!At
    <3>5. Counts'
      <4>1. \A j \in slab!Slab : free_count'[j] = Cardinality(free_mask'[j]) - 0
        <5> TAKE j \in slab!Slab
        <5>1. free_count'[j] = free_count[j] BY <1>3
        <5> QED BY <2>1, <5>1, CountOf
      <4>2. \A j : ~Behind(t, j)' BY <3>2 DEF Behind
      <4> QED BY <4>1, <4>2 DEF Counts
    <3>6. \A j \in slab!Slab, d \in slab!Cell : Returning(t, j, d)' <=> j = i /\ d = c
      BY <1>5, <3>2 DEF Returning
    <3>7. Owned'
      <4>1. <<i, c>> \notin s_held BY <1>2, <2>2
      <4>2. s_held' = s_held BY <3>1
      <4>3. \A j \in slab!Slab, d \in slab!Cell : <<j, d>> = <<i, c>> <=> j = i /\ d = c
        OBVIOUS
      <4> SUFFICES ASSUME NEW j \in slab!Slab, NEW d \in slab!Cell
            PROVE  /\ <<j, d>> \in s_held' => d \notin free_mask'[j]
                   /\ d \notin free_mask'[j] => <<j, d>> \in s_held' \/ Returning(t, j, d)'
                   /\ Returning(t, j, d)' => d \notin free_mask'[j] /\ <<j, d>> \notin s_held'
        BY DEF Owned
      <4> QED BY <2>2, <2>3, <3>6, <4>1, <4>2, <4>3
    <3>8. Chosen' BY <3>2 DEF Chosen, slab!At
    <3>9. slab!TypeOK' BY <1>3, <3>1 DEF SlabInv, slab!TypeOK, slab!Pc
    <3> QED BY <3>4, <3>5, <3>7, <3>8, <3>9
  <2>5. CASE ~flag[t]
    <3>1. /\ s_pc' = [s_pc EXCEPT ![t] = "idle"]
          /\ sets_m' = NoOne /\ s_held' = s_held \cup {<<i, c>>}
      BY <1>1, <2>5 DEF slab!AllocMask, slab!Goto
    <3>2. s_pc'[t] = "idle" BY <3>1 DEF SlabInv, slab!TypeOK
    <3>3. FiledAs(i, free_count[i])
      BY <1>1, <1>4, <2>5, Places, CountOf, CellCount DEF FiledAs, Unfiled
    <3>4. FiledAs(i, free_count[i])' BY <1>3, <3>3 DEF FiledAs
    <3>5. Filed' BY <1>5, <1>6, <3>2, <3>4, FiledStep DEF Placed, slab!At
    <3>6. Counts'
      <4>1. \A j \in slab!Slab : free_count'[j] = Cardinality(free_mask'[j]) - 0
        <5> TAKE j \in slab!Slab
        <5>1. free_count'[j] = free_count[j] BY <1>3
        <5> QED BY <2>1, <5>1, CountOf
      <4>2. \A j : ~Behind(t, j)' BY <3>2 DEF Behind
      <4> QED BY <4>1, <4>2 DEF Counts
    <3>7. \A j \in slab!Slab, d \in slab!Cell :
            <<j, d>> \in s_held' <=> <<j, d>> \in s_held \/ (j = i /\ d = c)
      BY <3>1
    <3>8. Owned' BY <2>2, <2>3, <3>2, <3>7 DEF Owned, Returning
    <3>9. Chosen' BY <3>2 DEF Chosen, slab!At
    <3>10. s_held' \subseteq slab!Slab \X slab!Cell
      BY <3>1 DEF SlabInv, slab!TypeOK
    <3>11. slab!TypeOK' BY <1>3, <3>1, <3>10 DEF SlabInv, slab!TypeOK, slab!Pc
    <3> QED BY <3>5, <3>6, <3>8, <3>9, <3>11
  <2> QED BY <2>4, <2>5
<1> QED BY <1>7 DEF SlabInv

LEMMA NowFullInv ==
  ASSUME slab!SizeAssumption, NEW t, t = Taker, SlabInv, slab!NowFull(t)
  PROVE  SlabInv'
<1>1. PICK i \in slab!Slab : i = s_index[t] BY Places
<1>2. /\ slab!At(t, "now full") /\ s_pc' = [s_pc EXCEPT ![t] = "full set"]
      /\ partial_set' = partial_set \ {i}
      /\ UNCHANGED <<free_mask, free_count, full_set, empty_set, sets_m,
                     s_index, cell, flag, s_held>>
  BY <1>1 DEF slab!NowFull, slab!Goto, slab!slabs, slab!locals
<1>3. slab!TypeOK' BY <1>1, <1>2 DEF SlabInv, slab!TypeOK, slab!Pc
<1>4. s_pc'[t] = "full set" /\ s_index'[t] = i BY <1>1, <1>2 DEF SlabInv, slab!TypeOK
<1>5. \A j \in slab!Slab : j # i => FiledAs(j, free_count[j])'
  BY <1>1, <1>2, Places DEF FiledAs
<1>6. Unfiled(i) /\ free_count[i] = 0 BY <1>1, <1>2, Places DEF Placed, Misfiled, slab!At
<1>7. (InNoSet(i) /\ free_count[i] = 0)' BY <1>1, <1>2, <1>6 DEF Unfiled, InNoSet
<1>8. Filed'
  BY <1>1, <1>4, <1>5, <1>7, FiledStep DEF Placed, Misfiled, slab!At
<1>9. Counts' BY <1>1, <1>2 DEF SlabInv, slab!TypeOK, Counts, Behind, slab!At
<1>10. Owned' /\ Chosen' BY <1>1, <1>2 DEF SlabInv, slab!TypeOK, Owned, Returning, Chosen, slab!At
<1> QED BY <1>1, <1>3, <1>8, <1>9, <1>10 DEF SlabInv

LEMMA FullSetInv ==
  ASSUME slab!SizeAssumption, NEW t, t = Taker, SlabInv, slab!FullSet(t)
  PROVE  SlabInv'
<1>1. PICK i \in slab!Slab, c \in slab!Cell : i = s_index[t] /\ c = cell[t] BY Places
<1>2. /\ slab!At(t, "full set") /\ s_pc' = [s_pc EXCEPT ![t] = "idle"]
      /\ full_set' = full_set \cup {i} /\ sets_m' = NoOne
      /\ s_held' = s_held \cup {<<i, c>>}
      /\ UNCHANGED <<free_mask, free_count, empty_set, partial_set, s_index, cell, flag>>
  BY <1>1 DEF slab!FullSet, slab!Goto, slab!slabs, slab!locals
<1>3. slab!TypeOK'
  <2>1. s_held \subseteq slab!Slab \X slab!Cell BY DEF SlabInv, slab!TypeOK
  <2>2. <<i, c>> \in slab!Slab \X slab!Cell BY <1>1
  <2>3. s_held' \subseteq slab!Slab \X slab!Cell BY <1>2, <2>1, <2>2
  <2> QED BY <1>1, <1>2, <2>3 DEF SlabInv, slab!TypeOK, slab!Pc
<1>4. s_pc'[t] = "idle" /\ s_index'[t] = i BY <1>1, <1>2 DEF SlabInv, slab!TypeOK
<1>5. \A j \in slab!Slab : j # i => FiledAs(j, free_count[j])'
  BY <1>1, <1>2, Places DEF FiledAs
<1>6. InNoSet(i) /\ free_count[i] = 0 BY <1>1, <1>2, Places DEF Placed, Misfiled, slab!At
<1>7. FiledAs(i, free_count[i])'
  <2>1. free_count'[i] = 0 /\ i \in full_set' /\ i \notin empty_set' /\ i \notin partial_set'
    BY <1>2, <1>6 DEF Unfiled, InNoSet
  <2> QED BY <2>1, CellCount DEF FiledAs
<1>8. Filed' BY <1>1, <1>4, <1>5, <1>7, FiledStep DEF Placed, slab!At
<1>9. Counts' BY <1>1, <1>2 DEF SlabInv, slab!TypeOK, Counts, Behind, slab!At
<1>10. Owned' BY <1>1, <1>2, <1>4 DEF SlabInv, Owned, Returning, slab!At
<1>11. Chosen' BY <1>4 DEF Chosen, slab!At
<1> QED BY <1>1, <1>3, <1>8, <1>9, <1>10, <1>11 DEF SlabInv

-----------------------------------------------------------------------------
LEMMA FreeMaskInv ==
  ASSUME slab!SizeAssumption, NEW t, t = Taker, SlabInv,
         NEW i \in slab!Slab, NEW c \in slab!Cell, slab!FreeMask(t, i, c)
  PROVE  SlabInv'
<1>1. /\ slab!At(t, "idle") /\ s_pc' = [s_pc EXCEPT ![t] = "free count"]
      /\ c \notin free_mask[i] /\ s_index' = [s_index EXCEPT ![t] = i]
      /\ s_held' = s_held \ {<<i, c>>}
      /\ free_mask' = [free_mask EXCEPT ![i] = @ \cup {c}]
      /\ UNCHANGED <<free_count, full_set, empty_set, partial_set, sets_m, cell, flag>>
  BY DEF slab!FreeMask, slab!Goto, slab!sets
<1>2. /\ s_pc'[t] = "free count" /\ s_index'[t] = i
      /\ free_mask'[i] = free_mask[i] \cup {c}
      /\ \A j \in slab!Slab : j # i => free_mask'[j] = free_mask[j]
  BY <1>1 DEF SlabInv, slab!TypeOK
<1>3. slab!TypeOK' BY <1>1 DEF SlabInv, slab!TypeOK, slab!Pc
<1>4. \A j \in slab!Slab : free_count[j] = Cardinality(free_mask[j])
  <2> TAKE j \in slab!Slab
  <2>1. free_count[j] = Cardinality(free_mask[j]) - 0
    BY <1>1 DEF SlabInv, Counts, Behind, slab!At
  <2>2. Cardinality(free_mask[j]) \in 0 .. CellsPerSlab BY CountOf, MaskSize
  <2> QED BY <2>1, <2>2, CellCount
<1>5. Cardinality(free_mask'[i]) = free_count[i] + 1
  <2>1. Cardinality(free_mask[i] \cup {c}) = Cardinality(free_mask[i]) + 1
    BY <1>1, CountOf, MaskSize
  <2> QED BY <1>2, <1>4, <2>1
<1>6. \A j \in slab!Slab : FiledAs(j, free_count[j])' BY <1>1, Places DEF FiledAs
<1>7. free_count'[i] < CellsPerSlab
  <2>1. free_mask'[i] \in SUBSET slab!Cell BY <1>3 DEF slab!TypeOK
  <2>2. Cardinality(free_mask'[i]) \in 0 .. CellsPerSlab BY <2>1, MaskSize
  <2>3. free_count[i] + 1 <= CellsPerSlab BY <1>5, <2>2, CellCount
  <2>4. free_count' = free_count BY <1>1
  <2> QED BY <2>3, <2>4, CountOf, CellCount
<1>8. Filed' BY <1>2, <1>6, <1>7, FiledStep DEF Placed, Misfiled, slab!At
<1>9. Counts'
  <2>1. \A j \in slab!Slab :
          free_count'[j] = Cardinality(free_mask'[j]) - (IF j = i THEN 1 ELSE 0)
    <3> TAKE j \in slab!Slab
    <3>1. free_count'[j] = free_count[j] /\ free_count[j] \in Nat BY <1>1, CountOf
    <3>2. CASE j = i BY <1>5, <3>1, <3>2
    <3>3. CASE j # i
      <4>1. Cardinality(free_mask'[j]) = free_count[j] BY <1>2, <1>4, <3>3
      <4> QED BY <3>1, <3>3, <4>1
    <3> QED BY <3>2, <3>3
  <2>2. \A j : Behind(t, j)' <=> j = i BY <1>2 DEF Behind
  <2> QED BY <2>1, <2>2 DEF Counts
<1>10. Owned'
  <2>1. \A j \in slab!Slab, d \in slab!Cell : <<j, d>> \in s_held <=> d \notin free_mask[j]
    BY <1>1 DEF SlabInv, Owned, Returning, slab!At
  <2>2. \A j \in slab!Slab, d \in slab!Cell :
          <<j, d>> \in s_held' <=> <<j, d>> \in s_held /\ ~(j = i /\ d = c)
    BY <1>1
  <2>3. \A j \in slab!Slab, d \in slab!Cell :
          d \in free_mask'[j] <=> d \in free_mask[j] \/ (j = i /\ d = c)
    BY <1>2
  <2>4. \A j, d : ~Returning(t, j, d)' BY <1>2 DEF Returning
  <2> SUFFICES ASSUME NEW j \in slab!Slab, NEW d \in slab!Cell
        PROVE  <<j, d>> \in s_held' <=> d \notin free_mask'[j]
    BY <2>4 DEF Owned
  <2> QED BY <2>1, <2>2, <2>3
<1>11. Chosen' BY <1>2 DEF Chosen, slab!At
<1> QED BY <1>3, <1>8, <1>9, <1>10, <1>11 DEF SlabInv

LEMMA FreeCountInv ==
  ASSUME slab!SizeAssumption, NEW t, t = Taker, SlabInv, slab!FreeCount(t)
  PROVE  SlabInv'
<1>1. PICK i \in slab!Slab : i = s_index[t] BY Places
<1>2. /\ slab!At(t, "free count") /\ s_pc' = [s_pc EXCEPT ![t] = "free sets"]
      /\ free_count' = [free_count EXCEPT ![i] = @ + 1]
      /\ UNCHANGED <<free_mask, full_set, empty_set, partial_set, sets_m, s_index, cell, s_held>>
  BY <1>1 DEF slab!FreeCount, slab!Goto, slab!sets
<1>3. FiledAs(i, free_count[i]) /\ free_count[i] < CellsPerSlab
  BY <1>1, <1>2, Places DEF Placed, Misfiled, slab!At
<1>4. flag' \in [{Taker} -> BOOLEAN] /\ (flag'[t] <=> free_count[i] + 1 = CellsPerSlab)
  <2> DEFINE last == free_count[i] + 1 = CellsPerSlab
  <2>1. flag' = [flag EXCEPT ![t] = last] BY <1>1 DEF slab!FreeCount
  <2>2. last \in BOOLEAN OBVIOUS
  <2>3. flag \in [{Taker} -> BOOLEAN] BY DEF SlabInv, slab!TypeOK
  <2> HIDE DEF last
  <2>4. flag' \in [{Taker} -> BOOLEAN] /\ (flag'[t] <=> last)
    BY <2>1, <2>2, <2>3, SetFlag
  <2> QED BY <2>4 DEF last
<1>5. /\ s_pc'[t] = "free sets" /\ s_index'[t] = i
      /\ free_count'[i] = free_count[i] + 1
      /\ \A j \in slab!Slab : j # i => free_count'[j] = free_count[j]
  BY <1>1, <1>2 DEF SlabInv, slab!TypeOK
<1>6. slab!TypeOK'
  <2>1. free_count[i] + 1 \in 0 .. CellsPerSlab BY <1>3, CountOf, CellCount
  <2>2. free_count' \in [slab!Slab -> 0 .. CellsPerSlab] BY <1>1, <1>2, <2>1 DEF SlabInv, slab!TypeOK
  <2> QED BY <1>2, <1>4, <2>2 DEF SlabInv, slab!TypeOK, slab!Pc
<1>7. \A j \in slab!Slab : j # i => FiledAs(j, free_count[j])'
  BY <1>1, <1>2, <1>5, Places DEF FiledAs
<1>8. (/\ free_count[i] > 0 /\ (flag[t] <=> free_count[i] = CellsPerSlab)
       /\ FiledAs(i, free_count[i] - 1))'
  <2>1. free_count[i] \in Nat BY <1>1, CountOf
  <2>2. free_count'[i] = free_count[i] + 1 BY <1>5
  <2>3. free_count'[i] - 1 = free_count[i] BY <2>1, <2>2
  <2>4. FiledAs(i, free_count[i] - 1)' BY <1>2, <1>3, <2>3 DEF FiledAs
  <2>5. free_count'[i] > 0 BY <2>1, <2>2
  <2> QED BY <1>5, <1>4, <2>4, <2>5
<1>9. Filed' BY <1>5, <1>7, <1>8, FiledStep DEF Placed, Misfiled, slab!At
<1>10. Counts'
  <2>1. \A j \in slab!Slab : free_count'[j] = Cardinality(free_mask'[j]) - 0
    <3> TAKE j \in slab!Slab
    <3>1. free_count[j] = Cardinality(free_mask[j]) - (IF j = i THEN 1 ELSE 0)
      BY <1>1, <1>2 DEF SlabInv, Counts, Behind, slab!At
    <3>2. Cardinality(free_mask[j]) \in 0 .. CellsPerSlab BY CountOf, MaskSize
    <3>3. free_mask'[j] = free_mask[j] BY <1>2
    <3>4. CASE j = i
      <4>1. free_count'[j] = free_count[j] + 1 BY <1>5, <3>4
      <4> QED BY <1>1, <3>1, <3>2, <3>3, <3>4, <4>1, CellCount
    <3>5. CASE j # i BY <1>5, <3>1, <3>2, <3>3, <3>5, CellCount
    <3> QED BY <3>4, <3>5
  <2>2. \A j : ~Behind(t, j)' BY <1>5 DEF Behind
  <2> QED BY <2>1, <2>2 DEF Counts
<1>11. Owned' BY <1>1, <1>2, <1>5 DEF SlabInv, Owned, Returning, slab!At
<1>12. Chosen' BY <1>5 DEF Chosen, slab!At
<1> QED BY <1>1, <1>6, <1>9, <1>10, <1>11, <1>12 DEF SlabInv

LEMMA FreeSetsInv ==
  ASSUME slab!SizeAssumption, NEW t, t = Taker, SlabInv, slab!FreeSets(t)
  PROVE  SlabInv'
<1>1. PICK i \in slab!Slab : i = s_index[t] /\ flag[t] \in BOOLEAN BY Places
<1>2. /\ slab!At(t, "free sets") /\ s_pc' = [s_pc EXCEPT ![t] = "free sets 2"]
      /\ IF flag[t]
           THEN partial_set' = partial_set \ {i} /\ UNCHANGED full_set
           ELSE full_set' = full_set \ {i} /\ UNCHANGED partial_set
      /\ UNCHANGED <<free_mask, free_count, empty_set, sets_m, s_index, cell, flag, s_held>>
  BY <1>1 DEF slab!FreeSets, slab!Goto, slab!slabs, slab!locals
<1>3. slab!TypeOK' BY <1>1, <1>2 DEF SlabInv, slab!TypeOK, slab!Pc
<1>4. s_pc'[t] = "free sets 2" /\ s_index'[t] = i BY <1>1, <1>2 DEF SlabInv, slab!TypeOK
<1>5. \A j \in slab!Slab : j # i => FiledAs(j, free_count[j])'
  BY <1>1, <1>2, Places DEF FiledAs
<1>6. /\ free_count[i] > 0 /\ (flag[t] <=> free_count[i] = CellsPerSlab)
      /\ FiledAs(i, free_count[i] - 1)
  BY <1>1, <1>2, Places DEF Placed, Misfiled, slab!At
<1>7. Unfiled(i)' /\ (flag[t] => i \notin partial_set')
  <2>1. free_count[i] \in Nat /\ free_count[i] <= CellsPerSlab BY <1>1, CountOf
  <2>2. i \notin empty_set /\ (flag[t] => i \notin full_set)
    BY <1>6, <2>1, CellCount DEF FiledAs
  <2> QED BY <1>2, <2>2 DEF Unfiled
<1>8. (/\ Unfiled(i) /\ free_count[i] > 0
       /\ (flag[t] <=> free_count[i] = CellsPerSlab)
       /\ (flag[t] => i \notin partial_set))'
  BY <1>1, <1>2, <1>6, <1>7
<1>9. Filed' BY <1>1, <1>4, <1>5, <1>8, FiledStep DEF Placed, Misfiled, slab!At
<1>10. Counts' BY <1>1, <1>2 DEF SlabInv, slab!TypeOK, Counts, Behind, slab!At
<1>11. Owned' /\ Chosen' BY <1>1, <1>2 DEF SlabInv, slab!TypeOK, Owned, Returning, Chosen, slab!At
<1> QED BY <1>1, <1>3, <1>9, <1>10, <1>11 DEF SlabInv

LEMMA FreeSets2Inv ==
  ASSUME slab!SizeAssumption, NEW t, t = Taker, SlabInv, slab!FreeSets2(t)
  PROVE  SlabInv'
<1>1. PICK i \in slab!Slab : i = s_index[t] /\ flag[t] \in BOOLEAN BY Places
<1>2. /\ slab!At(t, "free sets 2") /\ s_pc' = [s_pc EXCEPT ![t] = "idle"]
      /\ IF flag[t]
           THEN empty_set' = empty_set \cup {i} /\ UNCHANGED partial_set
           ELSE partial_set' = partial_set \cup {i} /\ UNCHANGED empty_set
      /\ UNCHANGED <<free_mask, free_count, full_set, sets_m, s_index, cell, flag, s_held>>
  BY <1>1 DEF slab!FreeSets2, slab!Goto, slab!slabs, slab!locals, slab!NowEmpty
<1>3. slab!TypeOK' BY <1>1, <1>2 DEF SlabInv, slab!TypeOK, slab!Pc
<1>4. s_pc'[t] = "idle" /\ s_index'[t] = i BY <1>1, <1>2 DEF SlabInv, slab!TypeOK
<1>5. \A j \in slab!Slab : j # i => FiledAs(j, free_count[j])'
  BY <1>1, <1>2, Places DEF FiledAs
<1>6. /\ Unfiled(i) /\ free_count[i] > 0
      /\ (flag[t] <=> free_count[i] = CellsPerSlab) /\ (flag[t] => i \notin partial_set)
  BY <1>1, <1>2, Places DEF Placed, Misfiled, slab!At
<1>7. FiledAs(i, free_count[i])'
  <2>1. free_count[i] \in Nat /\ free_count[i] <= CellsPerSlab BY <1>1, CountOf
  <2>2. /\ free_count'[i] = free_count[i] /\ i \notin full_set'
        /\ i \in empty_set' <=> free_count[i] = CellsPerSlab
        /\ i \in partial_set' <=> free_count[i] # CellsPerSlab
    BY <1>2, <1>6 DEF Unfiled
  <2> QED BY <1>6, <2>1, <2>2, CellCount DEF FiledAs
<1>8. Filed' BY <1>1, <1>4, <1>5, <1>7, FiledStep DEF Placed, slab!At
<1>9. Counts' BY <1>1, <1>2 DEF SlabInv, slab!TypeOK, Counts, Behind, slab!At
<1>10. Owned' /\ Chosen' BY <1>1, <1>2 DEF SlabInv, slab!TypeOK, Owned, Returning, Chosen, slab!At
<1> QED BY <1>1, <1>3, <1>8, <1>9, <1>10 DEF SlabInv

-----------------------------------------------------------------------------
LEMMA SlabNext ==
  ASSUME slab!SizeAssumption, NEW t, t = Taker, SlabInv, [slab!Next]_(slab!vars)
  PROVE  SlabInv'
<1>1. CASE UNCHANGED slab!vars
  <2> USE <1>1 DEF slab!vars, slab!slabs, slab!sets, slab!locals, SlabInv
  <2>1. slab!TypeOK' BY DEF slab!TypeOK
  <2>2. Filed'
    <3>1. \A i : Placed(t, i)' <=> Placed(t, i)
      BY DEF Placed, FiledAs, Misfiled, Unfiled, InNoSet, slab!At
    <3> QED BY <3>1 DEF Filed
  <2>3. Counts' BY DEF Counts, Behind
  <2>4. Owned' /\ Chosen' BY DEF Owned, Returning, Chosen, slab!At
  <2> QED BY <2>1, <2>2, <2>3, <2>4
<1>2. CASE slab!Step(t)
  BY <1>2, AllocPartialInv, AllocEmptyInv, FromEmptyInv, AllocCountInv, AllocMaskInv,
     NowFullInv, FullSetInv, FreeMaskInv, FreeCountInv, FreeSetsInv, FreeSets2Inv
     DEF slab!Step
<1> QED BY <1>1, <1>2 DEF slab!Next

\* What the invariant says of alloc's asserts, of the masks and of the sets.
LEMMA SlabAsserts ==
  ASSUME slab!SizeAssumption, NEW t, t = Taker, SlabInv
  PROVE  slab!AllocAssertion
<1> SUFFICES ASSUME slab!At(t, "count") PROVE slab!HasFree(s_index[t])
  BY DEF slab!AllocAssertion
<1>1. free_count[s_index[t]] > 0
  BY Places DEF Placed, Misfiled, slab!At
<1>2. free_mask[s_index[t]] # {}
  BY <1>1, MaskSize DEF SlabInv, Counts, Behind, slab!TypeOK, slab!At
<1> QED BY <1>1, <1>2 DEF slab!HasFree

\* SlabHeap's cardinality is that of the library's theorems.
LEMMA SlabSize == \A S : slab!Cardinality(S) = Cardinality(S)
BY DEF slab!Cardinality, Cardinality, slab!IsFiniteSet, IsFiniteSet

LEMMA SlabMasks ==
  ASSUME slab!SizeAssumption, NEW t, t = Taker, SlabInv
  PROVE  slab!MasksAgree
BY MaskSize, SlabSize DEF SlabInv, Counts, Behind, Owned, Returning, slab!TypeOK, slab!MasksAgree, slab!Quiet, slab!At

LEMMA SlabSets ==
  ASSUME slab!SizeAssumption, NEW t, t = Taker, SlabInv
  PROVE  slab!SetsAgree
<1> SUFFICES ASSUME slab!Quiet PROVE slab!SetsAgree
  BY DEF slab!SetsAgree
<1>1. \A i \in slab!Slab : FiledAs(i, free_count[i])
  BY Places DEF slab!Quiet
<1>2. \A i \in slab!Slab : free_count[i] \in 0 .. CellsPerSlab
  BY DEF SlabInv, slab!TypeOK
<1> QED BY <1>1, <1>2 DEF SlabInv, FiledAs, slab!SetsAgree, slab!TypeOK, slab!SizeAssumption

-----------------------------------------------------------------------------
\* The page heap.  Until an assertion stops it, the directory, the records, the
\* map and the counts agree on who has which page, and the destructor leaves
\* the directory as the constructor found it.
Record == [page : paged!Page, length : Lengths, used : BOOLEAN]

\* Record i is used and has page p.
Owns(i, p) == allocations[i].used /\ p \in paged!PagesOf(allocations[i])

\* Records lie within the directory and there is room for them.
Recorded ==
  /\ Len(allocations) <= Records
  /\ \A i \in DOMAIN allocations : paged!PagesOf(allocations[i]) \subseteq paged!Page

\* The map names the used record that has a page, and a page that was present
\* before the heap was made has none.
Claimed == \A p \in paged!Page :
  /\ page_map[p] \in {paged!Null} \cup DOMAIN allocations
  /\ \A i \in DOMAIN allocations : Owns(i, p) <=> page_map[p] = i
  /\ p \in present <=> p \in Mapped \/ page_map[p] # paged!Null
  /\ p \in Mapped => page_map[p] = paged!Null

Counted ==
  /\ _use_count = paged!LengthOf(paged!Used)
  /\ _free_count = paged!LengthOf(DOMAIN allocations \ paged!Used)

PageInv ==
  /\ paged!TypeOK /\ Recorded /\ paged!LeavesNothing
  /\ state = "up" => Claimed /\ Counted

USE DEF paged!Null

-----------------------------------------------------------------------------
LEMMA MinIn ==
  ASSUME NEW S \in SUBSET Nat, S # {}
  PROVE  paged!Min(S) \in S
BY LeastIn DEF paged!Min

\* The pages of some records, counted with their records: LengthOf for any list.
Total(q, is) == Cardinality(UNION {{i} \X paged!PagesOf(q[i]) : i \in is})

LEMMA TotalPlus ==
  ASSUME paged!PageHeapAssumption, NEW q \in Seq(Record),
         \A k \in DOMAIN q : paged!PagesOf(q[k]) \subseteq paged!Page,
         NEW is \in SUBSET DOMAIN q, NEW i \in DOMAIN q, i \notin is
  PROVE  /\ Total(q, is) \in Nat
         /\ Total(q, is \cup {i}) = Total(q, is) + q[i].length
<1> DEFINE Pairs(S) == UNION {{k} \X paged!PagesOf(q[k]) : k \in S}
<1>1. DOMAIN q = 1 .. Len(q) /\ Len(q) \in Nat /\ q[i] \in Record OBVIOUS
<1>2. q[i].length \in Nat \ {0} /\ q[i].page \in Nat
  <2>1. q[i].length \in Lengths /\ q[i].page \in paged!Page BY <1>1 DEF Record
  <2>2. q[i].length \in Nat \ {0} BY <2>1 DEF paged!PageHeapAssumption
  <2>3. q[i].page \in Nat BY <2>1 DEF paged!Page
  <2> QED BY <2>2, <2>3
<1>3. IsFiniteSet(paged!Page) /\ IsFiniteSet(DOMAIN q)
  BY <1>1, FS_Interval DEF paged!Page, paged!PageHeapAssumption
<1>4. IsFiniteSet((DOMAIN q) \X paged!Page) BY <1>3, FS_Product
<1>5. Pairs(is) \subseteq (DOMAIN q) \X paged!Page OBVIOUS
<1>6. IsFiniteSet(Pairs(is)) BY <1>4, <1>5, FS_Subset
<1>7. IsFiniteSet(paged!PagesOf(q[i])) /\ Cardinality(paged!PagesOf(q[i])) = q[i].length
  <2> DEFINE a == q[i].page
             b == q[i].page + q[i].length - 1
  <2>1. a \in Int /\ b \in Int /\ ~(a > b) /\ b - a + 1 = q[i].length BY <1>2
  <2>2. paged!PagesOf(q[i]) = a .. b BY DEF paged!PagesOf
  <2> HIDE DEF a, b
  <2> QED BY <2>1, <2>2, FS_Interval
<1>8. /\ IsFiniteSet({i} \X paged!PagesOf(q[i]))
      /\ Cardinality({i} \X paged!PagesOf(q[i])) = q[i].length
  <2>1. IsFiniteSet({i}) /\ Cardinality({i}) = 1 BY FS_Singleton
  <2>2. Cardinality({i} \X paged!PagesOf(q[i])) =
          Cardinality({i}) * Cardinality(paged!PagesOf(q[i]))
    BY <2>1, <1>7, FS_Product
  <2> QED BY SMTT(30), <2>1, <2>2, <1>7, <1>2, FS_Product
<1>9. /\ Pairs(is \cup {i}) = Pairs(is) \cup ({i} \X paged!PagesOf(q[i]))
      /\ Pairs(is) \cap ({i} \X paged!PagesOf(q[i])) = {}
  OBVIOUS
<1> HIDE DEF Pairs
<1>10. Cardinality(Pairs(is \cup {i})) =
         Cardinality(Pairs(is)) + q[i].length - Cardinality({})
  BY <1>6, <1>8, <1>9, FS_Union
<1>11. Cardinality({}) = 0 /\ Cardinality(Pairs(is)) \in Nat
  BY <1>6, FS_EmptySet, FS_CardinalityType
<1>12. Cardinality(Pairs(is \cup {i})) = Cardinality(Pairs(is)) + q[i].length
  BY <1>2, <1>10, <1>11
<1> QED BY <1>11, <1>12 DEF Total, Pairs

\* It depends on the pages of those records alone.
LEMMA SameTotal ==
  ASSUME NEW is, NEW q, NEW r, \A i \in is : paged!PagesOf(q[i]) = paged!PagesOf(r[i])
  PROVE  Total(q, is) = Total(r, is)
<1>1. UNION {{i} \X paged!PagesOf(q[i]) : i \in is} =
        UNION {{i} \X paged!PagesOf(r[i]) : i \in is}
  OBVIOUS
<1> QED BY <1>1 DEF Total

\* LengthOf counts them in the records at hand.
LEMMA LengthIsTotal ==
  /\ \A is : paged!LengthOf(is) = Total(allocations, is)
  /\ \A is : paged!LengthOf(is)' = Total(allocations', is)
<1>1. \A S : paged!Cardinality(S) = Cardinality(S)
  BY DEF paged!Cardinality, Cardinality, paged!IsFiniteSet, IsFiniteSet
<1> QED BY <1>1 DEF paged!LengthOf, Total, paged!PagesOf

LEMMA NoTotal == ASSUME NEW q PROVE Total(q, {}) = 0
<1>1. UNION {{i} \X paged!PagesOf(q[i]) : i \in {}} = {} OBVIOUS
<1> QED BY <1>1, FS_EmptySet DEF Total

-----------------------------------------------------------------------------
LEMMA PageInit == ASSUME paged!PageHeapAssumption, paged!Init PROVE PageInv
<1> USE DEF paged!Init
<1>1. paged!TypeOK BY DEF paged!TypeOK, paged!PageHeapAssumption, paged!Page
<1>2. Recorded /\ paged!LeavesNothing
  BY DEF Recorded, paged!LeavesNothing, paged!PageHeapAssumption
<1>3. Claimed BY DEF Claimed, paged!Page
<1>4. paged!Used = {} /\ DOMAIN allocations = {} BY DEF paged!Used
<1>5. Counted BY <1>4, NoTotal, LengthIsTotal DEF Counted
<1> QED BY <1>1, <1>2, <1>3, <1>5 DEF PageInv

\* A record that keeps its pages is replaced: taken into use or returned.
LEMMA Replaced ==
  ASSUME NEW q \in Seq(Record), NEW i \in DOMAIN q, NEW e \in Record,
         e.page = q[i].page, e.length = q[i].length
  PROVE  LET r == [q EXCEPT ![i] = e] IN
         /\ r \in Seq(Record) /\ Len(r) = Len(q) /\ DOMAIN r = DOMAIN q
         /\ r[i] = e /\ \A j \in DOMAIN q : j # i => r[j] = q[j]
         /\ \A j \in DOMAIN q :
              paged!PagesOf(r[j]) = paged!PagesOf(q[j]) /\ r[j].length = q[j].length
<1> DEFINE r == [q EXCEPT ![i] = e]
<1>1. i \in 1 .. Len(q) OBVIOUS
<1>2. /\ r \in Seq(Record) /\ Len(r) = Len(q)
      /\ \A j \in 1 .. Len(q) : r[j] = IF j = i THEN e ELSE q[j]
  BY <1>1, ExceptSeq
<1> HIDE DEF r
<1>3. DOMAIN r = DOMAIN q BY <1>2
<1>4. \A j \in DOMAIN q : paged!PagesOf(r[j]) = paged!PagesOf(q[j]) /\ r[j].length = q[j].length
  BY <1>2 DEF paged!PagesOf
<1> QED BY <1>1, <1>2, <1>3, <1>4 DEF r

\* What alloc and free do to a record's used flag.
Flipped(i, b) ==
  /\ allocations' \in Seq(Record) /\ Len(allocations') = Len(allocations)
  /\ DOMAIN allocations' = DOMAIN allocations
  /\ \A j \in DOMAIN allocations :
       /\ paged!PagesOf(allocations'[j]) = paged!PagesOf(allocations[j])
       /\ allocations'[j].length = allocations[j].length
  /\ allocations'[i].used <=> b
  /\ \A j \in DOMAIN allocations :
       j # i => allocations'[j].used = allocations[j].used

LEMMA Typed ==
  ASSUME PageInv
  PROVE  /\ allocations \in Seq(Record) /\ DOMAIN allocations = 1 .. Len(allocations)
         /\ Len(allocations) \in Nat /\ Len(allocations) <= Records
         /\ page_map \in [paged!Page -> 0 .. Records] /\ present \subseteq paged!Page
         /\ _free_count \in Nat /\ _use_count \in Nat
         /\ \A i \in DOMAIN allocations :
              /\ paged!PagesOf(allocations[i]) \subseteq paged!Page
              /\ allocations[i].length \in Lengths /\ allocations[i].used \in BOOLEAN
<1>1. allocations \in Seq(Record) BY DEF PageInv, paged!TypeOK, Record
<1>2. DOMAIN allocations = 1 .. Len(allocations) /\ Len(allocations) \in Nat BY <1>1
<1>3. \A i \in DOMAIN allocations : allocations[i] \in Record BY <1>1
<1>4. \A i \in DOMAIN allocations :
        allocations[i].length \in Lengths /\ allocations[i].used \in BOOLEAN
  BY <1>3 DEF Record
<1>5. /\ Len(allocations) <= Records
      /\ \A i \in DOMAIN allocations : paged!PagesOf(allocations[i]) \subseteq paged!Page
  BY DEF PageInv, Recorded
<1> QED BY <1>1, <1>2, <1>4, <1>5 DEF PageInv, paged!TypeOK

LEMMA Taken ==
  ASSUME PageInv, NEW i \in DOMAIN allocations,
         allocations' = [allocations EXCEPT ![i].used = TRUE]
  PROVE  Flipped(i, TRUE)
<1> DEFINE e == [allocations[i] EXCEPT !.used = TRUE]
           r == [allocations EXCEPT ![i] = e]
<1>1. allocations \in Seq(Record) /\ allocations[i] \in Record BY Typed
<1>2. /\ e \in Record /\ e.page = allocations[i].page
      /\ e.length = allocations[i].length /\ e.used
  BY <1>1 DEF Record
<1>3. allocations' = r OBVIOUS
<1> HIDE DEF e
<1>4. /\ r \in Seq(Record) /\ Len(r) = Len(allocations)
      /\ DOMAIN r = DOMAIN allocations
      /\ r[i] = e /\ \A j \in DOMAIN allocations : j # i => r[j] = allocations[j]
      /\ \A j \in DOMAIN allocations :
           /\ paged!PagesOf(r[j]) = paged!PagesOf(allocations[j])
           /\ r[j].length = allocations[j].length
  BY <1>1, <1>2, Replaced
<1> HIDE DEF r
<1> QED BY <1>2, <1>3, <1>4 DEF Flipped

LEMMA GivenBack ==
  ASSUME PageInv, NEW i \in DOMAIN allocations,
         allocations' = [allocations EXCEPT ![i].used = FALSE]
  PROVE  Flipped(i, FALSE)
<1> DEFINE e == [allocations[i] EXCEPT !.used = FALSE]
           r == [allocations EXCEPT ![i] = e]
<1>1. allocations \in Seq(Record) /\ allocations[i] \in Record BY Typed
<1>2. /\ e \in Record /\ e.page = allocations[i].page
      /\ e.length = allocations[i].length /\ ~e.used
  BY <1>1 DEF Record
<1>3. allocations' = r OBVIOUS
<1> HIDE DEF e
<1>4. /\ r \in Seq(Record) /\ Len(r) = Len(allocations)
      /\ DOMAIN r = DOMAIN allocations
      /\ r[i] = e /\ \A j \in DOMAIN allocations : j # i => r[j] = allocations[j]
      /\ \A j \in DOMAIN allocations :
           /\ paged!PagesOf(r[j]) = paged!PagesOf(allocations[j])
           /\ r[j].length = allocations[j].length
  BY <1>1, <1>2, Replaced
<1> HIDE DEF r
<1> QED BY <1>2, <1>3, <1>4 DEF Flipped

\* Record i gets pages that are absent, and the map is told.
LEMMA Grant ==
  ASSUME Claimed, PageInv, NEW i \in DOMAIN allocations', i # 0, NEW ps \in SUBSET paged!Page,
         ps \cap present = {}, DOMAIN allocations \subseteq DOMAIN allocations',
         \A j \in DOMAIN allocations', p \in paged!Page :
           Owns(j, p)' <=> \/ j \in DOMAIN allocations /\ Owns(j, p)
                           \/ j = i /\ p \in ps,
         0 \notin DOMAIN allocations',
         present' = present \cup ps, page_map' = paged!Named(ps, i)
  PROVE  Claimed'
<1> SUFFICES ASSUME NEW p \in paged!Page
             PROVE  /\ page_map'[p] \in {paged!Null} \cup DOMAIN allocations'
                    /\ \A j \in DOMAIN allocations' : Owns(j, p)' <=> page_map'[p] = j
                    /\ p \in present' <=> p \in Mapped \/ page_map'[p] # paged!Null
                    /\ p \in Mapped => page_map'[p] = paged!Null
  BY DEF Claimed
<1>1. /\ page_map[p] \in {paged!Null} \cup DOMAIN allocations
      /\ \A j \in DOMAIN allocations : Owns(j, p) <=> page_map[p] = j
      /\ p \in present <=> p \in Mapped \/ page_map[p] # paged!Null
      /\ p \in Mapped => page_map[p] = paged!Null
  BY DEF Claimed
<1>2. page_map'[p] = IF p \in ps THEN i ELSE page_map[p] BY DEF paged!Named
<1>3. CASE p \in ps
  <2>1. page_map[p] = paged!Null /\ p \notin Mapped BY <1>1, <1>3
  <2>2. \A j \in DOMAIN allocations : ~Owns(j, p) BY <1>1, <2>1
  <2> QED BY <1>2, <1>3, <2>1, <2>2
<1>4. CASE p \notin ps
  <2>1. page_map'[p] = page_map[p] /\ (p \in present' <=> p \in present)
    BY <1>2, <1>4
  <2>2. \A j \in DOMAIN allocations' : Owns(j, p)' <=> j \in DOMAIN allocations /\ Owns(j, p)
    BY <1>4
  <2> QED BY <1>1, <2>1, <2>2
<1> QED BY <1>3, <1>4

\* The counts when record i comes into use, or is returned.
LEMMA CountsMove ==
  ASSUME paged!PageHeapAssumption, NEW q \in Seq(Record), NEW r \in Seq(Record),
         \A k \in DOMAIN q : paged!PagesOf(q[k]) \subseteq paged!Page,
         \A k \in DOMAIN q : paged!PagesOf(r[k]) = paged!PagesOf(q[k]),
         NEW is \in SUBSET DOMAIN q, NEW i \in DOMAIN q, i \notin is
  PROVE  /\ Total(r, is) \in Nat /\ Total(q, is) \in Nat
         /\ Total(q, is \cup {i}) = Total(r, is) + q[i].length
         /\ Total(r, is \cup {i}) = Total(q, is) + q[i].length
<1>1. Total(q, is) \in Nat /\ Total(q, is \cup {i}) = Total(q, is) + q[i].length
  BY TotalPlus
<1>2. Total(r, is) = Total(q, is)
  <2>1. \A k \in is : paged!PagesOf(r[k]) = paged!PagesOf(q[k]) OBVIOUS
  <2> QED BY <2>1, SameTotal
<1>3. Total(r, is \cup {i}) = Total(q, is \cup {i})
  <2>1. \A k \in is \cup {i} : paged!PagesOf(r[k]) = paged!PagesOf(q[k]) OBVIOUS
  <2> QED BY <2>1, SameTotal
<1> QED BY <1>1, <1>2, <1>3

\* The record that alloc finds is unused and has the length.
LEMMA FoundRecord ==
  ASSUME PageInv, NEW n \in Lengths, paged!AllocRecord(n)
  PROVE  \E i \in DOMAIN allocations :
           /\ state = "up" /\ paged!Reusable(allocations[i], n)
           /\ allocations' = [allocations EXCEPT ![i].used = TRUE]
           /\ IF paged!PagesOf(allocations[i]) \cap present # {}
                THEN /\ state' = "present"
                     /\ UNCHANGED <<present, page_map, _free_count, _use_count>>
                ELSE /\ present' = present \cup paged!PagesOf(allocations[i])
                     /\ page_map' = paged!Named(paged!PagesOf(allocations[i]), i)
                     /\ _free_count' = _free_count - allocations[i].length
                     /\ _use_count' = _use_count + allocations[i].length
                     /\ UNCHANGED state
<1> DEFINE S == {i \in 1 .. Len(allocations) : paged!Reusable(allocations[i], n)}
           k == paged!SelectInSeq(allocations, LAMBDA a : paged!Reusable(a, n))
<1>1. k = IF S # {} THEN paged!Min(S) ELSE 0 BY DEF paged!SelectInSeq
<1>2. k # 0 BY DEF paged!AllocRecord
<1>3. S \in SUBSET Nat OBVIOUS
<1>4. paged!Min(S) \in S
  <2> HIDE DEF S
  <2> QED BY <1>1, <1>2, <1>3, MinIn
<1>5. k \in DOMAIN allocations /\ paged!Reusable(allocations[k], n)
  BY <1>1, <1>4, Typed
<1> QED BY <1>5 DEF paged!AllocRecord

LEMMA AllocRecordStep ==
  ASSUME paged!PageHeapAssumption, PageInv, NEW n \in Lengths, paged!AllocRecord(n)
  PROVE  PageInv'
<1>1. PICK i \in DOMAIN allocations :
           /\ state = "up" /\ paged!Reusable(allocations[i], n)
           /\ allocations' = [allocations EXCEPT ![i].used = TRUE]
           /\ IF paged!PagesOf(allocations[i]) \cap present # {}
                THEN /\ state' = "present"
                     /\ UNCHANGED <<present, page_map, _free_count, _use_count>>
                ELSE /\ present' = present \cup paged!PagesOf(allocations[i])
                     /\ page_map' = paged!Named(paged!PagesOf(allocations[i]), i)
                     /\ _free_count' = _free_count - allocations[i].length
                     /\ _use_count' = _use_count + allocations[i].length
                     /\ UNCHANGED state
  BY FoundRecord
<1>2. /\ allocations' \in Seq(Record) /\ Len(allocations') = Len(allocations)
      /\ DOMAIN allocations' = DOMAIN allocations
      /\ \A j \in DOMAIN allocations :
           /\ paged!PagesOf(allocations'[j]) = paged!PagesOf(allocations[j])
           /\ allocations'[j].length = allocations[j].length
      /\ allocations'[i].used
      /\ \A j \in DOMAIN allocations :
           j # i => allocations'[j].used = allocations[j].used
  BY <1>1, Taken DEF Flipped
<1>3. ~allocations[i].used /\ Claimed /\ Counted
  BY <1>1 DEF paged!Reusable, PageInv
<1>4. Recorded' BY <1>2, Typed DEF Recorded
<1>5. CASE paged!PagesOf(allocations[i]) \cap present # {}
  <2>1. paged!TypeOK' BY <1>1, <1>2, <1>5, Typed DEF paged!TypeOK, Record, PageInv
  <2> QED BY <1>1, <1>4, <1>5, <2>1 DEF PageInv, paged!LeavesNothing
<1>6. CASE paged!PagesOf(allocations[i]) \cap present = {}
  <2>1. /\ present' = present \cup paged!PagesOf(allocations[i])
        /\ page_map' = paged!Named(paged!PagesOf(allocations[i]), i)
        /\ _free_count' = _free_count - allocations[i].length
        /\ _use_count' = _use_count + allocations[i].length
        /\ state' = "up"
    BY <1>1, <1>6
  <2>2. paged!PagesOf(allocations[i]) \in SUBSET paged!Page BY Typed
  <2>3. \A j \in DOMAIN allocations', p \in paged!Page :
           Owns(j, p)' <=> \/ j \in DOMAIN allocations /\ Owns(j, p)
                           \/ j = i /\ p \in paged!PagesOf(allocations[i])
    BY <1>2, <1>3 DEF Owns
  <2>4. Claimed'
    <3>1. 0 \notin DOMAIN allocations' /\ i # 0 /\ i \in DOMAIN allocations'
      BY <1>2, Typed
    <3> QED BY <3>1, <1>2, <1>3, <1>6, <2>1, <2>2, <2>3, Grant
  <2>5. Counted' /\ _free_count' \in Nat /\ _use_count' \in Nat
    <3> DEFINE rest == DOMAIN allocations \ paged!Used'
    <3>1. /\ paged!Used' = paged!Used \cup {i} /\ i \notin paged!Used
          /\ paged!Used \in SUBSET DOMAIN allocations
          /\ DOMAIN allocations \ paged!Used = rest \cup {i} /\ i \notin rest
      BY <1>2, <1>3 DEF paged!Used
    <3>2. /\ allocations \in Seq(Record) /\ allocations' \in Seq(Record)
          /\ \A k \in DOMAIN allocations : paged!PagesOf(allocations[k]) \subseteq paged!Page
          /\ \A k \in DOMAIN allocations :
               paged!PagesOf(allocations'[k]) = paged!PagesOf(allocations[k])
          /\ rest \in SUBSET DOMAIN allocations
      BY <1>2, Typed
    <3> HIDE DEF rest
    <3>3. /\ Total(allocations, paged!Used) \in Nat
          /\ Total(allocations', paged!Used \cup {i}) =
               Total(allocations, paged!Used) + allocations[i].length
      BY ZenonT(30), <3>1, <3>2, CountsMove
    <3>4. /\ Total(allocations', rest) \in Nat
          /\ Total(allocations, rest \cup {i}) = Total(allocations', rest) + allocations[i].length
      BY <3>1, <3>2, CountsMove
    <3>5. allocations[i].length \in Nat BY Typed DEF paged!PageHeapAssumption
    <3>6. /\ _use_count = Total(allocations, paged!Used)
          /\ _free_count = Total(allocations, rest \cup {i})
      BY <1>3, <3>1, LengthIsTotal DEF Counted
    <3>7. /\ _use_count' = Total(allocations', paged!Used')
          /\ _free_count' = Total(allocations', rest)
      BY <2>1, <3>1, <3>3, <3>4, <3>5, <3>6
    <3>8. Counted' BY <1>2, <3>7, LengthIsTotal DEF Counted, rest
    <3> QED BY <2>1, <3>3, <3>4, <3>5, <3>6, <3>7, <3>8
  <2>6. paged!TypeOK'
    <3>1. present' \subseteq paged!Page BY <2>1, <2>2, Typed
    <3>2. page_map' \in [paged!Page -> 0 .. Records]
      <4>1. i \in 0 .. Records BY Typed DEF paged!PageHeapAssumption
      <4> QED BY <2>1, <4>1, Typed DEF paged!Named
    <3> QED BY <1>2, <2>1, <2>5, <3>1, <3>2 DEF paged!TypeOK, Record
  <2> QED BY <1>4, <2>1, <2>4, <2>5, <2>6 DEF PageInv, paged!LeavesNothing
<1> QED BY <1>5, <1>6

LEMMA AllocRegionStep ==
  ASSUME paged!PageHeapAssumption, PageInv, NEW n \in Lengths, paged!AllocRegion(n)
  PROVE  PageInv'
<1> DEFINE p == CHOOSE q \in paged!Regions(n) : \A r \in paged!Regions(n) : q <= r
           i == Len(allocations) + 1
           e == [page |-> p, length |-> n, used |-> TRUE]
           ps == p .. p + n - 1
<1>1. p \in paged!Regions(n)
  <2>1. paged!Regions(n) \in SUBSET Nat BY DEF paged!Regions
  <2>2. paged!Regions(n) # {} BY DEF paged!AllocRegion
  <2>3. \E q \in paged!Regions(n) : \A r \in paged!Regions(n) : q <= r BY <2>1, <2>2, LeastIn
  <2> QED BY <2>3
<1>2. /\ state = "up" /\ i <= Records
      /\ allocations' = Append(allocations, e)
      /\ present' = present \cup ps /\ page_map' = paged!Named(ps, i)
      /\ _use_count' = _use_count + n
      /\ UNCHANGED <<_free_count, state>>
  BY DEF paged!AllocRegion
<1> HIDE DEF p
<1>3. /\ n \in Nat \ {0} /\ p \in Nat /\ p \in paged!Page
      /\ ps \subseteq paged!Page /\ ps \cap present = {}
  <2>1. n \in Nat \ {0} /\ Pages \in Nat BY DEF paged!PageHeapAssumption
  <2>2. p \in 1 .. Pages - n + 1 /\ ps \cap present = {}
    BY <1>1 DEF paged!Regions, paged!Free
  <2> QED BY <2>1, <2>2 DEF paged!Page
<1>4. e \in Record /\ e.page = p /\ e.length = n /\ e.used /\ paged!PagesOf(e) = ps
  BY <1>3 DEF Record, paged!PagesOf
<1> HIDE DEF e
<1>5. Claimed /\ Counted BY <1>2 DEF PageInv
<1>6. /\ allocations' \in Seq(Record) /\ Len(allocations') = i
      /\ i \in Nat \ {0} /\ DOMAIN allocations' = 1 .. i
      /\ allocations'[i] = e
      /\ \A j \in DOMAIN allocations : allocations'[j] = allocations[j]
      /\ DOMAIN allocations' = DOMAIN allocations \cup {i} /\ i \notin DOMAIN allocations
  BY <1>2, <1>4, Typed
<1>7. Recorded' BY <1>2, <1>3, <1>4, <1>6, Typed DEF Recorded
<1>8. Claimed'
  <2>1. \A j \in DOMAIN allocations', x \in paged!Page :
           Owns(j, x)' <=> \/ j \in DOMAIN allocations /\ Owns(j, x)
                           \/ j = i /\ x \in ps
    BY <1>4, <1>6 DEF Owns
  <2>2. 0 \notin DOMAIN allocations' /\ i # 0 /\ i \in DOMAIN allocations'
        /\ DOMAIN allocations \subseteq DOMAIN allocations'
    <3> HIDE DEF i
    <3> QED BY <1>6
  <2>3. ps \in SUBSET paged!Page /\ ps \cap present = {} BY <1>3
  <2> HIDE DEF i, ps
  <2> QED BY <2>1, <2>2, <2>3, <1>2, <1>5, Grant
<1>9. Counted' /\ _use_count' \in Nat
  <2>1. /\ paged!Used' = paged!Used \cup {i} /\ i \notin paged!Used
        /\ DOMAIN allocations' \ paged!Used' = DOMAIN allocations \ paged!Used
    BY <1>4, <1>6 DEF paged!Used
  <2>2. /\ allocations' \in Seq(Record) /\ paged!Used \in SUBSET DOMAIN allocations'
        /\ i \in DOMAIN allocations'
        /\ \A k \in DOMAIN allocations' : paged!PagesOf(allocations'[k]) \subseteq paged!Page
    BY <1>3, <1>4, <1>6, Typed DEF paged!Used
  <2>3. /\ Total(allocations', paged!Used) \in Nat
        /\ Total(allocations', paged!Used \cup {i}) =
             Total(allocations', paged!Used) + allocations'[i].length
    BY <2>1, <2>2, TotalPlus
  <2>4. Total(allocations', paged!Used) = Total(allocations, paged!Used)
    <3>1. \A k \in paged!Used : paged!PagesOf(allocations'[k]) = paged!PagesOf(allocations[k])
      BY <1>6 DEF paged!Used
    <3> QED BY <3>1, SameTotal
  <2>5. Total(allocations', DOMAIN allocations \ paged!Used) =
          Total(allocations, DOMAIN allocations \ paged!Used)
    <3>1. \A k \in DOMAIN allocations \ paged!Used :
            paged!PagesOf(allocations'[k]) = paged!PagesOf(allocations[k])
      BY <1>6
    <3> QED BY <3>1, SameTotal
  <2>6. /\ _use_count = Total(allocations, paged!Used)
        /\ _free_count = Total(allocations, DOMAIN allocations \ paged!Used)
    BY <1>5, LengthIsTotal DEF Counted
  <2>7. /\ _use_count' = Total(allocations', paged!Used')
        /\ _free_count' = Total(allocations', DOMAIN allocations' \ paged!Used')
    BY <1>2, <1>4, <1>6, <2>1, <2>3, <2>4, <2>5, <2>6
  <2>8. Counted' BY <2>7, LengthIsTotal DEF Counted
  <2> QED BY <1>2, <1>3, <2>3, <2>4, <2>6, <2>8
<1>10. paged!TypeOK'
  <2>1. present' \subseteq paged!Page BY <1>2, <1>3, Typed
  <2>2. page_map' \in [paged!Page -> 0 .. Records]
    <3>1. i \in 0 .. Records BY <1>2, <1>6 DEF paged!PageHeapAssumption
    <3> HIDE DEF i
    <3> QED BY <1>2, <3>1, Typed DEF paged!Named
  <2> QED BY <1>2, <1>6, <1>9, <2>1, <2>2, Typed DEF paged!TypeOK, Record
<1> QED BY <1>2, <1>7, <1>8, <1>9, <1>10 DEF PageInv, paged!LeavesNothing

-----------------------------------------------------------------------------
LEMMA FreePagesStep ==
  ASSUME paged!PageHeapAssumption, PageInv, NEW p \in paged!Page, paged!FreePages(p)
  PROVE  PageInv'
<1>1. PICK i \in DOMAIN allocations : i = page_map[p] /\ Owns(i, p)
  <2>1. state = "up" /\ page_map[p] # paged!Null BY DEF paged!FreePages
  <2>2. Claimed BY <2>1 DEF PageInv
  <2> QED BY <2>1, <2>2 DEF Claimed
<1> DEFINE ps == paged!PagesOf(allocations[i])
<1>2. state = "up" /\ Claimed /\ Counted BY DEF paged!FreePages, PageInv
<1>3. CASE ~(ps \subseteq present)
  <2>1. /\ state' = "absent"
        /\ UNCHANGED <<present, allocations, page_map, _free_count, _use_count>>
    BY <1>1, <1>3 DEF paged!FreePages
  <2> QED BY <2>1 DEF PageInv, paged!TypeOK, Recorded, paged!LeavesNothing
<1>4. CASE ps \subseteq present
  <2>1. /\ present' = present \ ps
        /\ _free_count' = _free_count + allocations[i].length
        /\ _use_count' = _use_count - allocations[i].length
        /\ page_map' = paged!Erased(allocations[i])
        /\ allocations' = [allocations EXCEPT ![i].used = FALSE]
        /\ state' = state
    BY <1>1, <1>4 DEF paged!FreePages, paged!Returned
  <2>2. /\ allocations' \in Seq(Record) /\ Len(allocations') = Len(allocations)
        /\ DOMAIN allocations' = DOMAIN allocations
        /\ \A j \in DOMAIN allocations :
             /\ paged!PagesOf(allocations'[j]) = paged!PagesOf(allocations[j])
             /\ allocations'[j].length = allocations[j].length
        /\ ~allocations'[i].used
        /\ \A j \in DOMAIN allocations :
             j # i => allocations'[j].used = allocations[j].used
    BY <2>1, GivenBack DEF Flipped
  <2>3. Recorded' BY <2>2, Typed DEF Recorded
  <2>4. Claimed'
    <3> SUFFICES ASSUME NEW x \in paged!Page
                 PROVE  /\ page_map'[x] \in {paged!Null} \cup DOMAIN allocations'
                        /\ \A j \in DOMAIN allocations' : Owns(j, x)' <=> page_map'[x] = j
                        /\ x \in present' <=> x \in Mapped \/ page_map'[x] # paged!Null
                        /\ x \in Mapped => page_map'[x] = paged!Null
      BY DEF Claimed
    <3>1. /\ page_map[x] \in {paged!Null} \cup DOMAIN allocations
          /\ \A j \in DOMAIN allocations : Owns(j, x) <=> page_map[x] = j
          /\ x \in present <=> x \in Mapped \/ page_map[x] # paged!Null
          /\ x \in Mapped => page_map[x] = paged!Null
      BY <1>2 DEF Claimed
    <3>2. page_map'[x] = IF x \in ps THEN paged!Null ELSE page_map[x]
      BY <2>1 DEF paged!Erased
    <3>3. \A j \in DOMAIN allocations : Owns(j, x)' <=> Owns(j, x) /\ j # i
      BY <2>2 DEF Owns
    <3>4. i # 0 /\ 0 \notin DOMAIN allocations /\ (Owns(i, x) <=> x \in ps)
      BY <1>1, Typed DEF Owns
    <3> HIDE DEF ps
    <3>5. CASE x \in ps
      <4>1. page_map[x] = i BY <3>1, <3>4, <3>5
      <4>2. x \notin Mapped /\ x \notin present' /\ page_map'[x] = paged!Null
        BY <2>1, <3>1, <3>2, <3>4, <3>5, <4>1
      <4>3. \A j \in DOMAIN allocations : ~Owns(j, x)' BY <3>1, <3>3, <4>1
      <4> QED BY <2>2, <3>4, <4>2, <4>3
    <3>6. CASE x \notin ps
      <4>1. page_map'[x] = page_map[x] /\ page_map[x] # i /\ (x \in present' <=> x \in present)
        BY <2>1, <3>1, <3>2, <3>4, <3>6
      <4>2. \A j \in DOMAIN allocations : Owns(j, x)' <=> Owns(j, x)
        BY <3>1, <3>3, <4>1
      <4> QED BY <2>2, <3>1, <4>1, <4>2
    <3> QED BY <3>5, <3>6
  <2>5. Counted' /\ _free_count' \in Nat /\ _use_count' \in Nat
    <3> DEFINE rest == DOMAIN allocations \ paged!Used
               kept == paged!Used \ {i}
    <3>1. /\ paged!Used' = kept /\ i \notin kept /\ paged!Used = kept \cup {i}
          /\ DOMAIN allocations' \ paged!Used' = rest \cup {i} /\ i \notin rest
      BY <1>1, <2>2 DEF paged!Used, Owns
    <3>2. /\ allocations \in Seq(Record) /\ allocations' \in Seq(Record)
          /\ \A k \in DOMAIN allocations : paged!PagesOf(allocations[k]) \subseteq paged!Page
          /\ \A k \in DOMAIN allocations :
               paged!PagesOf(allocations'[k]) = paged!PagesOf(allocations[k])
          /\ rest \in SUBSET DOMAIN allocations /\ kept \in SUBSET DOMAIN allocations
      BY <2>2, Typed DEF paged!Used
    <3>6. /\ _use_count = Total(allocations, paged!Used)
          /\ _free_count = Total(allocations, rest)
      BY <1>2, LengthIsTotal DEF Counted
    <3> HIDE DEF rest, kept
    <3>9. i \notin kept /\ i \notin rest BY <3>1
    <3>3. /\ Total(allocations', kept) \in Nat
          /\ Total(allocations, kept \cup {i}) = Total(allocations', kept) + allocations[i].length
      BY <3>2, <3>9, CountsMove
    <3>4. /\ Total(allocations, rest) \in Nat
          /\ Total(allocations', rest \cup {i}) = Total(allocations, rest) + allocations[i].length
      BY <3>2, <3>9, CountsMove
    <3>5. allocations[i].length \in Nat BY Typed DEF paged!PageHeapAssumption
    <3>7. /\ _use_count' = Total(allocations', paged!Used')
          /\ _free_count' = Total(allocations', DOMAIN allocations' \ paged!Used')
      <4>1. _use_count = Total(allocations', kept) + allocations[i].length
        BY <3>1, <3>3, <3>6
      <4>2. _use_count' = Total(allocations', kept)
        BY <2>1, <3>3, <3>5, <4>1
      <4>3. _free_count' = Total(allocations', rest \cup {i})
        BY <2>1, <3>4, <3>6
      <4> QED BY <3>1, <4>2, <4>3
    <3>8. Counted' BY <3>7, LengthIsTotal DEF Counted
    <3> QED BY <2>1, <3>1, <3>3, <3>4, <3>5, <3>6, <3>7, <3>8
  <2>6. paged!TypeOK'
    <3>1. present' \subseteq paged!Page /\ page_map' \in [paged!Page -> 0 .. Records]
      BY <2>1, Typed DEF paged!Erased, paged!PageHeapAssumption
    <3> QED BY <1>2, <2>1, <2>2, <2>5, <3>1 DEF paged!TypeOK, Record
  <2> QED BY <1>2, <2>1, <2>3, <2>4, <2>5, <2>6 DEF PageInv, paged!LeavesNothing
<1> QED BY <1>3, <1>4

LEMMA DestroyStep ==
  ASSUME paged!PageHeapAssumption, PageInv, paged!Destroy
  PROVE  PageInv'
<1> DEFINE ps == UNION {paged!PagesOf(allocations[i]) : i \in paged!Used}
<1>1. CASE ~(ps \subseteq present)
  <2>1. state' = "absent"
        /\ UNCHANGED <<present, allocations, page_map, _free_count, _use_count>>
    BY <1>1 DEF paged!Destroy
  <2> QED BY <2>1 DEF PageInv, paged!TypeOK, Recorded, paged!LeavesNothing
<1>2. CASE ps \subseteq present
  <2>1. /\ state = "up" /\ state' = "gone" /\ present' = present \ ps
        /\ allocations' = <<>> /\ UNCHANGED <<page_map, _free_count, _use_count>>
    BY <1>2 DEF paged!Destroy
  <2>2. Claimed BY <2>1 DEF PageInv
  <2>3. present' = Mapped
    <3>1. Mapped \subseteq paged!Page /\ present \subseteq paged!Page
      BY Typed DEF paged!Page, paged!PageHeapAssumption
    <3>2. ASSUME NEW p \in paged!Page PROVE p \in ps <=> page_map[p] # paged!Null
      <4>1. p \in ps <=> \E i \in DOMAIN allocations : Owns(i, p) BY DEF paged!Used, Owns
      <4>2. (\E i \in DOMAIN allocations : Owns(i, p)) <=> page_map[p] # paged!Null
        BY <2>2, Typed DEF Claimed
      <4> QED BY <4>1, <4>2
    <3> HIDE DEF ps
    <3>3. ASSUME NEW p \in paged!Page PROVE p \in present' <=> p \in Mapped
      BY <2>1, <2>2, <3>2 DEF Claimed
    <3> QED BY <2>1, <3>1, <3>3
  <2>4. paged!TypeOK' BY <2>1, <2>3, Typed DEF paged!TypeOK, PageInv
  <2>5. Recorded' BY <2>1 DEF Recorded, paged!PageHeapAssumption
  <2> QED BY <2>1, <2>3, <2>4, <2>5 DEF PageInv, paged!LeavesNothing
<1> QED BY <1>1, <1>2

LEMMA PageNext ==
  ASSUME paged!PageHeapAssumption, PageInv, [paged!Next]_(paged!vars)
  PROVE  PageInv'
<1>1. CASE UNCHANGED paged!vars
  <2> USE <1>1 DEF paged!vars
  <2>1. paged!TypeOK' /\ Recorded' /\ paged!LeavesNothing'
    BY DEF PageInv, paged!TypeOK, Recorded, paged!LeavesNothing
  <2>2. Claimed => Claimed' BY DEF Claimed, Owns
  <2>3. Counted => Counted'
    BY DEF Counted, paged!Used, paged!LengthOf, paged!Cardinality,
           paged!IsFiniteSet
  <2> QED BY <2>1, <2>2, <2>3 DEF PageInv
<1>2. ASSUME NEW n \in Lengths, paged!AllocFails(n) PROVE PageInv'
  BY <1>2 DEF paged!AllocFails, PageInv, paged!TypeOK, Recorded, paged!LeavesNothing
<1> QED
  BY <1>1, <1>2, AllocRecordStep, AllocRegionStep, FreePagesStep, DestroyStep DEF paged!Next

LEMMA PageOwners == ASSUME paged!PageHeapAssumption, PageInv PROVE paged!PagesOwned
<1> SUFFICES ASSUME state = "up", NEW p \in paged!Page
             PROVE  LET owners == {i \in paged!Used : p \in paged!PagesOf(allocations[i])}
                    IN /\ p \in present <=> p \in Mapped \/ owners # {}
                       /\ owners = {page_map[p]} \ {paged!Null}
  BY DEF PageInv, paged!PagesOwned, Counted
<1> DEFINE owners == {i \in paged!Used : p \in paged!PagesOf(allocations[i])}
<1>1. /\ page_map[p] \in {paged!Null} \cup DOMAIN allocations
      /\ \A j \in DOMAIN allocations : Owns(j, p) <=> page_map[p] = j
      /\ p \in present <=> p \in Mapped \/ page_map[p] # paged!Null
  BY DEF PageInv, Claimed
<1>2. owners = {i \in DOMAIN allocations : Owns(i, p)} BY DEF paged!Used, Owns
<1>3. 0 \notin DOMAIN allocations BY Typed
<1> HIDE DEF owners
<1>4. owners = {page_map[p]} \ {paged!Null} BY <1>1, <1>2, <1>3
<1> QED BY <1>1, <1>4 DEF owners

-----------------------------------------------------------------------------
\* kernel_heap, for any number of threads that give up heaps_m between their
\* steps.

KernelConstants == kernel!SizeAssumption /\ kernel!BoundAssumption
Distinct(q) == \A i, j \in DOMAIN q : q[i] = q[j] => i = j

\* A heap that was made, with cells large enough for what t asked for.
CellFits(t, h) == h # kernel!Nil /\ cellsize[h] >= want[t]

\* What threads remember across the points where they hold no lock: heaps that
\* were made, a size that covers the request, and, once a heap has been made
\* for that size, that its list is not empty.
RefsAt(t) == heap[t] <= made /\ li[t] <= made /\ it[t] <= made
FitAt(t) ==
  /\ k_pc[t] \in {"look", "count", "counted", "create", "created"} =>
       want[t] <= k_size[t]
  /\ k_pc[t] = "created" => heaps[k_size[t]] # <<>>
  /\ k_pc[t] \in {"created", "try", "walk", "full", "replaced"} => CellFits(t, heap[t])
  /\ k_pc[t] \in {"try", "walk", "replaced"} => CellFits(t, li[t])
  /\ k_pc[t] = "walk" /\ it[t] # kernel!Nil => CellFits(t, it[t])
ThreadsInv == \A t \in Thread : RefsAt(t) /\ FitAt(t)
KernelInv == kernel!TypeOK /\ ThreadsInv /\ kernel!ListsSound

USE DEF kernel!Nil

-----------------------------------------------------------------------------
\* A set of numbers that is not empty has a smallest one, which Min chooses.
LEMMA KeyIn ==
  ASSUME NEW S \in SUBSET Nat, S # {}
  PROVE  kernel!Min(S) \in S
BY LeastIn DEF kernel!Min

\* Rounding goes up to a multiple of the word, and a multiple stays as it is.
LEMMA RoundedSize ==
  ASSUME NEW w \in Nat \ {0}, NEW s \in Nat
  PROVE  LET up(n) == n + ((w - (n % w)) % w)
         IN up(s) \in Nat /\ up(s) >= s /\ up(up(s)) = up(s)
<1> DEFINE r == s % w
           q == s \div w
           g == (w - r) % w
<1>1. r \in 0 .. w - 1 /\ q \in Nat /\ s = w * q + r BY Z3
<1>2. w % w = 0 BY Z3
<1>3. g = IF r = 0 THEN 0 ELSE w - r
  <2>1. CASE r = 0 BY <1>2, <2>1
  <2>2. CASE r # 0
    <3>1. w - r \in 0 .. w - 1 BY <1>1, <2>2
    <3>2. (w - r) % w = w - r BY <3>1
    <3> QED BY <2>2, <3>2
  <2> QED BY <2>1, <2>2
<1>4. g \in Nat BY <1>1, <1>3
<1>5. (s + g) % w = 0
  <2>1. CASE r = 0 BY <1>3, <2>1
  <2>2. CASE r # 0
    <3>1. s + g = w * (q + 1) BY <1>1, <1>3, <2>2
    <3>2. (w * (q + 1)) % w = 0 BY <1>1, Z3
    <3> QED BY <3>1, <3>2
  <2> QED BY <2>1, <2>2
<1>6. (w - ((s + g) % w)) % w = 0 BY <1>2, <1>5
<1> HIDE DEF g
<1> QED BY <1>4, <1>6 DEF g

LEMMA Keys ==
  ASSUME KernelConstants
  PROVE  /\ \A s \in Nat : kernel!Rounded(s) \in Nat /\ kernel!Rounded(s) >= s
         /\ kernel!Key \subseteq Nat /\ Smallest \in kernel!Key /\ Request \subseteq kernel!Key
         /\ \A k \in kernel!Key : kernel!Rounded(k) \in kernel!Key
<1>1. \A s \in Nat : kernel!Rounded(s) \in Nat /\ kernel!Rounded(s) >= s
                     /\ kernel!Rounded(kernel!Rounded(s)) = kernel!Rounded(s)
  BY RoundedSize DEF KernelConstants, kernel!SizeAssumption, kernel!Rounded
<1>2. Smallest \in Nat /\ Request \subseteq Nat
  BY DEF KernelConstants, kernel!SizeAssumption
<1>3. kernel!Rounded(Smallest) = Smallest
  <2>1. Word \in Nat \ {0} /\ Smallest % Word = 0
    BY DEF KernelConstants, kernel!SizeAssumption
  <2>2. Word % Word = 0 BY <2>1, Z3
  <2>3. (Word - 0) % Word = 0 BY <2>1, <2>2
  <2> QED BY <1>2, <2>1, <2>3 DEF kernel!Rounded
<1> HIDE DEF kernel!Rounded
<1> QED BY <1>1, <1>2, <1>3 DEF kernel!Key

\* What a list has, and what its first node is.
LEMMA ListNodes ==
  ASSUME KernelInv, NEW k \in kernel!Key
  PROVE  /\ heaps[k] \in Seq(kernel!Heap) /\ Distinct(heaps[k])
         /\ \A i \in DOMAIN heaps[k] :
              /\ heaps[k][i] \in kernel!Heap /\ heaps[k][i] <= made
              /\ cellsize[heaps[k][i]] = k
         /\ heaps[k] # <<>> =>
              /\ Head(heaps[k]) \in kernel!Heap /\ Head(heaps[k]) <= made
              /\ cellsize[Head(heaps[k])] = k
<1>1. heaps[k] \in Seq(kernel!Heap) BY DEF KernelInv, kernel!TypeOK
<1>2. \A i \in DOMAIN heaps[k] :
        heaps[k][i] \in kernel!Heap /\ heaps[k][i] <= made /\ cellsize[heaps[k][i]] = k
  BY <1>1 DEF KernelInv, kernel!ListsSound
<1>3. Distinct(heaps[k]) BY DEF KernelInv, kernel!ListsSound, Distinct
<1>4. ASSUME heaps[k] # <<>>
      PROVE 1 \in DOMAIN heaps[k] /\ Head(heaps[k]) = heaps[k][1]
  BY <1>1, <1>4
<1> QED BY <1>1, <1>2, <1>3, <1>4

\* The node behind a node, if there is one, is of the same list.
LEMMA NextNode ==
  ASSUME KernelConstants, KernelInv, NEW h \in kernel!Heap
  PROVE  \/ kernel!NextOf(h) = kernel!Nil
         \/ /\ kernel!NextOf(h) \in kernel!Heap /\ kernel!NextOf(h) <= made
            /\ cellsize[kernel!NextOf(h)] = cellsize[h]
<1> DEFINE k == cellsize[h]
           list == heaps[k]
           here == {i \in 1 .. Len(list) - 1 : list[i] = h}
<1>1. k \in kernel!Key BY DEF KernelInv, kernel!TypeOK
<1>2. list \in Seq(kernel!Heap) BY <1>1, ListNodes
<1>3. CASE here = {} BY <1>3 DEF kernel!NextOf
<1>4. CASE here # {}
  <2>0. here \in SUBSET Nat BY <1>2
  <2>1. kernel!Min(here) \in here
    <3> HIDE DEF here
    <3> QED BY <1>4, <2>0, KeyIn
  <2>2. kernel!Min(here) + 1 \in DOMAIN list BY <1>2, <2>1
  <2>3. kernel!NextOf(h) = list[kernel!Min(here) + 1] BY <1>4 DEF kernel!NextOf
  <2> HIDE DEF here
  <2> QED BY <1>1, <2>2, <2>3, ListNodes
<1> QED BY <1>3, <1>4

\* Putting a node to the end keeps the list's nodes, each once.
LEMMA BehindNodes ==
  ASSUME NEW S, NEW list \in Seq(S), Distinct(list), NEW n \in DOMAIN list
  PROVE  /\ kernel!Behind(list[n], list) \in Seq(S) /\ Distinct(kernel!Behind(list[n], list))
         /\ \A i \in DOMAIN kernel!Behind(list[n], list) :
              \E j \in DOMAIN list : kernel!Behind(list[n], list)[i] = list[j]
<1> DEFINE h == list[n]
           at == CHOOSE i \in DOMAIN list : list[i] = h
           moved == [i \in DOMAIN list |-> IF i < at THEN list[i]
                       ELSE IF i < Len(list) THEN list[i + 1] ELSE h]
<1>1. at \in DOMAIN list /\ list[at] = h OBVIOUS
<1>2. at = n BY <1>1 DEF Distinct
<1>3. Len(list) \in Nat /\ DOMAIN list = 1 .. Len(list) OBVIOUS
<1> DEFINE from(i) == IF i < n THEN i ELSE IF i < Len(list) THEN i + 1 ELSE n
<1>4. \A i \in 1 .. Len(list) : from(i) \in 1 .. Len(list) BY <1>3
<1>5. \A i, j \in 1 .. Len(list) : from(i) = from(j) => i = j
  <2> TAKE i, j \in 1 .. Len(list)
  <2>1. n \in 1 .. Len(list) /\ Len(list) \in Nat BY <1>3
  <2> HIDE DEF h, at, moved
  <2>2. CASE i < n BY <2>1, <2>2
  <2>3. CASE ~(i < n) /\ i < Len(list)
    <3>1. from(i) = i + 1 BY <2>3
    <3>2. CASE j < n BY <2>1, <2>3, <3>1, <3>2
    <3>3. CASE ~(j < n) /\ j < Len(list) BY <2>1, <2>3, <3>1, <3>3
    <3>4. CASE ~(j < n) /\ ~(j < Len(list)) BY <2>1, <2>3, <3>1, <3>4
    <3> QED BY <3>2, <3>3, <3>4
  <2>4. CASE ~(i < n) /\ ~(i < Len(list)) BY <2>1, <2>4
  <2> QED BY <2>2, <2>3, <2>4
<1>6. moved = [i \in 1 .. Len(list) |-> list[from(i)]] BY <1>2, <1>3
<1>7. kernel!Behind(h, list) = IF Len(list) = 1 THEN <<>> ELSE moved BY
    DEF kernel!Behind
<1> HIDE DEF h, at, moved, from
<1>8. CASE Len(list) = 1
  <2>1. kernel!Behind(h, list) = <<>> BY <1>7, <1>8
  <2> QED BY <2>1 DEF h, Distinct
<1>9. CASE Len(list) # 1
  <2>1. kernel!Behind(h, list) = moved BY <1>7, <1>9
  <2>2. \A i \in 1 .. Len(list) : list[from(i)] \in S BY <1>3, <1>4
  <2>3. moved \in [1 .. Len(list) -> S] BY <1>6, <2>2
  <2>4. moved \in Seq(S) BY <1>3, <2>3
  <2>5. DOMAIN moved = 1 .. Len(list)
        /\ \A i \in 1 .. Len(list) : moved[i] = list[from(i)]
    BY <1>6
  <2>6. Distinct(moved) BY <1>3, <1>4, <1>5, <2>5 DEF Distinct
  <2> QED BY <1>3, <1>4, <2>1, <2>4, <2>5, <2>6 DEF h
<1> QED BY <1>8, <1>9

\* A node in front of a list.
LEMMA FrontNode ==
  ASSUME NEW S, NEW h \in S, NEW list \in Seq(S)
  PROVE  /\ <<h>> \o list \in Seq(S) /\ <<h>> \o list # <<>>
         /\ DOMAIN (<<h>> \o list) = 1 .. Len(list) + 1
         /\ \A i \in 1 .. Len(list) + 1 :
              (<<h>> \o list)[i] = IF i = 1 THEN h ELSE list[i - 1]
<1>1. <<h>> \in Seq(S) /\ Len(<<h>>) = 1 /\ <<h>>[1] = h OBVIOUS
<1>2. Len(list) \in Nat OBVIOUS
<1> DEFINE q == <<h>> \o list
<1>3. /\ q \in Seq(S) /\ Len(q) = 1 + Len(list)
      /\ \A i \in 1 .. 1 + Len(list) :
           q[i] = IF i <= 1 THEN <<h>>[i] ELSE list[i - 1]
  BY <1>1, ConcatProperties
<1> HIDE DEF q
<1>4. DOMAIN q = 1 .. Len(list) + 1 BY <1>2, <1>3
<1>5. \A i \in 1 .. Len(list) + 1 : q[i] = IF i = 1 THEN h ELSE list[i - 1]
  BY <1>1, <1>2, <1>3
<1>6. q # <<>> BY <1>2, <1>3
<1> QED BY <1>3, <1>4, <1>5, <1>6 DEF q

-----------------------------------------------------------------------------
\* A function on threads that is set at one of them.
LEMMA KernelSetIn ==
  ASSUME NEW S, NEW f \in [Thread -> S], NEW t \in Thread, NEW v \in S
  PROVE  kernel!Set(f, t, v) \in [Thread -> S]
BY DEF kernel!Set

\* The type invariant, variable by variable.
LEMMA KernelTypes ==
  ASSUME kernel!TypeOK
  PROVE  /\ heaps \in [kernel!Key -> Seq(kernel!Heap)] /\ made \in 0 .. MaxHeaps
         /\ cellsize \in [kernel!Heap -> kernel!Key] /\ k_used \in [kernel!Heap -> 0 .. Cells]
         /\ heap_requests \in [kernel!Key -> 0 .. Popular]
         /\ k_pc \in [Thread -> kernel!Pc]
         /\ want \in [Thread -> kernel!Key] /\ k_size \in [Thread -> kernel!Key]
         /\ heap \in [Thread -> kernel!Heap \cup {kernel!Nil}]
         /\ li \in [Thread -> kernel!Heap \cup {kernel!Nil}] /\ it \in [Thread -> kernel!Heap \cup {kernel!Nil}]
BY DEF kernel!TypeOK

\* The thread's part of the types, when only its locals change.
LocalTypes ==
  /\ readers \subseteq Thread
  /\ k_pc \in [Thread -> kernel!Pc]
  /\ want \in [Thread -> kernel!Key] /\ k_size \in [Thread -> kernel!Key]
  /\ popular \in [Thread -> BOOLEAN] /\ tried \in [Thread -> BOOLEAN]
  /\ heap \in [Thread -> kernel!Heap \cup {kernel!Nil}]
  /\ li \in [Thread -> kernel!Heap \cup {kernel!Nil}] /\ it \in [Thread -> kernel!Heap \cup {kernel!Nil}]
TopTypes ==
  /\ heaps \in [kernel!Key -> Seq(kernel!Heap)]
  /\ made \in 0 .. MaxHeaps /\ cellsize \in [kernel!Heap -> kernel!Key]
CountTypes ==
  /\ k_used \in [kernel!Heap -> 0 .. Cells]
  /\ heap_requests \in [kernel!Key -> 0 .. Popular]

LEMMA TypeParts == kernel!TypeOK <=> LocalTypes /\ TopTypes /\ CountTypes
BY DEF kernel!TypeOK, LocalTypes, TopTypes, CountTypes

\* What heap_for chooses is a heap that was made.
LEMMA LookHead ==
  ASSUME KernelConstants, KernelInv, NEW t \in Thread
  PROVE  \E k \in kernel!Key :
           /\ kernel!ListFor(k_size[t]) = heaps[k]
           /\ k = k_size[t] \/ (k = Smallest /\ k_size[t] <= Smallest)
<1>1. k_size[t] \in kernel!Key BY DEF KernelInv, kernel!TypeOK
<1>2. Smallest \in kernel!Key BY Keys
<1>3. CASE k_size[t] <= Smallest
  <2>1. kernel!ListFor(k_size[t]) = heaps[Smallest] BY <1>3 DEF kernel!ListFor
  <2> QED BY <1>2, <1>3, <2>1
<1>4. CASE ~(k_size[t] <= Smallest)
  <2>1. kernel!ListFor(k_size[t]) = heaps[k_size[t]] BY <1>4 DEF kernel!ListFor
  <2> QED BY <1>1, <2>1
<1> QED BY <1>3, <1>4

LEMMA LargerIn ==
  ASSUME KernelConstants, NEW s \in kernel!Key, kernel!LargerKeys(s) # {}
  PROVE  LET k == kernel!Min(kernel!LargerKeys(s)) IN k \in kernel!Key /\ k >= s /\ heaps[k] # <<>>
<1>1. kernel!LargerKeys(s) \in SUBSET Nat BY Keys DEF kernel!LargerKeys
<1>2. kernel!Min(kernel!LargerKeys(s)) \in kernel!LargerKeys(s) BY <1>1, KeyIn
<1> QED BY <1>2 DEF kernel!LargerKeys

\* Every step keeps the types of what the threads remember.
LEMMA LocalTypesNext ==
  ASSUME KernelConstants, KernelInv, NEW t \in Thread, kernel!Step(t)
  PROVE  LocalTypes'
<1> USE DEF kernel!Goto, kernel!Enter, kernel!Leave, kernel!At
<1>a. LocalTypes /\ kernel!TypeOK BY TypeParts DEF KernelInv
<1>b. \A w \in kernel!Pc : [k_pc EXCEPT ![t] = w] \in [Thread -> kernel!Pc]
  BY <1>a DEF LocalTypes
<1>c. \A k \in kernel!Key : kernel!Set(want, t, k) \in [Thread -> kernel!Key]
                    /\ kernel!Set(k_size, t, k) \in [Thread -> kernel!Key]
  BY <1>a, KernelSetIn DEF LocalTypes
<1>d. \A b \in BOOLEAN : kernel!Set(popular, t, b) \in [Thread -> BOOLEAN]
                        /\ kernel!Set(tried, t, b) \in [Thread -> BOOLEAN]
  BY <1>a, KernelSetIn DEF LocalTypes
<1>e. \A h \in kernel!Heap \cup {kernel!Nil} :
        /\ kernel!Set(heap, t, h) \in [Thread -> kernel!Heap \cup {kernel!Nil}]
        /\ kernel!Set(li, t, h) \in [Thread -> kernel!Heap \cup {kernel!Nil}]
        /\ kernel!Set(it, t, h) \in [Thread -> kernel!Heap \cup {kernel!Nil}]
  BY <1>a, KernelSetIn DEF LocalTypes
<1>f. readers \cup {t} \subseteq Thread /\ readers \ {t} \subseteq Thread
  BY <1>a DEF LocalTypes
<1>g. k_size[t] \in kernel!Key /\ want[t] \in kernel!Key /\ li[t] \in kernel!Heap \cup {kernel!Nil}
      /\ it[t] \in kernel!Heap \cup {kernel!Nil}
  BY <1>a DEF LocalTypes
<1>h. \A k \in kernel!Key : heaps[k] # <<>> => Head(heaps[k]) \in kernel!Heap
  BY ListNodes
<1> USE DEF kernel!Pc
<1>1. ASSUME NEW s \in Request, kernel!Alloc(t, s) PROVE LocalTypes'
  BY <1>1, <1>a, <1>b, <1>c, <1>d, <1>f, Keys DEF kernel!Alloc, LocalTypes
<1>2. CASE kernel!LookFound(t)
  BY <1>2, <1>a, <1>b, <1>e, <1>h, LookHead DEF kernel!LookFound,
                                                kernel!Chosen, LocalTypes
<1>3. CASE kernel!LookMissing(t)
  BY <1>3, <1>a, <1>b, <1>f DEF kernel!LookMissing, LocalTypes, kernel!locals
<1>4. CASE kernel!Count(t)
  BY <1>4, <1>a, <1>b, <1>d, <1>f DEF kernel!Count, LocalTypes
<1>5. CASE kernel!Round(t)
  BY <1>5, <1>a, <1>b, <1>c, <1>g, Keys DEF kernel!Round, LocalTypes
<1>6. CASE kernel!Borrow(t)
  BY <1>6, <1>a, <1>b, <1>e, <1>g, <1>h, LargerIn DEF kernel!Borrow,
      kernel!Chosen, LocalTypes
<1>7. CASE kernel!Wants(t)
  BY <1>7, <1>a, <1>b, <1>f DEF kernel!Wants, LocalTypes, kernel!locals
<1>8. ASSUME NEW k, NEW list, kernel!NewHeap(t, k, list)
      PROVE made + 1 \in kernel!Heap
  <2>1. made \in Nat /\ made < MaxHeaps /\ MaxHeaps \in Nat
    BY <1>8, <1>a, KernelTypes DEF kernel!NewHeap, KernelConstants,
                                   kernel!BoundAssumption
  <2> QED BY <2>1 DEF kernel!Heap
<1>9. CASE kernel!Create(t)
  BY <1>9, <1>8, <1>a, <1>b, <1>e DEF kernel!Create, kernel!NewHeap, LocalTypes
<1>10. CASE kernel!Created(t)
  <2>1. heaps[k_size[t]] # <<>>
    BY <1>10 DEF kernel!Created, KernelInv, ThreadsInv, FitAt
  <2> QED BY <1>10, <2>1, <1>a, <1>b, <1>e, <1>f, <1>g, <1>h
          DEF kernel!Created, LocalTypes
<1>11. CASE kernel!TryHeap(t) \/ kernel!WalkTake(t)
  BY <1>11, <1>a, <1>b, <1>f DEF kernel!TryHeap, kernel!WalkTake, kernel!Take,
                                 LocalTypes, kernel!locals
<1>12. CASE kernel!TryFails(t)
  BY <1>12, <1>a, <1>b, <1>e, <1>g DEF kernel!TryFails, LocalTypes
<1>13. CASE kernel!WalkOn(t)
  BY <1>13, <1>a, <1>e, <1>g, NextNode DEF kernel!WalkOn, LocalTypes
<1>14. CASE kernel!WalkEnd(t)
  BY <1>14, <1>a, <1>b, <1>f DEF kernel!WalkEnd, LocalTypes, kernel!locals
<1>15. CASE kernel!Replace(t)
  BY <1>15, <1>8, <1>a, <1>b, <1>d, <1>e DEF kernel!Replace, kernel!NewHeap,
                                             LocalTypes
<1>16. CASE kernel!ReplaceFails(t)
  BY <1>16, <1>a, <1>b DEF kernel!ReplaceFails, LocalTypes, kernel!locals
<1>17. CASE kernel!Replaced(t)
  BY <1>17, <1>a, <1>b, <1>f DEF kernel!Replaced, LocalTypes, kernel!locals
<1>18. ASSUME NEW h \in kernel!Heap, kernel!Free(t, h) PROVE LocalTypes'
  BY <1>18, <1>a DEF kernel!Free, LocalTypes, kernel!locals
<1> QED BY <1>1, <1>2, <1>3, <1>4, <1>5, <1>6, <1>7, <1>9, <1>10, <1>11, <1>12,
           <1>13, <1>14, <1>15, <1>16, <1>17, <1>18 DEF kernel!Step

LEMMA CountTypesNext ==
  ASSUME KernelConstants, KernelInv, NEW t \in Thread, kernel!Step(t)
  PROVE  CountTypes'
<1>a. CountTypes /\ kernel!TypeOK BY TypeParts DEF KernelInv
<1>b. Popular \in Nat /\ Cells \in Nat BY DEF KernelConstants,
                                              kernel!BoundAssumption
<1>1. CASE UNCHANGED <<k_used, heap_requests>> BY <1>1, <1>a DEF CountTypes
<1>2. CASE kernel!Count(t)
  <2>1. k_size[t] \in kernel!Key BY <1>a, KernelTypes
  <2>2. heap_requests[k_size[t]] \in 0 .. Popular BY <1>a, <2>1 DEF CountTypes
  <2> DEFINE n == IF heap_requests[k_size[t]] + 1 > Popular THEN Popular
                  ELSE heap_requests[k_size[t]] + 1
  <2>3. n \in 0 .. Popular BY <1>b, <2>2
  <2>4. heap_requests' = [heap_requests EXCEPT ![k_size[t]] = n] /\ k_used' = k_used
    BY <1>2 DEF kernel!Count, kernel!Set
  <2> HIDE DEF n
  <2> QED BY <1>a, <2>3, <2>4 DEF CountTypes
<1>3. ASSUME NEW h \in kernel!Heap, kernel!HasCell(h), kernel!Take(t, h) PROVE CountTypes'
  <2>1. k_used[h] + 1 \in 0 .. Cells BY <1>3, <1>a, <1>b DEF CountTypes,
      kernel!HasCell
  <2> QED BY <1>3, <1>a, <2>1 DEF CountTypes, kernel!Take
<1>4. CASE kernel!TryHeap(t)
  <2>1. heap[t] \in kernel!Heap
    BY <1>4, <1>a, KernelTypes DEF kernel!TryHeap, kernel!At, KernelInv,
                                   ThreadsInv, FitAt, CellFits
  <2> QED BY <1>3, <1>4, <2>1 DEF kernel!TryHeap
<1>5. CASE kernel!WalkTake(t)
  <2>1. it[t] \in kernel!Heap BY <1>5, <1>a, KernelTypes DEF kernel!WalkTake
  <2> QED BY <1>3, <1>5, <2>1 DEF kernel!WalkTake, kernel!Usable
<1>6. ASSUME NEW h \in kernel!Heap, kernel!Free(t, h) PROVE CountTypes'
  <2>1. k_used[h] - 1 \in 0 .. Cells BY <1>6, <1>a, <1>b DEF CountTypes,
      kernel!Free
  <2> QED BY <1>6, <1>a, <2>1 DEF CountTypes, kernel!Free
<1> QED BY <1>1, <1>2, <1>4, <1>5, <1>6
        DEF kernel!Step, kernel!Alloc, kernel!LookFound, kernel!LookMissing,
            kernel!Round, kernel!Borrow, kernel!Wants, kernel!Chosen,
            kernel!Create, kernel!Created, kernel!TryFails, kernel!WalkOn,
            kernel!WalkEnd, kernel!Replace, kernel!ReplaceFails,
            kernel!Replaced

-----------------------------------------------------------------------------
LEMMA MadeHeap ==
  ASSUME KernelConstants, kernel!TypeOK, NEW t, NEW k, NEW list, kernel!NewHeap(t, k, list)
  PROVE  made + 1 \in kernel!Heap /\ made \in Nat /\ made + 1 \in 0 .. MaxHeaps
<1>1. MaxHeaps \in Nat BY DEF KernelConstants, kernel!BoundAssumption
<1>2. made \in 0 .. MaxHeaps BY KernelTypes
<1>3. made < MaxHeaps BY DEF kernel!NewHeap
<1> QED BY <1>1, <1>2, <1>3 DEF kernel!Heap

\* What a step of t leaves of the other threads.
OthersAlone(t) == \A u \in Thread \ {t} :
  /\ k_pc'[u] = k_pc[u] /\ want'[u] = want[u] /\ k_size'[u] = k_size[u]
  /\ heap'[u] = heap[u] /\ li'[u] = li[u] /\ it'[u] = it[u]

LEMMA KernelStepAlone ==
  ASSUME KernelInv, NEW t \in Thread, kernel!Step(t)
  PROVE  OthersAlone(t)
<1> USE DEF kernel!Goto, kernel!Set, kernel!locals, OthersAlone
<1>a. kernel!TypeOK BY DEF KernelInv
<1>1. ASSUME NEW s, kernel!Alloc(t, s) PROVE OthersAlone(t)
  BY <1>1, <1>a, KernelTypes DEF kernel!Alloc
<1>2. CASE kernel!LookFound(t) BY <1>2, <1>a, KernelTypes DEF kernel!LookFound,
    kernel!Chosen
<1>3. CASE kernel!LookMissing(t) BY <1>3, <1>a, KernelTypes
                                 DEF kernel!LookMissing
<1>4. CASE kernel!Count(t) BY <1>4, <1>a, KernelTypes DEF kernel!Count
<1>5. CASE kernel!Round(t) BY <1>5, <1>a, KernelTypes DEF kernel!Round
<1>6. CASE kernel!Borrow(t) BY <1>6, <1>a, KernelTypes DEF kernel!Borrow,
    kernel!Chosen
<1>7. CASE kernel!Wants(t) BY <1>7, <1>a, KernelTypes DEF kernel!Wants
<1>8. CASE kernel!Create(t) BY <1>8, <1>a, KernelTypes DEF kernel!Create,
    kernel!NewHeap
<1>9. CASE kernel!Created(t) BY <1>9, <1>a, KernelTypes DEF kernel!Created
<1>10. CASE kernel!TryHeap(t) BY <1>10, <1>a, KernelTypes DEF kernel!TryHeap,
    kernel!Take
<1>11. CASE kernel!TryFails(t) BY <1>11, <1>a, KernelTypes DEF kernel!TryFails
<1>12. CASE kernel!WalkTake(t) BY <1>12, <1>a, KernelTypes DEF kernel!WalkTake,
    kernel!Take
<1>13. CASE kernel!WalkOn(t) BY <1>13, <1>a, KernelTypes DEF kernel!WalkOn
<1>14. CASE kernel!WalkEnd(t) BY <1>14, <1>a, KernelTypes DEF kernel!WalkEnd
<1>15. CASE kernel!Replace(t) BY <1>15, <1>a, KernelTypes DEF kernel!Replace,
    kernel!NewHeap
<1>16. CASE kernel!ReplaceFails(t) BY <1>16, <1>a, KernelTypes
                                   DEF kernel!ReplaceFails
<1>17. CASE kernel!Replaced(t) BY <1>17, <1>a, KernelTypes DEF kernel!Replaced
<1>18. ASSUME NEW h, kernel!Free(t, h) PROVE OthersAlone(t)
  BY <1>18, <1>a, KernelTypes DEF kernel!Free
<1> QED BY <1>1, <1>2, <1>3, <1>4, <1>5, <1>6, <1>7, <1>8, <1>9, <1>10, <1>11,
           <1>12, <1>13, <1>14, <1>15, <1>16, <1>17, <1>18 DEF kernel!Step

\* Steps that leave the lists alone.
LEMMA LocalStep ==
  ASSUME KernelConstants, KernelInv, NEW t \in Thread, kernel!Step(t), UNCHANGED kernel!tops,
         RefsAt(t)' /\ FitAt(t)'
  PROVE  KernelInv'
<1>1. OthersAlone(t) BY KernelStepAlone
<1>2. kernel!TypeOK'
  <2>1. LocalTypes' /\ CountTypes' BY LocalTypesNext, CountTypesNext
  <2>2. TopTypes' BY TypeParts DEF KernelInv, TopTypes, kernel!tops
  <2>3. LocalTypes' /\ TopTypes' /\ CountTypes' => kernel!TypeOK'
    BY DEF kernel!TypeOK, LocalTypes, TopTypes, CountTypes
  <2> QED BY <2>1, <2>2, <2>3
<1>3. ThreadsInv'
  <2> SUFFICES ASSUME NEW u \in Thread, u # t PROVE RefsAt(u)' /\ FitAt(u)'
    BY DEF ThreadsInv
  <2>1. RefsAt(u) /\ FitAt(u) BY DEF KernelInv, ThreadsInv
  <2> QED BY <1>1, <2>1 DEF OthersAlone, RefsAt, FitAt, CellFits, kernel!tops
<1>4. kernel!ListsSound' BY DEF KernelInv, kernel!ListsSound, kernel!tops
<1> QED BY <1>2, <1>3, <1>4 DEF KernelInv

\* Steps that put a new heap in front of what a list has kept.
KeptList(k, list) ==
  /\ list \in Seq(kernel!Heap) /\ Distinct(list)
  /\ \A i \in DOMAIN list : list[i] <= made /\ cellsize[list[i]] = k

LEMMA NewHeapStep ==
  ASSUME KernelConstants, KernelInv, NEW t \in Thread, kernel!Step(t),
         NEW k \in kernel!Key, NEW list, KeptList(k, list), kernel!NewHeap(t, k, list),
         RefsAt(t)' /\ FitAt(t)'
  PROVE  KernelInv'
<1>1. OthersAlone(t) BY KernelStepAlone
<1>2. kernel!TypeOK BY DEF KernelInv
<1>3. /\ made \in Nat /\ made' = made + 1 /\ made + 1 \in kernel!Heap
      /\ made + 1 \in 0 .. MaxHeaps
      /\ cellsize' = [cellsize EXCEPT ![made + 1] = k]
      /\ heaps' = [heaps EXCEPT ![k] = <<made + 1>> \o list]
  <2>1. MaxHeaps \in Nat BY DEF KernelConstants, kernel!BoundAssumption
  <2>2. made \in 0 .. MaxHeaps BY <1>2, KernelTypes
  <2>3. made < MaxHeaps /\ made' = made + 1 BY DEF kernel!NewHeap
  <2>4. made + 1 \in kernel!Heap /\ made + 1 \in 0 .. MaxHeaps /\ made \in Nat
    BY <2>1, <2>2, <2>3 DEF kernel!Heap
  <2> QED BY <2>3, <2>4 DEF kernel!NewHeap, kernel!Set
<1> DEFINE q == <<made + 1>> \o list
<1>4. /\ q \in Seq(kernel!Heap) /\ q # <<>> /\ DOMAIN q = 1 .. Len(list) + 1
      /\ \A i \in 1 .. Len(list) + 1 :
           q[i] = IF i = 1 THEN made + 1 ELSE list[i - 1]
  BY <1>3, FrontNode DEF KeptList
<1>5. /\ heaps'[k] = q
      /\ \A j \in kernel!Key \ {k} : heaps'[j] = heaps[j]
      /\ cellsize'[made + 1] = k
      /\ \A h \in kernel!Heap : h <= made => cellsize'[h] = cellsize[h]
  BY <1>2, <1>3, KernelTypes
<1> HIDE DEF q
<1>6. kernel!TypeOK'
  <2>1. LocalTypes' /\ CountTypes' BY LocalTypesNext, CountTypesNext
  <2>2. heaps' \in [kernel!Key -> Seq(kernel!Heap)] BY <1>2, <1>3, <1>4,
      KernelTypes DEF q
  <2>3. TopTypes' BY <1>2, <1>3, <2>2, KernelTypes DEF TopTypes
  <2>4. LocalTypes' /\ TopTypes' /\ CountTypes' => kernel!TypeOK'
    BY DEF kernel!TypeOK, LocalTypes, TopTypes, CountTypes
  <2> QED BY <2>1, <2>3, <2>4
<1>7. ThreadsInv'
  <2> SUFFICES ASSUME NEW u \in Thread, u # t PROVE RefsAt(u)' /\ FitAt(u)'
    BY DEF ThreadsInv
  <2>1. RefsAt(u) /\ FitAt(u) BY DEF KernelInv, ThreadsInv
  <2>2. /\ heap[u] \in kernel!Heap \cup {kernel!Nil} /\ li[u] \in kernel!Heap \cup {kernel!Nil}
        /\ it[u] \in kernel!Heap \cup {kernel!Nil} /\ k_size[u] \in kernel!Key
    BY <1>2, KernelTypes
  <2>3. RefsAt(u)'
    <3>1. heap[u] \in Nat /\ li[u] \in Nat /\ it[u] \in Nat
      BY <2>2 DEF kernel!Heap
    <3> QED BY <1>1, <1>3, <2>1, <3>1 DEF RefsAt, OthersAlone
  <2>4. \A h \in kernel!Heap \cup {kernel!Nil} : h <= made /\ CellFits(u, h) => CellFits(u, h)'
    BY <1>1, <1>5 DEF CellFits, OthersAlone
  <2>5. heaps[k_size[u]] # <<>> => heaps'[k_size[u]] # <<>>
    BY <1>4, <1>5, <2>2
  <2>6. /\ k_pc'[u] = k_pc[u] /\ want'[u] = want[u] /\ k_size'[u] = k_size[u]
        /\ heap'[u] = heap[u] /\ li'[u] = li[u] /\ it'[u] = it[u]
    BY <1>1 DEF OthersAlone
  <2>7. /\ CellFits(u, heap[u]) => CellFits(u, heap[u])'
        /\ CellFits(u, li[u]) => CellFits(u, li[u])'
        /\ CellFits(u, it[u]) => CellFits(u, it[u])'
    BY <2>1, <2>2, <2>4, <2>6 DEF RefsAt, CellFits
  <2> QED BY <2>1, <2>3, <2>5, <2>6, <2>7 DEF FitAt
<1>8. kernel!ListsSound'
  <2> SUFFICES ASSUME NEW j \in kernel!Key, NEW x \in DOMAIN heaps'[j],
                      NEW y \in DOMAIN heaps'[j]
               PROVE  /\ heaps'[j][x] <= made' /\ cellsize'[heaps'[j][x]] = j
                      /\ heaps'[j][x] = heaps'[j][y] => x = y
    BY DEF kernel!ListsSound
  <2>1. CASE j # k
    <3>1. heaps'[j] = heaps[j] BY <1>5, <2>1
    <3>2. heaps[j][x] \in kernel!Heap /\ heaps[j][x] <= made /\ cellsize[heaps[j][x]] = j
          /\ Distinct(heaps[j])
      BY <3>1, ListNodes
    <3>3. heaps[j][x] \in Nat BY <3>2 DEF kernel!Heap
    <3>4. heaps[j][x] <= made + 1 BY <1>3, <3>2, <3>3
    <3>5. cellsize'[heaps[j][x]] = j BY <1>5, <3>2
    <3>6. heaps[j][x] = heaps[j][y] => x = y BY <3>1, <3>2 DEF Distinct
    <3> QED BY <1>3, <3>1, <3>4, <3>5, <3>6
  <2>2. CASE j = k
    <3>1. Len(list) \in Nat /\ DOMAIN list = 1 .. Len(list) BY DEF KeptList
    <3>2. x \in 1 .. Len(list) + 1 /\ y \in 1 .. Len(list) + 1
      BY <1>4, <1>5, <2>2
    <3>3. \A i \in 1 .. Len(list) : /\ list[i] \in kernel!Heap /\ list[i] \in Nat
                                   /\ list[i] <= made /\ cellsize[list[i]] = k
      <4>1. \A i \in 1 .. Len(list) : list[i] \in kernel!Heap BY DEF KeptList
      <4>2. \A h \in kernel!Heap : h \in Nat BY DEF kernel!Heap
      <4> QED BY <3>1, <4>1, <4>2 DEF KeptList
    <3>4. \A i \in 1 .. Len(list) + 1 :
            /\ i = 1 => q[i] = made + 1
            /\ i # 1 => i - 1 \in 1 .. Len(list) /\ q[i] = list[i - 1]
      BY <1>4, <3>1
    <3>5. q[x] <= made + 1 /\ cellsize'[q[x]] = k
      <4>1. CASE x = 1 BY <1>3, <1>5, <3>2, <3>4, <4>1
      <4>2. CASE x # 1
        <5>1. PICK h \in kernel!Heap : h = q[x] /\ h \in Nat /\ h <= made /\ cellsize[h] = k
          BY <3>2, <3>3, <3>4, <4>2
        <5> QED BY <1>3, <1>5, <5>1
      <4> QED BY <4>1, <4>2
    <3>6. q[x] = q[y] => x = y
      <4>0. \A i \in 1 .. Len(list) + 1 : i # 1 => q[i] # made + 1
        <5> SUFFICES ASSUME NEW i \in 1 .. Len(list) + 1, i # 1
                     PROVE  q[i] # made + 1
          OBVIOUS
        <5>1. q[i] \in Nat /\ q[i] <= made BY <3>3, <3>4
        <5> QED BY <1>3, <5>1
      <4>1. CASE x = 1 \/ y = 1 BY <3>2, <3>4, <4>0, <4>1
      <4>2. CASE x # 1 /\ y # 1
        <5>1. q[x] = q[y] => x - 1 = y - 1
          BY <3>1, <3>2, <3>4, <4>2 DEF KeptList, Distinct
        <5> QED BY <3>1, <3>2, <5>1
      <4> QED BY <4>1, <4>2
    <3> QED BY <1>3, <1>5, <2>2, <3>5, <3>6
  <2> QED BY <2>1, <2>2
<1> QED BY <1>6, <1>7, <1>8 DEF KernelInv

-----------------------------------------------------------------------------
\* The actions, one by one: what t remembers afterwards.
LEMMA AtStep ==
  ASSUME KernelInv, NEW t \in Thread
  PROVE  /\ RefsAt(t) /\ FitAt(t)
         /\ want[t] \in kernel!Key /\ k_size[t] \in kernel!Key /\ made \in Nat
         /\ heap[t] \in kernel!Heap \cup {kernel!Nil} /\ li[t] \in kernel!Heap \cup {kernel!Nil}
         /\ it[t] \in kernel!Heap \cup {kernel!Nil}
BY DEF KernelInv, ThreadsInv, kernel!TypeOK

LEMMA KernelWritten ==
  ASSUME kernel!TypeOK, NEW t \in Thread, NEW v
  PROVE  /\ kernel!Set(want, t, v)[t] = v /\ kernel!Set(k_size, t, v)[t] = v
         /\ kernel!Set(heap, t, v)[t] = v /\ kernel!Set(li, t, v)[t] = v
         /\ kernel!Set(it, t, v)[t] = v
         /\ [k_pc EXCEPT ![t] = v][t] = v
BY KernelTypes DEF kernel!Set

\* heap_for has chosen the first node of a list whose cells are large enough.
LEMMA ChosenStep ==
  ASSUME KernelConstants, KernelInv, NEW t \in Thread, kernel!Step(t), NEW k \in kernel!Key,
         heaps[k] # <<>>, k >= want[t], kernel!Chosen(t, heaps[k])
  PROVE  KernelInv'
<1> DEFINE h == Head(heaps[k])
<1>1. h \in kernel!Heap /\ h <= made /\ cellsize[h] = k BY ListNodes
<1> HIDE DEF h
<1>2. /\ heap'[t] = h /\ li'[t] = h /\ it'[t] = it[t] /\ want'[t] = want[t]
      /\ k_pc'[t] = "try" /\ UNCHANGED kernel!tops
  BY KernelWritten DEF kernel!Chosen, kernel!Goto, KernelInv, h
<1>3. RefsAt(t)' BY <1>1, <1>2, AtStep DEF RefsAt, kernel!tops
<1>4. h # kernel!Nil BY <1>1 DEF kernel!Heap
<1>5. FitAt(t)' BY <1>1, <1>2, <1>4 DEF FitAt, CellFits, kernel!tops
<1> QED BY <1>2, <1>3, <1>5, LocalStep

LEMMA LookStep ==
  ASSUME KernelConstants, KernelInv, NEW t \in Thread, kernel!Step(t),
         kernel!LookFound(t) \/ kernel!Borrow(t)
  PROVE  KernelInv'
<1>1. /\ want[t] <= k_size[t] /\ k_size[t] \in Nat /\ want[t] \in Nat
      /\ k_size[t] \in kernel!Key
  BY AtStep, Keys DEF FitAt, kernel!LookFound, kernel!Borrow, kernel!At
<1>2. CASE kernel!LookFound(t)
  <2>1. PICK k \in kernel!Key : /\ kernel!ListFor(k_size[t]) = heaps[k]
                                /\ k = k_size[t] \/ (k = Smallest /\ k_size[t] <= Smallest)
    BY LookHead
  <2>2. k \in Nat /\ k >= want[t] BY <1>1, <2>1, Keys
  <2>3. heaps[k] # <<>> /\ kernel!Chosen(t, heaps[k]) BY <1>2, <2>1
      DEF kernel!LookFound
  <2> QED BY <2>2, <2>3, ChosenStep
<1>3. CASE kernel!Borrow(t)
  <2>1. PICK k \in kernel!Key : /\ k = kernel!Min(kernel!LargerKeys(k_size[t]))
                                /\ k >= k_size[t] /\ heaps[k] # <<>>
    BY <1>1, <1>3, LargerIn DEF kernel!Borrow
  <2>2. k \in Nat BY <2>1, Keys
  <2>4. k >= want[t]
    <3>1. k >= k_size[t] /\ k_size[t] >= want[t] BY <1>1, <2>1
    <3> QED BY <1>1, <2>2, <3>1
  <2>3. kernel!Chosen(t, heaps[k]) BY <1>3, <2>1 DEF kernel!Borrow
  <2> QED BY <2>1, <2>4, <2>3, ChosenStep
<1> QED BY <1>2, <1>3

\* The steps of heap_for that leave lists and nodes alone.
LEMMA SearchStep ==
  ASSUME KernelConstants, KernelInv, NEW t \in Thread, kernel!Step(t),
         \/ \E s \in Request : kernel!Alloc(t, s)
         \/ kernel!LookMissing(t) \/ kernel!Count(t) \/ kernel!Round(t) \/ kernel!Wants(t)
  PROVE  KernelInv'
<1>0. kernel!TypeOK BY DEF KernelInv
<1>1. /\ UNCHANGED kernel!tops
      /\ heap'[t] = heap[t] /\ li'[t] = li[t] /\ it'[t] = it[t]
  BY DEF kernel!Alloc, kernel!LookMissing, kernel!Count, kernel!Round,
         kernel!Wants, kernel!locals
<1>2. k_pc'[t] \in {"look", "count", "counted", "create"}
  <2>1. PICK w \in {"look", "count", "counted", "create"} :
          k_pc' = [k_pc EXCEPT ![t] = w]
    BY DEF kernel!Alloc, kernel!LookMissing, kernel!Count, kernel!Round,
           kernel!Wants, kernel!Goto
  <2> QED BY <1>0, <2>1, KernelWritten
<1>3. want'[t] <= k_size'[t]
  <2>1. want[t] \in Nat /\ k_size[t] \in Nat BY AtStep, Keys
  <2>2. ASSUME NEW s \in Request, kernel!Alloc(t, s) PROVE want'[t] <= k_size'[t]
    <3>1. want'[t] = s /\ k_size'[t] = s BY <1>0, <2>2, KernelWritten
                                         DEF kernel!Alloc
    <3>2. s \in Nat BY Keys
    <3> QED BY <3>1, <3>2
  <2>3. CASE kernel!LookMissing(t) \/ kernel!Count(t) \/ kernel!Wants(t)
    <3>1. want'[t] = want[t] /\ k_size'[t] = k_size[t]
      BY <2>3 DEF kernel!LookMissing, kernel!Count, kernel!Wants, kernel!locals
    <3>2. want[t] <= k_size[t]
      BY <2>3, AtStep DEF FitAt, kernel!LookMissing, kernel!Count,
                          kernel!Wants, kernel!At
    <3> QED BY <3>1, <3>2
  <2>4. CASE kernel!Round(t)
    <3>1. want'[t] = want[t] /\ k_size'[t] = kernel!Rounded(k_size[t])
      BY <1>0, <2>4, KernelWritten DEF kernel!Round
    <3>2. want[t] <= k_size[t] BY <2>4, AtStep DEF FitAt, kernel!Round,
        kernel!At
    <3>3. kernel!Rounded(k_size[t]) \in Nat /\ kernel!Rounded(k_size[t]) >= k_size[t]
      BY <2>1, Keys
    <3> QED BY <2>1, <3>1, <3>2, <3>3
  <2> QED BY <2>2, <2>3, <2>4
<1>4. RefsAt(t)' BY <1>1, AtStep DEF RefsAt, kernel!tops
<1>5. FitAt(t)' BY <1>2, <1>3 DEF FitAt
<1> QED BY <1>1, <1>4, <1>5, LocalStep

\* The heap made for a popular size is the first on its list.
LEMMA CreateStep ==
  ASSUME KernelConstants, KernelInv, NEW t \in Thread, kernel!Step(t), kernel!Create(t)
  PROVE  KernelInv'
<1>0. kernel!TypeOK BY DEF KernelInv
<1> DEFINE k == k_size[t]
<1>1. k \in kernel!Key /\ want[t] <= k BY AtStep DEF kernel!Create, kernel!At,
    FitAt
<1>2. KeptList(k, heaps[k]) BY <1>1, ListNodes DEF KeptList
<1>3. kernel!NewHeap(t, k, heaps[k]) BY DEF kernel!Create
<1>4. /\ heap'[t] = made + 1 /\ li'[t] = li[t] /\ it'[t] = it[t]
      /\ k_pc'[t] = "created" /\ want'[t] = want[t] /\ k_size'[t] = k
      /\ made' = made + 1
  BY <1>0, <1>3, KernelWritten DEF kernel!Create, kernel!NewHeap, kernel!Goto
<1>5. made + 1 \in kernel!Heap /\ made \in Nat BY <1>0, <1>3, MadeHeap
<1>6. cellsize'[made + 1] = k
  BY <1>0, <1>3, <1>5, KernelTypes DEF kernel!NewHeap, kernel!Set
<1>7. heaps'[k] # <<>>
  <2>1. heaps' = [heaps EXCEPT ![k] = <<made + 1>> \o heaps[k]]
    BY <1>3 DEF kernel!NewHeap, kernel!Set
  <2>2. <<made + 1>> \o heaps[k] # <<>> BY <1>1, <1>5, ListNodes, FrontNode
  <2> QED BY <1>0, <1>1, <2>1, <2>2, KernelTypes
<1>8. RefsAt(t)'
  <2>1. li[t] \in Nat /\ it[t] \in Nat BY AtStep DEF kernel!Heap
  <2> QED BY <1>4, <1>5, <2>1, AtStep DEF RefsAt
<1>9. FitAt(t)' BY <1>1, <1>4, <1>5, <1>6, <1>7 DEF FitAt, CellFits
<1> QED BY <1>1, <1>2, <1>3, <1>8, <1>9, NewHeapStep

\* The list node is read only when the lock is held again.
LEMMA CreatedStep ==
  ASSUME KernelConstants, KernelInv, NEW t \in Thread, kernel!Step(t), kernel!Created(t)
  PROVE  KernelInv'
<1>0. kernel!TypeOK BY DEF KernelInv
<1> DEFINE h == Head(heaps[k_size[t]])
<1>1. /\ k_size[t] \in kernel!Key /\ heaps[k_size[t]] # <<>> /\ CellFits(t, heap[t])
  BY AtStep DEF kernel!Created, kernel!At, FitAt
<1>2. h \in kernel!Heap /\ h <= made /\ cellsize[h] = k_size[t] BY <1>1,
    ListNodes
<1> HIDE DEF h
<1>3. /\ UNCHANGED kernel!tops /\ heap'[t] = heap[t] /\ li'[t] = h /\ it'[t] = it[t]
      /\ want'[t] = want[t] /\ k_pc'[t] = "try"
  BY <1>0, KernelWritten DEF kernel!Created, kernel!Goto, h
<1>4. want[t] <= k_size[t] /\ h # kernel!Nil
  BY <1>2, AtStep DEF kernel!Created, kernel!At, FitAt, kernel!Heap
<1>5. k_size[t] >= want[t] BY <1>4, AtStep, Keys
<1>6. RefsAt(t)' BY <1>2, <1>3, AtStep DEF RefsAt, kernel!tops
<1>7. FitAt(t)' BY <1>1, <1>2, <1>3, <1>4, <1>5 DEF FitAt, CellFits, kernel!tops
<1> QED BY <1>3, <1>6, <1>7, LocalStep

\* The walk along the list, and what ends it.
LEMMA WalkStep ==
  ASSUME KernelConstants, KernelInv, NEW t \in Thread, kernel!Step(t),
         \/ kernel!TryHeap(t) \/ kernel!TryFails(t) \/ kernel!WalkTake(t) \/ kernel!WalkOn(t) \/ kernel!WalkEnd(t)
         \/ kernel!ReplaceFails(t) \/ kernel!Replaced(t) \/ \E h \in kernel!Heap : kernel!Free(t, h)
  PROVE  KernelInv'
<1>0. kernel!TypeOK BY DEF KernelInv
<1>1. /\ UNCHANGED kernel!tops
      /\ heap'[t] = heap[t] /\ li'[t] = li[t] /\ want'[t] = want[t]
      /\ k_size'[t] = k_size[t]
  BY DEF kernel!TryHeap, kernel!TryFails, kernel!WalkTake, kernel!WalkOn,
         kernel!WalkEnd, kernel!ReplaceFails, kernel!Replaced,
         kernel!Free, kernel!Take, kernel!locals
<1>2. CASE \/ kernel!TryHeap(t) \/ kernel!WalkTake(t) \/ kernel!ReplaceFails(t)
           \/ \E h \in kernel!Heap : kernel!Free(t, h)
  <2>1. it'[t] = it[t] /\ k_pc'[t] \in {"idle", "failed"}
    BY <1>0, <1>2, KernelWritten
    DEF kernel!TryHeap, kernel!WalkTake, kernel!ReplaceFails, kernel!Free,
        kernel!Take, kernel!locals, kernel!Goto, kernel!At
  <2>2. RefsAt(t)' BY <1>1, <2>1, AtStep DEF RefsAt, kernel!tops
  <2>3. FitAt(t)' BY <2>1 DEF FitAt
  <2> QED BY <1>1, <2>2, <2>3, LocalStep
<1>3. CASE kernel!TryFails(t)
  <2>1. it'[t] = li[t] /\ k_pc'[t] = "walk" BY <1>0, <1>3, KernelWritten
                                            DEF kernel!TryFails, kernel!Goto
  <2>2. CellFits(t, heap[t]) /\ CellFits(t, li[t])
    BY <1>3, AtStep DEF kernel!TryFails, kernel!At, FitAt
  <2>3. RefsAt(t)' BY <1>1, <2>1, AtStep DEF RefsAt, kernel!tops
  <2>4. FitAt(t)' BY <1>1, <2>1, <2>2 DEF FitAt, CellFits, kernel!tops
  <2> QED BY <1>1, <2>3, <2>4, LocalStep
<1>4. CASE kernel!WalkOn(t)
  <2>1. it'[t] = kernel!NextOf(it[t]) /\ k_pc'[t] = "walk"
    BY <1>0, <1>4, KernelWritten DEF kernel!WalkOn, kernel!At
  <2>2. /\ CellFits(t, heap[t]) /\ CellFits(t, li[t])
        /\ it[t] # kernel!Nil /\ CellFits(t, it[t])
    BY <1>4, AtStep DEF kernel!WalkOn, kernel!At, FitAt
  <2>3. it[t] \in kernel!Heap BY <2>2, AtStep
  <2>4. \/ kernel!NextOf(it[t]) = kernel!Nil
        \/ /\ kernel!NextOf(it[t]) \in kernel!Heap /\ kernel!NextOf(it[t]) <= made
           /\ cellsize[kernel!NextOf(it[t])] = cellsize[it[t]]
    BY <2>3, NextNode
  <2>5. RefsAt(t)' BY <1>1, <2>1, <2>4, AtStep DEF RefsAt, kernel!tops
  <2>6. FitAt(t)' BY <1>1, <2>1, <2>2, <2>4 DEF FitAt, CellFits, kernel!tops
  <2> QED BY <1>1, <2>5, <2>6, LocalStep
<1>5. CASE kernel!WalkEnd(t)
  <2>1. it'[t] = it[t] /\ k_pc'[t] \in {"failed", "full"}
    BY <1>0, <1>5, KernelWritten DEF kernel!WalkEnd, kernel!Goto, kernel!locals
  <2>2. CellFits(t, heap[t]) BY <1>5, AtStep DEF kernel!WalkEnd, kernel!At,
                                                 FitAt
  <2>3. RefsAt(t)' BY <1>1, <2>1, AtStep DEF RefsAt, kernel!tops
  <2>4. FitAt(t)' BY <1>1, <2>1, <2>2 DEF FitAt, CellFits, kernel!tops
  <2> QED BY <1>1, <2>3, <2>4, LocalStep
<1>6. CASE kernel!Replaced(t)
  <2>1. it'[t] = it[t] /\ k_pc'[t] = "try"
    BY <1>0, <1>6, KernelWritten DEF kernel!Replaced, kernel!Goto, kernel!locals
  <2>2. CellFits(t, heap[t]) /\ CellFits(t, li[t])
    BY <1>6, AtStep DEF kernel!Replaced, kernel!At, FitAt
  <2>3. RefsAt(t)' BY <1>1, <2>1, AtStep DEF RefsAt, kernel!tops
  <2>4. FitAt(t)' BY <1>1, <2>1, <2>2 DEF FitAt, CellFits, kernel!tops
  <2> QED BY <1>1, <2>3, <2>4, LocalStep
<1> QED BY <1>2, <1>3, <1>4, <1>5, <1>6

\* The full heap goes behind the others of its list, a new one to the front.
LEMMA ReplaceStep ==
  ASSUME KernelConstants, KernelInv, NEW t \in Thread, kernel!Step(t), kernel!Replace(t)
  PROVE  KernelInv'
<1>0. kernel!TypeOK BY DEF KernelInv
<1> DEFINE h == heap[t]
           k == cellsize[h]
           list == kernel!Behind(h, heaps[k])
<1>1. h \in kernel!Heap /\ k >= want[t] /\ kernel!Listed(h)
  BY AtStep DEF kernel!Replace, kernel!At, FitAt, CellFits
<1>2. k \in kernel!Key BY <1>0, <1>1, KernelTypes
<1>3. PICK n \in DOMAIN heaps[k] : heaps[k][n] = h
  <2>1. PICK j \in kernel!Key : h \in kernel!Range(heaps[j]) BY <1>1
      DEF kernel!Listed
  <2>2. PICK n \in DOMAIN heaps[j] : heaps[j][n] = h BY <2>1 DEF kernel!Range
  <2>3. j = k BY <2>2, ListNodes
  <2> QED BY <2>2, <2>3
<1>4. KeptList(k, list)
  <2>1. heaps[k] \in Seq(kernel!Heap) /\ Distinct(heaps[k]) BY <1>2, ListNodes
  <2>2. /\ kernel!Behind(h, heaps[k]) \in Seq(kernel!Heap) /\ Distinct(kernel!Behind(h, heaps[k]))
        /\ \A i \in DOMAIN kernel!Behind(h, heaps[k]) :
             \E j \in DOMAIN heaps[k] : kernel!Behind(h, heaps[k])[i] = heaps[k][j]
    BY <1>3, <2>1, BehindNodes
  <2>3. \A j \in DOMAIN heaps[k] :
          heaps[k][j] <= made /\ cellsize[heaps[k][j]] = k
    BY <1>2, ListNodes
  <2> HIDE DEF k, h
  <2> QED BY <2>2, <2>3 DEF KeptList
<1>5. kernel!NewHeap(t, k, list) BY DEF kernel!Replace
<1> HIDE DEF k, h, list
<1>6. /\ heap'[t] = made + 1 /\ li'[t] = made + 1 /\ it'[t] = it[t]
      /\ k_pc'[t] = "replaced" /\ want'[t] = want[t] /\ made' = made + 1
  BY <1>0, <1>5, KernelWritten DEF kernel!Replace, kernel!NewHeap, kernel!Goto
<1>7. made + 1 \in kernel!Heap /\ made \in Nat BY <1>0, <1>5, MadeHeap
<1>8. cellsize'[made + 1] = k
  BY <1>0, <1>2, <1>5, <1>7, KernelTypes DEF kernel!NewHeap, kernel!Set
<1>9. RefsAt(t)'
  <2>1. it[t] \in Nat BY AtStep DEF kernel!Heap
  <2> QED BY <1>6, <1>7, <2>1, AtStep DEF RefsAt
<1>10. FitAt(t)' BY <1>1, <1>6, <1>7, <1>8 DEF FitAt, CellFits
<1> QED BY <1>2, <1>4, <1>5, <1>9, <1>10, NewHeapStep

-----------------------------------------------------------------------------
LEMMA KernelInit == ASSUME KernelConstants, kernel!Init PROVE KernelInv
<1> USE DEF kernel!Init
<1>1. kernel!TypeOK
  <2>1. Smallest \in kernel!Key BY Keys
  <2>2. 1 \in kernel!Heap /\ 1 \in 0 .. MaxHeaps /\ 0 \in 0 .. Cells /\ 0 \in 0 .. Popular
    BY DEF kernel!Heap, KernelConstants, kernel!BoundAssumption
  <2>3. heaps \in [kernel!Key -> Seq(kernel!Heap)] BY <2>2
  <2> QED BY <2>1, <2>2, <2>3 DEF kernel!TypeOK, kernel!Pc
<1>2. ThreadsInv BY DEF ThreadsInv, RefsAt, FitAt
<1>3. kernel!ListsSound
  <2>1. \A k \in kernel!Key : heaps[k] = IF k = Smallest THEN <<1>> ELSE <<>> OBVIOUS
  <2>2. cellsize[1] = Smallest BY DEF kernel!Heap, KernelConstants,
                                      kernel!BoundAssumption
  <2> QED BY <2>1, <2>2 DEF kernel!ListsSound
<1> QED BY <1>1, <1>2, <1>3 DEF KernelInv

LEMMA KernelNext == ASSUME KernelConstants, KernelInv, [kernel!Next]_(kernel!vars) PROVE KernelInv'
<1>1. CASE UNCHANGED kernel!vars
  BY <1>1 DEF kernel!vars, kernel!tops, kernel!locals, KernelInv,
              kernel!TypeOK, ThreadsInv, RefsAt, FitAt,
              CellFits, kernel!ListsSound
<1>2. ASSUME NEW t \in Thread, kernel!Step(t) PROVE KernelInv'
  BY <1>2, LookStep, SearchStep, CreateStep, CreatedStep, WalkStep, ReplaceStep
  DEF kernel!Step
<1> QED BY <1>1, <1>2 DEF kernel!Next

LEMMA KernelSizes == KernelInv => kernel!SizeFits
BY DEF KernelInv, ThreadsInv, FitAt, CellFits, kernel!SizeFits

\* The variables of kernel_heap keep their types.
THEOREM KernelTypeCorrect ==
  ASSUME KernelConstants PROVE kernel!Spec => []kernel!TypeOK
<1>1. kernel!Init => KernelInv BY KernelInit
<1>2. KernelInv /\ [kernel!Next]_(kernel!vars) => KernelInv' BY KernelNext
<1>3. KernelInv => kernel!TypeOK BY DEF KernelInv
<1> QED BY <1>1, <1>2, <1>3, PTL DEF kernel!Spec

\* The lists stay well formed (create_heap_for, heap_is_full), for any numbers
\* of threads, sizes, cells and heaps: a heap is on one list at most, once, and
\* that is the list of its cell size.
THEOREM ListsSoundAlways ==
  ASSUME KernelConstants PROVE kernel!Spec => []kernel!ListsSound
<1>1. kernel!Init => KernelInv BY KernelInit
<1>2. KernelInv /\ [kernel!Next]_(kernel!vars) => KernelInv' BY KernelNext
<1>3. KernelInv => kernel!ListsSound BY DEF KernelInv
<1> QED BY <1>1, <1>2, <1>3, PTL DEF kernel!Spec

\* Whatever heap_for went through, alloc asks heaps whose cells are large enough
\* for the request, for any numbers of threads, sizes, cells and heaps.
THEOREM SizeFitsAlways ==
  ASSUME KernelConstants PROVE kernel!Spec => []kernel!SizeFits
<1>1. kernel!Init => KernelInv BY KernelInit
<1>2. KernelInv /\ [kernel!Next]_(kernel!vars) => KernelInv' BY KernelNext
<1>3. KernelInv => kernel!SizeFits BY KernelSizes
<1> QED BY <1>1, <1>2, <1>3, PTL DEF kernel!Spec

HIDE DEF kernel!Nil

-----------------------------------------------------------------------------
\* The buddy heap: the definitions of the instance of the proof module are those
\* of MCHeaps' instance.
buddyP == INSTANCE BuddyHeapProofs WITH Request <- TopRequest

LEMMA BuddyParts ==
  /\ buddy!Address = buddyP!Address /\ buddy!Node = buddyP!Node
  /\ buddy!Root = buddyP!Root
  /\ \A n : /\ buddy!Covers(n) = buddyP!Covers(n)
            /\ buddy!Left(n) = buddyP!Left(n) /\ buddy!Right(n) = buddyP!Right(n)
            /\ buddy!Parent(n) = buddyP!Parent(n)
            /\ buddy!Above(n) = buddyP!Above(n)
  /\ buddy!Present = buddyP!Present /\ buddy!Leaf = buddyP!Leaf
  /\ \A s : buddy!OrderFor(s) = buddyP!OrderFor(s)
  /\ \A o : buddy!Reachable(o) = buddyP!Reachable(o)
  /\ \A S : buddy!Cardinality(S) = buddyP!Cardinality(S)
  /\ buddy!vars = buddyP!vars /\ buddy!vars' = buddyP!vars'
BY DEF buddy!Address, buddyP!Address, buddy!Node, buddyP!Node, buddy!Root,
       buddyP!Root, buddy!Covers, buddyP!Covers, buddy!Left, buddyP!Left,
       buddy!Right, buddyP!Right, buddy!Parent, buddyP!Parent, buddy!Above,
       buddyP!Above, buddy!Present, buddyP!Present, buddy!Leaf, buddyP!Leaf,
       buddy!OrderFor, buddyP!OrderFor, buddy!RequiredOrder,
       buddyP!RequiredOrder, buddy!Reachable, buddyP!Reachable,
       buddy!vars, buddyP!vars, buddy!Cardinality, buddyP!Cardinality,
       buddy!IsFiniteSet, buddyP!IsFiniteSet

LEMMA BuddySteps == buddy!Next <=> buddyP!Next
<1> USE BuddyParts
<1>1. \A n : buddy!Sibling(n) = buddyP!Sibling(n)
  BY DEF buddy!Sibling, buddyP!Sibling
<1>2. \A o : buddy!Found(o) = buddyP!Found(o)
  BY DEF buddy!Found, buddyP!Found, buddy!LeftOf, buddyP!LeftOf
<1>3. \A n : buddy!Filled(n) = buddyP!Filled(n)
  BY <1>1 DEF buddy!Filled, buddyP!Filled
<1>4. \A n, o : buddy!SplitFor(n, o) = buddyP!SplitFor(n, o)
  BY DEF buddy!SplitFor, buddyP!SplitFor
<1>5. \A s : buddy!Alloc(s) <=> buddyP!Alloc(s)
  BY <1>2, <1>3, <1>4 DEF buddy!Alloc, buddyP!Alloc
<1>6. \A a : buddy!LeafAt(a) = buddyP!LeafAt(a)
  BY DEF buddy!LeafAt, buddyP!LeafAt
<1>7. \A n : buddy!Merges(n) <=> buddyP!Merges(n)
  BY <1>1 DEF buddy!Merges, buddyP!Merges
<1>8. \A n : buddy!Cleared(n) = buddyP!Cleared(n)
  BY DEF buddy!Cleared, buddyP!Cleared
<1>9. \A a : buddy!Free(a) <=> buddyP!Free(a)
  BY <1>6, <1>7, <1>8 DEF buddy!Free, buddyP!Free
<1> QED BY <1>5, <1>9 DEF buddy!Next, buddyP!Next

LEMMA BuddyStarts == buddy!Init => buddyP!Init
BY DEF buddy!Init, buddyP!Init

LEMMA BuddyTiles ==
  /\ buddyP!LeavesTile <=> buddy!LeavesTile
  /\ buddyP!FlagsExact <=> buddy!FlagsExact
  /\ buddyP!BlocksHeld <=> buddy!BlocksHeld
  /\ buddyP!UniformNeverFails <=> buddy!UniformNeverFails
<1> USE BuddyParts
<1>1. \A nodes : buddy!Tile(nodes) <=> buddyP!Tile(nodes)
  BY DEF buddy!Tile, buddyP!Tile
<1>2. buddy!FullLeaf = buddyP!FullLeaf BY DEF buddy!FullLeaf, buddyP!FullLeaf
<1>3. buddyP!LeavesTile <=> buddy!LeavesTile
  BY <1>1 DEF buddy!LeavesTile, buddyP!LeavesTile
<1>4. buddyP!FlagsExact <=> buddy!FlagsExact
  BY DEF buddy!FlagsExact, buddyP!FlagsExact
<1>5. buddyP!BlocksHeld <=> buddy!BlocksHeld
  BY <1>2 DEF buddy!BlocksHeld, buddyP!BlocksHeld
<1>6. buddyP!UniformNeverFails <=> buddy!UniformNeverFails
  BY DEF buddy!UniformNeverFails, buddyP!UniformNeverFails
<1> QED BY <1>3, <1>4, <1>5, <1>6

-----------------------------------------------------------------------------
\* A step of the heaps is one of kernel_heap or leaves it alone, and so for
\* the others.
LEMMA StepOfOne ==
  ASSUME [HeapsNext]_<<part, heaps_vars>>
  PROVE  /\ [kernel!Next]_(kernel!vars) /\ [slab!Next]_(slab!vars)
         /\ [buddyP!Next]_(buddyP!vars) /\ [paged!Next]_(paged!vars)
<1>1. UNCHANGED kernel_vars => UNCHANGED kernel!vars
  BY DEF kernel_vars, kernel!vars, kernel!tops, kernel!locals
<1>2. UNCHANGED slab_vars => UNCHANGED slab!vars
  BY DEF slab_vars, slab!vars, slab!slabs, slab!sets, slab!locals
<1>3. UNCHANGED buddy_vars => UNCHANGED buddy!vars
  BY DEF buddy_vars, buddy!vars
<1>4. UNCHANGED page_vars => UNCHANGED paged!vars
  BY DEF page_vars, paged!vars
<1>5. CASE UNCHANGED heaps_vars
  <2>1. /\ UNCHANGED kernel_vars /\ UNCHANGED slab_vars
        /\ UNCHANGED buddy_vars /\ UNCHANGED page_vars
    BY <1>5 DEF heaps_vars
  <2> QED BY <2>1, <1>1, <1>2, <1>3, <1>4, BuddyParts
<1>6. CASE HeapsNext
  <2> USE <1>6 DEF HeapsNext, HeapsStep, OtherHeaps
  <2>1. kernel!Next \/ UNCHANGED kernel_vars OBVIOUS
  <2>2. slab!Next \/ UNCHANGED slab_vars OBVIOUS
  <2>3. buddy!Next \/ UNCHANGED buddy_vars OBVIOUS
  <2>4. paged!Next \/ UNCHANGED page_vars OBVIOUS
  <2>5. [kernel!Next]_(kernel!vars) BY <2>1, <1>1
  <2>6. [slab!Next]_(slab!vars) BY <2>2, <1>2
  <2>7. [buddyP!Next]_(buddyP!vars) BY <2>3, <1>3, BuddyParts, BuddySteps
  <2>8. [paged!Next]_(paged!vars) BY <2>4, <1>4
  <2> QED BY <2>5, <2>6, <2>7, <2>8
<1> QED BY <1>5, <1>6

LEMMA KernelAssumed == KernelConstants
BY HeapsAssumption DEF KernelConstants

LEMMA BuddyConstants == buddyP!Constants
BY HeapsAssumption
DEF buddyP!Constants, buddy!OrderAssumption, buddyP!OrderAssumption,
       buddy!RequestAssumption, buddyP!RequestAssumption,
       buddy!PowerAssumption, buddyP!PowerAssumption

\* The invariant of each heap holds throughout.
LEMMA KernelAlways == HeapsSpec => []KernelInv
<1>1. HeapsInit => KernelInv BY KernelAssumed, KernelInit DEF HeapsInit
<1>2. KernelInv /\ [HeapsNext]_<<part, heaps_vars>> => KernelInv'
  BY StepOfOne, KernelAssumed, KernelNext
<1> QED BY <1>1, <1>2, PTL DEF HeapsSpec

LEMMA SlabAlways == HeapsSpec => []SlabInv
<1>1. slab!SizeAssumption BY HeapsAssumption
<1>2. HeapsInit => SlabInv BY <1>1, SlabInit DEF HeapsInit
<1>3. SlabInv /\ [HeapsNext]_<<part, heaps_vars>> => SlabInv'
  BY <1>1, StepOfOne, SlabNext
<1> QED BY <1>2, <1>3, PTL DEF HeapsSpec

LEMMA BuddyAlways == HeapsSpec => []buddyP!BuddyInv
<1>1. HeapsInit => buddyP!BuddyInv
  BY BuddyStarts, BuddyConstants, buddyP!BuddyStarts DEF HeapsInit
<1>2. buddyP!BuddyInv /\ [HeapsNext]_<<part, heaps_vars>> => buddyP!BuddyInv'
  BY StepOfOne, BuddyConstants, buddyP!BuddyStep, buddyP!BuddyStutter
<1> QED BY <1>1, <1>2, PTL DEF HeapsSpec

LEMMA PageAlways == HeapsSpec => []PageInv
<1>1. paged!PageHeapAssumption BY HeapsAssumption
<1>2. HeapsInit => PageInv BY <1>1, PageInit DEF HeapsInit
<1>3. PageInv /\ [HeapsNext]_<<part, heaps_vars>> => PageInv'
  BY <1>1, StepOfOne, PageNext
<1> QED BY <1>2, <1>3, PTL DEF HeapsSpec

-----------------------------------------------------------------------------
\* Every heap keeps the types of its variables, the counts of the page heap
\* among them, which never fall below 0.
THEOREM HeapsTypeCorrect ==
  HeapsSpec => [](kernel!TypeOK /\ slab!TypeOK /\ buddy!TypeOK /\ paged!TypeOK)
<1>1. KernelInv => kernel!TypeOK BY DEF KernelInv
<1>2. SlabInv => slab!TypeOK BY DEF SlabInv
<1>3. buddyP!BuddyInv => buddy!TypeOK
  BY BuddyParts DEF buddyP!BuddyInv, buddy!TypeOK, buddyP!TypeOK
<1>4. PageInv => paged!TypeOK BY DEF PageInv
<1> QED BY <1>1, <1>2, <1>3, <1>4, KernelAlways, SlabAlways, BuddyAlways,
           PageAlways, PTL

\* While kernel_heap is used by any number of threads that give up heaps_m
\* between their steps, its lists stay lists of heaps made for their size, and
\* alloc asks heaps whose cells are large enough.
THEOREM HeapsFitAlways == HeapsSpec => []HeapsFit
<1>1. KernelInv => HeapsFit BY KernelSizes DEF HeapsFit, KernelInv
<1> QED BY <1>1, KernelAlways, PTL

\* A slab heap that one thread uses: masks, counts and sets agree with the
\* cells in use, and the asserts of slab_t::allocate hold.
THEOREM SlabsAgreeAlways == HeapsSpec => []SlabsAgree
<1>1. slab!SizeAssumption BY HeapsAssumption
<1>2. SlabInv => SlabsAgree
  BY <1>1, SlabAsserts, SlabMasks, SlabSets DEF SlabsAgree
<1> QED BY <1>2, SlabAlways, PTL

\* The buddy heap of any height: the leaves tile it, the flags are exact, the
\* blocks in use are the full leaves, and equal blocks never run out early.
THEOREM BuddiesTileAlways == HeapsSpec => []BuddiesTile
<1>1. buddyP!BuddyInv => BuddiesTile
  BY BuddyTiles, BuddyConstants, buddyP!BuddyTiles DEF BuddiesTile
<1> QED BY <1>1, BuddyAlways, PTL

\* The page heap of any directory: until an assertion stops it, the directory,
\* the records, the map and the counts agree on who has which page, and the
\* destructor leaves the directory as the constructor found it.
THEOREM PagesOwnedAlways == HeapsSpec => []PagesOwned
<1>1. paged!PageHeapAssumption BY HeapsAssumption
<1>2. PageInv => PagesOwned BY <1>1, PageOwners DEF PagesOwned, PageInv
<1> QED BY <1>2, PageAlways, PTL
=============================================================================
