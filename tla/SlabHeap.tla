------------------------------ MODULE SlabHeap ------------------------------
(***************************************************************************)
(* SlabHeap (src/kernel/Memory/Heaps/SlabHeap.hpp): slabs of equal cells,  *)
(* each with a free mask and a free count, and three bit sets that sort    *)
(* the slabs into empty, partial and full ones.  alloc holds sets_m, free  *)
(* holds nothing, so every statement of either that touches shared memory  *)
(* is a step.  (A build whose statements are several instructions has more *)
(* interleavings still; the runs with one thread do not depend on it.)     *)
(*                                                                         *)
(* A failed assert stops the machine: the actions wait for ever where an   *)
(* assert would fail, and the asserts are properties.                      *)
(***************************************************************************)
EXTENDS Integers, FiniteSets, FiniteSetsExt

CONSTANTS
  Thread,
  Slabs,    \* _slab_count
  Cells,    \* cells of a slab, 16 in the code
  NoOne     \* the mutex is free

\* What the constants must satisfy; the module that instantiates this one
\* assumes it.
SizeAssumption == Slabs \in Nat \ {0} /\ Cells \in Nat \ {0, 1}
NoOneAssumption == NoOne \notin Thread

Slab == 0 .. Slabs - 1
Cell == 0 .. Cells - 1

VARIABLES
  free_mask, free_count,              \* per slab
  full_set, empty_set, partial_set,
  sets_m,
  pc,
  index, cell, flag,   \* locals of alloc and free: slab, cell, now_full/_empty
  held                 \* history: the cells in use, with who may free them

slabs  == <<free_mask, free_count>>
sets   == <<full_set, empty_set, partial_set>>
locals == <<index, cell, flag>>
vars   == <<slabs, sets, sets_m, pc, locals, held>>

Pc == {"idle", "from empty", "count", "mask", "now full", "full set",
       "free count", "free sets", "free sets 2"}

TypeOK ==
  /\ free_mask \in [Slab -> SUBSET Cell]
  /\ free_count \in [Slab -> 0 .. Cells]
  /\ full_set \subseteq Slab /\ empty_set \subseteq Slab
  /\ partial_set \subseteq Slab
  /\ sets_m \in Thread \cup {NoOne}
  /\ pc \in [Thread -> Pc]
  /\ index \in [Thread -> Slab] /\ cell \in [Thread -> Cell]
  /\ flag \in [Thread -> BOOLEAN]
  /\ held \subseteq Slab \X Cell

Init ==
  /\ free_mask = [i \in Slab |-> Cell]
  /\ free_count = [i \in Slab |-> Cells]
  /\ full_set = {} /\ empty_set = Slab /\ partial_set = {}
  /\ sets_m = NoOne
  /\ pc = [t \in Thread |-> "idle"]
  /\ index = [t \in Thread |-> 0] /\ cell = [t \in Thread |-> 0]
  /\ flag = [t \in Thread |-> FALSE]
  /\ held = {}

Goto(t, where) == pc' = [pc EXCEPT ![t] = where]
At(t, where) == pc[t] = where

-----------------------------------------------------------------------------
\* alloc: lock, and take the first partial slab ...
AllocPartial(t) ==
  /\ At(t, "idle") /\ sets_m = NoOne
  /\ partial_set # {}
  /\ sets_m' = t
  /\ index' = [index EXCEPT ![t] = Min(partial_set)]
  /\ Goto(t, "count")
  /\ UNCHANGED <<slabs, sets, cell, flag, held>>

\* ... or else the first empty one, which becomes partial.
AllocEmpty(t) ==
  /\ At(t, "idle") /\ sets_m = NoOne
  /\ partial_set = {} /\ empty_set # {}
  /\ sets_m' = t
  /\ index' = [index EXCEPT ![t] = Min(empty_set)]
  /\ empty_set' = empty_set \ {Min(empty_set)}
  /\ Goto(t, "from empty")
  /\ UNCHANGED <<slabs, full_set, partial_set, cell, flag, held>>

FromEmpty(t) ==
  /\ At(t, "from empty")
  /\ partial_set' = partial_set \cup {index[t]}
  /\ Goto(t, "count")
  /\ UNCHANGED <<slabs, full_set, empty_set, sets_m, locals, held>>

\* The asserts slab_t::allocate starts with.
HasFree(i) == free_count[i] > 0 /\ free_mask[i] # {}

\* Faulty variant: the count as it was.
SameCount(i) == free_count[i]
\* The count with one cell fewer.
OneFewer(i) == free_count[i] - 1
\* Faulty variant: free_count-- for --free_count.
WasZero(i) == free_count[i] = 0
\* Whether the cell taken is the last one, so that the slab is full now.
IsLast(i) == free_count[i] = 1

\* The first free cell is chosen and counted.
AllocCount(t) ==
  LET i == index[t] IN
  /\ At(t, "count") /\ HasFree(i)
  /\ cell' = [cell EXCEPT ![t] = Min(free_mask[i])]
  /\ free_count' = [free_count EXCEPT ![i] = OneFewer(i)]
  /\ flag' = [flag EXCEPT ![t] = IsLast(i)]
  /\ Goto(t, "mask")
  /\ UNCHANGED <<free_mask, sets, sets_m, index, held>>

\* Faulty variant: the wrong bit.
LastCell(t) == Max(free_mask[index[t]])
\* The bit alloc clears.
Taken(t) == cell[t]

\* The cell leaves the mask; alloc returns it unless the slab is now full.
AllocMask(t) ==
  /\ At(t, "mask")
  /\ free_mask' = [free_mask EXCEPT ![index[t]] = @ \ {Taken(t)}]
  /\ IF flag[t]
       THEN Goto(t, "now full") /\ UNCHANGED <<sets_m, held>>
       ELSE /\ Goto(t, "idle")
            /\ sets_m' = NoOne
            /\ held' = held \cup {<<index[t], cell[t]>>}
  /\ UNCHANGED <<free_count, sets, locals>>

NowFull(t) ==
  /\ At(t, "now full")
  /\ partial_set' = partial_set \ {index[t]}
  /\ Goto(t, "full set")
  /\ UNCHANGED <<slabs, full_set, empty_set, sets_m, locals, held>>

FullSet(t) ==
  /\ At(t, "full set")
  /\ full_set' = full_set \cup {index[t]}
  /\ sets_m' = NoOne
  /\ held' = held \cup {<<index[t], cell[t]>>}
  /\ Goto(t, "idle")
  /\ UNCHANGED <<slabs, empty_set, partial_set, locals>>

-----------------------------------------------------------------------------
\* free, without sets_m: the bit first (a bit that is set already is a double
\* free and an assert) ...
FreeMask(t, i, c) ==
  /\ At(t, "idle")
  /\ <<i, c>> \in held
  /\ c \notin free_mask[i]
  /\ held' = held \ {<<i, c>>}
  /\ index' = [index EXCEPT ![t] = i]
  /\ free_mask' = [free_mask EXCEPT ![i] = @ \cup {c}]
  /\ Goto(t, "free count")
  /\ UNCHANGED <<free_count, sets, sets_m, cell, flag>>

\* ... then the count, which tells whether the slab is empty now ...
FreeCount(t) ==
  LET i == index[t] IN
  /\ At(t, "free count")
  /\ free_count' = [free_count EXCEPT ![i] = @ + 1]
  /\ flag' = [flag EXCEPT ![t] = free_count[i] + 1 = Cells]
  /\ Goto(t, "free sets")
  /\ UNCHANGED <<free_mask, sets, sets_m, index, cell, held>>

\* ... then the two sets, one after the other.
FreeSets(t) ==
  /\ At(t, "free sets")
  /\ IF flag[t]
       THEN partial_set' = partial_set \ {index[t]} /\ UNCHANGED full_set
       ELSE full_set' = full_set \ {index[t]} /\ UNCHANGED partial_set
  /\ Goto(t, "free sets 2")
  /\ UNCHANGED <<slabs, empty_set, sets_m, locals, held>>

\* Faulty variant: a slab that was emptied counts as partial.
NeverEmpty(t) == FALSE
\* The branch of free.
NowEmpty(t) == flag[t]

FreeSets2(t) ==
  /\ At(t, "free sets 2")
  /\ IF NowEmpty(t)
       THEN empty_set' = empty_set \cup {index[t]} /\ UNCHANGED partial_set
       ELSE partial_set' = partial_set \cup {index[t]} /\ UNCHANGED empty_set
  /\ Goto(t, "idle")
  /\ UNCHANGED <<slabs, full_set, sets_m, locals, held>>

Step(t) ==
  \/ AllocPartial(t) \/ AllocEmpty(t) \/ FromEmpty(t) \/ AllocCount(t)
  \/ AllocMask(t) \/ NowFull(t) \/ FullSet(t)
  \/ \E i \in Slab, c \in Cell : FreeMask(t, i, c)
  \/ FreeCount(t) \/ FreeSets(t) \/ FreeSets2(t)

Next == \E t \in Thread : Step(t)

Spec == Init /\ [][Next]_vars

-----------------------------------------------------------------------------
Quiet == \A t \in Thread : At(t, "idle")

\* The asserts of slab_t::allocate hold for the slab alloc picked: a slab in
\* the partial or the empty set has a free cell.
AllocAssertion == \A t \in Thread : At(t, "count") => HasFree(index[t])

\* Between operations each cell is either in use or in its slab's mask, and
\* the count is the number of bits.
MasksAgree == Quiet =>
  \A i \in Slab : /\ free_count[i] = Cardinality(free_mask[i])
                  /\ \A c \in Cell : c \in free_mask[i] <=> <<i, c>> \notin held

\* Between operations each slab is in the one set its count calls for, so that
\* alloc returns null (and its assert on full_set holds) only when every cell
\* is in use.
SetsAgree == Quiet =>
  /\ full_set = {i \in Slab : free_count[i] = 0}
  /\ empty_set = {i \in Slab : free_count[i] = Cells}
  /\ partial_set = Slab \ (full_set \cup empty_set)
=============================================================================
