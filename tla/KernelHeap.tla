------------------------------ MODULE KernelHeap ------------------------------
(***************************************************************************)
(* kernel_heap (src/kernel/Memory/Heaps/KernelHeap.hpp): for each cell     *)
(* size a list of slab heaps, made when they are needed out of the buddy   *)
(* heap "top".  Lists are read with heaps_m shared and changed with it     *)
(* exclusive; heap_for and heap_is_full give the lock up and take it again *)
(* on the way, keeping what they have read.                                *)
(*                                                                         *)
(* A slab heap is here the number of its cells in use: its alloc and free  *)
(* are one step (SlabHeap.tla looks inside).  What happens under the       *)
(* exclusive lock is one step that waits until no reader is in.  Sizes are *)
(* small units; requests of half a page and more, which go to top or to    *)
(* the page heap without a list, are left out.  A failed assert stops the  *)
(* thread for ever in "failed".                                            *)
(***************************************************************************)
EXTENDS Integers, FiniteSets, Sequences, SequencesExt

CONSTANTS
  Thread,
  Request,    \* the sizes alloc is called with
  Smallest,   \* smallest_size
  Word,       \* sizeof(void* )
  Popular,    \* the literal 5: requests that make a size worth a heap
  Cells,      \* cells of a heap
  MaxHeaps    \* bound: heaps that fit into top

\* What the constants must satisfy; the modules that use this one assume it.
SizeAssumption ==
  /\ Smallest \in Nat \ {0} /\ Word \in Nat \ {0} /\ Smallest % Word = 0
  /\ Request \subseteq Nat \ {0} /\ IsFiniteSet(Request)
BoundAssumption ==
  /\ Popular \in Nat \ {0} /\ Cells \in Nat \ {0} /\ MaxHeaps \in Nat \ {0}

Rounded(s) == s + ((Word - (s % Word)) % Word)
Key  == Request \cup {Rounded(s) : s \in Request} \cup {Smallest}
Heap == 1 .. MaxHeaps
Nil  == 0

VARIABLES
  heaps,           \* per key the list of heaps, a node being its heap
  made, cellsize,  \* heaps_set is 1 .. made, with the key each was made for
  used,            \* cells in use, per heap
  heap_requests,
  readers,         \* who holds heaps_m shared
  pc,
  want, size,      \* alloc's argument; spec.size in heap_for
  popular,         \* the outcome of heap_for's test of requested_val
  heap, li, it,    \* locals of alloc: the heap, its list node, the walk
  tried            \* tried_once

tops   == <<heaps, made, cellsize>>
locals == <<want, size, popular, heap, li, it, tried>>
vars   == <<tops, used, heap_requests, readers, pc, locals>>

Pc == {"idle", "look", "count", "counted", "create", "created", "try", "walk",
       "full", "replaced", "failed"}

TypeOK ==
  /\ heaps \in [Key -> Seq(Heap)]
  /\ made \in 0 .. MaxHeaps /\ cellsize \in [Heap -> Key]
  /\ used \in [Heap -> 0 .. Cells]
  /\ heap_requests \in [Key -> 0 .. Popular]
  /\ readers \subseteq Thread
  /\ pc \in [Thread -> Pc]
  /\ want \in [Thread -> Key] /\ size \in [Thread -> Key]
  /\ popular \in [Thread -> BOOLEAN] /\ tried \in [Thread -> BOOLEAN]
  /\ heap \in [Thread -> Heap \cup {Nil}]
  /\ li \in [Thread -> Heap \cup {Nil}] /\ it \in [Thread -> Heap \cup {Nil}]

\* initialize_default_heaps makes the first heap.
Init ==
  /\ heaps = [k \in Key |-> IF k = Smallest THEN <<1>> ELSE <<>>]
  /\ made = 1 /\ cellsize = [h \in Heap |-> Smallest]
  /\ used = [h \in Heap |-> 0]
  /\ heap_requests = [k \in Key |-> 0]
  /\ readers = {}
  /\ pc = [t \in Thread |-> "idle"]
  /\ want = [t \in Thread |-> Smallest] /\ size = [t \in Thread |-> Smallest]
  /\ popular = [t \in Thread |-> FALSE] /\ tried = [t \in Thread |-> FALSE]
  /\ heap = [t \in Thread |-> Nil]
  /\ li = [t \in Thread |-> Nil] /\ it = [t \in Thread |-> Nil]

\* A failed assert stops the machine.
Running == \A t \in Thread : pc[t] # "failed"
At(t, where) == pc[t] = where /\ Running
Goto(t, where) == pc' = [pc EXCEPT ![t] = where]
Set(f, t, v) == [f EXCEPT ![t] = v]
Enter(t) == readers' = readers \cup {t}
Leave(t) == readers' = readers \ {t}

-----------------------------------------------------------------------------
\* alloc takes heaps_m shared and calls heap_for.
Alloc(t, s) ==
  /\ At(t, "idle")
  /\ want' = Set(want, t, s) /\ size' = Set(size, t, s)
  /\ tried' = Set(tried, t, FALSE)
  /\ Enter(t) /\ Goto(t, "look")
  /\ UNCHANGED <<tops, used, heap_requests, popular, heap, li, it>>

ListFor(s) == IF s <= Smallest THEN heaps[Smallest] ELSE heaps[s]

Chosen(t, list) ==
  /\ heap' = Set(heap, t, Head(list)) /\ li' = Set(li, t, Head(list))
  /\ Goto(t, "try")
  /\ UNCHANGED <<tops, used, heap_requests, readers, want, size, popular, it,
                 tried>>

\* heap_for: a list for exactly this size ...
LookFound(t) ==
  /\ At(t, "look") /\ ListFor(size[t]) # <<>>
  /\ Chosen(t, ListFor(size[t]))

\* ... or else the lock is given up to count the request.
LookMissing(t) ==
  /\ At(t, "look") /\ ListFor(size[t]) = <<>>
  /\ Leave(t) /\ Goto(t, "count")
  /\ UNCHANGED <<tops, used, heap_requests, locals>>

\* The count saturates at Popular.  The other half of the test, that a
\* hundredth of all requests ask for this size, may go either way.
Count(t) ==
  LET n == heap_requests[size[t]] + 1 IN
  /\ At(t, "count")
  /\ heap_requests' = Set(heap_requests, size[t],
                          IF n > Popular THEN Popular ELSE n)
  /\ \E p \in BOOLEAN : (p => n >= Popular) /\ popular' = Set(popular, t, p)
  /\ Enter(t) /\ Goto(t, "counted")
  /\ UNCHANGED <<tops, used, want, size, heap, li, it, tried>>

\* Faulty variant: any list that is there.
AnyKeys(s) == {k \in Key : heaps[k] # <<>>}
\* The lists with cells large enough, of which heap_for takes the first.
LargerKeys(s) == {k \in Key : k >= s /\ heaps[k] # <<>>}

\* No heap is made for a size that is not popular: the rounded size is tried
\* next ...
Round(t) ==
  /\ At(t, "counted") /\ ~popular[t] /\ Rounded(size[t]) # size[t]
  /\ size' = Set(size, t, Rounded(size[t]))
  /\ Goto(t, "look")
  /\ UNCHANGED <<tops, used, heap_requests, readers, want, popular, heap, li,
                 it, tried>>

\* ... and then the next larger one.
Borrow(t) ==
  /\ At(t, "counted") /\ ~popular[t] /\ Rounded(size[t]) = size[t]
  /\ LargerKeys(size[t]) # {}
  /\ Chosen(t, heaps[Min(LargerKeys(size[t]))])

\* A popular size, or one larger than all others, gets a heap of its own.
Wants(t) ==
  /\ At(t, "counted")
  /\ \/ popular[t]
     \/ Rounded(size[t]) = size[t] /\ LargerKeys(size[t]) = {}
  /\ Leave(t) /\ Goto(t, "create")
  /\ UNCHANGED <<tops, used, heap_requests, locals>>

\* create_heap_for: region from top, node in front of the list.  Whether
\* another thread has made one meanwhile is not looked at.
NewHeap(t, k, list) ==
  /\ readers = {} /\ made < MaxHeaps
  /\ made' = made + 1
  /\ cellsize' = Set(cellsize, made + 1, k)
  /\ heaps' = Set(heaps, k, <<made + 1>> \o list)
  /\ heap' = Set(heap, t, made + 1)

Create(t) ==
  /\ At(t, "create")
  /\ NewHeap(t, size[t], heaps[size[t]])
  /\ Goto(t, "created")
  /\ UNCHANGED <<used, heap_requests, readers, want, size, popular, li, it,
                 tried>>

\* The shared lock again, and only then heaps.at(spec.size).
Created(t) ==
  /\ At(t, "created")
  /\ li' = Set(li, t, Head(heaps[size[t]]))
  /\ Enter(t) /\ Goto(t, "try")
  /\ UNCHANGED <<tops, used, heap_requests, want, size, popular, heap, it,
                 tried>>

-----------------------------------------------------------------------------
\* Faulty variant: one cell too many.
OneTooMany(h) == used[h] <= Cells
\* A heap gives a cell unless all are in use.
HasCell(h) == used[h] < Cells
Take(t, h) ==
  /\ used' = [used EXCEPT ![h] = @ + 1]
  /\ Leave(t) /\ Goto(t, "idle")
  /\ UNCHANGED <<tops, heap_requests, locals>>

TryHeap(t) == At(t, "try") /\ HasCell(heap[t]) /\ Take(t, heap[t])

TryFails(t) ==
  /\ At(t, "try") /\ ~HasCell(heap[t])
  /\ it' = Set(it, t, li[t])
  /\ Goto(t, "walk")
  /\ UNCHANGED <<tops, used, heap_requests, readers, want, size, popular, heap,
                 li, tried>>

Listed(h) == \E k \in Key : h \in Range(heaps[k])

\* A node's next; the last one has none, nor has one that was unlinked.
NextOf(h) ==
  LET list == heaps[cellsize[h]]
      here == {i \in 1 .. Len(list) - 1 : list[i] = h}
  IN IF here = {} THEN Nil ELSE list[Min(here) + 1]

\* The rest of the list is tried in turn ...
Usable(t) == it[t] # heap[t] /\ HasCell(it[t])
WalkTake(t) == At(t, "walk") /\ it[t] # Nil /\ Usable(t) /\ Take(t, it[t])
WalkOn(t) ==
  /\ At(t, "walk") /\ it[t] # Nil /\ ~Usable(t)
  /\ it' = Set(it, t, NextOf(it[t]))
  /\ UNCHANGED <<tops, used, heap_requests, readers, pc, want, size, popular,
                 heap, li, tried>>

\* ... and at its end heap_is_full, once; the second time assert(ptr) fails.
WalkEnd(t) ==
  /\ At(t, "walk") /\ it[t] = Nil
  /\ Leave(t)
  /\ Goto(t, IF tried[t] THEN "failed" ELSE "full")
  /\ UNCHANGED <<tops, used, heap_requests, locals>>

\* Faulty variant: not unlinked before it is appended.
StillLinked(h, list) == Append(list, h)
\* A list with h put to its end, or dropped if it was alone.
Behind(h, list) ==
  LET at == CHOOSE i \in DOMAIN list : list[i] = h
  IN IF Len(list) = 1
       THEN <<>>
       ELSE [i \in DOMAIN list |-> IF i < at THEN list[i]
                                   ELSE IF i < Len(list) THEN list[i + 1] ELSE h]

\* heap_is_full, exclusive: the full heap goes to the end of its list, or is
\* dropped when it was alone, and a new heap to the front.
Replace(t) ==
  /\ At(t, "full") /\ Listed(heap[t])
  /\ LET k == cellsize[heap[t]] IN NewHeap(t, k, Behind(heap[t], heaps[k]))
  /\ li' = Set(li, t, made + 1) /\ tried' = Set(tried, t, TRUE)
  /\ Goto(t, "replaced")
  /\ UNCHANGED <<used, heap_requests, readers, want, size, popular, it>>

\* assert(it) of heap_is_full.
ReplaceFails(t) ==
  /\ At(t, "full") /\ ~Listed(heap[t]) /\ readers = {}
  /\ Goto(t, "failed")
  /\ UNCHANGED <<tops, used, heap_requests, readers, locals>>

Replaced(t) ==
  /\ At(t, "replaced")
  /\ Enter(t) /\ Goto(t, "try")
  /\ UNCHANGED <<tops, used, heap_requests, locals>>

\* free, with heaps_m shared: the heap is found by the address.
Free(t, h) ==
  /\ At(t, "idle") /\ used[h] > 0
  /\ used' = [used EXCEPT ![h] = @ - 1]
  /\ UNCHANGED <<tops, heap_requests, readers, pc, locals>>

Step(t) ==
  \/ \E s \in Request : Alloc(t, s)
  \/ LookFound(t) \/ LookMissing(t) \/ Count(t)
  \/ Round(t) \/ Borrow(t) \/ Wants(t) \/ Create(t) \/ Created(t)
  \/ TryHeap(t) \/ TryFails(t)
  \/ WalkTake(t) \/ WalkOn(t) \/ WalkEnd(t)
  \/ Replace(t) \/ ReplaceFails(t) \/ Replaced(t)
  \/ \E h \in Heap : Free(t, h)

Next == \E t \in Thread : Step(t)

Spec == Init /\ [][Next]_vars

-----------------------------------------------------------------------------
\* The lists stay well formed while threads that hold on to nodes relink them:
\* a heap is on one list at most, once, and that is the list of its cell size.
ListsSound ==
  \A k \in Key : \A i, j \in DOMAIN heaps[k] :
    /\ heaps[k][i] <= made /\ cellsize[heaps[k][i]] = k
    /\ heaps[k][i] = heaps[k][j] => i = j

\* Whatever heap_for went through (rounding, borrowing, making, replacing, with
\* the lock released in between), alloc asks heaps whose cells are large enough
\* (assert(size <= spec.size) in Untyped_SlabHeap::alloc).
SizeFits ==
  \A t \in Thread : pc[t] \in {"try", "walk"} =>
    /\ cellsize[heap[t]] >= want[t]
    /\ cellsize[li[t]] >= want[t]
    /\ pc[t] = "walk" /\ it[t] # Nil => cellsize[it[t]] >= want[t]

\* assert(it) of heap_is_full: the full heap is still on a list.
FullAssertion == \A t \in Thread : pc[t] = "full" => Listed(heap[t])
=============================================================================
