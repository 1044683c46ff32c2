-------------------------------- MODULE MCHeaps --------------------------------
(***************************************************************************)
(* The heaps of the kernel side by side: kernel_heap, a slab heap, the     *)
(* buddy heap and the page heap.  Where one uses another it does so in     *)
(* single calls, made under a lock or by one thread, so each is modelled   *)
(* on its own: a behaviour is about one of them, the part, and each        *)
(* property looks at its own part.                                         *)
(***************************************************************************)
EXTENDS Integers, Parts

CONSTANTS
  Thread, Request, Smallest, Word, Popular, Cells, MaxHeaps,   \* KernelHeap
  Taker, Slabs, CellsPerSlab, NoOne,                           \* SlabHeap
  Highest, Lowest, TopRequest,                                 \* BuddyHeap
  Pages, Mapped, Lengths, Records                              \* PageHeap

VARIABLES
  heaps, made, cellsize, k_used, heap_requests, readers, k_pc, want, k_size,
  popular, heap, li, it, tried,
  free_mask, free_count, full_set, empty_set, partial_set, sets_m,
  s_pc, s_index, cell, flag, s_held,
  split, full, held, orders,
  present, allocations, page_map, _free_count, _use_count, state

kernel_vars == <<heaps, made, cellsize, k_used, heap_requests, readers, k_pc,
                 want, k_size, popular, heap, li, it, tried>>
slab_vars == <<free_mask, free_count, full_set, empty_set, partial_set, sets_m,
               s_pc, s_index, cell, flag, s_held>>
buddy_vars == <<split, full, held, orders>>
page_vars == <<present, allocations, page_map, _free_count, _use_count, state>>
heaps_vars == <<kernel_vars, slab_vars, buddy_vars, page_vars>>

kernel == INSTANCE KernelHeap WITH pc <- k_pc, used <- k_used, size <- k_size
slab == INSTANCE SlabHeap WITH
  Thread <- {Taker}, Cells <- CellsPerSlab,
  pc <- s_pc, held <- s_held, index <- s_index
buddy == INSTANCE BuddyHeap WITH Request <- TopRequest
paged == INSTANCE PageHeap

ASSUME HeapsAssumption ==
  /\ kernel!SizeAssumption /\ kernel!BoundAssumption
  /\ slab!SizeAssumption /\ slab!NoOneAssumption
  /\ buddy!OrderAssumption /\ buddy!RequestAssumption
  /\ buddy!PowerAssumption
  /\ paged!PageHeapAssumption

HeapsInit == kernel!Init /\ slab!Init /\ buddy!Init /\ paged!Init

HeapsStep ==
  \/ part = "kernel" /\ kernel!Next
  \/ part = "slab" /\ slab!Next
  \/ part = "buddy" /\ buddy!Next
  \/ part = "paged" /\ paged!Next

\* What a step of one part leaves alone.
OtherHeaps(p) ==
  /\ p # "kernel" => UNCHANGED kernel_vars
  /\ p # "slab" => UNCHANGED slab_vars
  /\ p # "buddy" => UNCHANGED buddy_vars
  /\ p # "paged" => UNCHANGED page_vars

HeapsNext == UNCHANGED part /\ HeapsStep /\ OtherHeaps(part)

HeapsSpec == HeapsInit /\ [][HeapsNext]_<<part, heaps_vars>>

-----------------------------------------------------------------------------
\* Kernel heap (create_heap_for, heap_is_full, alloc): the lists of heaps stay
\* lists of heaps that were made for their size, with the lock given up in
\* between, and the heap that serves a request has cells large enough.
HeapsFit == part = "kernel" => kernel!ListsSound /\ kernel!SizeFits

\* Slab heap (alloc, free): through every order of taking and returning cells,
\* masks, counts and the three sets of slabs agree with the cells in use, and
\* the asserts of alloc hold.
SlabsAgree ==
  part = "slab" => slab!AllocAssertion /\ slab!MasksAgree /\ slab!SetsAgree

\* Buddy heap (alloc, free): the leaves tile the heap, the flags say where the
\* free ones are and the blocks in use are the full ones, whatever was split
\* and merged before; and with requests of one order none is refused while the
\* bytes for it are there.
BuddiesTile ==
  part = "buddy" => /\ buddy!LeavesTile /\ buddy!FlagsExact /\ buddy!BlocksHeld
                    /\ buddy!UniformNeverFails

\* Page heap (alloc, free, ~PageHeap): pages, records, map and counts agree
\* until an assertion stops the heap, and it leaves none of its pages behind.
PagesOwned == part = "paged" => paged!PagesOwned /\ paged!LeavesNothing
=============================================================================
