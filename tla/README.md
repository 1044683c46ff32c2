# BareBonesOS: specifications, model checking and proofs

BareBonesOS is a small kernel for one CPU with its own C++ library. This directory
specifies the parts of it whose correctness depends on the order in which things
happen: the kernel threads, the condition variable and the readers-writer lock that
everything else is built on, the heaps, the EXT2 file system with its block cache, the table of
descriptors, and the two containers under the library's maps. Each part is a TLA+ module
translated from the source; TLC checks it on small instances, and for threads, locks,
heaps, the block cache, the descriptors and the counts of EXT2 TLAPS proves what matters most for every value of the constants.

    tlc -config Threads.cfg MCThreads             # one run
    tlapm SchedulerProofs.tla                     # one proof module

`PROJECT.json` is the index: the components, the runs with their properties, the source
lines of every definition (`map`), the hazards and the properties that watch them, and for
each property at least one mutant, a small bug that the property's run detects. Mutated
forms are the definitions commented "Faulty variant"; nothing else uses them.


## 1. Inventory

### Modelled parts

| component | code | state | operations |
|---|---|---|---|
| kernel threads | `kernel/Scheduling/thread.cpp`, `context.*` | run list with iterator `thread_it`, wait lists, `waiting_threads`, `threads_to_reap`, saved contexts | `thread_create`, `thread_exit`, `thread_join`, `sched_yield`, `scheduler_hook`, `reap_threads`, context switch |
| condition variable | `Utils/detail/condition_variable.cpp` | `__total_seq`, `__wakeup_seq`, `__woken_seq`, `__broadcast_seq`, `__futex`, a spin lock | `wait`, `notify_one`, `notify_all` |
| readers-writer lock | `Utils/detail/shared_mutex.cpp` | `readers`, `writers`, `waiting_readers`, two condition variables | `lock`, `try_lock`, `unlock` and the shared forms |
| buddy heap | `kernel/Memory/Heaps/BuddyHeap.hpp`, `details/buddy_tree.hpp` | the tree of blocks, a "full" flag per node | `alloc`, `free` (split, merge, update of the flags) |
| slab heap | `kernel/Memory/Heaps/SlabHeap.hpp` | a mask and a count per slab, three bit sets over the slabs, `sets_m` | `alloc`, `free` |
| kernel heap | `kernel/Memory/Heaps/KernelHeap.hpp` | per cell size a list of slab heaps, request counts, `heaps_m` | `alloc`, `free`, `heap_for`, `create_heap_for`, `heap_is_full` |
| page heap | `kernel/Memory/Heaps/PageHeap.hpp` | records of allocations, a map from pages to them, two counts, the present bits of the directory | `alloc` (by record, by search), `free`, destructor |
| EXT2: disk | `kernel/Filesystem/EXT2/` | bitmaps and counts of each group, inodes with three levels of pointers, directory entries | `Format`, create (file, directory, device, link), write, `remove` |
| EXT2: block cache | `EXT2_detail.cpp`, `Utils/detail/shared_ptr_control.*`, `weak_ptr` | weak pointers to the blocks in memory, a ring of strong ones, two places for marks, counts of the control blocks | `get_block`, dropping a pointer, the ring, `commit`, `write_back`, unmounting |
| file descriptors | `kernel/Filesystem/Descriptors.cpp`, `bits/heap.hh` | a vector of handles, a heap of the free numbers | `map`, `unmap`, `expand`, `reset`, range of `resolve` |
| maps and sets | `Utils/detail/RBTree.hpp`, `map.hpp` | nodes with two children, parent, colour, size; root, leftmost | `operator[]`, `erase`, copy, `clear`, iteration |
| unordered maps | `Utils/detail/hash_table.hpp`, `hash_table_policy.cpp`, `unordered_map.hpp` | one list of nodes, buckets that point into it, the policy's `nextResize` | both `operator[]`, look-up, `rehash`, `reserve`, copy, `clear` |

What makes each of them correct, and what is hard about it:

- **Kernel threads.** A registered thread is in one place: on the run list, on one wait
  list, or dead. The iterator, `current_processor->current_thread` and the
  stack the CPU is on agree. A joiner is woken and gets the value. A stack is freed once and
  not too early. Hard: the iterator survives erasures and insertions; the
  last half of each switch runs after the `irq_guard` has enabled interrupts, where the timer may
  call `sched_yield` on the same stack; a context is a set of addresses that dies with the frame it points
  into.
- **Condition variable.** No notification is lost, and nobody leaves without one. Hard:
  waiters spin on `__futex` without the lock, and four counters decide who may leave.
- **Readers-writer lock.** A writer is alone; nobody sleeps through a release; a writer that has
  claimed the lock gets it. Hard: two conditions, three loops, and a notification whose form
  depends on a counter that is never initialised.
- **Buddy heap.** Blocks in use do not overlap, the leaves tile the heap, the flags say
  where free space is. Hard: the merge goes up one level only, the flags are updated until the
  first one that does not change.
- **Slab heap.** Masks, counts and the three sets agree. Hard: they are updated one after
  the other, and `free` takes no lock.
- **Kernel heap.** The lists stay well formed, a request is served by cells large enough.
  Hard: the lock is released and taken again between what was read and what is
  done about it.
- **Page heap.** A page belongs to one allocation, records and directory agree, nothing is left
  behind. Hard: unused records keep naming pages that the search gives to others.
- **EXT2 on the disk.** Each block and inode in use has one owner and one name, the counts follow the
  bitmaps, block *i* of a file is the *i*-th added, entries tile their blocks. Hard: calls that fail half
  way on a full disk, and walks that trust lengths stored by earlier calls.
- **Block cache.** No write is lost, nobody sees an old content, unmounting leaves nothing behind. Hard:
  a block is written only when its last strong pointer goes, marks are kept in two places, and the control
  block outlives the object while weak pointers refer to it.
- **Descriptors.** The free numbers are in the heap once each, smallest on top. Hard: growth by a size that
  is a floating point number, numbers coming back in any order between growths.
- **Maps.** The tree has the keys put in and not erased, in order, and is balanced. Hard: rotations two
  levels above the node that started them, and an erasure that rotates before it unlinks.
- **Unordered maps.** A bucket finds its keys through a node of another bucket, so each insertion at the
  front, each rehash and each copy must move that pointer.

### How the parts interact

    timer interrupt --> scheduler_hook --> sched_yield --> run list, reaper, context switch
    thread_create/exit/join --------------^
    condition_variable.wait --> spin_yield_mutex --> sched_yield
    shared_mutex --> condition_variable (rwait, wwait), a mutex
    kernel heap --> shared_mutex (heaps_m), buddy heap (top), untyped slab heaps
    slab heap --> mutex (sets_m)            page heap --> map, page directory
    EXT2 calls --> block groups --> block cache --> shared_ptr/weak_ptr, disk driver
    open files --> descriptors              everything --> maps, vectors, lists

Everything is shared memory on one CPU. There are no messages. A failed `assert` stops the machine, and
the models stop there too. The disk is the only thing that outlives a crash; the file system keeps no
journal and promises nothing about one, so what is checked of it is an orderly unmount.

### Parts that are not modelled

Each has its entry and its reason in `PROJECT.json`. In short:

- *used through what they promise*: spin locks and mutexes (`lock` is a step that waits), the bit sets,
  the lists, interrupts on and off (a guarded region is one step);
- *hardware*: paging, segments, disk and platform drivers, boot. Their correctness is in
  register layouts and in what a device answers;
- *no state*: FAT32, NTFS and initrd (readers of an image), partition table, allocator adapters, C
  library, metaprogramming;
- *unfinished in the source*: the process records and the `Scheduler` class (the only user of the
  concurrent circular list), named pipes, opening a file, the pthread layer, which is mostly commented out or
  `assert(NOT_IMPLEMENTED)`;
- *superseded*: legacy tasks. The timer calls `task_switch` every 100 ticks, which returns at
  once because there is one task;
- *one user at a time*: `sleep` and `usleep`, file objects, filesystem nodes and paths;
- *not of this repository or not of the kernel*: libcxxrt, the sqlite binding, tools, experimental
  headers, the host tests (which are read for what they promise).

Of the modelled parts, these operations are left out: the timed forms of waiting and locking (they call a
`wait_until` that has no definition); the buddy heap's `reserve` and `calculate_bounds`; requests of half a
page and more in the kernel heap; two callers of the page heap at once; EXT2's cache of inodes and node
objects, path parsing, times and permissions; moves, swaps and values of the containers, the hash table's
`deleteNode`, which nothing calls, and its resolution of conflicts, which is off by default and asserts false.


## 2. Plan

Done, in this order, the most important first: `Scheduler` with `ThreadSpec`, `CondVarSpec`, `CondVar`, `SharedMutex`,
`BuddyHeap`, `SlabHeap`, `KernelHeap`; then `Ext2`, `BlockStore`, `BlockCache`, `Descriptors`, `PageHeap`, `RBTree`,
`HashTable`; and the modules that put parts side by side, `MCThreads`, `MCLocks`, `MCHeaps`, `MCFiles`, `MCTables`, `MCStructures`. The proofs are in eight modules:
`SchedulerProofs`, `CondVarProofs`, `SharedMutexProofs`, `BuddyHeapProofs`,
`HeapsProofs`, which has those of the other three heaps and carries the buddy heap's over to `MCHeaps`,
`FilesProofs` and `BlocksProofs` about `MCFiles`, and `StructuresProofs` about `BlockCache` and `MCTables`.

What could follow:

1. `Interrupts`: nested cli/sti and `irq_guard`, with the assumption of `Scheduler` that a guarded region is
   one step stated as a property.
2. The physical page bitmap, and `CircularList` should its user be finished.
3. Compositions: `Ext2` over `BlockStore` instead of a disk of its own; `KernelHeap` over
   `SlabHeap`, of which it now has the count of free cells.

Theorems to come: which orders of several threads in `alloc` and `free` of the slab heap keep `SetsAgree`, and what those
compositions promise.


## 3. The modules

### Scheduler

State: `runlist` and `thread_it` are the global list and its iterator (an index; `++` and wrap as in
the code), `wait_list[t]`, `status[t]` and `ret[t]` are fields of thread `t` and of its data,
`context[t]` is its saved context. `running` is the stack the CPU executes on. Each stack has two
frames: 0 for the thread's own calls, 1 for an interrupt on top of them; `pc[s][f]` and
`next[s][f]` are the place and the local variable of the function in that frame.

A saved context is the stack and the frame it was taken in. Loading it
(`load_destroy_context`) cuts the stack back to that frame, so every context in a frame above is
dead. Loading a dead one, or one in a freed stack, is the fault "dead context"; a failed assert is the
fault "assert". Both stop the model.

Ids come from `return tid_counter++` (`thread.cpp:273`), a load and a store under no guard: `LoadId` and `StoreId`. If
a hook comes between them and another thread creates one in its slice, both get the same number. The second registration
then takes the entry of the first in `__thread_map`, `thread_join` and `thread_exit` act on the record they find under the
id and not on the one they mean, the id is queued for the reaper twice, and the assert of `sched_yield` that a run
list longer than the map has its dead queued (603-606) can fail. The model, which names a thread by its id, stops at the store
with the fault "id twice"; TLC gets there in 15 steps (the main thread and another one create at the same time). **All that
is said of the scheduler with the timer is said until an id has been given twice.** Without the timer it cannot happen, which
is part of `CoopSound`.

`AssertsOfYield` are the asserts of `sched_yield` (603-606) and of `reap_threads` (560-567), the others are in the actions
they belong to.

Actions: `LoadId`, `StoreId` and `Register` (`thread_create`, whose guard covers only the last), `Enter`, `Yield`/`TimerHook` (both `SchedYield`, whole, with its reaping), `SwitchTo` and
`Load` (`switch_to_thread`), `JoinDone`, `JoinWait`, `Park`, `Pick`, `JoinReturn`
(`thread_join`, cut where its guard ends), `Exit`. With `Preemptive = FALSE` the timer
does not call the hook: that is how the thread tests run, and the kernel before its timer ticks.

`MayJoin` lets a thread join younger threads only, as the tests do. The code has no rule
against two threads joining each other, which would deadlock them. `waiting_threads` is a map that keeps its
keys, although it is a `Utils::map` from which `thread.cpp:372` erases (see finding 8): the model shows what
the scheduler does with a sound map.

### ThreadSpec

What the scheduler promises to those who create, join and leave threads, without queues, contexts or places in the code: each
thread's `life` (unborn, id taken, alive, asleep in a join, dead, freed), what it handed to `thread_exit`, and for each caller the thread it named
last (`arg`) and what its last join returned (`got`). Only a living thread that is not asleep acts; to join a living
thread is to sleep until exactly that one exits; a join returns what its target handed over; only the dead are freed. The refinement
mapping (`Life` in `Scheduler`) reads a life off `thread_map`, `tid_counter`, `freed`, `status` and `waiting_threads`; the context switch,
the run list and the halves of a join are stutters. `NoLostWakeup` is part of it and no run checks it by itself.

### CondVarSpec, CondVar

`CondVarSpec` is what a condition variable promises: a notification is a credit, and whoever
waited when some notification was given may take a credit. It says less than "the longest waiter
first", because the code does: a later waiter may take an earlier waiter's credit once another
notification follows.

`CondVar` is the code: `wait` enters under `__lock`, takes a snapshot of `__futex`, spins
(`Respin` re-reads the snapshot), and leaves on a broadcast or on a credit. The refinement
mapping takes the counters away: `credits` is `wakeup_seq - woken_seq`, `old` are the waiters
notified since they came.

### SharedMutex

`lock`, `unlock` and the shared forms over two instances of `CondVarSpec`. All of them hold `_mut`
from the first line to the return or the next wait, so each stretch is one step; between a
notification and the waiter's return others may take `_mut`. Counters are words
of `WordSize` values; `waiting_readers` starts anywhere, because the constructor does not set it.

### BuddyHeap, SlabHeap, KernelHeap

In `BuddyHeap` the tree is the set of nodes that are split and the set of those whose flag says full; a
node is its order and its address. `Alloc` is `allocate_node` with the descent, the
splitting and the update of the flags on the way up, `Free` is `release_node`. Both hold the heap's mutex
throughout, so they are single steps and what can go wrong is a long sequence of legal
calls. `held` and `orders` are history variables.

`SlabHeap` has one step per statement that touches shared memory; `alloc` holds `sets_m` from its test to its
end, `free` holds nothing. A failed assert makes the action wait for ever, and the asserts are the
property `AllocAssertion`.

`KernelHeap` has threads in `alloc` with their places between two holds of `heaps_m`; what happens under
the exclusive lock is one step that waits until no reader is in. A slab heap is the number of its
cells in use. A list node is named by its heap. The locals `heap`, `li` and `it` are kept across the
gaps as in the code, which is where the hazards are. `heap_for`'s test that a hundredth of all
requests ask for a size depends on a counter the code never initialises: it may go either way.

### PageHeap

`AllocRecord` takes an unused record of the right length and makes its pages present, with the assert that
they are not; `AllocRegion` searches the directory and appends a record; `FreePages` makes pages absent and
keeps the record; `Destroy` is the destructor. The three asserts stop the model with the reason in `state`.
One caller at a time: `alloc` takes no lock, and nothing in the repository says it may run beside `free`.
`page_map` keeps its keys here too.

### Ext2

One record holds the disk: bitmaps, counts, inodes and the content of indirect and directory blocks. A call
threads it through its statements, so operators take a disk and return one (`Reserve`, `AddAll`,
`Extended`, `Enter`), and a call that fails half way returns the disk as the code leaves it. `Create`,
`CreateDevice`, `CreateLink`, `Write` and `RemoveNode` are the actions. Data is abstract: names are their lengths,
a file's content is the sequence of blocks added to it (history), a link's target its length and, if it is kept in
the inode, the number its first characters make (`TargetWord`: any number). When such a link is removed the code takes the characters
for block numbers (`EXT2Node.cpp:949`). The number may be that of no block, of a free one, or of one outside group 0, and an assert
fails; or it is that of a block in use in group 0, which a target of one to three characters reaches ("a" is 97): that block is
released, whosever it is, and will be handed out again. The model has the release and stops after it (`"stray block"`), so **what is
said of blocks and names is said until a stray block has been released**, and of the counts up to it and including it. A target of more than four characters fills
further pointers; the removal gets to them only if the first word has named a block, so they are left out. There is no locking above a block group in the code, so a call is a step.

### BlockStore, BlockCache

`BlockStore` is the promise: a block holds what was last written to it, whatever goes to the disk is its newest
content, and the file system is unmounted only when the disk has everything.

`BlockCache` is the code. `obj` are the control blocks of `shared_ptr` with both their counts; `own` says what each
strong pointer points at: the handles of callers and the slots of `block_ptr_cache`, a ring. `get_block` is
cut where `block_group_t` gives up `mut` (`pc`: caching, marking); dropping a strong pointer, the destructor
this may run and its write are one step, since threads switch at blocking calls only. Unmounting goes through the
stages of `~EXT2` (`phase`). The refinement mapping takes a block's content from the object in memory, or from the disk if
there is none.

With the timer calling the scheduler that step would come apart: another thread could look a block up between
its use count reaching zero and the end of the write, find the weak pointer expired, and read the
old content from the disk. `Coherent` then fails, and so would the counts, which are not atomic.

### Descriptors

`handles` is a vector of which the model has the size and the places in use, `descriptors` the binary heap in
an array, sifted as in `bits/heap.hh` (`Rise`, `Sink`, of steps `Up`, `Down`). `map` expands when the heap is empty; the new size is a floating
point number, which the model keeps as halves.

### RBTree, HashTable

Both keep the containers' pointers as they are in the code, a node being its key. `RBTree` follows
`findCreate`, `create`, `rebalance` with its rotations, `deleteNode`, copies and the walk of an iterator.
A pointer to a freed node is `Gone`; its first use, a failed ASSERT and a walk that does not end stop the model. `thin`
remembers whether an erased node was the root or had two children: up to then the properties hold, from
then on they do not (finding 8).

`HashTable` has the list from `beforeBegin` through all nodes, and for each bucket the node *before* its
first. Keys are hashed by their remainder, so some share a code and more share a bucket. `needRehash` and
`nextBuckets` are there with `nextResize`, the limit they remember. `Walk` is the list from a node on; look-ups and the loops of
`_rehash` and of the copy constructor go along it. `_rehash` of an empty table fails its assertion
and a copy of one follows a null pointer; both stop the model.

### MCThreads, MCLocks, MCHeaps, MCFiles, MCTables, MCStructures

Six modules put instances side by side that share no state: a variable chosen in the initial state (`timer`,
`used`, `part`) says which of them the behaviour is about, all others stay as they are, and each
property looks at its own part. Each part is explored as completely as alone; one run answers for all of them.
`MCHeaps` has the four heaps and their specification `HeapsSpec`, `MCFiles` the disk and the descriptors and their `FilesSpec`,
`MCTables` the unordered map and its `TablesSpec`; `MCStructures` extends the three with the tree and the cache (`Parts` has the one
variable they share). The three specifications are there for
the proofs: the tree is written with recursive operators, about which nothing can be proved, and a module of theorems may not reach them.


## 4. The runs

| run | module, instance | distinct states | asks |
|---|---|---|---|
| `threads` | `MCThreads`: 3 threads, with and without the timer | 309,383 | do queues, iterator and results stay coherent whatever the timer interrupts, and does it implement `ThreadSpec`? without it: does any assert fail, is every context usable, does every ready thread run again and again, does every thread finish and is its stack freed? |
| `condvar` | `MCCondVar`: 3 threads, 4 waits | 127,111 | does it implement `CondVarSpec`, is every notification taken? |
| `locks` | `MCLocks`: 4 threads, a lock with room for all readers, one without and no writer | 4,037 | exclusion, counters, no missed release, progress; does a reader sleep while there is room? |
| `structures` | `MCStructures`: nine parts | 573,824 | the heaps, the containers, the disk, the block cache (implements `BlockStore`) and the descriptors, each through every order of calls |
| `sched_preempt_finish` | `MCScheduler` with the timer, `ThreadsFinish` | violation | do the threads finish with the timer? **No** (finding 1) |
| `shared_mutex_full` | more readers than `max_readers` and a writer | violation | does the assert of `unlock` hold? **No** (finding 2) |
| `slab_free` | 2 slabs of 2 cells, two threads | violation | the assert of `slab_t::allocate` when `free` runs beside `alloc` (finding 3) |
| `kernel_heap_full` | 2 threads, 2 adjacent sizes | violation | `assert(it)` of `heap_is_full` (finding 4) |
| `ext2_remove` | the disk of `structures` | violation | `assert(false)` behind a failed `release_node` (finding 5) |
| `descriptors_range` | up to 10 open | violation | the asserts of `unmap` and `resolve` on the number `map` hands out (finding 6) |
| `page_heap_record` | the page heap of `structures` | violation | `assert(!pg->present())` of `alloc` (finding 7) |
| `map_erase` | 5 keys, 2 erasures | violation | are the other keys there after an erasure? **No** (finding 8) |

The parts of `structures`, in distinct states: block cache 256,396; kernel heap 134,503; disk 95,154; tree 27,557;
descriptors 24,070; slab heap 21,154; buddy heap 7,190; hash table 4,495; page heap 3,305.

### Findings

1. **The context is loaded outside the guard** (`thread.cpp:642`). `sched_yield` advances
   `thread_it` under an `irq_guard` and loads the context of the next thread after the guard is gone. A timer hook in
   between takes the executing stack for the one `*thread_it` names and saves it into that thread's
   context, which was about to be loaded. The thread's continuation is lost, and the next load of it
   finds a dead context.
2. **A reader that waited for room does not look at `writers` again** (`shared_mutex.cpp:67`). A
   writer may have entered meanwhile; both are inside, and the writer's `assert(writers == 1 &&
   readers == 0)` fails.
3. **`free` of the slab heap takes no lock** (`SlabHeap.hpp:175`). A slab filled by `alloc` between
   two of its statements is filed as partial while it is full; the next `alloc` of it fails
   `assert(free_count > 0)`.
4. **Two threads find the same heap full** (`KernelHeap.hpp:475`). The first drops the
   node of a heap that was alone on its list, the second does not find it and fails `assert(it)`.
5. **A node without blocks cannot be removed** (`EXT2.cpp:978`). `release_node` takes the number of blocks it freed for its
   success, so for a file that was never written it reports a failure, which `remove` asserts against.
6. **Every second growth hands out a number without a handle** (`Descriptors.cpp:45`). The new size is a floating point number;
   `resize` cuts it off, and the loop that pushes the new numbers compares with it uncut. The asserts that fail are those of `unmap` and
   `resolve` on that number.
7. **An unused record names pages that were given away** (`PageHeap.hpp:98`). After `alloc(1)`, `free` and `alloc(2)` the
   next `alloc(1)` takes the old record, whose page is in use, and fails `assert(!pg->present())`.
8. **Erasing the root of a map can drop other keys** (`RBTree.hpp:973`). `deleteNode` rotates a node with two
   children down and looks for its new place by comparing a null pointer with 0; for the root and for left children
   it returns null in place of the subtree. Inserting 1, 2, 3 and erasing 2 leaves an empty map. The block of the unit test
   that would show it is commented out.

### Observations

These contradict no statement of the repository, and hence are not findings.

- *Threads and heaps.* A joiner that allocates the result record leaves its `ret` uninitialised, and gets that if the target
  exits with `nullptr`. A full heap alone on its list is dropped, so with one thread no list ever has two heaps
  and cells freed into a dropped heap are not handed out again. The buddy tree does not merge two
  free siblings that were themselves made by a merge. `total_heap_reqs` is never initialised. `PageHeap::alloc` passes `supervisor()` and
  `readonly()` to `allocate(is_writeable, kernel_only)` in the other order.
- *Physical pages* (not modelled). `Basic_Physical::reserve` (`Basic_Physical.cpp:24-37`) asks of the frames behind the first
  that they are *in use* and then takes them; all callers ask for one page. `Bitset_Ptr::firstFalse` skips the last,
  partial byte of the bitmap unless a bit of it is set.
- *Threads.* Two threads may be given one id (`thread.cpp:273`, see section 3). `PageHeap::alloc` does not take the mutex that `free` takes.
- *EXT2.* The characters of a short link's target are released as block numbers when it is removed (section 3). Device nodes cannot be removed. A directory has at most 12
  blocks. Creating on a full disk follows a null pointer. A directory block outside group 0 fails an assert, and so does releasing a
  block there; inodes of later groups are marked beyond the end of `modified_map` (`EXT2_detail.cpp:591`, 777). A link target of a block or more
  leaks blocks. Removing a directory that is not empty is not refused. The superblock's count of free blocks is never updated.
  `write_blocks_to_node` never copies past the first block.
- *Maps.* Copying a map that was never used calls `clone` through a null pointer (`map.hpp:49`); the model copies maps that have keys. The node that replaces an erased root keeps a parent pointer to the freed one, which the next insertion follows. After a copy, a
  red root fails an ASSERT (`RBTree.hpp:298`). Deletion does not rebalance.
- *Unordered maps.* `rehash`, `reserve` and copies of an empty table stop at an ASSERT or a null pointer; assigning a table to
  itself clears it first. `unordered_map::empty` says whether it is *not* empty. `deleteNode` would leave the next bucket pointing at the freed node.

### Bounds, and why they are enough

- `MaxThread = 3`: the main thread, a thread and one it can join or be joined by, or two children.
  The run list then has its begin, middle and end, and one wait list can hold two joiners. `Value`
  has one non-null value: results are told apart by being that value, null or garbage.
  `ReapLimit = 1` stands for the 10 in `sched_yield`, so that both ways to reap are
  reached. The hook does not nest in itself: hooks are ten ticks apart.
  `sched_preempt_finish` has `MaxThread = 2`, the main thread and one more: its behaviour needs no third.
- `MaxWaits = 4` with three threads: a waiter, a second one, one of them again, and a
  broadcast between them. Counters do not wrap within it.
- `MaxReaders` is 3 and `Places` 2, where the code has 10: three threads may read, so with 3
  there is always room and with 2 there is not. `WordSize = 5` makes wrapping reachable and has one
  value more than there are threads. The lock with fewer places than readers contains the case the
  other one excludes.
- `Highest = 4`, `Lowest = 1`: a tree of four levels, so that a merge leaves something to merge above it;
  requests above, at and below powers of two, and one for the whole heap.
- `Slabs = 3`, `Cells = 3` (16 in the code): each of the three sets can hold a slab at once, and a slab
  has an empty, a partial and a full state with a step between.
- `Popular = 2` (5), `Cells = 1` (100 and more): a request counted and not yet popular; heaps that
  fill at once, which is when lists change. `MaxHeaps = 3` bounds `top`.
- Page heap: six pages with one mapped before, which cuts the directory in runs of two and three; lengths 1 to 3
  and four records, so that records of each length are unused while their pages are taken by another.
- Disk: two groups of seven blocks and four inodes, two direct pointers and two per indirect block (12 and 256 in the code), so a
  file of six blocks uses all three levels and two files fill the disk. Directory blocks of 40 bytes hold two or
  three entries, so entries are split, merged and a second block is added. Writes end at 100, 120 and 170: within a block, at a block's
  end, and beyond what fits. `TargetWord` is 3, the first block a file gets, or 99, beyond the disk.
- Block cache: two blocks, two values, two handles, a ring of two slots (5) and four objects: one more than the
  pointers can keep alive, so the allocator never runs dry before the interesting case, and a slot is
  overwritten while its block is in use, marked, or both.
- `MaxOpen = 9` (10 in `descriptors_range`, where the tenth shows the finding): the table grows three times, and numbers come back in every order.
- Tree: eight keys are needed for the first insertion that recolours and then rotates above; one erasure in
  `structures`, two in `map_erase`.
- Hash table: six keys with remainders that meet in 2, in 5 and in 11 buckets, two of them with one code; the
  table is made with two buckets and grows twice by itself, and by `rehash` and `reserve` to 3, 4 and 6 besides.

Symmetry is used in `structures` alone, which checks no liveness, and for what is only compared there: blocks and values of
the cache, threads of the kernel heap. Deadlock is checked in `locks`, where the system cannot stop. It is
off where it may: a fault or a failed assert stops `threads` and `structures`, `MaxWaits` ends `condvar`, and `top`
used up or the file system unmounted ends its part. That no thread is stuck without the timer is what `CoopFinish` says.

### Fairness

- Scheduler, without the timer: weak fairness for each thread's kernel code (the CPU goes on) and for `Yield`
  (a thread that is not preempted calls `sched_yield` again). That is an assumption about the functions the threads run, and without the timer nothing in
  the kernel enforces it: most loops of the tests yield, but some do not, and their `YIELD` is empty.
  Strong fairness for `Exit`: a thread's function
  returns after finitely many slices, another assumption about these functions. No fairness for `thread_create` or `thread_join`. The run
  `sched_preempt_finish` adds weak fairness for `TimerHook` (the timer ticks).
- Condition variable: weak fairness for the steps of threads in `wait`, which the scheduler gives
  (`CoopRuns`), and for `Release`: nobody keeps the mutex for ever.
- Readers-writer lock: weak fairness for leaving, for taking a credit and for going on with a call
  once begun; none for starting one.
- `structures` has no liveness: each of its parts is a sequence of calls made by someone else.


## 5. The proofs

| module | theorem | holds for |
|---|---|---|
| `SchedulerProofs` | `TypeCorrect`, `CurrentIsRunningAlways` | every `MaxThread`, `Value`, `ReapLimit`, with and without the timer, until an id is given twice |
| `SchedulerProofs` | `NoThreadLostAlways`, `NoLostWakeupAlways`, `ReapedOnceAlways`, `JoinValueAlways` | the same |
| `SchedulerProofs` | `AssertsHold`: an assert fails only after a dead context was loaded or an id was given twice | the same |
| `SchedulerProofs` | `Implements`: `Scheduler` implements `ThreadSpec` | the same |
| `SchedulerProofs` | `CoopSoundAlways` | any threads, values and limits; it speaks of the kernel without the timer |
| `CondVarProofs` | `TypeCorrect`, `CountedAlways`, `NoMissedChangeAlways`, `NoNotificationLostAlways` | every finite set of threads and every `MaxWaits` |
| `CondVarProofs` | `Implements`: `CondVar` implements `CondVarSpec` | the same |
| `SharedMutexProofs` | `TypeCorrect` | all constants |
| `SharedMutexProofs` | `ExclusionAlways`, `CountsAgreeAlways`, `NoMissedReleaseAlways` | all constants with no more readers than `MaxReaders` |
| `SharedMutexProofs` | `NobodyMissesRoomAlways` | a lock of any number of places, any number of readers, no writer |
| `StructuresProofs` | `TypeCorrect`, `CountedAlways`, `CoherentAlways` | all finite sets of blocks and handles, any values, every capacity |
| `StructuresProofs` | `Implements`: `BlockCache` implements `BlockStore` | the same |
| `StructuresProofs` | `TableIsSetAlways` | every finite set of keys, any number of hash codes, any arguments of `rehash` and `reserve`; under `PrimesGoOn` |
| `BuddyHeapProofs` | `TypeCorrect`, `LeavesTileAlways`, `FlagsExactAlways`, `BlocksHeldAlways`, `UniformNeverFailsAlways` | every height, every smallest block, all requests that fit the heap |
| `HeapsProofs` | `KernelTypeCorrect`, `ListsSoundAlways`, `SizeFitsAlways`: one kernel heap | any threads, sizes, cells per heap and heaps |
| `HeapsProofs` | `HeapsTypeCorrect`, `HeapsFitAlways`, `SlabsAgreeAlways`, `BuddiesTileAlways`, `PagesOwnedAlways` | the same for the four heaps side by side; for the slab heap one thread and all numbers of slabs and of cells (at least two); for the page heap every directory, set of lengths and number of records |
| `FilesProofs` | `CountsTrackAlways` | every disk geometry, all lengths of names, targets and writes |
| `BlocksProofs` | `BlocksOwnedAlways`, `BlocksInOrderAlways` | the same, with any characters in short targets, which fit into a block; until a stray block is released |
| `FilesProofs` | `LowestFreeAlways`; `RangeHolds`: the asserts of finding 6 hold | any number of open descriptors; up to nine |

All rest on the named assumptions of the modules (`ThreadAssumption`, `ValueAssumption`, `CacheAssumption`,
`HeapsAssumption`, ...), which TLC evaluates in the runs. Three of them deserve a word. `ValueAssumption` says that no exit value
is one of the four marks the model uses beside values. `PowerAssumption` of the buddy heap, `2^(k+1) = 2 * 2^k` up to its height,
is plain arithmetic which the provers do not have. `Ext2Assumption` says that an inline target is no longer than a block (60 bytes against
1024 at least), and nothing of its characters.

- **Condition variable.** `Counted` relates the futex word and the number of waiters to the counters;
  `NoMissedChange` and `NoNotificationLost` follow from it together with bounds on each waiter's
  snapshots (`seq`, `futex_val` and `broadcast_count` are never ahead of the counters). Their conjunction `CondInv` is
  inductive. Under it the abstract `Unpromised` is the code's `total_seq > wakeup_seq`, and
  each step maps to a step of `CondVarSpec` or a stutter.
- **Scheduler types.** The type invariant is not inductive as it stands: `*thread_it` must
  exist. `TypeInv` adds that the iterator is within the run list or a fault has stopped the machine.
- **CurrentIsRunning.** After a guard the timer may run whole switches inside a half-finished one.
  `SwitchInv` says what survives: the frame that executes agrees with the iterator
  (`TopInv`), and a context taken by a hook in a foreign frame belongs to a thread that this
  frame is on its way to, or is the frame's own (`ContextInv`). So when control comes
  back to a thread's own code the iterator names it, in spite of finding 1: what is lost there is
  a continuation, not the agreement.
- **The scheduler's queues.** `NoThreadLost` alone is not inductive: that the thread taken off the run list is the one which
  goes to sleep or dies needs `CurrentIsRunning`, and that nobody is appended to a list it is on already needs more about each queue.
  `QueueInv` collects it: no queue names a thread twice and nobody sleeps on two (`QueuesInv`), a registered thread is on the run
  list exactly if it neither sleeps nor is dead (`PlaceInv`), sleepers wait for younger threads that are not dead
  (`WaitInv`), who is freed is dead and nobody is queued for the reaper twice or after that (`DeadInv`),
  and ids below the counter have been given out once (`IdInv`), which `StoreId` keeps by stopping where the counter has moved since the load. The asserts that the run list is not
  empty rest on `MayJoin`: each sleeper waits for a younger thread, so a chain of sleepers ends at one that is on the list.
  `AssertsHold` stops at the first load of a dead context, which finding 1 makes possible with the timer, and at an id given twice. That the run list is never longer
  than the map, and that what is reaped is registered, dead and queued once, follows from `QueueInv`, the run list being a sequence without repetitions of registered threads.
- **JoinValue.** The value crosses three places: the target's data, the joiner's result, the joiner's return. `JoinInv`
  follows it through them: a joiner past its test sleeps for its target, or that target is dead (`JoinerInv`), a dead thread's data keep
  what it handed to `thread_exit` (`RetInv`), and what a joiner has read agrees with it (`GotInv`).
- **The life of threads.** That a step of the scheduler is one of `ThreadSpec` needs all of the above, and that a sleeper is on
  the wait list of the thread in its `arg` (`SleepInv`): then those whom `thread_exit` moves to the run list are exactly those who
  sleep for the caller. The theorem holds with the timer: what finding 1 loses is progress, none of what `ThreadSpec`
  promises of each step.
- **CoopSound.** Without the timer no call is interrupted by another, so a saved context is always one of its owner's own frame 0. `CoopInv`
  adds that its stack is not freed and that each living thread has a context, unless it runs and has not yet left. It needs `QueueInv`
  beside it: the thread that is switched to is on the run list, and whoever is there lives.
- **Readers-writer lock.** `LockInv` ties `writers` and `readers` to the threads that are inside or have claimed
  the lock. Under `RoomForAll` no reader ever waits for room, which is what finding 2 needs. For `NoMissedRelease` it is joined by
  `WritersWait` and `DrainWait`: whoever waits for the writer does so while there is one and never keeps a credit from an earlier
  one, and on the other condition there is at most the writer that has claimed the lock, which has been told or has a reader to wait for.
  Without a writer but with too few places the invariant is `CrowdedInv`: `readers` is the number inside and never more than the places (`PlacesInv`), there are no more
  credits than sleepers (`WaitersInv`), and while a sleeper has no credit, the readers inside, the credits and the readers that have woken up
  and not yet returned are together as many as the places (`RoomInv`).
- **Block cache.** That memory and disk agree (`Coherent`) says nothing about who will write a block, so it is not inductive. The
  strengthening says that a live object is the one its block's weak pointer names, and the map of weak pointers
  nothing else (`Registered`, `WeakSound`), that a block has at most one object (`OneObject`), that an object which differs from
  the disk is marked in one of the two places (`Marks`), with a handle marking before it writes (`MarkedFirst`), that a block without an
  object is on the disk as it was last written (`Kept`), and that unmounting ends with no strong pointer left (`Gone`).
  `Counted`, that both counts of a control block are the numbers of pointers to it, ties pointers to
  lives: the drop that brings the count to 0 is the last one. The refinement then maps a first write to
  `Put`, a destructor's write and a commit to `Flush`, the last stage of unmounting to `Unmount`, and the rest to stutters.
- **Slab heap.** What is promised between calls (`MasksAgree`, `SetsAgree`) breaks within them, so the invariant `SlabInv` says
  for each place in `alloc` and `free` where the slab at work is (`Misfiled`), how far its count is behind its mask (`Counts`),
  and which cell is neither in the mask nor in use (`Owned`). The other slabs are filed as their counts say. It holds for one thread
  (a hypothesis of the theorems); with two, finding 3 breaks it.
- **Kernel heap.** What a thread remembers while it has given up `heaps_m` may be out of date, so the question is how much of it stays
  true. `KernelInv` adds to `ListsSound` one clause per thread (`ThreadsInv`): the heap and the list node it holds are heaps that
  were made (`RefsAt`), and the heap it is about to ask, and those it will walk through, have cells of the size it asks for or larger (`FitAt`). A heap's cell size never
  changes, which is why that survives what others do to the lists. That the node is still *on* a list does not survive: that is finding 4.
- **Buddy heap.** `BuddyInv` is `TypeOK`, `FlagsExact` and three more. `Rooted`: a split node's parent is split. That
  alone makes the leaves tile the heap, whatever was merged, so a merge that stops after one level costs capacity and never
  soundness. `Filed`: the blocks in use are the leaves flagged full. `Asked`: blocks have orders that were
  asked for, and a node is split only if something smaller was. So in a heap asked for one order the leaves are of that order or larger and, if
  all are full, of that order; they are then all in use, one for each multiple of their size.
  Where a proof by induction over the height is natural, the proof takes a smallest counterexample (`Smallest`).
- **Page heap.** `PageInv` is the types, `PagesOwned` and how they are tied together: a used record's pages are present, were not mapped before
  the heap, and are named for this record in the map (`Claimed`), and the counts are the numbers of pairs of a used record
  and a page of it. Unused records are free to name anything, which is finding 7.
- **Descriptors.** `TableInv` says of the array that it is a heap (`Ordered`), without repetitions (`Distinct`), and that its elements
  below the table's size are the indices not in use. That push and pop keep it is the usual argument about sifting,
  with one place on the way where the order may fail (`Rising`, `Sinking`). `TableRange` adds the three sizes the table passes through with at most nine
  open descriptors: the last growth leaves the number 9 in the queue, below everything that is ever returned, and the tenth `map` hands it out.
- **Unordered maps.** `TableIsSet` is about what three walks meet, so the invariant says what the pointers are: a sequence of keys without
  repetitions (`Chain`) in which the keys of a bucket stand together (`Grouped`); a bucket points to the node before the first of
  its keys, and nowhere if it has none (`Filed`). Walks from anywhere in the list then follow the sequence. A key goes in
  before the first of its bucket or to the front, where the bucket of the key that was first must follow (`FrontGood`); `_rehash`, which builds
  another sequence by the same two moves, needs besides that `beginBkt` is the bucket of the first (`Ready`). `TableInv` adds the policy: while nothing has failed
  `nextResize` is at most one more than the buckets, so that what `needRehash` lets through fits. The theorem has the hypothesis
  `PrimesGoOn`, Bertrand's postulate: beyond its first sizes the policy takes the next prime of a list, which the model chooses between
  `n` and `2n`; that there is one is number theory the provers do not have, and says nothing of this code.
- **EXT2's counts.** `Sound` says of a disk that each group's two counts are those of its bitmaps (`Counts`) and that pointers
  and indirect blocks hold block numbers (`Typed`). Each operator that takes a disk keeps it, whatever pointers lead
  where: taking a block finds a clear bit, releasing a block looks at the bit first, and releasing an inode stops on an
  assert if it is free. So the counts follow the bitmaps also when a short link's characters have been released as a block number.
- **EXT2's blocks.** `BlocksOwned` compares the bitmaps with what the inodes reach, and `BlocksInOrder` what the walks find with what was added. Neither
  is inductive: that a block is reached once does not say that it will be when the next pointer is set. The invariant is about single pointers.
  `Held(d, O, F)` says of a disk that a call has in hand, where the inodes `O` have blocks and the blocks `F` are reserved but in no inode yet: no two
  pointers, in inodes of `O` or in any block, are to the same block (`Unshared`); a pointer is to a block whose bit is set and that is not
  one of Format's, of those a link left behind, or of `F` (`Fresh`, `Stock`); each block in use is one of these or an inode's (`Cover`); and the slots
  of an inode, those of its indirect blocks in turn after its own, hold the blocks added to it in order, then null (`InLog`). That
  blocks without an owner have no pointers either, and so an indirect block can be taken from them without looking, follows
  from `Unshared` and `Fresh`. Two inodes then meet at no level (`Apart`). `add_block_to_node` sets one pointer for each indirect block
  it needs and one for the data, and each of these keeps `Held`; where it puts the block is the first slot that is null because the slots before it are the
  log. The walk of `get_file_block_indexes` goes through slots that are the log too, level by level, so it finds the part of the log it was asked for.
  A loop that stops half way leaves in `F` exactly the blocks it has not added, and those it gives back.
  `Full` is `Held` with nothing in hand and `Fit` for every inode: an inode has blocks if it is in use and of a kind that has them (`Owner`), and
  as many as its size needs (`Sufficient`); another one keeps characters or a device number in place of pointers (`Short`) or has never been
  written. `Full` holds between calls until one of them fails an assert, and `Done` says that of each call. An inode without blocks
  whose release is asked for meets an assert, or it is a short link and releases a stray block (`NothingToRelease`).
- **Loops.** The loops of `Ext2`, the sifting of `Descriptors` and the walks, `_rehash` and copies of `HashTable` are recursive functions, which TLA+ defines as a choice. That there is
  such a function at all is the first lemma about each of them, by its smallest argument without one (`Smallest`, from the
  well-foundedness of the naturals: the library's theorems on induction cannot be instantiated). What the loop keeps follows likewise.
- **Heaps side by side.** The run checks the heaps in `MCHeaps`. `HeapsProofs` shows that a step of `HeapsSpec` is a step of the part it is about and
  a stutter of the others, and so that the invariant of each heap holds throughout. The buddy heap's is that of `BuddyHeapProofs`: the
  definitions of an instance are other symbols than those of the proof's module, so some lemmas there say only that
  the two are the same.

What is only model-checked, and why:

- all liveness properties, `ClaimedIsWritten`, `SomebodyEnters`, `NotificationsTaken`, `BroadcastReleases`, `CoopRuns`,
  `CoopFinish`: fairness and ENABLED are out of the prover's reach;
- `TreeIsSet` and `Balanced`: a tree is walked by recursive operators, about which nothing can be proved
  here; what is needed besides is the shape of the tree through every rotation;
- `DirectoriesSound` of `Ext2`: it is about the entries in directory blocks, of which the proofs below know only which blocks they are;
- `StructuresTypeOK` as a whole. Its parts for the heaps and the cache are proved (`HeapsTypeCorrect`, `StructuresProofs`' `TypeCorrect`).

The refinements that the runs `threads`, `condvar` and `structures` check are those the three theorems `Implements` prove.
