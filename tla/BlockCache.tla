----------------------------- MODULE BlockCache -----------------------------
(***************************************************************************)
(* The blocks of an EXT2 block group in memory (block_group_t in           *)
(* src/kernel/Filesystem/EXT2/EXT2_detail.cpp) and the shared and weak     *)
(* pointers that keep them there (src/Utils).  A block is an object under  *)
(* a control block; cached_blocks refers to it weakly, block_ptr_cache (a  *)
(* ring) and the callers strongly.  When the last strong pointer goes, the *)
(* object's destructor writes it to the disk if it was marked, either on   *)
(* itself (modified) or in the group (modified_map).                       *)
(*                                                                         *)
(* The calls of several threads interleave where block_group_t gives up    *)
(* mut.  Dropping a pointer and the write this causes are one step: the    *)
(* kernel switches threads at blocking calls only.  README.md says what    *)
(* happens when a timer interrupt comes in between.                        *)
(***************************************************************************)
EXTENDS Integers, FiniteSets

CONSTANTS
  Block, Value,
  Handle,      \* shared pointers of the callers: nodes, lists of blocks, bitmaps
  Unmounter,   \* the one write_back uses
  Capacity,    \* slots of block_ptr_cache (5)
  Object,      \* control blocks the allocator hands out
  Nothing      \* the null pointer

Slot == 0 .. Capacity - 1
Owner == Handle \cup Slot

ASSUME CacheAssumption ==
  /\ Capacity \in Nat \ {0}
  /\ IsFiniteSet(Handle) /\ Unmounter \in Handle /\ Handle \cap Slot = {}
  /\ IsFiniteSet(Block) /\ Value # {}
  /\ Nothing \notin Object

VARIABLES
  phase,   \* "mounted", then the stages of ~EXT2, then "unmounted"
  disk,
  obj,     \* the control blocks and the objects under them
  cached_blocks, modified_map,
  own,     \* what each strong pointer points at
  index,  \* where block_ptr_cache stores next
  pc,      \* where the call that fills a handle stands
  write,   \* the argument of get_block
  written  \* history: what was last written to each block
vars == <<phase, disk, obj, cached_blocks, modified_map, own, index, pc, write, written>>

\* A call is under way, or the pointer is null (idle) or usable (held).
Step == {"idle", "caching", "marking", "held"}
Phase == {"mounted", "write_back", "nodes", "groups", "unmounted"}

Live(o) == obj[o].usecount > 0
Free(o) == obj[o].refcount = 0
Dead == [block |-> Nothing, data |-> Nothing, modified |-> FALSE, usecount |-> 0, refcount |-> 0]

Init ==
  /\ phase = "mounted"
  /\ disk \in [Block -> Value]
  /\ obj = [o \in Object |-> Dead]
  /\ cached_blocks = [b \in Block |-> Nothing]
  /\ modified_map = {}
  /\ own = [w \in Owner |-> Nothing]
  /\ index = 0
  /\ pc = [h \in Handle |-> "idle"]
  /\ write = [h \in Handle |-> FALSE]
  /\ written = disk

-----------------------------------------------------------------------------
(* Shared pointers.                                                        *)

\* Faulty variant: the map of the group is not asked.
SavesFlagged(o) == obj[o].modified
\* ~block_t: an object that is marked is written.
Saves(o) == obj[o].modified \/ obj[o].block \in modified_map
\* strongRelease: this is the last strong pointer.
IsLast(o) == obj[o].usecount = 1

Same(x, y) == IF x = y THEN 1 ELSE 0

\* Faulty variant: the weak pointer is overwritten and not released.
KeepRef(n, gone) == n
\* weakRelease
WeakRelease(n, gone) == IF gone THEN n - 1 ELSE n

\* Pointer w becomes p: p is counted before w lets go of what it had.
Assign(w, p) ==
  LET old == own[w]
      dies == old # Nothing /\ old # p /\ IsLast(old)
      saves == dies /\ Saves(old)
      Count(n, o) == n + Same(o, p) - Same(o, old)
  IN /\ own' = [own EXCEPT ![w] = p]
     /\ obj' = [o \in Object |->
          [(IF dies /\ o = old THEN [Dead EXCEPT !.refcount = obj[o].refcount, !.usecount = 1] ELSE obj[o])
             EXCEPT !.usecount = Count(@, o), !.refcount = Count(@, o)]]
     /\ disk' = IF saves THEN [disk EXCEPT ![obj[old].block] = obj[old].data] ELSE disk
     /\ modified_map' = IF saves THEN modified_map \ {obj[old].block} ELSE modified_map

-----------------------------------------------------------------------------
(* get_block.                                                              *)

\* Faulty variant: the weak pointer is never tried.
AlwaysExpired(b) == TRUE
\* weak_ptr::lock
Expired(b) == cached_blocks[b] # Nothing => ~Live(cached_blocks[b])

\* The block is in memory.
Find(h, b) ==
  /\ ~Expired(b)
  /\ LET o == cached_blocks[b] IN
     /\ own' = [own EXCEPT ![h] = o]
     /\ obj' = [obj EXCEPT ![o].usecount = @ + 1, ![o].refcount = @ + 1]
  /\ UNCHANGED cached_blocks

\* A new object is read from the disk; cached_blocks forgets the old one.
Read(h, b) ==
  /\ Expired(b)
  /\ \E o \in Object : Free(o)
  /\ LET o == CHOOSE o \in Object : Free(o)
         old == cached_blocks[b]
     IN
     /\ own' = [own EXCEPT ![h] = o]
     /\ cached_blocks' = [cached_blocks EXCEPT ![b] = o]
     /\ obj' = [p \in Object |->
          IF p = o THEN [block |-> b, data |-> disk[b], modified |-> FALSE, usecount |-> 1, refcount |-> 2]
          ELSE [obj[p] EXCEPT !.refcount = WeakRelease(@, p = old)]]

\* get_block_internal_no_lock, up to where cache_block gives up mut.
Lookup(h, b, w) ==
  /\ pc[h] = "idle"
  /\ \/ phase = "mounted"
     \/ phase = "write_back" /\ h = Unmounter /\ b \in modified_map
  /\ Find(h, b) \/ Read(h, b)
  /\ pc' = [pc EXCEPT ![h] = "caching"]
  /\ write' = [write EXCEPT ![h] = w]
  /\ UNCHANGED <<phase, disk, modified_map, index, written>>

\* Faulty variant: the ring does not close.
Straight(i) == i
Wrapped(i) == i % Capacity

\* cache_block: shared_ptr_cache::cache under cache_m.
Cache(h) ==
  /\ pc[h] = "caching"
  /\ Assign(index, own[h])
  /\ index' = Wrapped(index + 1)
  /\ pc' = [pc EXCEPT ![h] = IF write[h] THEN "marking" ELSE "held"]
  /\ UNCHANGED <<phase, cached_blocks, write, written>>

\* get_block for writing and get_node mark the block under mut again.
Mark(h) ==
  /\ pc[h] = "marking"
  /\ modified_map' = modified_map \cup {obj[own[h]].block}
  /\ pc' = [pc EXCEPT ![h] = "held"]
  /\ UNCHANGED <<phase, disk, obj, cached_blocks, own, index, write, written>>

-----------------------------------------------------------------------------
(* Using a block.                                                          *)

\* The writer sets modified, marks the group's map (the bitmaps), or relies on
\* the mark get_block has made.
Write(h, v) ==
  /\ phase = "mounted" /\ pc[h] = "held"
  /\ \E flag \in BOOLEAN, map \in BOOLEAN :
       /\ flag \/ map \/ write[h]
       /\ obj' = [obj EXCEPT ![own[h]].data = v, ![own[h]].modified = @ \/ flag]
       /\ modified_map' = IF map THEN modified_map \cup {obj[own[h]].block} ELSE modified_map
  /\ written' = [written EXCEPT ![obj[own[h]].block] = v]
  /\ UNCHANGED <<phase, disk, cached_blocks, own, index, pc, write>>

\* ~shared_ptr
Drop(h) ==
  /\ phase \in {"mounted", "nodes", "groups"} /\ pc[h] = "held"
  /\ Assign(h, Nothing)
  /\ pc' = [pc EXCEPT ![h] = "idle"]
  /\ write' = [write EXCEPT ![h] = FALSE]
  /\ UNCHANGED <<phase, cached_blocks, index, written>>

-----------------------------------------------------------------------------
(* ~EXT2: write_back of the group, then its nodes, then the group go.      *)

\* Nobody is inside a call any more; nodes may still hold blocks.
Unmount ==
  /\ phase = "mounted" /\ pc[Unmounter] = "idle"
  /\ \A h \in Handle : pc[h] \in {"idle", "held"}
  /\ phase' = "write_back"
  /\ UNCHANGED <<disk, obj, cached_blocks, modified_map, own, index, pc, write, written>>

\* commit_block of one marked block, which write_back got like everybody else.
Commit ==
  /\ phase = "write_back" /\ pc[Unmounter] = "held"
  /\ LET o == own[Unmounter] IN
     /\ disk' = [disk EXCEPT ![obj[o].block] = obj[o].data]
     /\ modified_map' = modified_map \ {obj[o].block}
     /\ obj' = [obj EXCEPT ![o].modified = FALSE, ![o].usecount = @ - 1, ![o].refcount = @ - 1]
  /\ own' = [own EXCEPT ![Unmounter] = Nothing]
  /\ pc' = [pc EXCEPT ![Unmounter] = "idle"]
  /\ UNCHANGED <<phase, cached_blocks, index, write, written>>

WrittenBack ==
  /\ phase = "write_back" /\ pc[Unmounter] = "idle" /\ modified_map = {}
  /\ phase' = "nodes"
  /\ UNCHANGED <<disk, obj, cached_blocks, modified_map, own, index, pc, write, written>>

\* ~block_group_t begins; it still holds its bitmaps: cached_blocks.clear().
Clear ==
  /\ phase = "nodes"
  /\ phase' = "groups"
  /\ cached_blocks' = [b \in Block |-> Nothing]
  /\ obj' = [o \in Object |->
       [obj[o] EXCEPT !.refcount = WeakRelease(@, \E b \in Block : cached_blocks[b] = o)]]
  /\ UNCHANGED <<disk, modified_map, own, index, pc, write, written>>

\* block_ptr_cache.reset(), one slot after another.
Reset(i) ==
  /\ phase = "groups" /\ own[i] # Nothing
  /\ Assign(i, Nothing)
  /\ UNCHANGED <<phase, cached_blocks, index, pc, write, written>>

Unmounted ==
  /\ phase = "groups" /\ \A w \in Owner : own[w] = Nothing
  /\ phase' = "unmounted"
  /\ UNCHANGED <<disk, obj, cached_blocks, modified_map, own, index, pc, write, written>>

\* A new EXT2 on the same disk.
Mount ==
  /\ phase = "unmounted" /\ phase' = "mounted"
  /\ modified_map' = {} /\ index' = 0
  /\ UNCHANGED <<disk, obj, cached_blocks, own, pc, write, written>>

Next ==
  \/ \E h \in Handle, b \in Block, w \in BOOLEAN : Lookup(h, b, w)
  \/ \E h \in Handle : Cache(h) \/ Mark(h) \/ Drop(h)
  \/ \E h \in Handle, v \in Value : Write(h, v)
  \/ Unmount \/ Commit \/ WrittenBack \/ Clear \/ Unmounted \/ Mount
  \/ \E i \in Slot : Reset(i)

Spec == Init /\ [][Next]_vars

-----------------------------------------------------------------------------
TypeOK ==
  /\ phase \in Phase
  /\ disk \in [Block -> Value]
  /\ obj \in [Object -> [block : Block \cup {Nothing}, data : Value \cup {Nothing}, modified : BOOLEAN,
                         usecount : Nat, refcount : Nat]]
  /\ cached_blocks \in [Block -> Object \cup {Nothing}]
  /\ modified_map \subseteq Block
  /\ own \in [Owner -> Object \cup {Nothing}]
  /\ index \in Slot
  /\ pc \in [Handle -> Step]
  /\ write \in [Handle -> BOOLEAN]
  /\ written \in [Block -> Value]
  /\ \A h \in Handle : own[h] = Nothing <=> pc[h] = "idle"

\* However handles, the ring and the map of weak pointers come and go, a
\* control block counts the strong pointers to it, and the weak one on top: the
\* object is written and destroyed with the last owner and the control block
\* is freed with the last reference, neither sooner nor later.
Counted == \A o \in Object :
  /\ obj[o].usecount = Cardinality({w \in Owner : own[w] = o})
  /\ obj[o].refcount = obj[o].usecount + (IF \E b \in Block : cached_blocks[b] = o THEN 1 ELSE 0)

\* What a block holds: its object's data while there is one.
Content == [b \in Block |->
  IF \E o \in Object : Live(o) /\ obj[o].block = b
  THEN obj[CHOOSE o \in Object : Live(o) /\ obj[o].block = b].data
  ELSE disk[b]]

\* A block holds what was last written to it: eviction from the ring, the last
\* drop, reading again, write_back and the destructors neither lose a write nor
\* bring an old one back.
Coherent == Content = written

\* Only the newest content of a block goes to the disk, and the disk has all of
\* it when the file system is gone.
Store == INSTANCE BlockStore WITH content <- written, mounted <- phase # "unmounted"
ImplementsStore == Store!Spec
=============================================================================
