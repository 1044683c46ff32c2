-------------------------------- MODULE Ext2 --------------------------------
(***************************************************************************)
(* The EXT2 file system on a freshly formatted disk                        *)
(* (src/kernel/Filesystem/EXT2/): blocks and inodes against their bitmaps  *)
(* and counts, the pointers of an inode with three levels of indirect      *)
(* blocks, and the entries in the blocks of a directory.                   *)
(*                                                                         *)
(* The code has no locking above a block group ("Setup lock system for     *)
(* concurrency" is a TODO), so a call is one step; what goes wrong is a    *)
(* long sequence of legal calls or a call that fails half way.  A call     *)
(* threads the whole disk through its statements, hence one record.        *)
(*                                                                         *)
(* A failed assert stops the machine: fault names it and nothing happens   *)
(* after.  The module also stops once the removal of a short link has      *)
(* released a block of another owner (fault "stray block").                *)
(***************************************************************************)
EXTENDS Integers, FiniteSets, SequencesExt

CONSTANTS
  Groups, BlocksPerGroup, NodesPerGroup,
  Fixed,       \* blocks of group 0 that Format reserves before the root's
  GroupFixed,  \* blocks for bitmaps and inode table in every other group
  Reserved,    \* inodes Format reserves (10)
  Direct,      \* direct pointers of an inode (12)
  Ptrs,        \* pointers in an indirect block (256)
  BlockSize,   \* bytes in a block (1024)
  Inline,      \* longest link target kept in the inode (60)
  NameLen, WriteEnd, TargetLen,  \* inputs: lengths of names, ends of writes,
                                 \* lengths of link targets
  TargetWord   \* the first characters of short link targets, read as numbers,
               \* and the numbers of devices

VARIABLE disk
vars == <<disk>>

Group == 0 .. Groups - 1
BlockNo == 0 .. Groups * BlocksPerGroup - 1
Node  == 1 .. Groups * NodesPerGroup
Root  == 2
Null  == 0       \* the null pointer, and the inode of a hole
Header == 8      \* sizeof(dirent_t)

GroupOf(b) == b \div BlocksPerGroup
NodeGroup(n) == (n - 1) \div NodesPerGroup
RoundUp(x, unit) == ((x + unit - 1) \div unit) * unit
BlocksIn(bytes) == RoundUp(bytes, BlockSize) \div BlockSize
Least(S) == CHOOSE x \in S : \A y \in S : x <= y

\* A loop over a sequence: what Step makes of d with one element after another.
Each(d, s, Step(_, _)) ==
  LET after[k \in 0 .. Len(s)] == IF k = 0 THEN d ELSE Step(after[k - 1], s[k])
  IN after[Len(s)]

\* What the constants must satisfy; the module that instantiates this one
\* assumes it.
Ext2Assumption ==
  /\ {Groups, BlocksPerGroup, NodesPerGroup, Direct, Ptrs} \subseteq Nat \ {0}
  /\ Fixed \in 2 .. BlocksPerGroup - 1 /\ GroupFixed \in 1 .. BlocksPerGroup - 1
  /\ Reserved \in 2 .. NodesPerGroup - 1
  /\ BlockSize \in Nat /\ \A len \in NameLen \cup {2} : BlockSize >= 12 + RoundUp(Header + len, 4)
  /\ NameLen \cup WriteEnd \cup TargetLen \subseteq Nat \ {0}
  /\ TargetWord \subseteq Nat \ {0} /\ Inline \in 1 .. BlockSize

NoPtrs == [i \in 1 .. Ptrs |-> Null]
NoMap == [i \in 1 .. Direct + 3 |-> Null]
Hole(size) == [node |-> Null, len |-> 0, size |-> size]
Blank == [type |-> "none", links |-> 0, size |-> 0, map |-> NoMap]

\* Format.  In groups other than 0 it marks the bits 0 .. GroupFixed - 1,
\* although the bitmaps and the table begin at bit 1.
Formatted == (0 .. Fixed - 1) \cup
  UNION {{g * BlocksPerGroup + i : i \in 0 .. GroupFixed - 1} : g \in Group \ {0}}

Init == disk = [
  used  |-> Formatted \cup {Fixed},
  free  |-> [g \in Group |-> BlocksPerGroup - (IF g = 0 THEN Fixed ELSE GroupFixed)],
  nodes |-> 1 .. Reserved,
  freeNodes |-> [g \in Group |-> NodesPerGroup - (IF g = 0 THEN 1 ELSE 0)],
  inode |-> [n \in Node |-> IF n = Root
     THEN [type |-> "dir", links |-> 0, size |-> BlockSize, map |-> [NoMap EXCEPT ![1] = Fixed]]
     ELSE Blank],
  ptrs |-> [b \in BlockNo |-> NoPtrs],
  dir  |-> [b \in BlockNo |-> IF b = Fixed
     THEN <<[node |-> Root, len |-> 1, size |-> 12],
            [node |-> Root, len |-> 2, size |-> BlockSize - 12]>>
     ELSE <<>>],
  \* History: the blocks added to an inode, and those a link left behind.
  log   |-> [n \in Node |-> IF n = Root THEN <<Fixed>> ELSE <<>>],
  lost  |-> {},
  fault |-> "none"]

Faulty(d, what) == [d EXCEPT !.fault = what]
Ok == disk.fault = "none"
IsDir(p) == p \in disk.nodes /\ disk.inode[p].type = "dir"

-----------------------------------------------------------------------------
(* Blocks.                                                                 *)

\* reserve_block asks the groups in order; each wants a count above 0 and a
\* clear bit.
Takeable(d) == {b \in BlockNo \ d.used : d.free[GroupOf(b)] > 0}
NextBlock(d) == IF Takeable(d) = {} THEN Null ELSE Least(Takeable(d))

\* The block is cleared.
TakeBlock(d) == LET b == NextBlock(d) IN
  [d EXCEPT !.used = @ \cup {b}, !.free[GroupOf(b)] = @ - 1,
            !.ptrs[b] = NoPtrs, !.dir[b] = <<>>]

\* Faulty variant: the count is not put back.
GiveBitOnly(d, b) == [d EXCEPT !.used = @ \ {b}, !.ptrs[b] = NoPtrs, !.dir[b] = <<>>]
\* What a free block holds is never read, so it is forgotten here.
GiveBlock(d, b) ==
  [d EXCEPT !.used = @ \ {b}, !.free[GroupOf(b)] = @ + 1,
            !.ptrs[b] = NoPtrs, !.dir[b] = <<>>]

\* release_block: the file system looks for the group of b - 1, the group for
\* the bit b itself, without taking its own first block away.
Releasable(d, b) == GroupOf(b) = GroupOf(b - 1) /\ b \in d.used
ReleaseBlock(d, b) ==
  IF d.fault # "none" THEN d
  ELSE IF GroupOf(b - 1) >= Groups THEN Faulty(d, "group")
  ELSE IF GroupOf(b) = GroupOf(b - 1) /\ b >= BlocksPerGroup THEN Faulty(d, "bitset")
  ELSE IF Releasable(d, b) THEN GiveBlock(d, b)
  ELSE d

-----------------------------------------------------------------------------
(* The pointers of an inode.  add_block_to_node puts the block at the      *)
(* first null pointer: the direct ones, then those reached through one,    *)
(* two and three indirect blocks, which it reserves on its way.            *)

FirstNull(s) == Least({i \in DOMAIN s : s[i] = Null})
HasNull(s) == \E i \in DOMAIN s : s[i] = Null

Room1(d, b) == b = Null \/ HasNull(d.ptrs[b])
Room2(d, b) == b = Null \/ \E i \in 1 .. Ptrs : Room1(d, d.ptrs[b][i])
Room3(d, b) == b = Null \/ \E i \in 1 .. Ptrs : Room2(d, d.ptrs[b][i])

Point(d, b, i, x) == [d EXCEPT !.ptrs[b][i] = x]
MapTo(d, n, i, x) == [d EXCEPT !.inode[n].map[i] = x]

\* Go on in the indirect block b; if there is none yet, reserve it and link it.
Through(d, b, Link(_, _), Fill(_, _)) ==
  IF b # Null THEN Fill(d, b)
  ELSE IF NextBlock(d) = Null THEN [disk |-> d, added |-> FALSE]
  ELSE Fill(Link(TakeBlock(d), NextBlock(d)), NextBlock(d))

\* Faulty variant: the last null pointer.
FillLast(d, b, x) ==
  LET i == CHOOSE i \in 1 .. Ptrs : d.ptrs[b][i] = Null /\ \A j \in i + 1 .. Ptrs : d.ptrs[b][j] # Null
  IN [disk |-> Point(d, b, i, x), added |-> TRUE]
Fill1(d, b, x) == [disk |-> Point(d, b, FirstNull(d.ptrs[b]), x), added |-> TRUE]
Fill2(d, b, x) ==
  LET i == Least({k \in 1 .. Ptrs : Room1(d, d.ptrs[b][k])})
  IN Through(d, d.ptrs[b][i], LAMBDA e, c : Point(e, b, i, c), LAMBDA e, c : Fill1(e, c, x))
Fill3(d, b, x) ==
  LET i == Least({k \in 1 .. Ptrs : Room2(d, d.ptrs[b][k])})
  IN Through(d, d.ptrs[b][i], LAMBDA e, c : Point(e, b, i, c), LAMBDA e, c : Fill2(e, c, x))

\* The file has one more block.
Noted(r, n, x) == IF r.added THEN [r EXCEPT !.disk.log[n] = Append(@, x)] ELSE r
AddBlock(d, n, x) ==
  LET map == d.inode[n].map
      noted == [d EXCEPT !.log[n] = Append(@, x)]
      Via(level, Fill(_, _)) ==
        Noted(Through(d, map[Direct + level],
                      LAMBDA e, c : MapTo(e, n, Direct + level, c), Fill), n, x)
  IN IF HasNull(SubSeq(map, 1, Direct))
     THEN [disk |-> MapTo(noted, n, FirstNull(map), x), added |-> TRUE]
     ELSE IF Room1(d, map[Direct + 1]) THEN Via(1, LAMBDA e, c : Fill1(e, c, x))
     ELSE IF Room2(d, map[Direct + 2]) THEN Via(2, LAMBDA e, c : Fill2(e, c, x))
     ELSE IF Room3(d, map[Direct + 3]) THEN Via(3, LAMBDA e, c : Fill3(e, c, x))
     ELSE [disk |-> Faulty(d, "too large"), added |-> FALSE]

-----------------------------------------------------------------------------
(* Finding the blocks of a file: get_file_block_indexes, without zeros.    *)

\* What place i of the indirect block b points at; a block that is missing has
\* nothing but null pointers.
At(d, b, i) == IF b = Null THEN Null ELSE d.ptrs[b][i]

Rows(width, Row(_)) ==
  [k \in 1 .. Ptrs * width |-> Row((k - 1) \div width + 1)[((k - 1) % width) + 1]]
Slots1(d, b) == [k \in 1 .. Ptrs |-> At(d, b, k)]
Slots2(d, b) == Rows(Ptrs, LAMBDA i : Slots1(d, At(d, b, i)))
Slots3(d, b) == Rows(Ptrs * Ptrs, LAMBDA i : Slots2(d, At(d, b, i)))

Kept(found, b) == IF b = Null THEN found ELSE Append(found, b)
NonNull(slots) == Each(<<>>, slots, Kept)

\* One level of pointers: width of them, of which slots exist.
Level(walk, slots, width) ==
  IF walk.count = 0 THEN walk
  ELSE IF walk.start >= width THEN [walk EXCEPT !.start = @ - width]
  ELSE LET there == NonNull(SubSeq(slots, walk.start + 1, Len(slots)))
           found == SubSeq(there, 1, IF Len(there) < walk.count THEN Len(there) ELSE walk.count)
       IN [blocks |-> walk.blocks \o found, start |-> 0, count |-> walk.count - Len(found)]

FileBlocks(d, n, start, count) ==
  LET map == d.inode[n].map
      w0 == [blocks |-> <<>>, start |-> start, count |-> count]
      w1 == Level(w0, SubSeq(map, 1, Direct), Direct)
      w2 == Level(w1, Slots1(d, map[Direct + 1]), Ptrs)
      w3 == Level(w2, Slots2(d, map[Direct + 2]), Ptrs * Ptrs)
  IN Level(w3, Slots3(d, map[Direct + 3]), Ptrs * Ptrs * Ptrs).blocks

BlockCount(d, n) == BlocksIn(d.inode[n].size)

Pointed(d, S) == (UNION {ToSet(d.ptrs[b]) : b \in S}) \ {Null}
IndirectBlocks(d, n) ==
  LET Via(level) == {d.inode[n].map[Direct + level]} \ {Null}
  IN Via(1) \cup Via(2) \cup Pointed(d, Via(2))
     \cup Via(3) \cup Pointed(d, Via(3)) \cup Pointed(d, Pointed(d, Via(3)))

\* release_reserved_blocks: a block that cannot be released is not handled.
Released(d, b) ==
  IF ReleaseBlock(d, b) = d THEN Faulty(d, "not implemented") ELSE ReleaseBlock(d, b)
ReleaseAll(d, blocks) == Each(d, blocks, Released)

\* Faulty variant: the indirect blocks are forgotten.
DataBlocksOf(d, n) == FileBlocks(d, n, 0, BlockCount(d, n))
BlocksOf(d, n) == FileBlocks(d, n, 0, BlockCount(d, n)) \o SetToSeq(IndirectBlocks(d, n))

-----------------------------------------------------------------------------
(* Writing: write_blocks and expand_to.                                    *)

\* Faulty variant: nothing is given back.
KeepAll(d, blocks) == d
\* expand_to, revert: the blocks that were reserved and not added.
Revert(d, blocks) == Each(d, blocks, ReleaseBlock)

\* The blocks are all reserved before the first is added.
OneMore(r, i) ==
  IF r.short THEN r
  ELSE IF NextBlock(r.disk) = Null THEN [r EXCEPT !.short = TRUE]
  ELSE [disk |-> TakeBlock(r.disk), blocks |-> Append(r.blocks, NextBlock(r.disk)), short |-> FALSE]
Reserve(d, count) ==
  Each([disk |-> d, blocks |-> <<>>, short |-> FALSE], [i \in 1 .. count |-> i], OneMore)

\* Each added block makes the file longer; after a failure the rest is reverted.
Longer(a, n, b) ==
  IF a.added
  THEN [disk |-> [a.disk EXCEPT !.inode[n].size = @ + BlockSize], rest |-> <<>>]
  ELSE [disk |-> a.disk, rest |-> <<b>>]
AddNext(r, n, b) ==
  IF r.rest # <<>> THEN [r EXCEPT !.rest = Append(@, b)]
  ELSE Longer(AddBlock(r.disk, n, b), n, b)
AddAll(d, n, blocks) ==
  Each([disk |-> d, rest |-> <<>>], blocks, LAMBDA r, b : AddNext(r, n, b))

\* After a failure the size is that of the blocks the file has.
Ended(a, n, end) ==
  IF a.rest # <<>> THEN Revert(a.disk, a.rest)
  ELSE [a.disk EXCEPT !.inode[n].size = end]
Extended(r, n, end) ==
  IF r.short THEN Revert(r.disk, r.blocks)
  ELSE Ended(AddAll(r.disk, n, r.blocks), n, end)
Expand(d, n, end) ==
  LET have == BlockCount(d, n)
      full == [d EXCEPT !.inode[n].size = have * BlockSize]
  IN IF end <= have * BlockSize THEN [d EXCEPT !.inode[n].size = end]
     ELSE Extended(Reserve(full, BlocksIn(end) - have), n, end)

\* write: a file grows to the end of what is written; within the file only
\* data changes.
Write(n, end) ==
  /\ Ok /\ n \in disk.nodes /\ disk.inode[n].type = "file"
  /\ end > disk.inode[n].size
  /\ disk' = Expand(disk, n, end)

-----------------------------------------------------------------------------
(* Directory entries.                                                      *)

Needed(len) == RoundUp(Header + len, 4)
Offset(es, k) == FoldLeft(LAMBDA sum, e : sum + e.size, 0, SubSeq(es, 1, k - 1))

\* allocate_dirent looks at the first entry, and at others while a name fits
\* behind their start.
Visited(es, len) == {k \in 1 .. Len(es) : k = 1 \/ Offset(es, k) < BlockSize - len - Header}
Fits(e, len) == IF e.node = Null THEN e.size >= Needed(len)
                                 ELSE e.size >= Needed(e.len) + Needed(len)
Places(es, len) == {k \in Visited(es, len) : Fits(es[k], len)}

\* Faulty variant: the rest of a split hole is not given its own length.
PlacedWhole(es, k, n, len) ==
  IF es[k].node = Null
  THEN [es EXCEPT ![k] = [node |-> n, len |-> len, size |-> Needed(len)]]
  ELSE InsertAt([es EXCEPT ![k].size = Needed(es[k].len)], k + 1,
                [node |-> n, len |-> len, size |-> es[k].size - Needed(es[k].len)])
\* The slack behind a name becomes an entry; a hole is split if a header is left.
Placed(es, k, n, len) ==
  LET e == es[k]
      rest == e.size - Needed(IF e.node = Null THEN len ELSE e.len)
  IN IF e.node # Null
     THEN InsertAt([es EXCEPT ![k].size = @ - rest], k + 1,
                   [node |-> n, len |-> len, size |-> rest])
     ELSE IF rest >= Header
     THEN InsertAt([es EXCEPT ![k] = [node |-> n, len |-> len, size |-> @.size - rest]],
                   k + 1, Hole(rest))
     ELSE [es EXCEPT ![k] = [node |-> n, len |-> len, size |-> @.size]]

\* The blocks of a directory as get_block finds them: direct pointers only.
DirBlocks(d, p) ==
  SubSeq(d.inode[p].map, 1, IF BlockCount(d, p) < Direct THEN BlockCount(d, p) ELSE Direct)

\* EXT2Node::group is that of index / nodes_per_group.  The inode's block is
\* looked up in that group's modified_map, which has no entry for the block of
\* a later group nor for an inode of another group.
Markable(p) == p \div NodesPerGroup = 0

\* add_child_inode for a directory without room: a new block for the entry.
FirstEntry(a, b, p, n, len) ==
  IF ~a.added THEN [disk |-> ReleaseBlock(a.disk, b), added |-> FALSE]
  ELSE IF BlockCount(a.disk, p) >= Direct
  THEN [disk |-> Faulty(a.disk, "not implemented"), added |-> TRUE]
  ELSE [disk |-> [a.disk EXCEPT !.inode[p].size = @ + BlockSize,
                                !.dir[b] = <<[Hole(BlockSize) EXCEPT !.node = n, !.len = len]>>],
        added |-> TRUE]
AddChildBlock(d, p, n, len) ==
  LET b == NextBlock(d)
  IN IF b = Null THEN [disk |-> Faulty(d, "null block"), added |-> FALSE]
     ELSE IF GroupOf(b) # 0 THEN [disk |-> Faulty(d, "block index"), added |-> FALSE]
     ELSE FirstEntry(AddBlock(TakeBlock(d), p, b), b, p, n, len)

AddChild(d, p, n, len) ==
  LET bs == DirBlocks(d, p)
      with == {i \in DOMAIN bs : Places(d.dir[bs[i]], len) # {}}
      b == bs[Least(with)]
  IN IF ~Markable(p) THEN [disk |-> Faulty(d, "modified_map"), added |-> TRUE]
     ELSE IF with # {}
     THEN [disk |-> [d EXCEPT !.dir[b] = Placed(@, Least(Places(@, len)), n, len)], added |-> TRUE]
     ELSE AddChildBlock(d, p, n, len)

-----------------------------------------------------------------------------
(* Creating and removing: EXT2Factory, EXT2DirectoryNode::remove.          *)

FreeNodes(d) == {n \in Node \ d.nodes : d.freeNodes[NodeGroup(n)] > 0}

\* allocate_file and allocate_directory: all but the hard links is reset.
\* reserve_node marks the inode's block like add_child_inode does.
TakeNode(d, n, type) ==
  IF NodeGroup(n) > 0 THEN Faulty(d, "modified_map")
  ELSE [d EXCEPT !.nodes = @ \cup {n}, !.freeNodes[NodeGroup(n)] = @ - 1, !.log[n] = <<>>,
            !.inode[n] = [Blank EXCEPT !.type = type,
                                       !.links = IF type = "dir" THEN 1 ELSE d.inode[n].links]]

\* release_inode asserts that the inode's bit is set; what a free inode holds
\* is reset when it is taken.
GiveNode(d, n) ==
  IF n \notin d.nodes THEN Faulty(d, "node_usage")
  ELSE [d EXCEPT !.nodes = @ \ {n}, !.freeNodes[NodeGroup(n)] = @ + 1, !.log[n] = <<>>,
            !.inode[n] = [Blank EXCEPT !.links = d.inode[n].links]]

Owned(d, n) == ToSet(d.log[n]) \cup IndirectBlocks(d, n)
\* Faulty variant: the inode of a creation that failed is kept.
Keep(d, n) == d
\* A creation that fails releases the inode and not the blocks of a link.
Abandon(d, n) == [GiveNode(d, n) EXCEPT !.lost = @ \cup Owned(d, n)]

\* A new inode under a name; without room for the name it is released again.
Entered(a, n) ==
  IF a.added \/ a.disk.fault # "none" THEN a.disk ELSE Abandon(a.disk, n)
Enter(d, p, n, len) ==
  IF d.fault # "none" THEN d ELSE Entered(AddChild(d, p, n, len), n)

\* create_directory and create_file (files have no hard link counted).
Create(p, type, len) ==
  LET n == Least(FreeNodes(disk)) IN
  /\ Ok /\ IsDir(p)
  /\ FreeNodes(disk) # {}
  /\ disk' = Enter(TakeNode(disk, n, type), p, n, len)

\* create_block_device and create_char_device assert that the first group has
\* a free inode, and keep the device's numbers in the first direct pointer.
CreateDevice(p, len, word) ==
  LET n == Least(FreeNodes(disk)) IN
  /\ Ok /\ IsDir(p)
  /\ disk' = IF ~\E m \in FreeNodes(disk) : NodeGroup(m) = 0
             THEN Faulty(disk, "no inode")
             ELSE Enter(MapTo(TakeNode(disk, n, "device"), n, 1, word), p, n, len)

\* create_link: a short target is kept in place of the pointers, a long one in
\* blocks (write_blocks_to_node), one more than its whole blocks.
Linked(a, b) ==
  IF a.added THEN a ELSE [disk |-> ReleaseBlock(a.disk, b), added |-> FALSE]
LinkNext(r, n) ==
  IF ~r.added THEN r
  ELSE IF NextBlock(r.disk) = Null THEN [r EXCEPT !.added = FALSE]
  ELSE Linked(AddBlock(TakeBlock(r.disk), n, NextBlock(r.disk)), NextBlock(r.disk))
LinkBlocks(d, n, count) ==
  Each([disk |-> d, added |-> TRUE], [i \in 1 .. count |-> i], LAMBDA r, i : LinkNext(r, n))

CreateLink(p, len, target, word) ==
  LET n == Least(FreeNodes(disk))
      d == TakeNode(disk, n, "link")
      Named(w) == IF w.added
                  THEN Enter([w.disk EXCEPT !.inode[n].size = target], p, n, len)
                  ELSE Abandon(w.disk, n)
  IN
  /\ Ok /\ IsDir(p)
  /\ FreeNodes(disk) # {}
  /\ disk' = IF d.fault # "none" THEN d
             ELSE IF target <= Inline
             THEN Enter([MapTo(d, n, 1, word) EXCEPT !.inode[n].size = target], p, n, len)
             ELSE Named(LinkBlocks(d, n, target \div BlockSize + 1))

-----------------------------------------------------------------------------
\* Where the entries are that name n in directory p.
EntryAt(d, p, n) ==
  {at \in ToSet(DirBlocks(d, p)) \X (1 .. BlockSize) :
     at[2] \in DOMAIN d.dir[at[1]] /\ d.dir[at[1]][at[2]].node = n}
Entries(d, p) == UNION {{d.dir[b][k].node : k \in DOMAIN d.dir[b]} : b \in ToSet(DirBlocks(d, p))}
Children(d, p) == Entries(d, p) \ {Null, Root}

\* Faulty variant: the neighbouring space is lost with the entry.
CutEntry(d, b, k) == [d EXCEPT !.dir[b] = RemoveAt(@, k)]
\* The entry is zeroed and keeps its length.
ClearEntry(d, b, k) == [d EXCEPT !.dir[b][k] = Hole(@.size)]

\* Faulty variant: the count goes below 0.
FewerAlways(links) == links - 1
\* dec_hard_links
FewerLinks(links) == IF links > 0 THEN links - 1 ELSE 0

\* A link whose target's characters are where the pointers of a node are.
IsShort(d, n) == d.inode[n].type = "link" /\ d.inode[n].size <= Inline

\* EXT2::release_node: it takes having freed no block for a failure, and
\* remove asserts that it succeeds.  The characters of a short target are read as
\* block numbers; a block in use that has this number belongs to somebody else.
ReleaseNode(d, n) ==
  LET links == FewerLinks(d.inode[n].links)
      dec == [d EXCEPT !.inode[n].links = links]
      freed == ReleaseAll(dec, BlocksOf(dec, n))
  IN IF links > 0 THEN dec
     ELSE IF BlocksOf(dec, n) = <<>> THEN Faulty(d, "release_node")
     ELSE IF freed.fault # "none" THEN freed
     ELSE IF IsShort(d, n) THEN Faulty(GiveNode(freed, n), "stray block")
     ELSE [GiveNode(freed, n) EXCEPT !.lost = @ \cup
             IF d.inode[n].type = "link" THEN ToSet(d.log[n]) \ ToSet(BlocksOf(d, n)) ELSE {}]

\* remove handles files, directories and links.  It does not look whether a
\* directory is empty; nobody removes one that is not.
RemoveNode(p, n) ==
  /\ Ok /\ IsDir(p)
  /\ n \in Children(disk, p)
  /\ disk.inode[n].type = "dir" => Children(disk, n) = {}
  /\ disk' = IF disk.inode[n].type = "device" THEN Faulty(disk, "no node")
             ELSE LET at == CHOOSE at \in EntryAt(disk, p, n) : TRUE
                  IN ReleaseNode(ClearEntry(disk, at[1], at[2]), n)

Next ==
  \/ \E p, n \in Node : RemoveNode(p, n)
  \/ \E n \in Node, end \in WriteEnd : Write(n, end)
  \/ \E p \in Node, type \in {"dir", "file"}, len \in NameLen : Create(p, type, len)
  \/ \E p \in Node, len \in NameLen, word \in TargetWord : CreateDevice(p, len, word)
  \/ \E p \in Node, len \in NameLen, target \in TargetLen, word \in TargetWord :
       CreateLink(p, len, target, word)

Spec == Init /\ [][Next]_vars

-----------------------------------------------------------------------------
TypeOK ==
  /\ disk.used \subseteq BlockNo /\ disk.nodes \subseteq Node
  /\ disk.free \in [Group -> 0 .. BlocksPerGroup]
  /\ disk.freeNodes \in [Group -> 0 .. NodesPerGroup]
  /\ \A n \in Node :
       /\ disk.inode[n].type \in {"none", "dir", "file", "link", "device"}
       /\ disk.inode[n].links \in 0 .. 1 /\ disk.inode[n].size \in Nat
       /\ \A i \in DOMAIN NoMap : disk.inode[n].map[i] \in BlockNo \cup TargetWord
  /\ \A b \in BlockNo, i \in 1 .. Ptrs : disk.ptrs[b][i] \in BlockNo

\* The nodes whose pointers are pointers.
Owners == {n \in (disk.nodes \ (1 .. Reserved)) \cup {Root} :
             \/ disk.inode[n].type \in {"dir", "file"}
             \/ disk.inode[n].type = "link" /\ disk.inode[n].size > Inline}

\* Every block whose bit is set was set by Format, belongs to one place of one
\* inode, or was left behind by a link: after any mix of writes that ran out of
\* blocks half way, removals and failed creations no block of a file or directory
\* is lost and none is handed out twice, until the removal of a short link
\* releases a block in use whose number its characters are.
BlocksOwned == Ok =>
  /\ disk.used = Formatted \cup disk.lost \cup UNION {Owned(disk, n) : n \in Owners}
  /\ \A n \in Owners : /\ (Formatted \cup disk.lost) \cap Owned(disk, n) = {}
                       /\ IsInjective(disk.log[n])
                       /\ ToSet(disk.log[n]) \cap IndirectBlocks(disk, n) = {}
  /\ \A n, m \in Owners : n # m => Owned(disk, n) \cap Owned(disk, m) = {}

\* The counts in the group descriptors follow the bitmaps through every call,
\* off by what Format does not count in group 0: the root's block and the
\* reserved inodes but one, also when a short link's characters are released as
\* a block number.  A group with a clear bit is never skipped.
CountsTrack == disk.fault \in {"none", "stray block"} => \A g \in Group :
  LET first == IF g = 0 THEN 1 ELSE 0
  IN /\ disk.free[g] = first + Cardinality({b \in BlockNo \ disk.used : GroupOf(b) = g})
     /\ disk.freeNodes[g] = first * (Reserved - 1)
                            + Cardinality({n \in Node \ disk.nodes : NodeGroup(n) = g})

\* Every inode in use but the reserved ones has exactly one name, and every
\* name an inode in use: no call that fails leaves either without the other.
NamedOnce == Ok =>
  LET dirs == {p \in disk.nodes : disk.inode[p].type = "dir"}
  IN /\ UNION {Children(disk, p) : p \in dirs} = disk.nodes \ (1 .. Reserved)
     /\ \A n \in disk.nodes \ (1 .. Reserved) :
          Cardinality(UNION {EntryAt(disk, p, n) : p \in dirs}) = 1

\* The entries of every directory block tile it, each long enough for its name:
\* the walks of next_dirent and allocate_dirent never leave the block.
DirTiles == Ok =>
  \A p \in disk.nodes : disk.inode[p].type = "dir" =>
    \A i \in DOMAIN DirBlocks(disk, p) :
      LET es == disk.dir[DirBlocks(disk, p)[i]]
      IN /\ Offset(es, Len(es) + 1) = BlockSize
         /\ \A k \in DOMAIN es : /\ es[k].size >= Header /\ es[k].size % 4 = 0
                                 /\ es[k].node # Null => es[k].size >= Needed(es[k].len)

\* Block i of a file is the i-th that was added to it, wherever a read or write
\* begins, and a file has exactly the blocks its size needs (the asserts of
\* write_blocks and read_inode on what get_file_blocks returns), until a stray
\* block is released.
BlocksInOrder == Ok => \A n \in Owners :
  /\ disk.inode[n].type # "link" => Len(disk.log[n]) = BlockCount(disk, n)
  /\ \A start \in 0 .. Len(disk.log[n]), count \in 0 .. Len(disk.log[n]) :
       start + count <= Len(disk.log[n]) =>
         FileBlocks(disk, n, start, count) = SubSeq(disk.log[n], start + 1, start + count)

\* EXT2DirectoryNode::remove asserts that release_node succeeds.
RemoveAssertion == disk.fault # "release_node"
=============================================================================
