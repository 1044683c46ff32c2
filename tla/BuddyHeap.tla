------------------------------ MODULE BuddyHeap ------------------------------
(***************************************************************************)
(* The buddy allocator at the top of the kernel heap                       *)
(* (src/kernel/Memory/Heaps/BuddyHeap.hpp, details/buddy_tree.hpp).  alloc *)
(* and free run under tree_m, so each is one step.                         *)
(*                                                                         *)
(* A node of the tree is <<order, start>>: it covers 2^order bytes from    *)
(* start.  Its children exist while it is split; its full flag is kept by  *)
(* the operations and only approximates "no free leaf below", which is     *)
(* what the properties are about.                                          *)
(***************************************************************************)
EXTENDS Integers, FiniteSets

CONSTANTS
  Highest, Lowest,   \* highest_order and lowest_order
  Request            \* the sizes alloc is called with

\* What the constants must satisfy; the module that instantiates this one
\* assumes it.
OrderAssumption ==
  /\ Highest \in Nat /\ Lowest \in Nat
  /\ 0 < Lowest /\ Lowest < Highest
RequestAssumption == Request \subseteq 1 .. 2 ^ Highest
\* What the proofs need to know of powers of two.
PowerAssumption == \A k \in 0 .. Highest - 1 : 2 ^ (k + 1) = 2 * 2 ^ k

VARIABLES
  split,   \* the nodes with children
  full,    \* the nodes whose full flag is set
  held,    \* history: the size each block in use was requested with
  orders   \* history: the orders asked for so far

vars == <<split, full, held, orders>>

Address == 0 .. 2 ^ Highest - 1
Node == UNION {{<<k, s>> : s \in {a \in Address : a % (2 ^ k) = 0}} :
                 k \in Lowest .. Highest}
Root == <<Highest, 0>>

Covers(n) == n[2] .. n[2] + 2 ^ n[1] - 1
Left(n)  == <<n[1] - 1, n[2]>>
Right(n) == <<n[1] - 1, n[2] + 2 ^ (n[1] - 1)>>
Parent(n) == <<n[1] + 1, n[2] - (n[2] % (2 ^ (n[1] + 1)))>>
Sibling(n) == IF n = Left(Parent(n)) THEN Right(Parent(n)) ELSE Left(Parent(n))
Above(n) == {<<k, n[2] - (n[2] % (2 ^ k))>> : k \in n[1] + 1 .. Highest}

Present == {Root} \cup {Left(n) : n \in split} \cup {Right(n) : n \in split}
Leaf == Present \ split

TypeOK ==
  /\ split \subseteq {n \in Node : n[1] > Lowest}
  /\ full \subseteq Present
  /\ DOMAIN held \subseteq Address
  /\ \A a \in DOMAIN held : held[a] \in Request
  /\ orders \subseteq Lowest .. Highest

Init ==
  /\ split = {}
  /\ full = {}
  /\ held = <<>>
  /\ orders = {}

-----------------------------------------------------------------------------
\* Faulty variant: rounded down.
OrderBelow(size) == CHOOSE k \in 0 .. Highest :
  2 ^ k <= size /\ (k = Highest \/ size < 2 ^ (k + 1))
\* The smallest order whose block holds size bytes.
RequiredOrder(size) == CHOOSE k \in 0 .. Highest :
  size <= 2 ^ k /\ (k = 0 \/ 2 ^ (k - 1) < size)

\* alloc rounds up to lowest_order.
OrderFor(size) ==
  IF RequiredOrder(size) < Lowest THEN Lowest ELSE RequiredOrder(size)

\* The leaves that allocate_node_recurse may return: it descends only through
\* nodes that are not full ...
Reachable(order) ==
  {n \in Leaf : n[1] >= order /\ (Above(n) \cup {n}) \cap full = {}}

\* ... and takes left children first.
LeftOf(nodes) == CHOOSE n \in nodes : \A m \in nodes : n[2] <= m[2]
Found(order) == LeftOf(Reachable(order))

\* Faulty variant: the parents' flags left as they were.
NotFilled(n) == {n}
\* The nodes that become full with n: a parent while its other child is full
\* as well, and so on upwards.
Filled(n) ==
  {n} \cup {m \in Above(n) : \A k \in Above(n) \cup {n} :
                               k[1] < m[1] => Sibling(k) \in full}

\* Faulty variant: a leaf that is too large is not split below twice its size.
SplitShort(n, order) == {<<k, n[2]>> : k \in order + 2 .. n[1]}
\* The nodes split on the way from leaf n down to a block of the order.
SplitFor(n, order) == {<<k, n[2]>> : k \in order + 1 .. n[1]}

\* The block is the lowest of the nodes with the leaf's start.
Alloc(size) ==
  LET order == OrderFor(size) IN
  /\ Root \notin full /\ Reachable(order) # {}
  /\ LET n     == Found(order)
         block == <<order, n[2]>>
     IN /\ split' = split \cup SplitFor(n, order)
        /\ full' = full \cup Filled(block)
        /\ held' = [a \in DOMAIN held \cup {block[2]} |->
                      IF a = block[2] THEN size ELSE held[a]]
        /\ orders' = orders \cup {order}

-----------------------------------------------------------------------------
\* find_leaf_node: the leaf that covers the address.
LeafAt(addr) == CHOOSE n \in Leaf : addr \in Covers(n)

\* Faulty variant: only the freed node's own flag.
ClearedOnly(n) == {n}
\* The flags release_node clears: the node's and those of all above it.
Cleared(n) == Above(n) \cup {n}

\* Faulty variant: a sibling that is split does not stand in the way.
MergesUnlessFull(n) == n # Root /\ Sibling(n) \notin full
\* The leaf n and its sibling become their parent.
Merges(n) == n # Root /\ Sibling(n) \in Leaf \ full

\* The caller gives back what it got; the assert in free needs a full leaf.
Free(addr) ==
  LET n == LeafAt(addr) IN
  /\ addr \in DOMAIN held
  /\ n \in full
  /\ split' = IF Merges(n) THEN split \ {Parent(n)} ELSE split
  /\ full' = full \ Cleared(n)
  /\ held' = [a \in DOMAIN held \ {addr} |-> held[a]]
  /\ UNCHANGED orders

Next ==
  \/ \E size \in Request : Alloc(size)
  \/ \E addr \in DOMAIN held : Free(addr)

Spec == Init /\ [][Next]_vars

-----------------------------------------------------------------------------
\* The blocks in use are exactly the full leaves, each large enough for what
\* was asked: free always finds the block it is given (the asserts of free
\* and release_node), and no two blocks in use overlap.
FullLeaf == {n \in Leaf : n \in full}
BlocksHeld ==
  /\ {n[2] : n \in FullLeaf} = DOMAIN held
  /\ \A n \in FullLeaf : held[n[2]] <= 2 ^ n[1]
  /\ \A n, m \in FullLeaf : n # m => Covers(n) \cap Covers(m) = {}

\* The leaves tile the heap: no byte is lost and none belongs to two blocks,
\* whatever was split and merged before.
Tile(nodes) == \A a \in Address : Cardinality({n \in nodes : a \in Covers(n)}) = 1
LeavesTile == split \subseteq Present /\ Tile(Leaf)

\* The flags of inner nodes say whether there is a free leaf below: the search
\* neither misses one nor descends in vain, and full() is exact.
FlagsExact ==
  \A n \in split : n \in full <=> Left(n) \in full /\ Right(n) \in full

\* Although release_node merges one level only, a heap that has seen requests
\* of one order never refuses one while the bytes for it are there (the unit
\* test fills a heap with 128 equal blocks, frees them and starts again).
UniformNeverFails ==
  \A size \in Request :
    LET order == OrderFor(size) IN
    orders \subseteq {order} /\ Cardinality(DOMAIN held) < 2 ^ (Highest - order) =>
      Root \notin full /\ Reachable(order) # {}
=============================================================================
