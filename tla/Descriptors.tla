---------------------------- MODULE Descriptors ----------------------------
(***************************************************************************)
(* A table of file descriptors (src/kernel/Filesystem/Descriptors.cpp):    *)
(* handles, a vector that grows, and descriptors, a priority queue of the  *)
(* numbers that are free, kept as a binary heap in a vector                *)
(* (src/Utils/detail/priority_queue.hpp, bits/heap.hh).  Of handles the    *)
(* model has the size and which elements are not null.                     *)
(***************************************************************************)
EXTENDS Integers, Sequences, FiniteSets

CONSTANT MaxOpen   \* bound: descriptors in use at the same time

VARIABLES
  size, used,    \* handles
  descriptors,
  open           \* history: what map has returned and nobody has closed

vars == <<size, used, descriptors, open>>

Index == 0 .. size - 1

Init ==
  /\ size = 0 /\ used = {}
  /\ descriptors = <<>>
  /\ open = {}

-----------------------------------------------------------------------------
(* The queue; the smallest number is on top.                               *)

Swapped(h, i, j) == [h EXCEPT ![i] = h[j], ![j] = h[i]]

\* __push_heap_back: the element at r.at moves up past a larger parent.
Up(r) ==
  IF r.at > 1 /\ r.heap[r.at \div 2] > r.heap[r.at]
  THEN [heap |-> Swapped(r.heap, r.at, r.at \div 2), at |-> r.at \div 2]
  ELSE r
\* It does so until it stays, at the root at the latest.
Rise(h, i) ==
  LET after[k \in 0 .. i] == IF k = 0 THEN [heap |-> h, at |-> i] ELSE Up(after[k - 1])
  IN after[i].heap

Push(h, n) == Rise(Append(h, n), Len(h) + 1)

\* Faulty variant: the right child is never looked at.
LeftChild(h, i) == 2 * i
\* The child that moves up: the left one if it is alone or smaller.
Child(h, i) == IF 2 * i = Len(h) \/ h[2 * i + 1] > h[2 * i] THEN 2 * i ELSE 2 * i + 1

\* __push_heap_front: the element at r.at moves down past a smaller child.
Down(r) ==
  LET c == Child(r.heap, r.at) IN
  IF 2 * r.at <= Len(r.heap) /\ r.heap[r.at] > r.heap[c]
  THEN [heap |-> Swapped(r.heap, r.at, c), at |-> c]
  ELSE r
\* It does so from the root until it stays, at a leaf at the latest.
Sink(h) ==
  LET after[k \in 0 .. Len(h)] == IF k = 0 THEN [heap |-> h, at |-> 1] ELSE Down(after[k - 1])
  IN after[Len(h)].heap

\* pop_heap and pop_back
Pop(h) ==
  LET n == Len(h) IN
  IF n = 1 THEN <<>> ELSE Sink(SubSeq([h EXCEPT ![1] = h[n]], 1, n - 1))

-----------------------------------------------------------------------------
\* newSize is a floating point number: resize cuts it off, and the loop that
\* pushes the new numbers compares with it as it is.
TwiceNewSize(oldSize) == 3 * oldSize + 4
Resized(oldSize) == TwiceNewSize(oldSize) \div 2

\* The numbers from i on that are less than twice / 2.
PushFrom(h, i, twice) ==
  LET end == (twice + 1) \div 2
      after[n \in i .. end] == IF n = i THEN h ELSE Push(after[n - 1], n - 1)
  IN after[end]

\* map takes the smallest free descriptor; expand makes some if there is none.
Map ==
  LET expands == descriptors = <<>>
      queue == IF expands THEN PushFrom(descriptors, size, TwiceNewSize(size)) ELSE descriptors
      index == queue[1]
  IN /\ Cardinality(open) < MaxOpen /\ open \subseteq Index
     /\ size' = IF expands THEN Resized(size) ELSE size
     /\ descriptors' = Pop(queue)
     /\ used' = used \cup ({index} \cap (0 .. size' - 1))
     /\ open' = open \cup {index}

\* unmap, for a descriptor its owner has; closing twice changes nothing.
Unmap(fd) ==
  /\ fd \in open /\ fd \in used
  /\ used' = used \ {fd}
  /\ descriptors' = Push(descriptors, fd)
  /\ open' = open \ {fd}
  /\ UNCHANGED size

\* reset, when the owner of the table is cleaned up.
Reset ==
  /\ size > 0
  /\ size' = 0 /\ used' = {}
  /\ descriptors' = <<>>
  /\ open' = {}

Next == Map \/ Reset \/ \E fd \in open : Unmap(fd)

Spec == Init /\ [][Next]_vars

-----------------------------------------------------------------------------
TypeOK ==
  /\ size \in Nat /\ used \subseteq Index
  /\ descriptors \in Seq(Nat)
  /\ open \subseteq Nat

\* Through every order of opening, closing and growing, the queue holds the
\* free descriptors, each once, with the smallest on top: map never hands out
\* one that is in use and never forgets one that was closed.
LowestFree ==
  /\ \A i, j \in DOMAIN descriptors : descriptors[i] = descriptors[j] => i = j
  /\ {descriptors[i] : i \in DOMAIN descriptors} \cap Index = Index \ used
  /\ \A i \in DOMAIN descriptors : descriptors[1] <= descriptors[i]
  /\ used = open \cap Index

\* The assertion unmap and resolve start with (lines 162 and 193) holds for
\* every descriptor map has returned.
RangeAssertion == \A fd \in open : fd < size
=============================================================================
