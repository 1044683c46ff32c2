-------------------------------- MODULE RBTree --------------------------------
(***************************************************************************)
(* RBTree (src/Utils/detail/RBTree.hpp), the tree under Utils::map and     *)
(* Utils::set: insertion with its rebalancing, erasure, copies and the     *)
(* walk of the iterators.                                                  *)
(*                                                                         *)
(* A node is its key.  The tree is one record of pointers, so that the     *)
(* code's steps on it are functions of it.  A pointer to a node that was   *)
(* freed is Gone; the first use of one, a failed ASSERT and a walk that    *)
(* does not end stop the model, with the reason in tree.fault.             *)
(***************************************************************************)
EXTENDS Integers, FiniteSets, Sequences

CONSTANTS
  Keys,   \* bound: the keys 1 .. Keys
  Erases  \* bound: calls of erase between two of clear

Key  == 1 .. Keys
Nil  == 0
Gone == -1
Sides == {"left", "right"}
Other(s) == IF s = "left" THEN "right" ELSE "left"

VARIABLES
  tree,     \* child pointers, parent, color, size, root, leftmost and fault
  content,  \* the keys put in and not erased since
  erased,   \* calls of erase since the tree was made or cleared ...
  thin      \* ... and did none of them erase the root or a node with two children?

vars == <<tree, content, erased, thin>>

TypeOK ==
  /\ tree.child \in [Sides -> [Key -> Key \cup {Nil}]]
  /\ tree.parent \in [Key -> Key \cup {Nil, Gone}]
  /\ tree.color \in [Key -> {"red", "black"}]
  /\ tree.size \in [Key -> Nat]
  /\ {tree.root, tree.leftmost} \subseteq Key \cup {Nil}
  /\ content \subseteq Key /\ erased \in 0 .. Erases /\ thin \in BOOLEAN

Empty ==
  [child |-> [s \in Sides |-> [k \in Key |-> Nil]],
   parent |-> [k \in Key |-> Nil], color |-> [k \in Key |-> "red"],
   size |-> [k \in Key |-> 0], root |-> Nil, leftmost |-> Nil, fault |-> "none"]

Init == tree = Empty /\ content = {} /\ erased = 0 /\ thin = TRUE

-----------------------------------------------------------------------------
Left(t, n) == t.child["left"][n]
Right(t, n) == t.child["right"][n]
SizeAt(t, n) == IF n = Nil THEN 0 ELSE t.size[n]
Exact(t, n) == 1 + SizeAt(t, Left(t, n)) + SizeAt(t, Right(t, n))
Fail(t, why) == [t EXCEPT !.fault = IF @ = "none" THEN why ELSE @]

SideOf(t, p, n) == IF Left(t, p) = n THEN "left" ELSE "right"
Sibling(t, n) == t.child[Other(SideOf(t, t.parent[n], n))][t.parent[n]]

\* Go down one side as far as it goes.
RECURSIVE Lowermost(_, _, _)
Lowermost(t, n, left) ==
  IF left = 0 \/ Left(t, n) = Nil THEN n ELSE Lowermost(t, Left(t, n), left - 1)
Leftmost(t) == IF t.root = Nil THEN Nil ELSE Lowermost(t, t.root, Keys)

\* The walk of find and findCreate: the node with key k, else the one to hang it
\* under, else Gone when the walk does not end.
RECURSIVE Seek(_, _, _, _)
Seek(t, n, k, left) ==
  LET down == t.child[IF k < n THEN "left" ELSE "right"][n]
  IN IF n = k THEN k
     ELSE IF left = 0 THEN Gone
     ELSE IF down = Nil THEN n ELSE Seek(t, down, k, left - 1)
Finds(t, k) == t.root # Nil /\ Seek(t, t.root, k, Keys) = k
Found(t) == {k \in Key : Finds(t, k)}

-----------------------------------------------------------------------------
\* rotateLeft and rotateRight: n goes down to side s, its other child rep takes
\* its place.  parent->left == this is tested first.
Rotate(t, n, s) ==
  LET o   == Other(s)
      rep == t.child[o][n]
      p   == t.parent[n]
      in  == t.child[s][rep]
      linked == IF p = Nil THEN t.child
                ELSE [t.child EXCEPT ![SideOf(t, p, n)][p] = rep]
      moved == [t EXCEPT
        !.child = [linked EXCEPT ![o][n] = in, ![s][rep] = n],
        !.parent = [m \in Key |-> CASE m = n -> rep [] m = rep -> p
                                    [] m \in {in, t.child[s][n]} -> n
                                    [] OTHER -> @[m]]]
      sized == [moved EXCEPT !.size[n] = Exact(moved, n)]
  IN IF rep = Nil THEN t
     ELSE IF p = Gone THEN Fail(t, "freed")
     ELSE IF p # Nil /\ n \notin {Left(t, p), Right(t, p)} THEN Fail(t, "assert")
     ELSE [sized EXCEPT !.size[rep] = Exact(sized, rep)]

\* Faulty variant: the node stays where it is.
NoFirstTurn(t, n, p, g) == t
\* An inner grandchild first changes places with its parent.
FirstTurn(t, n, p, g) ==
  CASE Left(t, g) # Nil /\ Right(t, Left(t, g)) = n -> Rotate(t, p, "left")
    [] Right(t, g) # Nil /\ Left(t, Right(t, g)) = n -> Rotate(t, p, "right")
    [] OTHER -> t

\* The last part of rebalance: red node under red parent, black uncle.
Turn(t, n, p, g) ==
  LET first == FirstTurn(t, n, p, g)
      m     == IF first.parent[p] = n THEN p ELSE n   \* the lower of the two
      q     == first.parent[m]
      turned == Rotate(first, g, IF m = Left(first, q) THEN "right" ELSE "left")
  IN IF turned.fault # "none" THEN turned
     ELSE [turned EXCEPT !.color = [@ EXCEPT ![q] = "black", ![g] = "red"]]

\* Faulty variant: the grandparent left as it is.
OnlyRecoloured(t, p, u, g) ==
  [t EXCEPT !.color = [@ EXCEPT ![p] = "black", ![u] = "black"]]
Recoloured(t, p, u, g) ==
  [t EXCEPT !.color = [@ EXCEPT ![p] = "black", ![u] = "black", ![g] = "red"]]

RECURSIVE Rebalance(_, _)
Rebalance(t, n) ==
  LET p == t.parent[n]
      g == t.parent[p]
      u == Sibling(t, p)
  IN IF t.fault # "none" THEN t
     ELSE IF p = Nil THEN [t EXCEPT !.color[n] = "black"]
     ELSE IF p = Gone THEN Fail(t, "freed")
     ELSE IF t.color[p] = "black" THEN t
     ELSE IF g = Gone THEN Fail(t, "freed")
     ELSE IF g = Nil THEN Fail(t, "assert")
     ELSE IF u # Nil /\ t.color[u] = "red"
       THEN Rebalance(Recoloured(t, p, u, g), g)
     ELSE Turn(t, n, p, g)

-----------------------------------------------------------------------------
\* create: every node above the new one counts it, ...
RECURSIVE Grow(_, _, _)
Grow(t, n, left) ==
  IF n = Nil THEN t
  ELSE IF n = Gone THEN Fail(t, "freed")
  ELSE IF left = 0 THEN Fail(t, "endless")
  ELSE Grow([t EXCEPT !.size[n] = @ + 1], t.parent[n], left - 1)

Side(p, k) == IF k < p THEN "left" ELSE "right"
New(t, p, k) ==
  [t EXCEPT !.color[k] = "red", !.size[k] = 1, !.parent[k] = p]
Hung(t, p, k) ==
  IF p = Nil THEN [New(t, p, k) EXCEPT !.root = k]
  ELSE Grow([New(t, p, k) EXCEPT !.child[Side(p, k)][p] = k], p, Keys)

\* ... the root is looked for upwards, ...
RECURSIVE Top(_, _, _)
Top(t, n, left) ==
  IF t.parent[n] = Nil THEN [t EXCEPT !.root = n]
  ELSE IF t.parent[n] = Gone THEN Fail(t, "freed")
  ELSE IF left = 0 THEN Fail(t, "endless")
  ELSE Top(t, t.parent[n], left - 1)

\* Faulty variant: leftmost is not moved.
Unmoved(t, p) == IF t.leftmost = Nil THEN Leftmost(t) ELSE t.leftmost
\* ... leftmost moves when the new node hangs below it, ...
NewLeftmost(t, p) ==
  IF t.leftmost = Nil THEN Leftmost(t)
  ELSE IF p = t.leftmost /\ Left(t, p) # Nil THEN Left(t, p)
  ELSE t.leftmost

\* ... and the link the node was hung on must have an exact size.
Checked(t, p, link) ==
  IF t.fault # "none" THEN t
  ELSE IF link # Nil /\ t.size[link] # Exact(t, link) THEN Fail(t, "assert")
  ELSE [t EXCEPT !.leftmost = NewLeftmost(t, p)]

\* The tree with its root looked for, when node k was hung under p.
Rooted(t, p, k) ==
  Checked(t, p, IF p = Nil THEN t.root ELSE t.child[Side(p, k)][p])
Raised(t) == IF t.fault # "none" THEN t ELSE Top(t, t.root, Keys)
Created(t, p, k) == Rooted(Raised(Rebalance(Hung(t, p, k), k)), p, k)

\* The nodes that can be come by through any pointer but those of node k.
RECURSIVE Linked(_, _, _)
Linked(t, ns, k) ==
  LET more == ns \cup UNION {{Left(t, n), Right(t, n), t.parent[n]} : n \in ns}
      next == (more \cap Key) \ {k}
  IN IF next = ns THEN ns ELSE Linked(t, next, k)

\* map::operator[] and set::insert.  Bound: a second node for the key of one
\* that hangs above the root, where find does not look, is beyond the model.
Insert(k) ==
  LET p == IF tree.root = Nil THEN Nil ELSE Seek(tree, tree.root, k, Keys)
  IN /\ tree.fault = "none" /\ p # k
     /\ tree' = IF p = Gone THEN Fail(tree, "endless")
                ELSE IF k \in Linked(tree, {tree.root} \cap Key, Nil)
                  THEN Fail(tree, "second node")
                ELSE Created(tree, p, k)
     /\ content' = content \cup {k}
     /\ UNCHANGED <<erased, thin>>

-----------------------------------------------------------------------------
\* while (base->rotateRight()) ;
RECURSIVE Sink(_, _, _)
Sink(t, b, left) ==
  IF t.fault # "none" \/ Left(t, b) = Nil THEN t
  ELSE IF left = 0 THEN Fail(t, "endless")
  ELSE Sink(Rotate(t, b, "right"), b, left - 1)

\* Faulty variant: the parent not set.
OnlyCounted(t, b) == [t EXCEPT !.size[b] = Exact(t, b)]
\* The end of deleteNode: b takes its children back and is counted again.
Adopted(t, b) ==
  [t EXCEPT !.size[b] = Exact(t, b),
            !.parent = [m \in Key |-> IF m \in {Left(t, b), Right(t, b)} THEN b
                                      ELSE @[m]]]

\* Faulty variant: the wrong child of a node that has one.
LeftChild(t, b) == Left(t, b)
\* What takes the place of an erased node with a child at most.
OnlyChild(t, b) == IF Left(t, b) = Nil THEN Right(t, b) ELSE Left(t, b)

\* deleteNode: the tree, and the node that takes the place of b.  For a node
\* with two children the test nBase < 0 of a null pointer is never true: only a
\* right child is looked up again after the rotations.
RECURSIVE DeleteNode(_, _, _, _)
DeleteNode(t, b, k, left) ==
  LET p     == t.parent[b]
      side  == IF p = Nil THEN "none" ELSE SideOf(t, p, b)
      sunk  == Sink(t, b, Keys)
      rest  == DeleteNode(sunk, IF side = "right" THEN Right(sunk, p) ELSE Nil,
                          k, left - 1)
      below == IF k < b THEN "left" ELSE "right"
      inner == DeleteNode(t, t.child[below][b], k, left - 1)
      taken == [inner[1] EXCEPT !.child[below][b] = inner[2]]
  IN IF b = Nil \/ t.fault # "none" THEN <<t, b>>
     ELSE IF left = 0 THEN <<Fail(t, "endless"), b>>
     ELSE IF b # k THEN <<Adopted(taken, b), b>>
     ELSE IF Nil \in {Left(t, b), Right(t, b)} THEN <<t, OnlyChild(t, b)>>
     ELSE IF p = Gone THEN <<Fail(t, "freed"), b>>
     ELSE <<IF rest[2] = Nil THEN rest[1] ELSE Rebalance(rest[1], rest[2]),
            rest[2]>>

\* Only the nodes ns are left; a pointer to the freed node k is Gone.
Only(t, ns, k) ==
  [t EXCEPT
    !.child = [s \in Sides |-> [n \in Key |-> IF n \in ns THEN @[s][n] ELSE Nil]],
    !.parent = [n \in Key |-> IF n \notin ns THEN Nil
                              ELSE IF @[n] = k /\ k # Nil THEN Gone ELSE @[n]],
    !.color = [n \in Key |-> IF n \in ns THEN @[n] ELSE "red"],
    !.size = [n \in Key |-> IF n \in ns THEN @[n] ELSE 0]]

\* recalcLeftmost.  Nodes nobody can come by are as good as not there.
Settled(t, k) ==
  LET kept  == Only(t, Linked(t, {t.root} \cap Key, k), k)
      first == Leftmost(kept)
  IN IF first # Nil /\ Left(kept, first) # Nil THEN Fail(kept, "endless")
     ELSE [kept EXCEPT !.leftmost = first]

\* map::erase.
Erase(k) ==
  LET freed   == IF Finds(tree, k) THEN k ELSE Nil
      deleted == DeleteNode(tree, tree.root, k, 2 * Keys)
  IN /\ tree.fault = "none" /\ tree.root # Nil /\ erased < Erases
     /\ tree' = Settled([deleted[1] EXCEPT !.root = deleted[2]], freed)
     /\ content' = content \ {k}
     /\ erased' = erased + 1
     /\ thin' = /\ thin
                /\ freed # Nil => /\ k # tree.root
                                  /\ Nil \in {Left(tree, k), Right(tree, k)}

\* The nodes under the root.
RECURSIVE Under(_, _)
Under(t, ns) ==
  LET next == ns \cup UNION {{Left(t, n), Right(t, n)} \cap Key : n \in ns}
  IN IF next = ns THEN ns ELSE Under(t, next)

\* The nodes under the root that hold a pointer to n, and is a node reached by
\* two ways?
Parents(t, n) ==
  {m \in Under(t, {t.root}) : n \in {Left(t, m), Right(t, m)}}
Tangled(t) ==
  \/ Parents(t, t.root) # {}
  \/ \E n \in Under(t, {t.root}) : Cardinality(Parents(t, n)) > 1

\* A copy of a map: clone makes each node anew and sets its parent.  A node
\* reached by two ways is copied twice, or without end.  The copy of a map that
\* erasures have emptied is as empty; a map that was never used has no tree, and
\* copying it calls clone through a null pointer, which is left out.
Cloned(t) ==
  [t EXCEPT !.parent = [n \in Key |->
     IF Parents(t, n) # {} THEN CHOOSE m \in Parents(t, n) : TRUE ELSE Nil]]
Copy ==
  /\ tree.fault = "none" /\ tree.root # Nil
  /\ tree' = IF Tangled(tree) THEN Fail(tree, "endless")
             ELSE Settled(Cloned(tree), Nil)
  /\ UNCHANGED <<content, erased, thin>>

\* map::clear: a node reached by two ways is freed twice.
Clear ==
  /\ tree.fault = "none" /\ tree.root # Nil
  /\ IF Tangled(tree)
       THEN tree' = Fail(tree, "freed") /\ UNCHANGED <<content, erased, thin>>
       ELSE tree' = Empty /\ content' = {} /\ erased' = 0 /\ thin' = TRUE

Next == Copy \/ Clear \/ \E k \in Key : Insert(k) \/ Erase(k)

Spec == Init /\ [][Next]_vars

-----------------------------------------------------------------------------
\* iterator_increment.
RECURSIVE Climb(_, _)
Climb(t, n) ==
  LET p == t.parent[n]
  IN IF p \in Key /\ n = Right(t, p) THEN Climb(t, p) ELSE n

\* Faulty variant: the node to the right, not the lowest there.
JustRight(t, n) == Right(t, n)
NextBelow(t, n) == Lowermost(t, Right(t, n), Keys)
Increment(t, n) ==
  LET up  == Climb(t, n)
      nxt == IF Right(t, up) # t.parent[up] THEN t.parent[up] ELSE up
  IN IF Right(t, n) # Nil THEN NextBelow(t, n)
     ELSE IF nxt = n THEN Nil ELSE nxt

\* A walk ends where it meets a freed node.
RECURSIVE Walk(_, _, _)
Walk(t, n, left) ==
  IF n \notin Key \/ left = 0 THEN <<>> ELSE <<n>> \o Walk(t, Increment(t, n), left - 1)

\* As long as no root and no node with two children was erased, the tree is the
\* set of the keys put in and not erased (findCreate, create, deleteNode):
\* each is found, an iterator meets them in order, size counts them.
TreeIsSet ==
  thin =>
    /\ tree.fault = "none" /\ Found(tree) = content
    /\ Walk(tree, tree.leftmost, Keys + 1) =
         SelectSeq([i \in Key |-> i], LAMBDA k : k \in content)
    /\ SizeAt(tree, tree.root) = Cardinality(content)

\* As long as nothing was erased the tree is balanced (rebalance): no red node
\* has a red child, and all ways down meet as many black ones.
RECURSIVE BlackHeights(_, _)
BlackHeights(t, n) ==
  IF n = Nil THEN {0}
  ELSE {h + (IF t.color[n] = "black" THEN 1 ELSE 0) :
          h \in BlackHeights(t, Left(t, n)) \cup BlackHeights(t, Right(t, n))}
Balanced ==
  erased = 0 =>
    /\ Cardinality(BlackHeights(tree, tree.root)) = 1
    /\ \A n \in content, s \in Sides :
         LET c == tree.child[s][n]
         IN ~(c # Nil /\ tree.color[n] = "red" /\ tree.color[c] = "red")

\* A key that was put in and not erased is found (the test of map erases the
\* keys one after the other and counts each of the others).
KeysKept == tree.fault = "none" => content \subseteq Found(tree)
=============================================================================
