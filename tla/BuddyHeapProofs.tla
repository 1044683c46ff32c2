--------------------------- MODULE BuddyHeapProofs ---------------------------
(***************************************************************************)
(* The buddy heap for every height of the tree and every set of sizes: the *)
(* leaves tile the heap, the flags of inner nodes are exact, the blocks in *)
(* use are the full leaves, and a heap of equal blocks never refuses one   *)
(* while the bytes for it are there, whatever was split and merged before. *)
(*                                                                         *)
(* The proofs look at the tree from an address: the nodes that cover it    *)
(* are one of each order, and from the root down to the leaf they are in   *)
(* the tree.                                                               *)
(***************************************************************************)
EXTENDS BuddyHeap, FiniteSetTheorems, WellFoundedInduction, TLAPS

Constants == OrderAssumption /\ RequestAssumption /\ PowerAssumption

-----------------------------------------------------------------------------
\* A set of numbers that is not empty has a least one.
LEMMA Smallest ==
  ASSUME NEW T \in SUBSET Nat, T # {}
  PROVE  \E x \in T : \A y \in T : x <= y
<1> DEFINE R == OpToRel(<, Nat)
<1>1. PICK x \in T : \A y \in T : <<y, x>> \notin R
  <2>1. IsWellFoundedOn(R, Nat) BY NatLessThanWellFounded
  <2> HIDE DEF R
  <2> QED BY <2>1, WFMin
<1>2. \A y \in T : ~ (y < x) BY <1>1 DEF OpToRel
<1> QED BY <1>2

-----------------------------------------------------------------------------
\* Division, and what it says of multiples of b.
LEMMA Division ==
  ASSUME NEW a \in Nat, NEW b \in Nat \ {0}
  PROVE  /\ a % b \in 0 .. b - 1 /\ a \div b \in Nat
         /\ a = (b * (a \div b)) + (a % b)
OBVIOUS

LEMMA Remainder ==
  ASSUME NEW b \in Nat \ {0}, NEW q \in Nat, NEW r \in 0 .. b - 1
  PROVE  ((b * q) + r) % b = r
OBVIOUS

LEMMA Multiple ==
  ASSUME NEW b \in Nat \ {0}, NEW q \in Nat
  PROVE  (b * q) % b = 0
<1> ((b * q) + 0) % b = 0 BY Remainder
<1> QED OBVIOUS

LEMMA Quotient ==
  ASSUME NEW b \in Nat \ {0}, NEW x \in Nat, x % b = 0
  PROVE  \E q \in Nat : x = b * q
<1>1. x \div b \in Nat /\ x = (b * (x \div b)) + (x % b) BY Division
<1>2. x = b * (x \div b) BY <1>1
<1> QED BY <1>1, <1>2

\* The multiple at or below a number.
LEMMA RoundedDown ==
  ASSUME NEW a \in Nat, NEW b \in Nat \ {0}
  PROVE  /\ a - (a % b) \in Nat /\ (a - (a % b)) % b = 0
         /\ a - (a % b) <= a /\ a < (a - (a % b)) + b
<1>1. /\ a \div b \in Nat /\ a % b \in 0 .. b - 1
      /\ a = (b * (a \div b)) + (a % b)
  BY Division
<1>2. a - (a % b) = b * (a \div b) BY <1>1
<1>3. (b * (a \div b)) % b = 0 BY <1>1, Multiple
<1> QED BY <1>1, <1>2, <1>3

\* Two multiples are at least b apart.
LEMMA Apart ==
  ASSUME NEW b \in Nat \ {0}, NEW x \in Nat, NEW y \in Nat,
         x % b = 0, y % b = 0, x < y
  PROVE  x + b <= y
<1>1. PICK p \in Nat : x = b * p BY Quotient
<1>2. PICK q \in Nat : y = b * q BY Quotient
<1>3. p < q BY <1>1, <1>2
<1>4. b * (p + 1) <= b * q BY <1>3
<1> QED BY <1>1, <1>2, <1>4

\* So the one at or below a number is the only one so close to it.
LEMMA OnlyMultiple ==
  ASSUME NEW b \in Nat \ {0}, NEW x \in Nat, NEW a \in Nat,
         x % b = 0, x <= a, a < x + b
  PROVE  x = a - (a % b)
<1> DEFINE y == a - (a % b)
<1>1. y \in Nat /\ y % b = 0 /\ y <= a /\ a < y + b BY RoundedDown
<1> HIDE DEF y
<1>2. ASSUME x < y PROVE FALSE
  <2>1. x + b <= y BY <1>1, <1>2, Apart
  <2> QED BY <2>1, <1>1
<1>3. ASSUME y < x PROVE FALSE
  <2>1. y + b <= x BY <1>1, <1>3, Apart
  <2> QED BY <2>1, <1>1
<1>4. x = y BY <1>1, <1>2, <1>3
<1> QED BY <1>4 DEF y

\* Halving: multiples of 2b and those of b between them.
LEMMA Halves ==
  ASSUME NEW b \in Nat \ {0}, NEW x \in Nat, x % (2 * b) = 0
  PROVE  x % b = 0 /\ (x + b) % b = 0 /\ (x + b) % (2 * b) = b
<1>0. 2 * b \in Nat \ {0} /\ b \in 0 .. (2 * b) - 1 OBVIOUS
<1>1. PICK p \in Nat : x = (2 * b) * p BY <1>0, Quotient
<1>2. x = b * (2 * p) /\ x + b = b * ((2 * p) + 1) BY <1>1
<1>3. (b * (2 * p)) % b = 0 BY Multiple, 2 * p \in Nat
<1>4. (b * ((2 * p) + 1)) % b = 0 BY Multiple, (2 * p) + 1 \in Nat
<1>5. (((2 * b) * p) + b) % (2 * b) = b BY <1>0, Remainder
<1> QED BY <1>1, <1>2, <1>3, <1>4, <1>5

-----------------------------------------------------------------------------
\* The powers of two up to the size of the heap.
LEMMA Powers ==
  ASSUME Constants
  PROVE  /\ Highest \in Nat /\ Lowest \in Nat /\ 0 < Lowest /\ Lowest < Highest
         /\ 2 ^ 0 = 1
         /\ \A k \in 0 .. Highest - 1 : 2 ^ (k + 1) = 2 * 2 ^ k
BY DEF Constants, OrderAssumption, PowerAssumption

LEMMA PowerType ==
  ASSUME Constants
  PROVE  \A k \in 0 .. Highest : 2 ^ k \in Nat \ {0}
<1> DEFINE Bad == {k \in 0 .. Highest : 2 ^ k \notin Nat \ {0}}
<1> SUFFICES ASSUME Bad # {} PROVE FALSE OBVIOUS
<1>0. Bad \in SUBSET Nat BY Powers
<1>1. PICK k \in Bad : \A l \in Bad : k <= l
  <2> HIDE DEF Bad
  <2> QED BY <1>0, Smallest
<1>2. k # 0
  <2>1. k \in 0 .. Highest /\ 2 ^ k \notin Nat \ {0} BY <1>1
  <2>2. 2 ^ 0 \in Nat \ {0} BY Powers
  <2> QED BY <2>1, <2>2, Zenon
<1>3. k - 1 \in 0 .. Highest - 1 /\ (k - 1) + 1 = k BY <1>1, <1>2, Powers
<1>4. 2 ^ (k - 1) \in Nat \ {0}
  <2>1. k - 1 \notin Bad BY <1>1, <1>3
  <2>2. k - 1 \in 0 .. Highest BY <1>3, Powers
  <2> QED BY <2>1, <2>2, Zenon
<1>5. 2 ^ k = 2 * 2 ^ (k - 1) BY <1>3, Powers
<1> QED BY <1>1, <1>4, <1>5

LEMMA PowerMonotone ==
  ASSUME Constants, NEW i \in 0 .. Highest, NEW j \in i .. Highest
  PROVE  2 ^ i <= 2 ^ j
<1> DEFINE Bad == {k \in i .. Highest : ~ (2 ^ i <= 2 ^ k)}
<1> SUFFICES ASSUME Bad # {} PROVE FALSE OBVIOUS
<1>0. Bad \in SUBSET Nat BY Powers
<1>1. PICK k \in Bad : \A l \in Bad : k <= l
  <2> HIDE DEF Bad
  <2> QED BY <1>0, Smallest
<1>2. k # i BY <1>1, Powers, PowerType
<1>3. k - 1 \in 0 .. Highest - 1 /\ k - 1 \in i .. Highest /\ (k - 1) + 1 = k
  BY <1>1, <1>2, Powers
<1>4. 2 ^ i <= 2 ^ (k - 1) BY <1>1, <1>3
<1>5. 2 ^ k = 2 * 2 ^ (k - 1) BY <1>3, Powers
<1>6. 2 ^ (k - 1) \in Nat /\ 2 ^ i \in Nat BY <1>3, PowerType, Powers
<1> QED BY <1>1, <1>4, <1>5, <1>6

\* A multiple of a power is one of each lower power.
LEMMA Aligned ==
  ASSUME Constants, NEW i \in 0 .. Highest, NEW j \in i .. Highest,
         NEW a \in Nat, a % (2 ^ j) = 0
  PROVE  a % (2 ^ i) = 0
<1> DEFINE Bad == {k \in i .. Highest : a % (2 ^ k) = 0 /\ a % (2 ^ i) # 0}
<1> SUFFICES ASSUME Bad # {} PROVE FALSE OBVIOUS
<1>0. Bad \in SUBSET Nat BY Powers
<1>1. PICK k \in Bad : \A l \in Bad : k <= l
  <2> HIDE DEF Bad
  <2> QED BY <1>0, Smallest
<1>2. k # i BY <1>1
<1>3. k - 1 \in 0 .. Highest - 1 /\ k - 1 \in i .. Highest /\ (k - 1) + 1 = k
  BY <1>1, <1>2, Powers
<1>4. 2 ^ k = 2 * 2 ^ (k - 1) /\ 2 ^ (k - 1) \in Nat \ {0}
  BY <1>3, Powers, PowerType
<1>5. a % (2 ^ (k - 1)) = 0
  <2>1. a % (2 * 2 ^ (k - 1)) = 0 BY <1>1, <1>4
  <2> HIDE DEF Bad
  <2> QED BY <2>1, <1>4, Halves
<1> QED BY <1>1, <1>3, <1>5

-----------------------------------------------------------------------------
\* The node of an order over an address.  Every node is the one of its order
\* over each address it covers.
Over(a, k) == <<k, a - (a % (2 ^ k))>>
Order == Lowest .. Highest

LEMMA Orders ==
  ASSUME Constants
  PROVE  /\ Order \subseteq Nat /\ Order \subseteq 0 .. Highest
         /\ Highest \in Order /\ Lowest \in Order
         /\ \A k \in Order : k # Highest => k + 1 \in Order /\ k + 1 # Lowest
         /\ \A k \in Order : k # Lowest => k - 1 \in Order /\ (k - 1) + 1 = k
BY Powers DEF Order

LEMMA SizeType ==
  ASSUME Constants
  PROVE  Address \subseteq Nat /\ 2 ^ Highest \in Nat \ {0}
BY Powers, PowerType, Orders DEF Address

LEMMA NodeType ==
  ASSUME Constants
  PROVE  \A n : n \in Node <=> /\ n = <<n[1], n[2]>> /\ n[1] \in Order
                               /\ n[2] \in Address /\ n[2] % (2 ^ n[1]) = 0
BY DEF Node, Order

LEMMA MakesNode ==
  ASSUME Constants, NEW k \in Order, NEW s \in Address, s % (2 ^ k) = 0
  PROVE  <<k, s>> \in Node
BY DEF Node, Order

LEMMA OverIsNode ==
  ASSUME Constants, NEW a \in Address, NEW k \in Order
  PROVE  /\ Over(a, k) \in Node
         /\ Over(a, k)[1] = k
         /\ Over(a, k)[2] \in Address
         /\ Over(a, k)[2] <= a /\ a < Over(a, k)[2] + 2 ^ k
         /\ a \in Covers(Over(a, k))
<1> DEFINE s == a - (a % (2 ^ k))
<1>1. a \in Nat /\ 2 ^ k \in Nat \ {0} BY SizeType, PowerType, Orders
<1>2. s \in Nat /\ s % (2 ^ k) = 0 /\ s <= a /\ a < s + 2 ^ k
  BY <1>1, RoundedDown
<1>3. Over(a, k) = <<k, s>> BY DEF Over
<1> HIDE DEF s
<1>4. s \in Address BY <1>1, <1>2, SizeType DEF Address
<1>5. <<k, s>> \in Node BY <1>2, <1>4, MakesNode
<1>6. a \in Covers(<<k, s>>) BY <1>1, <1>2 DEF Covers
<1> QED BY <1>2, <1>3, <1>4, <1>5, <1>6

LEMMA CoveredIsOver ==
  ASSUME Constants, NEW n \in Node, NEW a \in Covers(n)
  PROVE  a \in Address /\ Over(a, n[1]) = n
<1>1. /\ n = <<n[1], n[2]>> /\ n[1] \in Order /\ n[2] \in Address
      /\ n[2] % (2 ^ n[1]) = 0
  BY NodeType
<1>2. n[2] \in Nat /\ 2 ^ n[1] \in Nat \ {0} /\ n[1] \in 0 .. Highest
  BY <1>1, SizeType, PowerType, Orders
<1>3. a \in Nat /\ n[2] <= a /\ a < n[2] + 2 ^ n[1] BY <1>2 DEF Covers
<1>4. n[2] = a - (a % (2 ^ n[1])) BY <1>1, <1>2, <1>3, OnlyMultiple
<1>5. n[2] + 2 ^ n[1] <= 2 ^ Highest
  <2>1. 2 ^ Highest = ((2 ^ Highest) * 1) + 0 /\ (2 ^ Highest) % (2 ^ Highest) = 0
    BY SizeType, Multiple, 1 \in Nat
  <2>2. (2 ^ Highest) % (2 ^ n[1]) = 0
    <3>1. Highest \in n[1] .. Highest /\ 2 ^ Highest \in Nat
      BY <1>2, SizeType, Powers
    <3> QED BY <3>1, <2>1, <1>2, Aligned
  <2>3. n[2] < 2 ^ Highest BY <1>1, SizeType DEF Address
  <2> QED BY <1>1, <1>2, <2>2, <2>3, SizeType, Apart
<1>6. a \in Address BY <1>2, <1>3, <1>5, SizeType DEF Address
<1> QED BY <1>1, <1>4, <1>6 DEF Over

LEMMA CoversStart ==
  ASSUME Constants, NEW n \in Node
  PROVE  n[2] \in Covers(n) /\ n[2] \in Address /\ n[1] \in Order
<1>1. n[1] \in Order /\ n[2] \in Address BY NodeType
<1>2. n[2] \in Nat /\ 2 ^ n[1] \in Nat \ {0} BY <1>1, SizeType, PowerType, Orders
<1> QED BY <1>1, <1>2 DEF Covers

LEMMA OverRoot ==
  ASSUME Constants
  PROVE  Root \in Node /\ \A a \in Address : Over(a, Highest) = Root
<1>1. 0 % (2 ^ Highest) = 0 /\ 0 \in Address BY SizeType DEF Address
<1>2. Root \in Node BY <1>1, Orders, MakesNode DEF Root
<1>3. ASSUME NEW a \in Address PROVE a \in Covers(Root)
  BY SizeType DEF Covers, Root, Address
<1>4. ASSUME NEW a \in Address PROVE Over(a, Highest) = Root
  <2>1. Over(a, Root[1]) = Root BY <1>2, <1>3, CoveredIsOver
  <2> QED BY <2>1 DEF Root
<1> QED BY <1>2, <1>4

\* Nodes over the same address contain one another.
LEMMA OverOver ==
  ASSUME Constants, NEW a \in Address, NEW i \in Order, NEW j \in Order, i <= j
  PROVE  Over(Over(a, i)[2], j) = Over(a, j)
<1> DEFINE s == Over(a, i)[2]
           n == Over(a, j)
<1>1. /\ s \in Address /\ s <= a /\ a < s + 2 ^ i /\ s % (2 ^ i) = 0
  BY OverIsNode, NodeType
<1>2. /\ n \in Node /\ n[1] = j /\ n[2] \in Address /\ n[2] <= a
      /\ a < n[2] + 2 ^ j /\ n[2] % (2 ^ j) = 0
  BY OverIsNode, NodeType
<1> HIDE DEF s, n
<1>3. /\ s \in Nat /\ n[2] \in Nat /\ a \in Nat
      /\ 2 ^ i \in Nat \ {0} /\ 2 ^ j \in Nat \ {0}
      /\ i \in 0 .. Highest /\ j \in i .. Highest
  <2>1. i \in 0 .. Highest /\ j \in 0 .. Highest BY Orders
  <2>2. 2 ^ i \in Nat \ {0} /\ 2 ^ j \in Nat \ {0} BY <2>1, PowerType
  <2>3. s \in Nat /\ n[2] \in Nat /\ a \in Nat BY <1>1, <1>2, SizeType
  <2> QED BY <2>1, <2>2, <2>3, Powers
<1>4. n[2] % (2 ^ i) = 0 BY <1>2, <1>3, Aligned
<1>5. ~ (s < n[2])
  <2> SUFFICES ASSUME s < n[2] PROVE FALSE OBVIOUS
  <2>1. s + 2 ^ i <= n[2] BY <1>1, <1>3, <1>4, Apart
  <2> QED BY <2>1, <1>1, <1>2, <1>3
<1>6. s \in Covers(n) BY <1>1, <1>2, <1>3, <1>5 DEF Covers
<1>7. Over(s, n[1]) = n BY <1>2, <1>6, CoveredIsOver
<1> QED BY <1>2, <1>7 DEF s, n

-----------------------------------------------------------------------------
\* The children of a node are nodes, and over each of its addresses there is
\* one of them.
LEMMA Children ==
  ASSUME Constants, NEW m \in Node, m[1] > Lowest
  PROVE  /\ Left(m) \in Node /\ Right(m) \in Node
         /\ Left(m)[1] = m[1] - 1 /\ Right(m)[1] = m[1] - 1
         /\ m[1] - 1 \in Order
         /\ Left(m)[2] = m[2] /\ Right(m)[2] = m[2] + 2 ^ (m[1] - 1)
         /\ Left(m) # Right(m)
         /\ Covers(m) = Covers(Left(m)) \cup Covers(Right(m))
         /\ Right(m)[2] % (2 ^ m[1]) # 0
<1> DEFINE k == m[1]
           b == 2 ^ (k - 1)
<1>1. m = <<k, m[2]>> /\ k \in Order /\ m[2] \in Address /\ m[2] % (2 ^ k) = 0
  BY NodeType
<1>2. k - 1 \in Order /\ k # Lowest /\ (k - 1) + 1 = k
  BY <1>1, Orders, Powers DEF Order
<1>3. k - 1 \in 0 .. Highest - 1 BY <1>1, <1>2, Powers DEF Order
<1>4. 2 ^ k = 2 * b BY <1>2, <1>3, Powers
<1>5. b \in Nat \ {0} /\ m[2] \in Nat
  BY <1>1, <1>2, PowerType, Orders, SizeType
<1>6. Left(m) = <<k - 1, m[2]>> /\ Right(m) = <<k - 1, m[2] + b>>
  BY DEF Left, Right
<1> HIDE DEF b
<1>7. m[2] % b = 0 /\ (m[2] + b) % b = 0 /\ (m[2] + b) % (2 * b) = b
  <2>1. m[2] % (2 * b) = 0 BY <1>1, <1>4
  <2> QED BY <2>1, <1>5, Halves
<1>8. m[2] + b \in Address
  <2>1. m[2] + b \in Nat BY <1>5
  <2>2. m[2] + b \in Covers(m) BY <1>4, <1>5 DEF Covers
  <2> QED BY <2>2, CoveredIsOver
<1>9. Left(m) \in Node BY <1>1, <1>2, <1>6, <1>7, MakesNode DEF b
<1>10. Right(m) \in Node BY <1>2, <1>6, <1>7, <1>8, MakesNode DEF b
<1>11. /\ Covers(m) = m[2] .. m[2] + (2 * b) - 1
       /\ Covers(Left(m)) = m[2] .. m[2] + b - 1
       /\ Covers(Right(m)) = m[2] + b .. m[2] + b + b - 1
  BY <1>4, <1>5, <1>6 DEF Covers, b
<1>12. Covers(m) = Covers(Left(m)) \cup Covers(Right(m)) BY <1>5, <1>11
<1>13. (m[2] + b) % (2 ^ k) # 0 BY <1>4, <1>5, <1>7
<1>14. Left(m)[1] = k - 1 /\ Left(m)[2] = m[2] BY <1>6
<1>15. Right(m)[1] = k - 1 /\ Right(m)[2] = m[2] + b BY <1>6
<1>16. Left(m) # Right(m)
  <2>1. m[2] # m[2] + b BY <1>5
  <2> QED BY <2>1, <1>14, <1>15
<1> QED BY <1>2, <1>9, <1>10, <1>12, <1>13, <1>14, <1>15, <1>16 DEF b

LEMMA ChildOver ==
  ASSUME Constants, NEW a \in Address, NEW k \in Order, k # Lowest
  PROVE  Over(a, k - 1) \in {Left(Over(a, k)), Right(Over(a, k))}
<1> DEFINE m == Over(a, k)
<1>1. m \in Node /\ m[1] = k /\ a \in Covers(m) BY OverIsNode
<1>2. m[1] > Lowest BY <1>1, Powers DEF Order
<1> HIDE DEF m
<1>3. /\ Left(m) \in Node /\ Right(m) \in Node
      /\ Left(m)[1] = k - 1 /\ Right(m)[1] = k - 1
      /\ a \in Covers(Left(m)) \cup Covers(Right(m))
  BY <1>1, <1>2, Children
<1> QED BY <1>3, CoveredIsOver DEF m

LEMMA ParentOver ==
  ASSUME Constants, NEW a \in Address, NEW k \in Order, k # Highest
  PROVE  Parent(Over(a, k)) = Over(a, k + 1)
<1>1. k + 1 \in Order /\ k <= k + 1 BY Orders
<1>2. Over(a, k)[1] = k BY OverIsNode
<1>3. Parent(Over(a, k)) = Over(Over(a, k)[2], k + 1) BY <1>2 DEF Parent, Over
<1> QED BY <1>1, <1>3, OverOver

LEMMA ParentOfChild ==
  ASSUME Constants, NEW m \in Node, m[1] > Lowest, NEW c \in {Left(m), Right(m)}
  PROVE  /\ Parent(c) = m /\ c # Root
         /\ Sibling(c) \in {Left(m), Right(m)} /\ Sibling(c) # c
<1>1. /\ c \in Node /\ c[1] = m[1] - 1 /\ c[2] \in Covers(c)
      /\ Covers(c) \subseteq Covers(m) /\ Left(m) # Right(m)
      /\ c[2] \in Address /\ m[1] - 1 \in Order /\ m[1] \in Order
  BY Children, CoversStart
<1>2. c = Over(c[2], m[1] - 1) /\ m = Over(c[2], m[1])
  BY <1>1, CoveredIsOver
<1>3. m[1] - 1 # Highest /\ (m[1] - 1) + 1 = m[1] BY <1>1, Powers DEF Order
<1>4. Parent(c) = m BY <1>1, <1>2, <1>3, ParentOver
<1>5. c # Root BY <1>1, <1>3 DEF Root
<1> QED BY <1>1, <1>4, <1>5 DEF Sibling

LEMMA ChildOfParent ==
  ASSUME Constants, NEW n \in Node, n # Root
  PROVE  /\ n[1] # Highest /\ Parent(n) \in Node
         /\ Parent(n)[1] = n[1] + 1 /\ Parent(n)[1] > Lowest
         /\ n \in {Left(Parent(n)), Right(Parent(n))}
<1>1. n[2] \in Address /\ n[1] \in Order /\ n = Over(n[2], n[1])
  BY CoversStart, CoveredIsOver
<1>2. n[1] # Highest BY <1>1, OverRoot
<1>3. /\ n[1] + 1 \in Order /\ n[1] + 1 # Lowest /\ (n[1] + 1) - 1 = n[1]
      /\ n[1] + 1 > Lowest
  BY <1>1, <1>2, Orders, Powers DEF Order
<1>4. Parent(n) = Over(n[2], n[1] + 1) BY <1>1, <1>2, ParentOver
<1>5. Over(n[2], n[1]) \in {Left(Over(n[2], n[1] + 1)), Right(Over(n[2], n[1] + 1))}
  BY <1>1, <1>3, ChildOver
<1>6. Over(n[2], n[1] + 1) \in Node /\ Over(n[2], n[1] + 1)[1] = n[1] + 1
  BY <1>1, <1>3, OverIsNode
<1> QED BY <1>1, <1>2, <1>3, <1>4, <1>5, <1>6

\* The other child is not over that address.
LEMMA SiblingAside ==
  ASSUME Constants, NEW a \in Address, NEW k \in Order, k # Highest
  PROVE  /\ Sibling(Over(a, k)) \in Node /\ Sibling(Over(a, k)) # Root
         /\ Parent(Sibling(Over(a, k))) = Over(a, k + 1)
         /\ {Left(Over(a, k + 1)), Right(Over(a, k + 1))}
              = {Over(a, k), Sibling(Over(a, k))}
         /\ \A j \in Order : Sibling(Over(a, k)) # Over(a, j)
<1> DEFINE n == Over(a, k)
           m == Over(a, k + 1)
<1>1. n \in Node /\ n[1] = k /\ n # Root
  BY OverIsNode DEF Root
<1>2. k + 1 \in Order /\ k + 1 # Lowest BY Orders
<1>3. m \in Node /\ m[1] = k + 1 /\ m[1] > Lowest
  BY <1>2, OverIsNode, Powers DEF Order
<1>4. Parent(n) = m BY ParentOver
<1> HIDE DEF n, m
<1>5. n \in {Left(m), Right(m)} BY <1>1, <1>4, ChildOfParent
<1>6. Sibling(n) \in {Left(m), Right(m)} /\ Sibling(n) # n
  BY <1>3, <1>5, ParentOfChild
<1>7. Sibling(n) \in Node /\ Sibling(n)[1] = k
  BY <1>3, <1>6, Children, k + 1 - 1 = k DEF Order
<1>8. Parent(Sibling(n)) = m /\ Sibling(n) # Root BY <1>3, <1>6, ParentOfChild
<1>9. {Left(m), Right(m)} = {n, Sibling(n)} BY <1>5, <1>6
<1>10. ASSUME NEW j \in Order PROVE Sibling(n) # Over(a, j)
  <2>1. Over(a, j)[1] = j BY OverIsNode
  <2> QED BY <2>1, <1>6, <1>7 DEF n
<1> QED BY <1>7, <1>8, <1>9, <1>10 DEF n, m

LEMMA AboveOver ==
  ASSUME Constants, NEW a \in Address, NEW k \in Order
  PROVE  Above(Over(a, k)) = {Over(a, j) : j \in k + 1 .. Highest}
<1>1. Over(a, k)[1] = k BY OverIsNode
<1>2. \A j \in k + 1 .. Highest : j \in Order /\ k <= j BY Powers DEF Order
<1>3. \A j \in k + 1 .. Highest : Over(Over(a, k)[2], j) = Over(a, j)
  BY <1>2, OverOver
<1>4. Above(Over(a, k)) = {Over(Over(a, k)[2], j) : j \in k + 1 .. Highest}
  BY <1>1 DEF Above, Over
<1> QED BY <1>3, <1>4

-----------------------------------------------------------------------------
\* The shape of the tree: what is split are nodes that have a parent which is
\* split.  The leaves tile the heap by that alone.
Rooted == split \subseteq {n \in Node : n[1] > Lowest} /\ split \subseteq Present

LEMMA HasParent ==
  ASSUME Constants, NEW S, S \subseteq {n \in Node : n[1] > Lowest}
  PROVE  \A n : n \in {Root} \cup {Left(m) : m \in S} \cup {Right(m) : m \in S}
                  <=> n \in Node /\ (n = Root \/ Parent(n) \in S)
<1>1. ASSUME NEW m \in S, NEW n \in {Left(m), Right(m)}
      PROVE  n \in Node /\ Parent(n) = m
  <2>1. m \in Node /\ m[1] > Lowest OBVIOUS
  <2> QED BY <2>1, Children, ParentOfChild
<1>2. ASSUME NEW n \in Node, n # Root, Parent(n) \in S
      PROVE  \E m \in S : n \in {Left(m), Right(m)}
  BY <1>2, ChildOfParent
<1> QED BY <1>1, <1>2, OverRoot

LEMMA IsPresent ==
  ASSUME Constants, split \subseteq {n \in Node : n[1] > Lowest}
  PROVE  \A n : n \in Present <=> n \in Node /\ (n = Root \/ Parent(n) \in split)
BY HasParent DEF Present

\* Everything above a node of the tree is split.
LEMMA AbovePresent ==
  ASSUME Constants, Rooted, NEW a \in Address, NEW i \in Order, NEW j \in i + 1 .. Highest,
         Over(a, i) \in Present
  PROVE  Over(a, j) \in split
<1> DEFINE Bad == {k \in i + 1 .. Highest : Over(a, k) \notin split}
<1> SUFFICES ASSUME Bad # {} PROVE FALSE OBVIOUS
<1>0. Bad \in SUBSET Nat BY Powers DEF Order
<1>1. PICK k \in Bad : \A l \in Bad : k <= l
  <2> HIDE DEF Bad
  <2> QED BY <1>0, Smallest
<1>2. /\ k \in Order /\ k - 1 \in Order /\ k - 1 # Highest /\ (k - 1) + 1 = k
      /\ k - 1 = i \/ k - 1 \in i + 1 .. Highest
  BY <1>1, Powers DEF Order
<1>3. Over(a, k - 1) \in Present
  <2>1. CASE k - 1 = i BY <2>1
  <2>2. CASE k - 1 \in i + 1 .. Highest
    <3>1. k - 1 \notin Bad BY <1>0, <1>1, <1>2
    <3> QED BY <3>1, <2>2 DEF Rooted
  <2> QED BY <1>2, <2>1, <2>2
<1>4. Over(a, k - 1) # Root
  <2>1. Over(a, k - 1)[1] = k - 1 BY <1>2, OverIsNode
  <2> QED BY <2>1, <1>2 DEF Root
<1>5. Parent(Over(a, k - 1)) = Over(a, k) BY <1>2, ParentOver
<1>6. Over(a, k) \in split BY <1>3, <1>4, <1>5, IsPresent DEF Rooted
<1> QED BY <1>1, <1>6

\* Over each address there is one leaf.
LEMMA SomeLeaf ==
  ASSUME Constants, Rooted, NEW a \in Address
  PROVE  \E k \in Order : Over(a, k) \in Leaf
<1> DEFINE T == {k \in Order : Over(a, k) \in Present}
<1>0. T \in SUBSET Nat BY Orders
<1>1. T # {} BY Orders, OverRoot DEF Present
<1>2. PICK k \in T : \A l \in T : k <= l
  <2> HIDE DEF T
  <2> QED BY <1>0, <1>1, Smallest
<1>3. Over(a, k) \notin split
  <2> SUFFICES ASSUME Over(a, k) \in split PROVE FALSE OBVIOUS
  <2>1. k \in Order /\ k # Lowest
    <3>1. Over(a, k)[1] = k BY <1>2, OverIsNode
    <3> QED BY <3>1, <1>2, Powers DEF Rooted
  <2>2. k - 1 \in Order /\ ~ (k <= k - 1) BY <2>1, Orders
  <2>3. Over(a, k - 1) \in Present BY <2>1, ChildOver DEF Present
  <2>4. k - 1 \in T BY <2>2, <2>3
  <2> QED BY <2>2, <2>4, <1>2
<1> QED BY <1>2, <1>3 DEF Leaf

LEMMA OneLeaf ==
  ASSUME Constants, Rooted, NEW a \in Address, NEW i \in Order, NEW j \in Order,
         Over(a, i) \in Leaf, Over(a, j) \in Leaf
  PROVE  i = j
<1>1. ASSUME NEW k \in Order, NEW l \in Order, k < l,
             Over(a, k) \in Leaf, Over(a, l) \in Leaf
      PROVE  FALSE
  <2>1. l \in k + 1 .. Highest BY <1>1, Powers DEF Order
  <2>2. Over(a, l) \in split BY <1>1, <2>1, AbovePresent DEF Leaf
  <2> QED BY <2>2, <1>1 DEF Leaf
<1>2. ~ (i < j) /\ ~ (j < i) BY <1>1
<1> QED BY <1>2, Powers DEF Order

LEMMA LeafIsNode ==
  ASSUME Constants, Rooted, NEW n \in Leaf
  PROVE  /\ n \in Node /\ n[1] \in Order /\ n[2] \in Address
         /\ n = Over(n[2], n[1]) /\ n[2] \in Covers(n)
BY IsPresent, CoversStart, CoveredIsOver DEF Leaf, Rooted

LEMMA LeavesApart ==
  ASSUME Constants, Rooted, NEW n \in Leaf, NEW m \in Leaf, NEW a \in Covers(n),
         a \in Covers(m)
  PROVE  n = m
<1>1. /\ a \in Address /\ n = Over(a, n[1]) /\ m = Over(a, m[1])
      /\ n[1] \in Order /\ m[1] \in Order
  BY LeafIsNode, CoveredIsOver
<1>2. n[1] = m[1] BY <1>1, OneLeaf
<1> QED BY <1>1, <1>2

\* The leaves tile the heap (buddy_tree: node_t has two children or none).
LEMMA TreeTiles ==
  ASSUME Constants, Rooted
  PROVE  LeavesTile
<1>1. ASSUME NEW a \in Address
      PROVE  Cardinality({n \in Leaf : a \in Covers(n)}) = 1
  <2>1. PICK k \in Order : Over(a, k) \in Leaf BY SomeLeaf
  <2>2. a \in Covers(Over(a, k)) BY OverIsNode
  <2>3. {n \in Leaf : a \in Covers(n)} = {Over(a, k)}
    BY <2>1, <2>2, LeavesApart
  <2> QED BY <2>3, FS_Singleton
<1> QED BY <1>1 DEF LeavesTile, Tile, Rooted

-----------------------------------------------------------------------------
\* What the operators of alloc and free are, in terms of the nodes over an
\* address.
LEMMA FilledOver ==
  ASSUME Constants, NEW a \in Address, NEW o \in Order
  PROVE  \A m : m \in Filled(Over(a, o)) <=>
           \E j \in o .. Highest :
             m = Over(a, j) /\ \A k \in o .. j - 1 : Sibling(Over(a, k)) \in full
<1> DEFINE path == Above(Over(a, o)) \cup {Over(a, o)}
           Below(m) == \A k \in path : k[1] < m[1] => Sibling(k) \in full
<1>0. o .. Highest \subseteq Order /\ o \in o .. Highest
      /\ o .. Highest = (o + 1 .. Highest) \cup {o}
  BY Powers DEF Order
<1>1. path = {Over(a, j) : j \in o .. Highest} BY <1>0, AboveOver
<1>2. \A j \in o .. Highest : Over(a, j)[1] = j BY <1>0, OverIsNode
<1>3. ASSUME NEW j \in o .. Highest
      PROVE  Below(Over(a, j)) <=>
               \A k \in o .. j - 1 : Sibling(Over(a, k)) \in full
  <2>1. \A k \in o .. Highest : k < j <=> k \in o .. j - 1 BY <1>0, Powers DEF Order
  <2>2. \A k \in o .. j - 1 : k \in o .. Highest BY <1>0, Powers DEF Order
  <2>3. Below(Over(a, j)) <=>
          \A k \in o .. Highest : k < j => Sibling(Over(a, k)) \in full
    BY <1>1, <1>2
  <2> QED BY <2>1, <2>2, <2>3
<1>4. \A j \in o + 1 .. Highest : o < j BY Powers DEF Order
<1>5. Below(Over(a, o))
  <2>1. \A k \in o .. Highest : ~ (k < o) BY Powers DEF Order
  <2> QED BY <2>1, <1>0, <1>1, <1>2
<1>6. Filled(Over(a, o)) = {Over(a, o)} \cup {m \in Above(Over(a, o)) : Below(m)}
  BY DEF Filled
<1>7. \A m : m \in Filled(Over(a, o)) <=> m \in path /\ Below(m)
  <2> HIDE DEF Below
  <2> QED BY <1>5, <1>6
<1> HIDE DEF Below
<1>8. \A m : m \in path <=> \E j \in o .. Highest : m = Over(a, j)
  BY <1>1
<1> HIDE DEF path
<1> QED BY <1>3, <1>7, <1>8

LEMMA ClearedOver ==
  ASSUME Constants, NEW a \in Address, NEW k \in Order
  PROVE  Cleared(Over(a, k)) = {Over(a, j) : j \in k .. Highest}
<1>1. k .. Highest = (k + 1 .. Highest) \cup {k} BY Powers DEF Order
<1> QED BY <1>1, AboveOver DEF Cleared

LEMMA SplitForOver ==
  ASSUME Constants, NEW n \in Node, NEW o \in Order, o <= n[1]
  PROVE  /\ SplitFor(n, o) = {Over(n[2], k) : k \in o + 1 .. n[1]}
         /\ <<o, n[2]>> = Over(n[2], o)
<1>1. /\ n[1] \in Order /\ n[2] \in Address /\ n[2] % (2 ^ n[1]) = 0
      /\ n[2] \in Nat
  BY NodeType, SizeType
<1>2. ASSUME NEW k \in o .. n[1] PROVE <<k, n[2]>> = Over(n[2], k)
  <2>1. k \in Order /\ k \in 0 .. Highest /\ n[1] \in k .. Highest
    BY <1>1, Powers DEF Order
  <2>2. n[2] % (2 ^ k) = 0 BY <1>1, <2>1, Aligned
  <2>3. n[2] - (n[2] % (2 ^ k)) = n[2] BY <1>1, <2>2
  <2> QED BY <2>3 DEF Over
<1>3. \A k \in o + 1 .. n[1] : k \in o .. n[1] BY <1>1, Powers DEF Order
<1>4. o \in o .. n[1] BY <1>1, Powers DEF Order
<1>5. SplitFor(n, o) = {<<k, n[2]>> : k \in o + 1 .. n[1]} BY DEF SplitFor
<1> QED BY <1>2, <1>3, <1>4, <1>5

\* alloc rounds the order up (required_order), so the block is large enough.
LEMMA OrderFits ==
  ASSUME Constants, NEW size \in Request
  PROVE  OrderFor(size) \in Order /\ size <= 2 ^ OrderFor(size)
<1>1. size \in 1 .. 2 ^ Highest BY DEF Constants, RequestAssumption
<1> DEFINE T == {k \in 0 .. Highest : size <= 2 ^ k}
           Fits(k) == size <= 2 ^ k /\ (k = 0 \/ 2 ^ (k - 1) < size)
<1>2. T \in SUBSET Nat /\ T # {} BY <1>1, Powers
<1>3. PICK k \in T : \A l \in T : k <= l
  <2> HIDE DEF T
  <2> QED BY <1>2, Smallest
<1>4. k \in 0 .. Highest /\ Fits(k)
  <2>1. CASE k = 0 BY <1>3, <2>1
  <2>2. CASE k # 0
    <3>1. k - 1 \in 0 .. Highest /\ ~ (k <= k - 1) BY <1>3, <2>2, Powers
    <3>2. ~ (size <= 2 ^ (k - 1)) BY <3>1, <1>3
    <3>3. 2 ^ (k - 1) \in Nat /\ size \in Nat
      BY <3>1, <1>1, PowerType, SizeType
    <3> QED BY <3>2, <3>3, <1>3
  <2> QED BY <2>1, <2>2
<1>5. RequiredOrder(size) = CHOOSE l \in 0 .. Highest : Fits(l)
  BY DEF RequiredOrder
<1> HIDE DEF Fits
<1>6. RequiredOrder(size) \in 0 .. Highest /\ Fits(RequiredOrder(size))
  BY <1>4, <1>5
<1>7. size <= 2 ^ RequiredOrder(size) BY <1>6 DEF Fits
<1> DEFINE r == RequiredOrder(size)
<1> HIDE DEF r
<1>8. CASE r < Lowest
  <2>1. OrderFor(size) = Lowest BY <1>8 DEF OrderFor, r
  <2>2. r \in 0 .. Highest /\ Lowest \in r .. Highest BY <1>6, <1>8, Powers DEF r
  <2>3. 2 ^ r <= 2 ^ Lowest BY <2>2, PowerMonotone
  <2>4. 2 ^ r \in Nat /\ 2 ^ Lowest \in Nat /\ size \in Nat
    BY <2>2, <1>1, PowerType, SizeType, Orders
  <2> QED BY <2>1, <2>3, <2>4, <1>7, Orders DEF r
<1>9. CASE ~ (r < Lowest)
  <2>1. OrderFor(size) = r BY <1>9 DEF OrderFor, r
  <2>2. r \in Order BY <1>6, <1>9, Powers DEF Order, r
  <2> QED BY <2>1, <2>2, <1>7 DEF r
<1> QED BY <1>8, <1>9

-----------------------------------------------------------------------------
\* The blocks in use are the full leaves, and large enough.
Filed ==
  /\ {n[2] : n \in FullLeaf} = DOMAIN held
  /\ \A n \in FullLeaf : held[n[2]] <= 2 ^ n[1]

\* Blocks have orders that were asked for, and nothing was split for less.
Asked ==
  /\ \A n \in FullLeaf : n[1] \in orders
  /\ \A n \in split : \E o \in orders : o < n[1]

BuddyInv == TypeOK /\ Rooted /\ FlagsExact /\ Filed /\ Asked

\* alloc takes the block of order o over a, in the leaf of order l that
\* starts there.
Takes(a, o, l, size) ==
  /\ a \in Address /\ o \in Order /\ l \in o .. Highest
  /\ Over(a, l) \in Leaf /\ Over(a, l)[2] = a
  /\ \A j \in l .. Highest : Over(a, j) \notin full
  /\ Over(a, o)[2] = a
  /\ size \in Request /\ size <= 2 ^ o
  /\ split' = split \cup {Over(a, k) : k \in o + 1 .. l}
  /\ full' = full \cup Filled(Over(a, o))
  /\ held' = [b \in DOMAIN held \cup {a} |-> IF b = a THEN size ELSE held[b]]
  /\ orders' = orders \cup {o}

LEMMA AllocTakes ==
  ASSUME Constants, BuddyInv, NEW size \in Request, Alloc(size)
  PROVE  \E a, o, l : Takes(a, o, l, size)
<1> DEFINE o == OrderFor(size)
           nodes == Reachable(o)
           n == LeftOf(nodes)
           a == n[2]
           l == n[1]
<1>1. o \in Order /\ size <= 2 ^ o BY OrderFits
<1>2. Rooted /\ nodes # {} /\ nodes \subseteq Leaf
  BY DEF BuddyInv, Alloc, Reachable
<1>3. n \in nodes
  <2> HIDE DEF nodes
  <2> DEFINE S == {m[2] : m \in nodes}
  <2>0. \A m \in nodes : m[2] \in Nat BY <1>2, LeafIsNode, SizeType
  <2>1. S \in SUBSET Nat /\ S # {} BY <1>2, <2>0
  <2>2. PICK s \in S : \A t \in S : s <= t
    <3> HIDE DEF S
    <3> QED BY <2>1, Smallest
  <2>3. PICK m \in nodes : s = m[2] BY <2>2
  <2>4. \A k \in nodes : m[2] <= k[2] BY <2>2, <2>3
  <2> QED BY <2>4 DEF LeftOf
<1>4. /\ n \in Leaf /\ l >= o
      /\ (Above(n) \cup {n}) \cap full = {}
  BY <1>3 DEF Reachable
<1>5. /\ <<o, a>> = <<o, a>>
      /\ split' = split \cup SplitFor(n, o)
      /\ full' = full \cup Filled(<<o, a>>)
      /\ held' = [b \in DOMAIN held \cup {a} |-> IF b = a THEN size ELSE held[b]]
      /\ orders' = orders \cup {o}
  BY DEF Alloc, Found
<1> HIDE DEF n, o
<1>6. n \in Node /\ l \in Order /\ a \in Address /\ n = Over(a, l)
  BY <1>2, <1>4, LeafIsNode
<1>7. o <= l /\ l \in o .. Highest BY <1>1, <1>4, <1>6, Powers DEF Order
<1>8. SplitFor(n, o) = {Over(a, k) : k \in o + 1 .. l} /\ <<o, a>> = Over(a, o)
  BY <1>1, <1>6, <1>7, SplitForOver
<1>9. \A j \in l .. Highest : Over(a, j) \notin full
  <2>1. l .. Highest = (l + 1 .. Highest) \cup {l} BY <1>6, Powers DEF Order
  <2>2. Above(n) = {Over(a, j) : j \in l + 1 .. Highest} BY <1>6, AboveOver
  <2> QED BY <2>1, <2>2, <1>4, <1>6
<1>10. Over(a, o)[2] = a BY <1>8
<1>11. Takes(a, o, l, size)
  BY <1>1, <1>4, <1>5, <1>6, <1>7, <1>8, <1>9, <1>10 DEF Takes
<1> QED BY <1>11

\* The nodes over a after alloc: those above the block are split, and neither
\* they nor those below were full.
LEMMA TakesPath ==
  ASSUME Constants, BuddyInv, NEW a, NEW o, NEW l, NEW size, Takes(a, o, l, size)
  PROVE  /\ o .. Highest \subseteq Order /\ l \in Order
         /\ \A j \in o .. Highest : Over(a, j) \notin full
         /\ \A j \in o + 1 .. Highest : Over(a, j) \in split'
         /\ \A j \in Order : j <= l => Over(a, j) \notin split
         /\ Over(a, o) \notin split'
         /\ \A m : m \in split' => m \in split \/ \E j \in o + 1 .. Highest : m = Over(a, j)
<1> USE DEF Takes
<1>1. o .. Highest \subseteq Order /\ l \in Order BY Powers DEF Order
<1>2. Rooted /\ full \subseteq Present BY DEF BuddyInv, TypeOK
<1>3. ASSUME NEW j \in Order, j < l PROVE Over(a, j) \notin Present
  <2>1. l \in j + 1 .. Highest BY <1>1, <1>3, Powers DEF Order
  <2> QED BY <2>1, <1>1, <1>2, AbovePresent DEF Leaf
<1>4. \A j \in Order : j <= l => Over(a, j) \notin split
  <2> SUFFICES ASSUME NEW j \in Order, j <= l PROVE Over(a, j) \notin split
    OBVIOUS
  <2>1. j = l \/ j < l BY <1>1, Powers DEF Order
  <2> QED BY <2>1, <1>2, <1>3 DEF Leaf, Rooted
<1>5. \A j \in o .. Highest : Over(a, j) \notin full
  <2> SUFFICES ASSUME NEW j \in o .. Highest PROVE Over(a, j) \notin full
    OBVIOUS
  <2>1. j \in l .. Highest \/ j < l BY <1>1, Powers DEF Order
  <2> QED BY <2>1, <1>1, <1>2, <1>3
<1>6. \A j \in l + 1 .. Highest : Over(a, j) \in split
  BY <1>1, <1>2, AbovePresent DEF Leaf
<1>7. \A j \in o + 1 .. Highest : j \in o + 1 .. l \/ j \in l + 1 .. Highest
  BY <1>1, Powers DEF Order
<1>8. \A j \in o + 1 .. Highest : Over(a, j) \in split' BY <1>6, <1>7
<1>9. Over(a, o) \notin split'
  <2>1. Over(a, o) \notin split BY <1>1, <1>4
  <2>2. \A k \in o + 1 .. l : k \in Order /\ k # o BY <1>1, Powers DEF Order
  <2>3. \A k \in o + 1 .. l : Over(a, k)[1] = k BY <2>2, OverIsNode
  <2>4. Over(a, o)[1] = o BY OverIsNode
  <2> QED BY <2>1, <2>2, <2>3, <2>4
<1>10. \A k \in o + 1 .. l : k \in o + 1 .. Highest BY <1>1, Powers DEF Order
<1> QED BY <1>1, <1>4, <1>5, <1>8, <1>9, <1>10

LEMMA TakesTree ==
  ASSUME Constants, BuddyInv, NEW a, NEW o, NEW l, NEW size, Takes(a, o, l, size)
  PROVE  /\ Rooted' /\ full' \subseteq Present' /\ Present \subseteq Present'
<1>1. /\ o .. Highest \subseteq Order
      /\ \A j \in o + 1 .. Highest : Over(a, j) \in split'
      /\ \A m : m \in split' => m \in split \/ \E j \in o + 1 .. Highest : m = Over(a, j)
  BY TakesPath
<1>2. Rooted /\ full \subseteq Present /\ a \in Address /\ o \in Order
      /\ split \subseteq split' /\ full' = full \cup Filled(Over(a, o))
  BY DEF BuddyInv, TypeOK, Takes
<1>3. split' \subseteq {n \in Node : n[1] > Lowest}
  <2>1. ASSUME NEW j \in o + 1 .. Highest
        PROVE  Over(a, j) \in Node /\ Over(a, j)[1] > Lowest
    <3>1. j \in Order /\ j > Lowest BY <1>2, Powers DEF Order
    <3> QED BY <3>1, <1>2, OverIsNode
  <2> QED BY <2>1, <1>1, <1>2 DEF Rooted
<1>4. \A n : n \in Present <=> n \in Node /\ (n = Root \/ Parent(n) \in split)
  BY <1>2, IsPresent DEF Rooted
<1>5. \A n : n \in Present' <=> n \in Node /\ (n = Root \/ Parent(n) \in split')
  <2>1. Present' = {Root} \cup {Left(m) : m \in split'} \cup {Right(m) : m \in split'}
    BY DEF Present, Root, Left, Right
  <2> QED BY <2>1, <1>3, HasParent
<1>6. Present \subseteq Present' BY <1>2, <1>4, <1>5
<1>7. \A j \in o .. Highest : Over(a, j) \in Present'
  <2> SUFFICES ASSUME NEW j \in o .. Highest PROVE Over(a, j) \in Present'
    OBVIOUS
  <2>1. j \in Order BY <1>1
  <2>2. Over(a, j) \in Node BY <2>1, <1>2, OverIsNode
  <2>3. CASE j = Highest BY <2>2, <2>3, <1>2, <1>5, OverRoot
  <2>4. CASE j # Highest
    <3>1. j + 1 \in o + 1 .. Highest BY <2>1, <2>4, <1>2, Powers DEF Order
    <3>2. Parent(Over(a, j)) = Over(a, j + 1) BY <2>1, <2>4, <1>2, ParentOver
    <3> QED BY <3>1, <3>2, <2>2, <1>1, <1>5
  <2> QED BY <2>3, <2>4
<1>8. \A j \in o + 1 .. Highest : j \in o .. Highest BY <1>2, Powers DEF Order
<1>9. split' \subseteq Present' BY <1>1, <1>2, <1>6, <1>7, <1>8 DEF Rooted
<1>10. full' \subseteq Present' BY <1>2, <1>6, <1>7, FilledOver
<1> QED BY <1>3, <1>6, <1>9, <1>10 DEF Rooted, Node

LEMMA TakesFlags ==
  ASSUME Constants, BuddyInv, NEW a, NEW o, NEW l, NEW size, Takes(a, o, l, size)
  PROVE  FlagsExact'
<1>1. /\ o .. Highest \subseteq Order
      /\ \A j \in o .. Highest : Over(a, j) \notin full
      /\ Over(a, o) \notin split'
      /\ \A m : m \in split' => m \in split \/ \E j \in o + 1 .. Highest : m = Over(a, j)
  BY TakesPath
<1>2. /\ Rooted /\ FlagsExact /\ a \in Address /\ o \in Order
      /\ full' = full \cup Filled(Over(a, o))
  BY DEF BuddyInv, Takes
<1>3. \A m : m \in Filled(Over(a, o)) <=>
         \E j \in o .. Highest :
           m = Over(a, j) /\ \A k \in o .. j - 1 : Sibling(Over(a, k)) \in full
  BY <1>2, FilledOver
<1>4. \A m : (\A j \in o .. Highest : m # Over(a, j)) => (m \in full' <=> m \in full)
  BY <1>2, <1>3
<1>5. ASSUME NEW j \in o .. Highest
      PROVE  Over(a, j) \in full' <=>
               \A k \in o .. j - 1 : Sibling(Over(a, k)) \in full
  <2>1. \A i \in o .. Highest : Over(a, i)[1] = i BY <1>1, <1>2, OverIsNode
  <2>2. \A i \in o .. Highest : Over(a, i) = Over(a, j) => i = j BY <2>1
  <2> QED BY <2>2, <1>1, <1>2, <1>3
<1>6. ASSUME NEW j \in o + 1 .. Highest
      PROVE  LET m == Over(a, j)
             IN  m \in full' <=> Left(m) \in full' /\ Right(m) \in full'
  <2> DEFINE m == Over(a, j)
             c == Over(a, j - 1)
             d == Sibling(c)
  <2>1. /\ j \in o .. Highest /\ j - 1 \in o .. Highest
        /\ j - 1 \in Order /\ j - 1 # Highest /\ (j - 1) + 1 = j
    BY <1>2, Powers DEF Order
  <2>2. {Left(m), Right(m)} = {c, d} /\ \A i \in Order : d # Over(a, i)
    BY <2>1, <1>2, SiblingAside
  <2>3. d \in full' <=> d \in full BY <2>2, <1>1, <1>4
  <2>4. m \in full' <=> \A k \in o .. j - 1 : Sibling(Over(a, k)) \in full
    BY <2>1, <1>5
  <2>5. c \in full' <=> \A k \in o .. (j - 1) - 1 : Sibling(Over(a, k)) \in full
    BY <2>1, <1>5
  <2>6. \A k : k \in o .. j - 1 <=> k \in o .. (j - 1) - 1 \/ k = j - 1
    BY <2>1, <1>2, Powers DEF Order
  <2>7. m \in full' <=> c \in full' /\ d \in full' BY <2>3, <2>4, <2>5, <2>6
  <2> HIDE DEF m, c, d
  <2>8. m \in full' <=> Left(m) \in full' /\ Right(m) \in full'
    BY <2>2, <2>7
  <2> QED BY <2>8 DEF m
<1>7. ASSUME NEW m \in split', m \in split,
             \A j \in o + 1 .. Highest : m # Over(a, j)
      PROVE  m \in full' <=> Left(m) \in full' /\ Right(m) \in full'
  <2>1. m \in Node /\ m[1] > Lowest BY <1>2, <1>7 DEF Rooted
  <2>2. \A j \in o .. Highest : j = o \/ j \in o + 1 .. Highest
    BY <1>2, Powers DEF Order
  <2>3. \A j \in o .. Highest : m # Over(a, j) BY <2>2, <1>1, <1>7
  <2>4. ASSUME NEW c \in {Left(m), Right(m)}, NEW j \in o .. Highest,
               c = Over(a, j)
        PROVE  FALSE
    <3>1. Parent(c) = m /\ c # Root BY <2>1, <2>4, ParentOfChild
    <3>2. j # Highest /\ j \in Order BY <3>1, <2>4, <1>1, <1>2, OverRoot
    <3>3. Parent(c) = Over(a, j + 1) BY <3>2, <2>4, <1>2, ParentOver
    <3>4. j + 1 \in o + 1 .. Highest BY <3>2, <1>2, Powers DEF Order
    <3> QED BY <3>1, <3>3, <3>4, <1>7
  <2>5. /\ m \in full' <=> m \in full
        /\ Left(m) \in full' <=> Left(m) \in full
        /\ Right(m) \in full' <=> Right(m) \in full
    BY <2>3, <2>4, <1>4
  <2> QED BY <2>5, <1>2, <1>7 DEF FlagsExact
<1>8. ASSUME NEW m \in split'
      PROVE  m \in full' <=> Left(m) \in full' /\ Right(m) \in full'
  <2>1. CASE \E j \in o + 1 .. Highest : m = Over(a, j) BY <2>1, <1>6
  <2>2. CASE \A j \in o + 1 .. Highest : m # Over(a, j)
    <3>1. m \in split BY <2>2, <1>1
    <3> QED BY <3>1, <2>2, <1>7
  <2> QED BY <2>1, <2>2
<1> QED BY <1>8 DEF FlagsExact, Left, Right

\* The full leaves after alloc are those before and the block.
LEMMA TakesLeaves ==
  ASSUME Constants, BuddyInv, NEW a, NEW o, NEW l, NEW size, Takes(a, o, l, size)
  PROVE  /\ FullLeaf' = FullLeaf \cup {Over(a, o)}
         /\ \A n \in FullLeaf : n[2] # a
<1>1. /\ o .. Highest \subseteq Order /\ l \in Order
      /\ \A j \in o .. Highest : Over(a, j) \notin full
      /\ \A j \in o + 1 .. Highest : Over(a, j) \in split'
      /\ Over(a, o) \notin split'
      /\ \A m : m \in split' => m \in split \/ \E j \in o + 1 .. Highest : m = Over(a, j)
  BY TakesPath
<1>2. /\ Rooted /\ full \subseteq Present /\ a \in Address /\ o \in Order
      /\ full' = full \cup Filled(Over(a, o)) /\ split \subseteq split'
      /\ Over(a, l) \in Leaf /\ Over(a, l)[2] = a /\ l \in o .. Highest
  BY DEF BuddyInv, Takes, TypeOK
<1>3. full' \subseteq Present' /\ Present \subseteq Present' BY TakesTree
<1>4. \A j \in o .. Highest : j = o \/ j \in o + 1 .. Highest
  BY <1>2, Powers DEF Order
<1>5. \A j \in o + 1 .. Highest : j \in o .. Highest
  BY <1>2, Powers DEF Order
<1>6. \A m \in full' : m \in full \/ \E j \in o .. Highest : m = Over(a, j)
  BY <1>2, FilledOver
<1>7. Over(a, o) \in full'
  <2>1. o \in o .. Highest /\ o .. o - 1 = {} BY <1>2, Powers DEF Order
  <2>2. Over(a, o) \in Filled(Over(a, o)) BY <2>1, <1>2, FilledOver
  <2> QED BY <2>2, <1>2
<1>8. \A m : m \in FullLeaf <=> m \in full /\ m \notin split
  BY <1>2 DEF FullLeaf, Leaf
<1>9. \A m : m \in FullLeaf' <=> m \in full' /\ m \notin split'
  BY <1>3 DEF FullLeaf, Leaf
<1>10. FullLeaf' \subseteq FullLeaf \cup {Over(a, o)}
  BY <1>1, <1>2, <1>4, <1>6, <1>8, <1>9
<1>11. FullLeaf \subseteq FullLeaf' BY <1>1, <1>2, <1>5, <1>8, <1>9
<1>12. Over(a, o) \in FullLeaf' BY <1>1, <1>7, <1>9
<1>13. ASSUME NEW n \in FullLeaf, n[2] = a PROVE FALSE
  <2>1. n \in Leaf /\ n \in full BY <1>13 DEF FullLeaf
  <2>2. n[2] \in Covers(n) BY <2>1, <1>2, LeafIsNode
  <2>3. a \in Covers(Over(a, l)) BY <1>1, <1>2, OverIsNode
  <2>4. n = Over(a, l) BY <2>1, <2>2, <2>3, <1>2, <1>13, LeavesApart
  <2> QED BY <2>1, <2>4, <1>1, <1>2
<1> QED BY <1>10, <1>11, <1>12, <1>13

LEMMA TakesKeeps ==
  ASSUME Constants, BuddyInv, NEW a, NEW o, NEW l, NEW size, Takes(a, o, l, size)
  PROVE  BuddyInv'
<1>1. TypeOK /\ Rooted /\ Filed /\ Asked BY DEF BuddyInv
<1>2. Rooted' /\ full' \subseteq Present' BY TakesTree
<1>3. FlagsExact' BY TakesFlags
<1>4. /\ FullLeaf' = FullLeaf \cup {Over(a, o)}
      /\ \A n \in FullLeaf : n[2] # a
  BY TakesLeaves
<1>5. \A m : m \in split' => m \in split \/ \E j \in o + 1 .. Highest : m = Over(a, j)
  BY TakesPath
<1>6. /\ a \in Address /\ o \in Order /\ Over(a, o)[2] = a /\ Over(a, o)[1] = o
      /\ size \in Request /\ size <= 2 ^ o
      /\ held' = [b \in DOMAIN held \cup {a} |-> IF b = a THEN size ELSE held[b]]
      /\ orders' = orders \cup {o}
  BY OverIsNode DEF Takes
<1>7. DOMAIN held' = DOMAIN held \cup {a} /\ held'[a] = size
      /\ \A b \in DOMAIN held : b # a => held'[b] = held[b]
  BY <1>6
<1>8. TypeOK'
  <2>1. split' \subseteq {n \in Node : n[1] > Lowest} BY <1>2 DEF Rooted, Node
  <2>2. DOMAIN held' \subseteq Address /\ \A b \in DOMAIN held' : held'[b] \in Request
    BY <1>1, <1>6, <1>7 DEF TypeOK
  <2>3. orders' \subseteq Lowest .. Highest BY <1>1, <1>6 DEF TypeOK, Order
  <2> QED BY <2>1, <2>2, <2>3, <1>2 DEF TypeOK, Node, Address
<1>9. Filed'
  <2>1. {n[2] : n \in FullLeaf} = DOMAIN held BY <1>1 DEF Filed
  <2>2. {n[2] : n \in FullLeaf'} = DOMAIN held' BY <2>1, <1>4, <1>6, <1>7
  <2>3. \A n \in FullLeaf : held'[n[2]] = held[n[2]] BY <2>1, <1>4, <1>7
  <2>4. \A n \in FullLeaf' : held'[n[2]] <= 2 ^ n[1]
    BY <2>3, <1>1, <1>4, <1>6, <1>7 DEF Filed
  <2> QED BY <2>2, <2>4 DEF Filed
<1>10. Asked'
  <2>1. \A n \in FullLeaf' : n[1] \in orders' BY <1>1, <1>4, <1>6 DEF Asked
  <2>2. ASSUME NEW j \in o + 1 .. Highest PROVE o < Over(a, j)[1]
    <3>1. j \in Order /\ o < j BY <1>6, Powers DEF Order
    <3> QED BY <3>1, <1>6, OverIsNode
  <2>3. \A n \in split' : \E p \in orders' : p < n[1]
    BY <2>2, <1>1, <1>5, <1>6 DEF Asked
  <2> QED BY <2>1, <2>3 DEF Asked
<1> QED BY <1>2, <1>3, <1>8, <1>9, <1>10 DEF BuddyInv

-----------------------------------------------------------------------------
\* free gives back the full leaf of order l over a, which starts there.
Returns(a, l) ==
  /\ a \in Address /\ l \in Order /\ Over(a, l) \in FullLeaf /\ Over(a, l)[2] = a
  /\ split' = IF Merges(Over(a, l)) THEN split \ {Parent(Over(a, l))} ELSE split
  /\ full' = full \ {Over(a, j) : j \in l .. Highest}
  /\ held' = [b \in DOMAIN held \ {a} |-> held[b]]
  /\ orders' = orders

LEMMA FreeReturns ==
  ASSUME Constants, BuddyInv, NEW a \in DOMAIN held, Free(a)
  PROVE  \E l : Returns(a, l)
<1>1. Rooted /\ {n[2] : n \in FullLeaf} = DOMAIN held BY DEF BuddyInv, Filed
<1>2. PICK n \in FullLeaf : n[2] = a BY <1>1
<1>3. /\ n \in Leaf /\ n[1] \in Order /\ a \in Address /\ n = Over(a, n[1])
      /\ a \in Covers(n)
  <2>1. n \in Leaf BY <1>2 DEF FullLeaf
  <2> QED BY <2>1, <1>1, <1>2, LeafIsNode
<1>4. LeafAt(a) = n
  <2>1. LeafAt(a) \in Leaf /\ a \in Covers(LeafAt(a)) BY <1>3 DEF LeafAt
  <2> QED BY <2>1, <1>1, <1>3, LeavesApart
<1>5. Cleared(n) = {Over(a, j) : j \in n[1] .. Highest} BY <1>3, ClearedOver
<1>6. /\ split' = IF Merges(n) THEN split \ {Parent(n)} ELSE split
      /\ full' = full \ Cleared(n)
      /\ held' = [b \in DOMAIN held \ {a} |-> held[b]]
      /\ orders' = orders
  BY <1>4 DEF Free
<1>7. Returns(a, n[1]) BY <1>2, <1>3, <1>5, <1>6 DEF Returns
<1> QED BY <1>7

\* Merging takes two leaves that are not full out of the tree.
LEMMA ReturnsTree ==
  ASSUME Constants, BuddyInv, NEW a, NEW l, Returns(a, l)
  PROVE  /\ Rooted' /\ full' \subseteq Present' /\ Present' \subseteq Present
         /\ \A m \in split : m \in split' \/ \E j \in l + 1 .. Highest : m = Over(a, j)
         /\ split' \subseteq split
<1> DEFINE n == Over(a, l)
           p == Parent(n)
<1>1. /\ Rooted /\ full \subseteq Present /\ a \in Address /\ l \in Order
      /\ n \in Leaf /\ n \in full /\ n \in Node
  BY OverIsNode DEF BuddyInv, TypeOK, Returns, FullLeaf
<1>2. \A m : m \in Present <=> m \in Node /\ (m = Root \/ Parent(m) \in split)
  BY <1>1, IsPresent DEF Rooted
<1>3. split' = IF Merges(n) THEN split \ {p} ELSE split BY DEF Returns
<1>4. split' \subseteq split /\ split' \subseteq {m \in Node : m[1] > Lowest}
  BY <1>1, <1>3 DEF Rooted
<1>5. \A m : m \in Present' <=> m \in Node /\ (m = Root \/ Parent(m) \in split')
  <2>1. Present' = {Root} \cup {Left(m) : m \in split'} \cup {Right(m) : m \in split'}
    BY DEF Present, Root, Left, Right
  <2> QED BY <2>1, <1>4, HasParent
<1>6. n \in full /\ n \notin full'
  <2>1. l \in l .. Highest BY <1>1, Powers DEF Order
  <2> QED BY <2>1, <1>1 DEF Returns
<1>7. ASSUME NEW m \in Present, m \notin Present'
      PROVE  m = n \/ (m \in Leaf /\ m \notin full)
  <2>1. m \in Node /\ m # Root /\ Parent(m) = p /\ Merges(n)
    BY <1>2, <1>3, <1>5, <1>7
  <2>2. n # Root /\ Sibling(n) \in Leaf /\ Sibling(n) \notin full
    BY <2>1 DEF Merges
  <2>3. m \in {Left(p), Right(p)} BY <2>1, ChildOfParent
  <2>4. l # Highest BY <2>2, <1>1, OverRoot
  <2>5. {Left(p), Right(p)} = {n, Sibling(n)}
    BY <2>4, <1>1, SiblingAside, ParentOver
  <2> QED BY <2>2, <2>3, <2>5
<1>8. \A m \in split : m \in split' \/ \E j \in l + 1 .. Highest : m = Over(a, j)
  <2> SUFFICES ASSUME NEW m \in split, m \notin split'
               PROVE  \E j \in l + 1 .. Highest : m = Over(a, j)
    OBVIOUS
  <2>1. m = p /\ n # Root BY <1>3 DEF Merges
  <2>2. l # Highest BY <2>1, <1>1, OverRoot
  <2>3. p = Over(a, l + 1) BY <2>2, <1>1, ParentOver
  <2>4. l + 1 \in l + 1 .. Highest BY <2>2, <1>1, Powers DEF Order
  <2> QED BY <2>1, <2>3, <2>4
<1>9. full' \subseteq full BY DEF Returns
<1>10. split' \subseteq Present'
  <2> SUFFICES ASSUME NEW m \in split', m \notin Present' PROVE FALSE OBVIOUS
  <2>1. m \in Present /\ m \in split BY <1>1, <1>4 DEF Rooted
  <2> QED BY <2>1, <1>1, <1>7 DEF Leaf
<1>11. full' \subseteq Present' BY <1>1, <1>6, <1>7, <1>9
<1>12. Present' \subseteq Present BY <1>2, <1>4, <1>5
<1> QED BY <1>4, <1>8, <1>10, <1>11, <1>12 DEF Rooted, Node

LEMMA ReturnsFlags ==
  ASSUME Constants, BuddyInv, NEW a, NEW l, Returns(a, l)
  PROVE  FlagsExact'
<1>1. /\ Rooted /\ FlagsExact /\ a \in Address /\ l \in Order
      /\ Over(a, l) \in Leaf /\ full' = full \ {Over(a, j) : j \in l .. Highest}
  BY DEF BuddyInv, Returns, FullLeaf
<1>2. split' \subseteq split BY ReturnsTree
<1>3. l .. Highest \subseteq Order BY <1>1, Powers DEF Order
<1>4. ASSUME NEW m \in split
      PROVE  m \in full' <=> Left(m) \in full' /\ Right(m) \in full'
  <2>1. m \in Node /\ m[1] > Lowest BY <1>1 DEF Rooted
  <2>2. CASE \E j \in l .. Highest : m = Over(a, j)
    <3>1. PICK j \in l .. Highest : m = Over(a, j) BY <2>2
    <3>2. j # l BY <3>1, <1>1, <1>4 DEF Leaf
    <3>3. j - 1 \in l .. Highest /\ j \in Order /\ j # Lowest
      BY <3>2, <1>1, Powers DEF Order
    <3>4. Over(a, j - 1) \in {Left(m), Right(m)} BY <3>1, <3>3, <1>1, ChildOver
    <3>5. Over(a, j - 1) \notin full' /\ m \notin full' BY <3>1, <3>3, <1>1
    <3> QED BY <3>4, <3>5
  <2>3. CASE \A j \in l .. Highest : m # Over(a, j)
    <3>1. ASSUME NEW c \in {Left(m), Right(m)}, NEW j \in l .. Highest,
                 c = Over(a, j)
          PROVE  FALSE
      <4>1. Parent(c) = m /\ c # Root BY <2>1, <3>1, ParentOfChild
      <4>2. j # Highest /\ j \in Order BY <4>1, <3>1, <1>1, <1>3, OverRoot
      <4>3. Parent(c) = Over(a, j + 1) BY <4>2, <3>1, <1>1, ParentOver
      <4>4. j + 1 \in l .. Highest BY <4>2, <1>1, Powers DEF Order
      <4> QED BY <4>1, <4>3, <4>4, <2>3
    <3>2. /\ m \in full' <=> m \in full
          /\ Left(m) \in full' <=> Left(m) \in full
          /\ Right(m) \in full' <=> Right(m) \in full
      BY <2>3, <3>1, <1>1
    <3> QED BY <3>2, <1>1, <1>4 DEF FlagsExact
  <2> QED BY <2>2, <2>3
<1> QED BY <1>2, <1>4 DEF FlagsExact, Left, Right

LEMMA ReturnsLeaves ==
  ASSUME Constants, BuddyInv, NEW a, NEW l, Returns(a, l)
  PROVE  /\ FullLeaf' = FullLeaf \ {Over(a, l)}
         /\ \A n \in FullLeaf : n[2] = a => n = Over(a, l)
<1>1. /\ Rooted /\ full \subseteq Present /\ a \in Address /\ l \in Order
      /\ Over(a, l) \in Leaf /\ full' = full \ {Over(a, j) : j \in l .. Highest}
      /\ a \in Covers(Over(a, l))
  BY OverIsNode DEF BuddyInv, TypeOK, Returns, FullLeaf
<1>2. /\ Present' \subseteq Present /\ full' \subseteq Present'
      /\ split' \subseteq split
      /\ \A m \in split : m \in split' \/ \E j \in l + 1 .. Highest : m = Over(a, j)
  BY ReturnsTree
<1>3. \A j \in l + 1 .. Highest : j \in l .. Highest /\ Over(a, j) \in split
  <2>1. \A j \in l + 1 .. Highest : j \in l .. Highest BY <1>1, Powers DEF Order
  <2> QED BY <2>1, <1>1, AbovePresent DEF Leaf
<1>4. \A j \in l .. Highest : j = l \/ j \in l + 1 .. Highest
  BY <1>1, Powers DEF Order
<1>5. l \in l .. Highest BY <1>1, Powers DEF Order
<1>6. \A m : m \in FullLeaf <=> m \in full /\ m \notin split
  BY <1>1 DEF FullLeaf, Leaf
<1>7. \A m : m \in FullLeaf' <=> m \in full' /\ m \notin split'
  BY <1>2 DEF FullLeaf, Leaf
<1>8. FullLeaf' \subseteq FullLeaf \ {Over(a, l)}
  BY <1>1, <1>2, <1>3, <1>5, <1>6, <1>7
<1>9. FullLeaf \ {Over(a, l)} \subseteq FullLeaf'
  BY <1>1, <1>2, <1>3, <1>4, <1>6, <1>7
<1>10. ASSUME NEW n \in FullLeaf, n[2] = a PROVE n = Over(a, l)
  <2>1. n \in Leaf BY DEF FullLeaf
  <2>2. n[2] \in Covers(n) BY <2>1, <1>1, LeafIsNode
  <2> QED BY <2>1, <2>2, <1>1, <1>10, LeavesApart
<1> QED BY <1>8, <1>9, <1>10

LEMMA ReturnsKeeps ==
  ASSUME Constants, BuddyInv, NEW a, NEW l, Returns(a, l)
  PROVE  BuddyInv'
<1>1. TypeOK /\ Rooted /\ Filed /\ Asked BY DEF BuddyInv
<1>2. Rooted' /\ full' \subseteq Present' /\ split' \subseteq split BY ReturnsTree
<1>3. FlagsExact' BY ReturnsFlags
<1>4. /\ FullLeaf' = FullLeaf \ {Over(a, l)}
      /\ \A n \in FullLeaf : n[2] = a => n = Over(a, l)
  BY ReturnsLeaves
<1>5. /\ held' = [b \in DOMAIN held \ {a} |-> held[b]] /\ orders' = orders
      /\ Over(a, l)[2] = a
  BY DEF Returns
<1>6. TypeOK'
  <2>1. split' \subseteq {n \in Node : n[1] > Lowest} BY <1>2 DEF Rooted, Node
  <2>2. DOMAIN held' \subseteq Address /\ \A b \in DOMAIN held' : held'[b] \in Request
    BY <1>1, <1>5 DEF TypeOK
  <2> QED BY <2>1, <2>2, <1>1, <1>2, <1>5 DEF TypeOK, Node, Address
<1>7. Filed'
  <2>1. {n[2] : n \in FullLeaf} = DOMAIN held BY <1>1 DEF Filed
  <2>2. {n[2] : n \in FullLeaf'} = DOMAIN held' BY <2>1, <1>4, <1>5
  <2>3. \A n \in FullLeaf' : held'[n[2]] = held[n[2]] BY <2>1, <1>4, <1>5
  <2>4. \A n \in FullLeaf' : held'[n[2]] <= 2 ^ n[1]
    BY <2>3, <1>1, <1>4 DEF Filed
  <2> QED BY <2>2, <2>4 DEF Filed
<1>8. Asked' BY <1>1, <1>2, <1>4, <1>5 DEF Asked
<1> QED BY <1>2, <1>3, <1>6, <1>7, <1>8 DEF BuddyInv

-----------------------------------------------------------------------------
\* A heap of blocks of one order.
LEMMA PowerProduct ==
  ASSUME Constants, NEW o \in 0 .. Highest
  PROVE  2 ^ o * 2 ^ (Highest - o) = 2 ^ Highest
<1> DEFINE Bad == {k \in o .. Highest : 2 ^ o * 2 ^ (k - o) # 2 ^ k}
<1> SUFFICES ASSUME Bad # {} PROVE FALSE
  <2>1. Highest \in o .. Highest BY Powers
  <2>2. Highest \notin Bad OBVIOUS
  <2> QED BY <2>1, <2>2
<1>0. Bad \in SUBSET Nat BY Powers
<1>1. PICK k \in Bad : \A j \in Bad : k <= j
  <2> HIDE DEF Bad
  <2> QED BY <1>0, Smallest
<1>2. 2 ^ o \in Nat /\ k \in o .. Highest /\ 2 ^ o * 2 ^ (k - o) # 2 ^ k
  BY <1>1, PowerType
<1>3. k # o
  <2>1. o - o = 0 BY Powers
  <2>2. 2 ^ o * 2 ^ (o - o) = 2 ^ o BY <2>1, <1>2, Powers
  <2> QED BY <2>2, <1>2
<1>4. /\ k - 1 \in o .. Highest /\ k - 1 \in 0 .. Highest - 1 /\ (k - 1) + 1 = k
      /\ (k - 1) - o \in 0 .. Highest - 1 /\ ((k - 1) - o) + 1 = k - o
      /\ ~ (k <= k - 1)
  BY <1>2, <1>3, Powers
<1>5. 2 ^ o * 2 ^ ((k - 1) - o) = 2 ^ (k - 1) BY <1>1, <1>4
<1>6. 2 ^ k = 2 * 2 ^ (k - 1) BY <1>4, Powers
<1>7. 2 ^ (k - o) = 2 * 2 ^ ((k - 1) - o) BY <1>4, Powers
<1>8. 2 ^ ((k - 1) - o) \in Nat /\ 2 ^ (k - 1) \in Nat
  BY <1>4, PowerType, Powers
<1> DEFINE x == 2 ^ o
           y == 2 ^ ((k - 1) - o)
           z == 2 ^ (k - 1)
<1>9. x \in Nat /\ y \in Nat /\ z \in Nat /\ x * y = z /\ x * (2 * y) # 2 * z
  BY <1>2, <1>5, <1>6, <1>7, <1>8
<1> HIDE DEF x, y, z
<1> QED BY <1>9

\* A full node has only full ones below it, a root that is full all of them.
LEMMA FullBelow ==
  ASSUME Constants, Rooted, FlagsExact, Root \in full,
         NEW a \in Address, NEW i \in Order, Over(a, i) \in Present
  PROVE  Over(a, i) \in full
<1> DEFINE Bad == {d \in 0 .. Highest - i : Over(a, Highest - d) \in Present
                                            /\ Over(a, Highest - d) \notin full}
<1>0. Bad \in SUBSET Nat OBVIOUS
<1> SUFFICES ASSUME Bad # {} PROVE FALSE
  <2>1. Highest - i \in 0 .. Highest - i /\ Highest - (Highest - i) = i
    BY Powers DEF Order
  <2>2. Highest - i \notin Bad OBVIOUS
  <2> QED BY <2>1, <2>2
<1>1. PICK d \in Bad : \A e \in Bad : d <= e
  <2> HIDE DEF Bad
  <2> QED BY <1>0, Smallest
<1> DEFINE k == Highest - d
<1>2. k \in Order /\ Over(a, k) \in Present /\ Over(a, k) \notin full
  BY <1>1, Powers DEF Order
<1>3. k # Highest BY <1>2, OverRoot
<1>4. /\ d - 1 \in 0 .. Highest - i /\ ~ (d <= d - 1)
      /\ Highest - (d - 1) = k + 1 /\ k + 1 \in k + 1 .. Highest
      /\ k + 1 \in Order /\ k + 1 # Lowest /\ (k + 1) - 1 = k
  BY <1>1, <1>2, <1>3, Powers DEF Order
<1>5. Over(a, k + 1) \in split BY <1>2, <1>4, AbovePresent
<1>6. Over(a, k + 1) \in full
  <2>1. d - 1 \notin Bad BY <1>1, <1>4
  <2>2. Over(a, Highest - (d - 1)) \in Present BY <1>4, <1>5 DEF Rooted
  <2> QED BY <2>1, <2>2, <1>4
<1>7. Over(a, k) \in {Left(Over(a, k + 1)), Right(Over(a, k + 1))}
  <2>1. Over(a, (k + 1) - 1) \in {Left(Over(a, k + 1)), Right(Over(a, k + 1))}
    BY <1>4, ChildOver
  <2> QED BY <2>1, <1>4
<1> QED BY <1>2, <1>5, <1>6, <1>7 DEF FlagsExact

\* All its bytes are then in use.
LEMMA FullHeap ==
  ASSUME Constants, BuddyInv, Root \in full, NEW o \in Order, orders \subseteq {o}
  PROVE  ~ (Cardinality(DOMAIN held) < 2 ^ (Highest - o))
<1> DEFINE b == 2 ^ o
           N == 2 ^ (Highest - o)
           f == [i \in 1 .. N |-> b * (i - 1)]
<1>1. o \in 0 .. Highest /\ Highest - o \in 0 .. Highest BY Powers DEF Order
<1>2. b \in Nat \ {0} /\ N \in Nat \ {0} /\ b * N = 2 ^ Highest
  BY <1>1, PowerType, PowerProduct
<1>3. ASSUME NEW a \in Address, a % b = 0 PROVE a \in DOMAIN held
  <2>1. PICK k \in Order : Over(a, k) \in Leaf BY SomeLeaf DEF BuddyInv
  <2>2. Over(a, k) \in full BY <2>1, FullBelow DEF BuddyInv, Leaf
  <2>3. Over(a, k) \in FullLeaf BY <2>1, <2>2 DEF FullLeaf
  <2>4. k = o
    <3>1. Over(a, k)[1] \in orders BY <2>3 DEF BuddyInv, Asked
    <3> QED BY <3>1, OverIsNode
  <2>5. Over(a, o)[2] = a BY <1>3, SizeType DEF Over
  <2> QED BY <2>3, <2>4, <2>5 DEF BuddyInv, Filed
<1> DEFINE size == 2 ^ Highest
<1>4. Address = 0 .. size - 1 /\ size \in Nat BY SizeType DEF Address
<1> HIDE DEF b, N, size
<1>5. ASSUME NEW i \in 1 .. N PROVE b * (i - 1) \in DOMAIN held
  <2>1. i - 1 \in Nat /\ b * (i - 1) \in Nat /\ b * (i - 1) < b * N
    BY <1>2
  <2>2. (b * (i - 1)) % b = 0 BY <2>1, <1>2, Multiple
  <2>3. b * (i - 1) \in Address BY <2>1, <1>2, <1>4 DEF size
  <2> QED BY <2>2, <2>3, <1>3
<1>6. f \in Injection(1 .. N, DOMAIN held)
  <2>1. f \in [1 .. N -> DOMAIN held] BY <1>5
  <2>2. \A i, j \in 1 .. N : f[i] = f[j] => i = j BY <1>2
  <2> HIDE DEF f
  <2> QED BY <2>1, <2>2 DEF Injection, IsInjective
<1>7. IsFiniteSet(DOMAIN held)
  <2>1. IsFiniteSet(0 .. size - 1) BY <1>4, FS_Interval
  <2>2. DOMAIN held \in SUBSET (0 .. size - 1) BY <1>4 DEF BuddyInv, TypeOK
  <2> QED BY <2>1, <2>2, FS_Subset
<1>8. Cardinality(1 .. N) = N
  <2>1. Cardinality(1 .. N) = IF 1 > N THEN 0 ELSE N - 1 + 1
    BY <1>2, FS_Interval
  <2> QED BY <2>1, <1>2
<1>9. Cardinality(1 .. N) <= Cardinality(DOMAIN held)
  <2> HIDE DEF f
  <2> QED BY <1>6, <1>7, FS_Injection
<1>10. Cardinality(DOMAIN held) \in Nat BY <1>7, FS_CardinalityType
<1> QED BY <1>2, <1>8, <1>9, <1>10 DEF N

\* From a root that is not full the search comes to a leaf that is not.
LEMMA SearchFinds ==
  ASSUME Constants, BuddyInv, Root \notin full, NEW o \in Order, orders \subseteq {o}
  PROVE  Reachable(o) # {}
<1>1. Rooted /\ FlagsExact /\ Asked BY DEF BuddyInv
<1> DEFINE Open(a, k) == /\ Over(a, k) \in Present
                         /\ \A j \in k .. Highest : Over(a, j) \notin full
           T == {k \in Order : \E a \in Address : Open(a, k)}
<1>2. T \in SUBSET Nat BY Orders
<1>3. Highest \in T
  <2>1. 0 \in Address BY SizeType DEF Address
  <2>2. Highest .. Highest = {Highest} BY Powers
  <2>3. Open(0, Highest) BY <2>1, <2>2, OverRoot DEF Present
  <2> QED BY <2>1, <2>3, Orders
<1>4. PICK k \in T : \A j \in T : k <= j
  <2> HIDE DEF T
  <2> QED BY <1>2, <1>3, Smallest
<1>5. PICK a \in Address : Open(a, k) BY <1>4
<1> DEFINE n == Over(a, k)
<1>6. k \in Order /\ n \in Node /\ n[1] = k /\ n[2] \in Address
  BY <1>4, OverIsNode
<1>7. n \notin split
  <2> SUFFICES ASSUME n \in split PROVE FALSE OBVIOUS
  <2>1. n[1] > Lowest BY <1>1 DEF Rooted
  <2>2. k # Lowest /\ k - 1 \in Order /\ ~ (k <= k - 1)
    BY <2>1, <1>6, Orders
  <2>3. /\ k .. Highest \subseteq Order
        /\ \A j \in k .. Highest : k <= j
        /\ \A j \in k - 1 .. Highest : j = k - 1 \/ j \in k .. Highest
    BY <1>6, Powers DEF Order
  <2>4. n \notin full BY <1>5, <1>6, Powers DEF Order
  <2>5. PICK c \in {Left(n), Right(n)} : c \notin full
    BY <2>4, <1>1 DEF FlagsExact
  <2>6. /\ c \in Node /\ c[1] = k - 1 /\ c[2] \in Covers(c)
        /\ Covers(c) \subseteq Covers(n) /\ c[2] \in Address
    BY <2>1, <1>6, Children, CoversStart
  <2>7. Over(c[2], k - 1) = c /\ Over(c[2], k) = n
    BY <2>6, <1>6, CoveredIsOver
  <2>8. \A j \in k .. Highest : Over(c[2], j) = Over(a, j)
    <3> SUFFICES ASSUME NEW j \in k .. Highest
                 PROVE  Over(c[2], j) = Over(a, j)
      OBVIOUS
    <3>1. j \in Order /\ k <= j BY <2>3
    <3>2. Over(Over(c[2], k)[2], j) = Over(c[2], j)
      BY <3>1, <2>6, <1>6, OverOver
    <3>3. Over(Over(a, k)[2], j) = Over(a, j) BY <3>1, <1>6, OverOver
    <3> QED BY <3>2, <3>3, <2>7
  <2>9. c \in Present BY <2>5 DEF Present
  <2>10. Open(c[2], k - 1)
    <3>1. \A j \in k .. Highest : Over(c[2], j) \notin full BY <2>8, <1>5
    <3>2. ASSUME NEW j \in k - 1 .. Highest PROVE Over(c[2], j) \notin full
      <4>1. CASE j = k - 1 BY <4>1, <2>5, <2>7
      <4>2. CASE j \in k .. Highest BY <4>2, <3>1
      <4> QED BY <4>1, <4>2, <2>3
    <3> QED BY <3>2, <2>7, <2>9
  <2>11. k - 1 \in T BY <2>2, <2>6, <2>10
  <2> QED BY <2>2, <2>11, <1>4
<1>8. n \in Leaf BY <1>5, <1>7 DEF Leaf
<1>9. n[1] >= o
  <2>1. CASE k = Highest BY <2>1, <1>6 DEF Order
  <2>2. CASE k # Highest
    <3>1. k + 1 \in k + 1 .. Highest /\ k + 1 \in Order
      BY <2>2, <1>6, Powers DEF Order
    <3>2. Over(a, k + 1) \in split BY <3>1, <1>1, <1>5, <1>6, AbovePresent
    <3>3. \E p \in orders : p < Over(a, k + 1)[1] BY <3>2, <1>1 DEF Asked
    <3>4. o < k + 1 BY <3>1, <3>3, OverIsNode
    <3> QED BY <3>4, <1>6 DEF Order
  <2> QED BY <2>1, <2>2
<1>10. (Above(n) \cup {n}) \cap full = {}
  <2>1. Above(n) \cup {n} = {Over(a, j) : j \in k .. Highest}
    BY <1>6, ClearedOver DEF Cleared
  <2> QED BY <2>1, <1>5
<1>11. n \in Reachable(o) BY <1>8, <1>9, <1>10 DEF Reachable
<1> QED BY <1>11

LEMMA UniformHeap ==
  ASSUME Constants, BuddyInv
  PROVE  UniformNeverFails
<1> SUFFICES ASSUME NEW size \in Request, orders \subseteq {OrderFor(size)},
                    Cardinality(DOMAIN held) < 2 ^ (Highest - OrderFor(size))
             PROVE  Root \notin full /\ Reachable(OrderFor(size)) # {}
  BY DEF UniformNeverFails
<1>1. OrderFor(size) \in Order BY OrderFits
<1> QED BY <1>1, FullHeap, SearchFinds

-----------------------------------------------------------------------------
LEMMA BuddyStarts == ASSUME Constants, Init PROVE BuddyInv
<1>1. split = {} /\ full = {} /\ held = <<>> /\ orders = {} BY DEF Init
<1>2. DOMAIN held = {} BY <1>1
<1>3. FullLeaf = {} BY <1>1 DEF FullLeaf
<1> QED BY <1>1, <1>2, <1>3
    DEF BuddyInv, TypeOK, Rooted, FlagsExact, Filed, Asked

LEMMA BuddyStep == ASSUME Constants, BuddyInv, Next PROVE BuddyInv'
<1>1. ASSUME NEW size \in Request, Alloc(size) PROVE BuddyInv'
  <2>1. PICK a, o, l : Takes(a, o, l, size) BY <1>1, AllocTakes
  <2> QED BY <2>1, TakesKeeps
<1>2. ASSUME NEW addr \in DOMAIN held, Free(addr) PROVE BuddyInv'
  <2>1. PICK l : Returns(addr, l) BY <1>2, FreeReturns
  <2> QED BY <2>1, ReturnsKeeps
<1> QED BY <1>1, <1>2 DEF Next

LEMMA BuddyStutter == ASSUME Constants, BuddyInv, UNCHANGED vars PROVE BuddyInv'
BY DEF BuddyInv, TypeOK, Rooted, FlagsExact, Filed, Asked, vars, Node,
       Address, Present, FullLeaf, Leaf, Left, Right, Root

LEMMA BuddyTiles ==
  ASSUME Constants, BuddyInv
  PROVE  LeavesTile /\ FlagsExact /\ BlocksHeld /\ UniformNeverFails
<1>1. Rooted /\ Filed BY DEF BuddyInv
<1>2. LeavesTile BY <1>1, TreeTiles
<1>3. \A n, m \in FullLeaf : n # m => Covers(n) \cap Covers(m) = {}
  BY <1>1, LeavesApart DEF FullLeaf
<1>4. BlocksHeld BY <1>1, <1>3 DEF BlocksHeld, Filed
<1> QED BY <1>2, <1>4, UniformHeap DEF BuddyInv

-----------------------------------------------------------------------------
LEMMA BuddyAlways ==
  ASSUME Constants
  PROVE  Spec => []BuddyInv
<1>1. Init => BuddyInv BY BuddyStarts
<1>2. BuddyInv /\ [Next]_vars => BuddyInv' BY BuddyStep, BuddyStutter
<1> QED BY <1>1, <1>2, PTL DEF Spec

\* Only nodes are split, only nodes of the tree are flagged, and each block in
\* use has an address of the heap and a size that was asked for.
THEOREM TypeCorrect ==
  ASSUME Constants
  PROVE  Spec => []TypeOK
<1>1. BuddyInv => TypeOK BY DEF BuddyInv
<1> QED BY <1>1, BuddyAlways, PTL

\* Through every order of allocate_node and release_node, with a merge of one
\* level only, each byte belongs to one leaf.
THEOREM LeavesTileAlways ==
  ASSUME Constants
  PROVE  Spec => []LeavesTile
<1>1. BuddyInv => LeavesTile BY BuddyTiles
<1> QED BY <1>1, BuddyAlways, PTL

\* The flags kept up to date on the way to the root say of every inner node
\* whether there is a free leaf below.
THEOREM FlagsExactAlways ==
  ASSUME Constants
  PROVE  Spec => []FlagsExact
<1>1. BuddyInv => FlagsExact BY BuddyTiles
<1> QED BY <1>1, BuddyAlways, PTL

\* The blocks handed out are the full leaves, do not overlap and are as large
\* as was asked, so free finds the block it is given.
THEOREM BlocksHeldAlways ==
  ASSUME Constants
  PROVE  Spec => []BlocksHeld
<1>1. BuddyInv => BlocksHeld BY BuddyTiles
<1> QED BY <1>1, BuddyAlways, PTL

\* A heap asked for one order only has a free leaf while its bytes are not all
\* in use.
THEOREM UniformNeverFailsAlways ==
  ASSUME Constants
  PROVE  Spec => []UniformNeverFails
<1>1. BuddyInv => UniformNeverFails BY BuddyTiles
<1> QED BY <1>1, BuddyAlways, PTL
=============================================================================
