------------------------------ MODULE FilesProofs ------------------------------
(***************************************************************************)
(* What the file system keeps, for every value of the constants: the queue *)
(* of a table of descriptors has the free ones with the smallest on top,   *)
(* and the counts of EXT2's block groups follow their bitmaps, also when a *)
(* call fails half way.  The last part is what add_block_to_node does to   *)
(* the pointers of a volume; BlocksProofs goes on from there.              *)
(*                                                                         *)
(* The loops of the code are recursive functions in the models.  Such a    *)
(* function is a choice, so each proof about a loop first shows that the   *)
(* function exists: by the smallest argument for which it would not, as    *)
(* the theorems on induction cannot be instantiated.  Only then does it    *)
(* say what the loop keeps, again by the smallest counterexample.          *)
(***************************************************************************)
EXTENDS MCFiles, FiniteSetTheorems, SequenceTheorems, WellFoundedInduction,
        TLAPS

\* A set of numbers that is not empty has a smallest one.
LEMMA Smallest ==
  ASSUME NEW T \in SUBSET Nat, T # {}
  PROVE  \E x \in T : \A y \in T : x <= y
<1> DEFINE R == OpToRel(<, Nat)
<1>1. PICK x \in T : \A y \in T : <<y, x>> \notin R
  <2>1. IsWellFoundedOn(R, Nat) BY NatLessThanWellFounded
  <2> HIDE DEF R
  <2> QED BY <2>1, WFMin
<1>2. \A y \in T : ~ (y < x) BY <1>1 DEF OpToRel
<1> QED BY <1>2

\* The cardinality of the instances is that of the library's theorems.
LEMMA SameSize ==
  /\ \A S : files!Cardinality(S) = Cardinality(S)
  /\ \A S : fds!Cardinality(S) = Cardinality(S)
BY DEF Cardinality, IsFiniteSet, files!Cardinality, files!IsFiniteSet,
       fds!Cardinality, fds!IsFiniteSet

-----------------------------------------------------------------------------
\* The heap of free descriptors: ordered, and with every element once.
Elements(h) == {h[i] : i \in DOMAIN h}
Distinct(h) == \A i, j \in DOMAIN h : h[i] = h[j] => i = j
Ordered(h) == \A i \in 2 .. Len(h) : h[i \div 2] <= h[i]

\* Half of an index is an index.
LEMMA Half ==
  ASSUME NEW n \in Nat, NEW i \in 2 .. n
  PROVE  /\ i \div 2 \in 1 .. n /\ i \div 2 < i
         /\ i = 2 * (i \div 2) \/ i = 2 * (i \div 2) + 1
OBVIOUS

\* An ordered heap has its least element on top.
LEMMA RootLeast ==
  ASSUME NEW h \in Seq(Nat), Ordered(h)
  PROVE  \A i \in DOMAIN h : h[1] <= h[i]
<1> DEFINE Bad == {i \in 1 .. Len(h) : ~(h[1] <= h[i])}
<1> SUFFICES ASSUME Bad # {} PROVE FALSE OBVIOUS
<1>1. PICK i \in Bad : \A j \in Bad : i <= j
  <2>1. Bad \in SUBSET Nat OBVIOUS
  <2> HIDE DEF Bad
  <2> QED BY <2>1, Smallest
<1>2. i \in 2 .. Len(h) OBVIOUS
<1>3. i \div 2 \in 1 .. Len(h) /\ i \div 2 < i BY <1>2, Half
<1>4. h[1] <= h[i \div 2] BY <1>1, <1>3
<1>5. h[i \div 2] <= h[i] BY <1>2 DEF Ordered
<1>6. h[1] \in Nat /\ h[i \div 2] \in Nat /\ h[i] \in Nat BY <1>2, <1>3
<1> QED BY <1>4, <1>5, <1>6

\* h rearranged.
Same(h, g) ==
  /\ g \in Seq(Nat) /\ Len(g) = Len(h)
  /\ Elements(g) = Elements(h) /\ Distinct(g)

LEMMA SwappedAt ==
  ASSUME NEW h \in Seq(Nat), NEW i \in DOMAIN h, NEW j \in DOMAIN h
  PROVE  /\ fds!Swapped(h, i, j) \in Seq(Nat) /\ Len(fds!Swapped(h, i, j)) = Len(h)
         /\ \A k \in DOMAIN h : fds!Swapped(h, i, j)[k] =
              IF k = j THEN h[i] ELSE IF k = i THEN h[j] ELSE h[k]
BY DEF fds!Swapped

LEMMA SwappedSame ==
  ASSUME NEW h \in Seq(Nat), Distinct(h), NEW i \in DOMAIN h, NEW j \in DOMAIN h
  PROVE  Same(h, fds!Swapped(h, i, j))
<1> DEFINE g == fds!Swapped(h, i, j)
<1>1. /\ g \in Seq(Nat) /\ Len(g) = Len(h)
      /\ \A k \in DOMAIN h : g[k] = IF k = j THEN h[i] ELSE IF k = i THEN h[j] ELSE h[k]
  BY SwappedAt
<1> HIDE DEF g
<1>2. DOMAIN g = DOMAIN h BY <1>1
<1>3. Elements(g) = Elements(h)
  <2>1. ASSUME NEW x \in Elements(h) PROVE x \in Elements(g)
    <3>1. PICK k \in DOMAIN h : x = h[k] BY DEF Elements
    <3>2. x = g[IF k = i THEN j ELSE IF k = j THEN i ELSE k] BY <1>1, <3>1
    <3> QED BY <1>2, <3>2 DEF Elements
  <2>2. ASSUME NEW x \in Elements(g) PROVE x \in Elements(h)
    BY <1>1, <1>2 DEF Elements
  <2> QED BY <2>1, <2>2
<1>4. Distinct(g) BY <1>1, <1>2 DEF Distinct
<1> QED BY <1>1, <1>3, <1>4 DEF Same, g

LEMMA SameAgain ==
  ASSUME NEW f, NEW g, NEW h, Same(f, g), Same(g, h)
  PROVE  Same(f, h)
BY DEF Same

-----------------------------------------------------------------------------
\* An element rises to its place (heap.hh, up).

\* The heap g, which was h, is ordered but for the element at a, which may be
\* too small; those below it are not less than the one above it.
Rising(h, g, a) ==
  /\ Same(h, g) /\ a \in 1 .. Len(h)
  /\ \A i \in 2 .. Len(h) : i # a => g[i \div 2] <= g[i]
  /\ \A i \in 2 .. Len(h) : i \div 2 = a /\ a > 1 => g[a \div 2] <= g[i]

LEMMA RiseStays ==
  ASSUME NEW h, NEW g, NEW a, Len(h) \in Nat, Rising(h, g, a),
         ~(a > 1 /\ g[a \div 2] > g[a])
  PROVE  Ordered(g)
<1> SUFFICES ASSUME NEW i \in 2 .. Len(g) PROVE g[i \div 2] <= g[i]
  BY DEF Ordered
<1>1. g \in Seq(Nat) /\ Len(g) = Len(h) /\ a \in 1 .. Len(h) BY DEF Rising, Same
<1>2. CASE i # a BY <1>1, <1>2 DEF Rising
<1>3. CASE i = a
  <2>1. a \div 2 \in 1 .. Len(g) BY <1>1, <1>3, Half
  <2>2. g[a \div 2] \in Nat /\ g[a] \in Nat BY <1>1, <2>1
  <2> QED BY <1>1, <1>3, <2>2
<1> QED BY <1>2, <1>3

LEMMA RiseMoves ==
  ASSUME NEW h, NEW g, NEW a, Len(h) \in Nat, Rising(h, g, a),
         a > 1, g[a \div 2] > g[a]
  PROVE  Rising(h, fds!Swapped(g, a, a \div 2), a \div 2) /\ a \div 2 < a
<1>1. /\ g \in Seq(Nat) /\ Len(g) = Len(h) /\ Distinct(g) /\ a \in 2 .. Len(h)
      /\ DOMAIN g = 1 .. Len(h)
      /\ \A i \in 2 .. Len(h) : i # a => g[i \div 2] <= g[i]
      /\ \A i \in 2 .. Len(h) : i \div 2 = a => g[a \div 2] <= g[i]
  BY DEF Rising, Same
<1>2. PICK n \in Nat : n = Len(h) OBVIOUS
<1>3. PICK p : p = a \div 2 OBVIOUS
<1>4. PICK s : s = fds!Swapped(g, a, p) OBVIOUS
<1>5. p \in 1 .. n /\ p < a /\ p \in DOMAIN g /\ a \in DOMAIN g
  BY <1>1, <1>2, <1>3, Half
<1>6. Same(h, s)
  <2>1. Same(g, s) BY <1>1, <1>2, <1>4, <1>5, SwappedSame
  <2> QED BY <2>1, SameAgain DEF Rising
<1>7. /\ \A k \in 1 .. n : s[k] = IF k = p THEN g[a] ELSE IF k = a THEN g[p] ELSE g[k]
      /\ \A k \in 1 .. n : g[k] \in Nat
  <2>1. \A k \in DOMAIN g : s[k] = IF k = p THEN g[a] ELSE IF k = a THEN g[p] ELSE g[k]
    BY <1>4, <1>5 DEF fds!Swapped
  <2>2. DOMAIN g = 1 .. n BY <1>1, <1>2
  <2>3. g \in Seq(Nat) BY <1>1
  <2>4. \A k \in 1 .. n : g[k] \in Nat BY <2>2, <2>3
  <2> QED BY <2>1, <2>2, <2>4
<1>8. ASSUME NEW i \in 2 .. n, i # p PROVE s[i \div 2] <= s[i]
  <2>1. i \div 2 \in 1 .. n /\ i \div 2 < i BY Half
  <2>2. CASE i = a
    <3>1. s[i \div 2] = g[a] /\ s[i] = g[p] BY <1>1, <1>2, <1>3, <1>5, <1>7, <2>2
    <3> QED BY <1>1, <1>2, <1>3, <1>5, <1>7, <3>1
  <2>3. CASE i # a /\ i \div 2 = a
    <3>1. s[i] = g[i] /\ s[i \div 2] = g[p] BY <1>5, <1>7, <1>8, <2>1, <2>3
    <3> QED BY <1>1, <1>2, <1>3, <3>1, <2>3
  <2>4. CASE i # a /\ i \div 2 = p
    <3>1. s[i] = g[i] /\ s[i \div 2] = g[a] BY <1>7, <1>8, <2>1, <2>4
    <3>2. g[p] <= g[i] BY <1>1, <1>2, <2>4
    <3>3. g[a] \in Nat /\ g[i] \in Nat /\ g[p] \in Nat BY <1>1, <1>2, <1>5, <1>7
    <3> QED BY <1>3, <3>1, <3>2, <3>3
  <2>5. CASE i # a /\ i \div 2 # a /\ i \div 2 # p
    <3>1. s[i] = g[i] /\ s[i \div 2] = g[i \div 2] BY <1>7, <1>8, <2>1, <2>5
    <3> QED BY <1>1, <1>2, <2>5, <3>1
  <2> QED BY <2>2, <2>3, <2>4, <2>5
<1>9. ASSUME NEW i \in 2 .. n, i \div 2 = p, p > 1 PROVE s[p \div 2] <= s[i]
  <2>1. PICK q : q = p \div 2 OBVIOUS
  <2>2. p \in 2 .. n /\ p # a /\ i # p BY <1>5, <1>9, Half
  <2>3. q \in 1 .. n /\ q < p BY <2>1, <2>2, Half
  <2>4. s[q] = g[q] /\ g[q] <= g[p] BY <1>1, <1>2, <1>5, <1>7, <2>1, <2>2, <2>3
  <2>5. CASE i = a
    <3>1. s[i] = g[p] BY <1>7, <2>5, <1>5
    <3> QED BY <2>1, <2>4, <3>1
  <2>6. CASE i # a
    <3>1. s[i] = g[i] BY <1>7, <2>2, <2>6
    <3>2. g[p] <= g[i] BY <1>1, <1>2, <1>9, <2>6
    <3>3. g[q] \in Nat /\ g[p] \in Nat /\ g[i] \in Nat BY <1>7, <1>5, <2>3
    <3> QED BY <2>1, <2>4, <3>1, <3>2, <3>3
  <2> QED BY <2>5, <2>6
<1>10. Rising(h, s, p) BY <1>2, <1>5, <1>6, <1>8, <1>9 DEF Rising
<1> QED BY <1>3, <1>4, <1>5, <1>10

\* The loop is there: the first k iterations, for every k, by the least k for
\* which they would not be.
LEMMA RiseLoop ==
  ASSUME NEW h, NEW i \in Nat
  PROVE  \E f : /\ f = [k \in 0 .. i |-> IF k = 0 THEN [heap |-> h, at |-> i] ELSE fds!Up(f[k - 1])]
                /\ fds!Rise(h, i) = f[i].heap
<1> DEFINE First == [heap |-> h, at |-> i]
           Loop(f, n) == f = [k \in 0 .. n |-> IF k = 0 THEN First ELSE fds!Up(f[k - 1])]
           Bad == {n \in 0 .. i : ~\E f : Loop(f, n)}
<1>1. Bad = {}
  <2> SUFFICES ASSUME Bad # {} PROVE FALSE OBVIOUS
  <2>1. PICK n \in Bad : \A m \in Bad : n <= m
    <3>1. Bad \in SUBSET Nat OBVIOUS
    <3> HIDE DEF Bad
    <3> QED BY <3>1, Smallest
  <2>2. n # 0
    <3>1. Loop([k \in 0 .. 0 |-> First], 0)
      <4> HIDE DEF First
      <4> QED OBVIOUS
    <3> HIDE DEF Loop
    <3> QED BY <2>1, <3>1
  <2>3. n \in 1 .. i /\ n - 1 \in 0 .. i BY <2>1, <2>2
  <2>4. PICK f : Loop(f, n - 1)
    <3> HIDE DEF Loop
    <3>1. n - 1 \notin Bad BY <2>1, <2>3
    <3> QED BY <2>3, <3>1
  <2>5. PICK g : g = [k \in 0 .. n |-> IF k = n THEN fds!Up(f[n - 1]) ELSE f[k]] OBVIOUS
  <2>6. Loop(g, n)
    <3> HIDE DEF First
    <3>1. \A k \in 0 .. n - 1 : g[k] = f[k] BY <2>3, <2>5
    <3>2. \A k \in 0 .. n - 1 : f[k] = IF k = 0 THEN First ELSE fds!Up(f[k - 1])
      BY <2>4
    <3>3. \A k \in 0 .. n : g[k] = IF k = 0 THEN First ELSE fds!Up(g[k - 1])
      <4> TAKE k \in 0 .. n
      <4>1. CASE k = n
        <5>1. g[k] = fds!Up(f[n - 1]) BY <2>5, <4>1
        <5>2. f[n - 1] = g[k - 1] BY <2>3, <3>1, <4>1
        <5> QED BY <2>2, <4>1, <5>1, <5>2
      <4>2. CASE k = 0 BY <2>3, <3>1, <3>2, <4>2
      <4>3. CASE k # n /\ k # 0
        <5>1. k \in 0 .. n - 1 /\ k - 1 \in 0 .. n - 1 BY <2>3, <4>3
        <5>2. g[k] = f[k] /\ f[k - 1] = g[k - 1] BY <3>1, <5>1
        <5> QED BY <3>2, <4>3, <5>1, <5>2
      <4> QED BY <4>1, <4>2, <4>3
    <3>4. g = [k \in 0 .. n |-> g[k]] BY <2>5
    <3> QED BY <3>3, <3>4
  <2> HIDE DEF Loop
  <2> QED BY <2>1, <2>6
<1>2. \E f : Loop(f, i)
  <2>1. i \in 0 .. i /\ i \notin Bad BY <1>1
  <2> HIDE DEF Loop
  <2> QED BY <2>1
<1>3. PICK f : f = CHOOSE g : Loop(g, i) OBVIOUS
<1>4. Loop(f, i)
  <2> HIDE DEF Loop
  <2> QED BY <1>2, <1>3
<1>5. fds!Rise(h, i) = f[i].heap BY <1>3 DEF fds!Rise
<1> QED BY <1>4, <1>5

LEMMA UpStep ==
  ASSUME NEW h, NEW r, Len(h) \in Nat, Rising(h, r.heap, r.at)
  PROVE  /\ Rising(h, fds!Up(r).heap, fds!Up(r).at)
         /\ fds!Up(r).at < r.at \/ (fds!Up(r) = r /\ Ordered(r.heap))
<1>1. CASE r.at > 1 /\ r.heap[r.at \div 2] > r.heap[r.at]
  <2>1. fds!Up(r).heap = fds!Swapped(r.heap, r.at, r.at \div 2) /\ fds!Up(r).at = r.at \div 2
    BY <1>1 DEF fds!Up
  <2> QED BY <1>1, <2>1, RiseMoves
<1>2. CASE ~(r.at > 1 /\ r.heap[r.at \div 2] > r.heap[r.at])
  <2>1. fds!Up(r) = r BY <1>2 DEF fds!Up
  <2> QED BY <1>2, <2>1, RiseStays
<1> QED BY <1>1, <1>2

\* An element added behind an ordered heap finds its place.
LEMMA RiseHeap ==
  ASSUME NEW h \in Seq(Nat), Distinct(h), Len(h) > 0,
         \A k \in 2 .. Len(h) : k # Len(h) => h[k \div 2] <= h[k]
  PROVE  Same(h, fds!Rise(h, Len(h))) /\ Ordered(fds!Rise(h, Len(h)))
<1>1. PICK i \in Nat \ {0} : i = Len(h) OBVIOUS
<1>2. PICK f : /\ f = [k \in 0 .. i |-> IF k = 0 THEN [heap |-> h, at |-> i] ELSE fds!Up(f[k - 1])]
               /\ fds!Rise(h, i) = f[i].heap
  BY RiseLoop
<1>3. f[0].heap = h /\ f[0].at = i BY <1>2
<1>4. \A k \in 1 .. i : f[k] = fds!Up(f[k - 1]) BY <1>2
<1> DEFINE Good(k) == /\ Rising(h, f[k].heap, f[k].at)
                      /\ f[k].at <= i - k \/ (fds!Up(f[k]) = f[k] /\ Ordered(f[k].heap))
           Bad == {k \in 0 .. i : ~Good(k)}
<1>5. Bad = {}
  <2> SUFFICES ASSUME Bad # {} PROVE FALSE OBVIOUS
  <2>1. PICK k \in Bad : \A m \in Bad : k <= m
    <3>1. Bad \in SUBSET Nat OBVIOUS
    <3> HIDE DEF Bad
    <3> QED BY <3>1, Smallest
  <2>2. k # 0
    <3>1. Rising(h, h, i)
      <4>1. Same(h, h) BY DEF Same
      <4>2. \A j \in 2 .. Len(h) : ~(j \div 2 = i) BY <1>1
      <4> QED BY SMTT(30), <1>1, <4>1, <4>2 DEF Rising
    <3>2. Good(0) BY <1>3, <3>1
    <3> QED BY <2>1, <3>2
  <2>3. k \in 1 .. i /\ k - 1 \in 0 .. i BY <2>1, <2>2
  <2>4. Good(k - 1)
    <3> HIDE DEF Good
    <3>1. k - 1 \notin Bad BY <2>1, <2>3
    <3> QED BY <2>3, <3>1
  <2>5. PICK r : r = f[k - 1] OBVIOUS
  <2>6. f[k] = fds!Up(r) BY <1>4, <2>3, <2>5
  <2>7. /\ Rising(h, fds!Up(r).heap, fds!Up(r).at)
        /\ fds!Up(r).at < r.at \/ (fds!Up(r) = r /\ Ordered(r.heap))
    <3>1. Rising(h, r.heap, r.at) BY <2>4, <2>5
    <3>2. Len(h) \in Nat OBVIOUS
    <3> QED BY <3>1, <3>2, UpStep
  <2>8. r.at <= i - (k - 1) \/ fds!Up(r) = r BY <2>4, <2>5
  <2>9. r.at \in Nat /\ fds!Up(r).at \in Nat
    <3>1. Rising(h, r.heap, r.at) BY <2>4, <2>5
    <3>2. \A g, a : Rising(h, g, a) => a \in Nat BY <1>1 DEF Rising
    <3> QED BY <2>7, <3>1, <3>2
  <2>10. Good(k)
    <3>1. CASE fds!Up(r) = r /\ Ordered(r.heap) BY <2>6, <2>7, <3>1
    <3>2. CASE fds!Up(r).at < r.at /\ fds!Up(r) # r
      <4>1. fds!Up(r).at <= i - k BY <2>3, <2>8, <2>9, <3>2
      <4> QED BY <2>6, <2>7, <4>1
    <3>3. CASE fds!Up(r).at < r.at /\ fds!Up(r) = r BY <2>9, <3>3
    <3> QED BY <2>7, <3>1, <3>2, <3>3
  <2> QED BY <2>1, <2>10
<1>6. Good(i)
  <2>1. i \in 0 .. i /\ i \notin Bad BY <1>5
  <2> HIDE DEF Good
  <2> QED BY <2>1
<1>7. Same(h, f[i].heap) /\ Ordered(f[i].heap)
  <2>1. f[i].at >= 1 BY <1>6 DEF Rising
  <2> QED BY <1>6, <2>1 DEF Rising
<1> QED BY <1>1, <1>2, <1>7

-----------------------------------------------------------------------------
\* An element sinks to its place (heap.hh, down).

\* The heap g, which was h, is ordered but for the element at a, which may be
\* too large; those below it are not less than the one above it.
Sinking(h, g, a) ==
  /\ Same(h, g) /\ a \in 1 .. Len(h)
  /\ \A i \in 2 .. Len(h) : i \div 2 # a => g[i \div 2] <= g[i]
  /\ \A i \in 2 .. Len(h) : i \div 2 = a /\ a > 1 => g[a \div 2] <= g[i]

\* The child that moves up is the least one.
LEMMA ChildLeast ==
  ASSUME NEW g \in Seq(Nat), NEW a \in Nat \ {0}, 2 * a <= Len(g)
  PROVE  /\ fds!Child(g, a) \in 2 .. Len(g) /\ fds!Child(g, a) \div 2 = a /\ fds!Child(g, a) > a
         /\ \A i \in 2 .. Len(g) : i \div 2 = a => g[fds!Child(g, a)] <= g[i]
<1>1. PICK n \in Nat : n = Len(g) OBVIOUS
<1>2. \A i \in 1 .. n : g[i] \in Nat BY <1>1
<1>3. \A i \in 2 .. n : i \div 2 = a => i = 2 * a \/ i = 2 * a + 1 OBVIOUS
<1>4. CASE fds!Child(g, a) = 2 * a
  <2>1. 2 * a = n \/ g[2 * a + 1] > g[2 * a] BY <1>1, <1>4 DEF fds!Child
  <2>2. (2 * a) \div 2 = a /\ 2 * a \in 2 .. n /\ 2 * a > a BY <1>1
  <2>3. ASSUME NEW i \in 2 .. n, i \div 2 = a PROVE g[2 * a] <= g[i]
    <3>1. CASE i = 2 * a BY <1>2, <3>1
    <3>2. CASE i = 2 * a + 1
      <4>1. 2 * a # n BY <3>2, <2>2
      <4> QED BY <1>2, <2>1, <2>2, <3>2, <4>1
    <3> QED BY <1>3, <2>3, <3>1, <3>2
  <2> QED BY <1>1, <1>4, <2>2, <2>3
<1>5. CASE fds!Child(g, a) # 2 * a
  <2>1. fds!Child(g, a) = 2 * a + 1 /\ 2 * a # n /\ ~(g[2 * a + 1] > g[2 * a])
    BY <1>1, <1>5 DEF fds!Child
  <2>2. /\ (2 * a + 1) \div 2 = a /\ 2 * a + 1 \in 2 .. n /\ 2 * a + 1 > a
        /\ 2 * a \in 2 .. n
    BY <1>1, <2>1
  <2>3. ASSUME NEW i \in 2 .. n, i \div 2 = a PROVE g[2 * a + 1] <= g[i]
    <3>1. g[2 * a] \in Nat /\ g[2 * a + 1] \in Nat
      <4>1. 2 * a \in 1 .. n /\ 2 * a + 1 \in 1 .. n BY <2>2
      <4> QED BY <1>2, <4>1
    <3>2. g[2 * a + 1] <= g[2 * a] /\ g[2 * a + 1] <= g[2 * a + 1] BY <2>1, <3>1
    <3> QED BY <1>3, <2>3, <3>2
  <2> QED BY <1>1, <2>1, <2>2, <2>3
<1> QED BY <1>4, <1>5

LEMMA SinkStays ==
  ASSUME NEW h, NEW g, NEW a, Len(h) \in Nat, Sinking(h, g, a),
         ~(2 * a <= Len(g) /\ g[a] > g[fds!Child(g, a)])
  PROVE  Ordered(g)
<1> SUFFICES ASSUME NEW i \in 2 .. Len(g) PROVE g[i \div 2] <= g[i]
  BY DEF Ordered
<1>1. g \in Seq(Nat) /\ Len(g) = Len(h) /\ a \in Nat \ {0} /\ a \in 1 .. Len(g)
  BY DEF Sinking, Same
<1>2. CASE i \div 2 # a BY <1>1, <1>2 DEF Sinking
<1>3. CASE i \div 2 = a
  <2>1. 2 * a <= Len(g) BY <1>1, <1>3
  <2>2. /\ fds!Child(g, a) \in 2 .. Len(g)
        /\ \A j \in 2 .. Len(g) : j \div 2 = a => g[fds!Child(g, a)] <= g[j]
    BY <1>1, <2>1, ChildLeast
  <2>3. g[a] \in Nat /\ g[fds!Child(g, a)] \in Nat /\ g[i] \in Nat BY SMTT(30), <1>1, <2>2
  <2>4. g[a] <= g[fds!Child(g, a)] BY <2>1, <2>3
  <2> QED BY <1>3, <2>2, <2>3, <2>4
<1> QED BY <1>2, <1>3

LEMMA SinkMoves ==
  ASSUME NEW h, NEW g, NEW a, Len(h) \in Nat, Sinking(h, g, a),
         2 * a <= Len(g), g[a] > g[fds!Child(g, a)]
  PROVE  Sinking(h, fds!Swapped(g, a, fds!Child(g, a)), fds!Child(g, a)) /\ fds!Child(g, a) > a
<1>1. /\ g \in Seq(Nat) /\ Len(g) = Len(h) /\ Distinct(g)
      /\ DOMAIN g = 1 .. Len(h) /\ a \in DOMAIN g
      /\ \A i \in 2 .. Len(h) : i \div 2 # a => g[i \div 2] <= g[i]
      /\ \A i \in 2 .. Len(h) : i \div 2 = a /\ a > 1 => g[a \div 2] <= g[i]
  BY DEF Sinking, Same
<1>2. PICK n \in Nat : n = Len(h) OBVIOUS
<1>3. PICK c : c = fds!Child(g, a) OBVIOUS
<1>4. PICK s : s = fds!Swapped(g, a, c) OBVIOUS
<1>5. /\ c \in 2 .. n /\ c \div 2 = a /\ c > a /\ c \in DOMAIN g /\ a \in 1 .. n
      /\ \A i \in 2 .. n : i \div 2 = a => g[c] <= g[i]
  <2>1. a \in Nat \ {0} /\ g \in Seq(Nat) BY <1>1, <1>2
  <2>2. /\ c \in 2 .. Len(g) /\ c \div 2 = a /\ c > a
        /\ \A i \in 2 .. Len(g) : i \div 2 = a => g[c] <= g[i]
    BY <1>3, <2>1, ChildLeast
  <2> QED BY <1>1, <1>2, <2>2
<1>6. Same(h, s)
  <2>1. Same(g, s) BY <1>1, <1>4, <1>5, SwappedSame
  <2> QED BY <2>1, SameAgain DEF Sinking
<1>7. /\ \A k \in 1 .. n : s[k] = IF k = c THEN g[a] ELSE IF k = a THEN g[c] ELSE g[k]
      /\ \A k \in 1 .. n : g[k] \in Nat
  <2>1. \A k \in DOMAIN g : s[k] = IF k = c THEN g[a] ELSE IF k = a THEN g[c] ELSE g[k]
    BY <1>1, <1>4, <1>5 DEF fds!Swapped
  <2>2. DOMAIN g = 1 .. n BY <1>1, <1>2
  <2>3. g \in Seq(Nat) BY <1>1
  <2>4. \A k \in 1 .. n : g[k] \in Nat BY <2>2, <2>3
  <2> QED BY <2>1, <2>2, <2>4
<1>8. ASSUME NEW i \in 2 .. n, i \div 2 # c PROVE s[i \div 2] <= s[i]
  <2>1. i \div 2 \in 1 .. n /\ i \div 2 < i BY Half
  <2>2. CASE i = c
    <3>1. s[i \div 2] = g[c] /\ s[i] = g[a] BY <1>5, <1>7, <2>2
    <3> QED BY <1>3, <1>5, <1>7, <3>1
  <2>3. CASE i # c /\ i \div 2 = a
    <3>1. s[i] = g[i] /\ s[i \div 2] = g[c] BY <1>5, <1>7, <2>1, <2>3
    <3> QED BY <1>5, <3>1, <2>3
  <2>4. CASE i = a
    <3>1. s[i] = g[c] /\ s[i \div 2] = g[i \div 2] BY <1>5, <1>7, <1>8, <2>1, <2>4
    <3>2. a > 1 BY <2>4
    <3> QED BY <1>1, <1>2, <1>5, <3>1, <3>2, <2>4
  <2>5. CASE i # c /\ i # a /\ i \div 2 # a
    <3>1. s[i] = g[i] /\ s[i \div 2] = g[i \div 2] BY SMTT(30), <1>7, <1>8, <2>1, <2>5
    <3> QED BY <1>1, <1>2, <2>5, <3>1
  <2> QED BY <2>2, <2>3, <2>4, <2>5
<1>9. ASSUME NEW i \in 2 .. n, i \div 2 = c PROVE s[c \div 2] <= s[i]
  <2>1. i \in 1 .. n /\ i > c BY <1>9, Half
  <2>2. s[c \div 2] = g[c] /\ s[i] = g[i] BY <1>5, <1>7, <2>1
  <2>3. g[c] <= g[i] BY <1>1, <1>2, <1>5, <1>9
  <2> QED BY <2>2, <2>3
<1>10. Sinking(h, s, c) BY <1>2, <1>5, <1>6, <1>8, <1>9 DEF Sinking
<1> QED BY <1>3, <1>4, <1>5, <1>10

LEMMA SinkLoop ==
  ASSUME NEW h, Len(h) \in Nat
  PROVE  \E f : /\ f = [k \in 0 .. Len(h) |-> IF k = 0 THEN [heap |-> h, at |-> 1] ELSE fds!Down(f[k - 1])]
                /\ fds!Sink(h) = f[Len(h)].heap
<1> DEFINE First == [heap |-> h, at |-> 1]
           Loop(f, n) == f = [k \in 0 .. n |-> IF k = 0 THEN First ELSE fds!Down(f[k - 1])]
           Bad == {n \in 0 .. Len(h) : ~\E f : Loop(f, n)}
<1>1. Bad = {}
  <2> SUFFICES ASSUME Bad # {} PROVE FALSE OBVIOUS
  <2>1. PICK n \in Bad : \A m \in Bad : n <= m
    <3>1. Bad \in SUBSET Nat OBVIOUS
    <3> HIDE DEF Bad
    <3> QED BY <3>1, Smallest
  <2>2. n # 0
    <3>1. Loop([k \in 0 .. 0 |-> First], 0)
      <4> HIDE DEF First
      <4> QED OBVIOUS
    <3> HIDE DEF Loop
    <3> QED BY <2>1, <3>1
  <2>3. n \in 1 .. Len(h) /\ n - 1 \in 0 .. Len(h) BY <2>1, <2>2
  <2>4. PICK f : Loop(f, n - 1)
    <3> HIDE DEF Loop
    <3>1. n - 1 \notin Bad BY <2>1, <2>3
    <3> QED BY <2>3, <3>1
  <2>5. PICK g : g = [k \in 0 .. n |-> IF k = n THEN fds!Down(f[n - 1]) ELSE f[k]] OBVIOUS
  <2>6. Loop(g, n)
    <3> HIDE DEF First
    <3>1. \A k \in 0 .. n - 1 : g[k] = f[k] BY <2>3, <2>5
    <3>2. \A k \in 0 .. n - 1 : f[k] = IF k = 0 THEN First ELSE fds!Down(f[k - 1])
      BY <2>4
    <3>3. \A k \in 0 .. n : g[k] = IF k = 0 THEN First ELSE fds!Down(g[k - 1])
      <4> TAKE k \in 0 .. n
      <4>1. CASE k = n
        <5>1. g[k] = fds!Down(f[n - 1]) BY <2>5, <4>1
        <5>2. f[n - 1] = g[k - 1] BY <2>3, <3>1, <4>1
        <5> QED BY <2>2, <4>1, <5>1, <5>2
      <4>2. CASE k = 0 BY <2>3, <3>1, <3>2, <4>2
      <4>3. CASE k # n /\ k # 0
        <5>1. k \in 0 .. n - 1 /\ k - 1 \in 0 .. n - 1 BY <2>3, <4>3
        <5>2. g[k] = f[k] /\ f[k - 1] = g[k - 1] BY <3>1, <5>1
        <5> QED BY <3>2, <4>3, <5>1, <5>2
      <4> QED BY <4>1, <4>2, <4>3
    <3>4. g = [k \in 0 .. n |-> g[k]] BY <2>5
    <3> QED BY <3>3, <3>4
  <2> HIDE DEF Loop
  <2> QED BY <2>1, <2>6
<1>2. \E f : Loop(f, Len(h))
  <2>1. Len(h) \in 0 .. Len(h) /\ Len(h) \notin Bad BY <1>1
  <2> HIDE DEF Loop
  <2> QED BY <2>1
<1>3. PICK f : f = CHOOSE g : Loop(g, Len(h)) OBVIOUS
<1>4. Loop(f, Len(h))
  <2> HIDE DEF Loop
  <2> QED BY <1>2, <1>3
<1>5. fds!Sink(h) = f[Len(h)].heap BY <1>3 DEF fds!Sink
<1> QED BY <1>4, <1>5

LEMMA DownStep ==
  ASSUME NEW h, NEW r, Len(h) \in Nat, Sinking(h, r.heap, r.at)
  PROVE  /\ Sinking(h, fds!Down(r).heap, fds!Down(r).at)
         /\ fds!Down(r).at > r.at \/ (fds!Down(r) = r /\ Ordered(r.heap))
<1>1. PICK c : c = fds!Child(r.heap, r.at) OBVIOUS
<1>2. CASE 2 * r.at <= Len(r.heap) /\ r.heap[r.at] > r.heap[c]
  <2>1. fds!Down(r).heap = fds!Swapped(r.heap, r.at, c) /\ fds!Down(r).at = c
    BY <1>1, <1>2 DEF fds!Down
  <2> QED BY <1>1, <1>2, <2>1, SinkMoves
<1>3. CASE ~(2 * r.at <= Len(r.heap) /\ r.heap[r.at] > r.heap[c])
  <2>1. fds!Down(r) = r BY <1>1, <1>3 DEF fds!Down
  <2> QED BY <1>1, <1>3, <2>1, SinkStays
<1> QED BY <1>2, <1>3

\* An element put on top of an ordered heap finds its place.
LEMMA SinkHeap ==
  ASSUME NEW h \in Seq(Nat), Distinct(h), Len(h) > 0,
         \A k \in 2 .. Len(h) : k \div 2 # 1 => h[k \div 2] <= h[k]
  PROVE  Same(h, fds!Sink(h)) /\ Ordered(fds!Sink(h))
<1>1. PICK n \in Nat \ {0} : n = Len(h) OBVIOUS
<1>2. PICK f : /\ f = [k \in 0 .. n |-> IF k = 0 THEN [heap |-> h, at |-> 1] ELSE fds!Down(f[k - 1])]
               /\ fds!Sink(h) = f[n].heap
  BY <1>1, SinkLoop
<1>3. f[0].heap = h /\ f[0].at = 1 BY <1>2
<1>4. \A k \in 1 .. n : f[k] = fds!Down(f[k - 1]) BY <1>2
<1> DEFINE Good(k) == /\ Sinking(h, f[k].heap, f[k].at)
                      /\ f[k].at > k \/ (fds!Down(f[k]) = f[k] /\ Ordered(f[k].heap))
           Bad == {k \in 0 .. n : ~Good(k)}
<1>5. Bad = {}
  <2> SUFFICES ASSUME Bad # {} PROVE FALSE OBVIOUS
  <2>1. PICK k \in Bad : \A m \in Bad : k <= m
    <3>1. Bad \in SUBSET Nat OBVIOUS
    <3> HIDE DEF Bad
    <3> QED BY <3>1, Smallest
  <2>2. k # 0
    <3>1. Sinking(h, h, 1)
      <4>1. Same(h, h) BY DEF Same
      <4> QED BY SMTT(30), <1>1, <4>1 DEF Sinking
    <3>2. Good(0) BY <1>3, <3>1
    <3> QED BY <2>1, <3>2
  <2>3. k \in 1 .. n /\ k - 1 \in 0 .. n BY <2>1, <2>2
  <2>4. Good(k - 1)
    <3> HIDE DEF Good
    <3>1. k - 1 \notin Bad BY <2>1, <2>3
    <3> QED BY <2>3, <3>1
  <2>5. PICK r : r = f[k - 1] OBVIOUS
  <2>6. f[k] = fds!Down(r) BY <1>4, <2>3, <2>5
  <2>7. /\ Sinking(h, fds!Down(r).heap, fds!Down(r).at)
        /\ fds!Down(r).at > r.at \/ (fds!Down(r) = r /\ Ordered(r.heap))
    <3>1. Sinking(h, r.heap, r.at) BY <2>4, <2>5
    <3>2. Len(h) \in Nat OBVIOUS
    <3> QED BY <3>1, <3>2, DownStep
  <2>8. r.at > k - 1 \/ fds!Down(r) = r BY <2>4, <2>5
  <2>9. r.at \in Nat /\ fds!Down(r).at \in Nat
    <3>1. Sinking(h, r.heap, r.at) BY <2>4, <2>5
    <3>2. \A g, a : Sinking(h, g, a) => a \in Nat BY <1>1 DEF Sinking
    <3> QED BY <2>7, <3>1, <3>2
  <2>10. Good(k)
    <3>1. CASE fds!Down(r) = r /\ Ordered(r.heap) BY <2>6, <2>7, <3>1
    <3>2. CASE fds!Down(r).at > r.at /\ fds!Down(r) # r
      <4>1. fds!Down(r).at > k BY <2>3, <2>8, <2>9, <3>2
      <4> QED BY <2>6, <2>7, <4>1
    <3>3. CASE fds!Down(r).at > r.at /\ fds!Down(r) = r BY <2>9, <3>3
    <3> QED BY <2>7, <3>1, <3>2, <3>3
  <2> QED BY <2>1, <2>10
<1>6. Good(n)
  <2>1. n \in 0 .. n /\ n \notin Bad BY <1>5
  <2> HIDE DEF Good
  <2> QED BY <2>1
<1>7. Same(h, f[n].heap) /\ Ordered(f[n].heap)
  <2>1. f[n].at <= n BY <1>1, <1>6 DEF Sinking
  <2> QED BY <1>6, <2>1, <1>1 DEF Sinking
<1> QED BY <1>2, <1>7

-----------------------------------------------------------------------------
\* What push and pop make of a queue.
Queue(h) == h \in Seq(Nat) /\ Distinct(h) /\ Ordered(h)

LEMMA PushQueue ==
  ASSUME NEW h, Queue(h), NEW n \in Nat, n \notin Elements(h)
  PROVE  Queue(fds!Push(h, n)) /\ Elements(fds!Push(h, n)) = Elements(h) \cup {n}
<1>1. PICK l \in Nat : l = Len(h) BY DEF Queue
<1>2. PICK g : g = Append(h, n) OBVIOUS
<1>3. /\ g \in Seq(Nat) /\ Len(g) = l + 1 /\ DOMAIN g = 1 .. l + 1 /\ DOMAIN h = 1 .. l
      /\ \A k \in 1 .. l : g[k] = h[k]
      /\ g[l + 1] = n
  BY <1>1, <1>2 DEF Queue
<1>4. Elements(g) = Elements(h) \cup {n}
  <2>1. ASSUME NEW x \in Elements(g) PROVE x \in Elements(h) \cup {n}
    <3>1. PICK k \in 1 .. l + 1 : x = g[k] BY <1>3 DEF Elements
    <3>2. k \in 1 .. l \/ k = l + 1 OBVIOUS
    <3> QED BY <1>3, <3>1, <3>2 DEF Elements
  <2>2. ASSUME NEW x \in Elements(h) PROVE x \in Elements(g)
    <3>1. PICK k \in 1 .. l : x = h[k] BY <1>3 DEF Elements
    <3>2. k \in 1 .. l + 1 /\ x = g[k] BY <1>3, <3>1
    <3> QED BY <1>3, <3>2 DEF Elements
  <2>3. n \in Elements(g)
    <3>1. l + 1 \in 1 .. l + 1 OBVIOUS
    <3> QED BY <1>3, <3>1 DEF Elements
  <2> QED BY <2>1, <2>2, <2>3
<1>5. Distinct(g)
  <2> SUFFICES ASSUME NEW i \in 1 .. l + 1, NEW j \in 1 .. l + 1, g[i] = g[j], i # j
               PROVE FALSE
    BY <1>3 DEF Distinct
  <2>1. CASE i \in 1 .. l /\ j \in 1 .. l
    <3>1. h[i] = h[j] BY <1>3, <2>1
    <3> QED BY <1>3, <2>1, <3>1 DEF Queue, Distinct
  <2>2. CASE i = l + 1
    <3>1. j \in 1 .. l BY <2>2
    <3> QED BY <1>3, <2>2, <3>1 DEF Elements
  <2>3. CASE j = l + 1
    <3>1. i \in 1 .. l BY <2>3
    <3> QED BY <1>3, <2>3, <3>1 DEF Elements
  <2> QED BY <2>1, <2>2, <2>3
<1>6. \A k \in 2 .. Len(g) : k # Len(g) => g[k \div 2] <= g[k]
  <2>1. Len(g) = l + 1 BY <1>3
  <2> SUFFICES ASSUME NEW k \in 2 .. Len(g), k # Len(g) PROVE g[k \div 2] <= g[k] OBVIOUS
  <2>2. k \in 2 .. l BY <2>1
  <2>3. k \div 2 \in 1 .. l /\ k \in 1 .. l BY <2>2, Half
  <2>4. h[k \div 2] <= h[k] BY <1>1, <2>2 DEF Queue, Ordered
  <2>5. g[k \div 2] = h[k \div 2] /\ g[k] = h[k] BY <1>3, <2>3
  <2> QED BY <2>4, <2>5
<1>7. Same(g, fds!Rise(g, Len(g))) /\ Ordered(fds!Rise(g, Len(g)))
  <2>1. Len(g) > 0 BY <1>3
  <2> QED BY <1>3, <1>5, <1>6, <2>1, RiseHeap
<1>8. fds!Push(h, n) = fds!Rise(g, Len(g)) BY <1>1, <1>2, <1>3 DEF fds!Push
<1> QED BY <1>4, <1>7, <1>8 DEF Queue, Same

LEMMA PopQueue ==
  ASSUME NEW h, Queue(h), h # <<>>
  PROVE  Queue(fds!Pop(h)) /\ Elements(fds!Pop(h)) = Elements(h) \ {h[1]}
<1>1. PICK n \in Nat \ {0} : n = Len(h) BY DEF Queue
<1>2. h \in Seq(Nat) /\ DOMAIN h = 1 .. n /\ \A k \in 1 .. n : h[k] \in Nat
  <2>1. h \in Seq(Nat) BY DEF Queue
  <2> QED BY <1>1, <2>1
<1>3. CASE n = 1
  <2>1. fds!Pop(h) = <<>> BY <1>1, <1>3 DEF fds!Pop
  <2>2. Elements(h) = {h[1]} BY <1>2, <1>3 DEF Elements
  <2>3. Queue(<<>>) /\ Elements(<<>>) = {} BY DEF Queue, Distinct, Ordered, Elements
  <2> QED BY <2>1, <2>2, <2>3
<1>4. CASE n # 1
  <2>1. PICK s : s = [h EXCEPT ![1] = h[n]] OBVIOUS
  <2>2. /\ s \in Seq(Nat) /\ Len(s) = n
        /\ \A k \in 1 .. n : s[k] = IF k = 1 THEN h[n] ELSE h[k]
    BY <1>1, <1>2, <2>1
  <2>3. PICK g : g = SubSeq(s, 1, n - 1) OBVIOUS
  <2>4. PICK l \in Nat \ {0} : l = n - 1 BY <1>4
  <2>5. /\ g \in Seq(Nat) /\ Len(g) = l /\ DOMAIN g = 1 .. l
        /\ \A k \in 1 .. l : g[k] = s[k]
    BY <2>2, <2>3, <2>4
  <2>6. \A k \in 1 .. l : g[k] = IF k = 1 THEN h[n] ELSE h[k] BY <2>2, <2>4, <2>5
  <2>7. Elements(g) = Elements(h) \ {h[1]}
    <3>1. ASSUME NEW x \in Elements(g) PROVE x \in Elements(h) \ {h[1]}
      <4>1. PICK k \in 1 .. l : x = g[k] BY <2>5 DEF Elements
      <4>2. PICK m \in 2 .. n : x = h[m]
        <5>1. CASE k = 1 BY <2>4, <2>6, <4>1, <5>1
        <5>2. CASE k # 1 BY <2>4, <2>6, <4>1, <5>2
        <5> QED BY <5>1, <5>2
      <4>3. m \in 1 .. n /\ 1 \in 1 .. n /\ m # 1 OBVIOUS
      <4>4. h[m] # h[1] BY <1>2, <4>3 DEF Queue, Distinct
      <4> QED BY <1>2, <4>2, <4>3, <4>4 DEF Elements
    <3>2. ASSUME NEW x \in Elements(h), x # h[1] PROVE x \in Elements(g)
      <4>1. PICK m \in 1 .. n : x = h[m] BY <1>2 DEF Elements
      <4>2. \E k \in 1 .. l : x = g[k]
        <5>1. CASE m = n
          <6>1. 1 \in 1 .. l OBVIOUS
          <6> QED BY <2>6, <4>1, <5>1, <6>1
        <5>2. CASE m # n
          <6>1. m \in 1 .. l /\ m # 1 BY <2>4, <3>2, <4>1, <5>2
          <6> QED BY <2>6, <4>1, <6>1
        <5> QED BY <5>1, <5>2
      <4> QED BY <2>5, <4>2 DEF Elements
    <3> QED BY <3>1, <3>2
  <2>8. Distinct(g)
    <3> SUFFICES ASSUME NEW i \in 1 .. l, NEW j \in 1 .. l, g[i] = g[j] PROVE i = j
      BY <2>5 DEF Distinct
    <3>1. PICK a \in 1 .. n : a = IF i = 1 THEN n ELSE i BY <2>4
    <3>2. PICK b \in 1 .. n : b = IF j = 1 THEN n ELSE j BY <2>4
    <3>3. h[a] = h[b] BY <2>6, <3>1, <3>2
    <3>4. a = b BY <1>2, <3>3 DEF Queue, Distinct
    <3> QED BY <2>4, <3>1, <3>2, <3>4
  <2>9. \A k \in 2 .. Len(g) : k \div 2 # 1 => g[k \div 2] <= g[k]
    <3> SUFFICES ASSUME NEW k \in 2 .. l, k \div 2 # 1 PROVE g[k \div 2] <= g[k]
      BY <2>5
    <3>1. k \div 2 \in 1 .. l /\ k \in 1 .. l /\ k # 1 BY Half
    <3>2. k \in 2 .. Len(h) BY <1>1, <2>4
    <3>3. h[k \div 2] <= h[k] BY <3>2 DEF Queue, Ordered
    <3> QED BY <2>6, <3>1, <3>3
  <2>10. Same(g, fds!Sink(g)) /\ Ordered(fds!Sink(g))
    <3>1. Len(g) > 0 BY <2>5
    <3> QED BY <2>5, <2>8, <2>9, <3>1, SinkHeap
  <2>11. fds!Pop(h) = fds!Sink(g) BY <1>1, <1>4, <2>1, <2>3 DEF fds!Pop
  <2> QED BY <2>7, <2>10, <2>11 DEF Queue, Same
<1> QED BY <1>3, <1>4

PushedBy(f, h, i, end) ==
  f = [n \in i .. end |-> IF n = i THEN h ELSE fds!Push(f[n - 1], n - 1)]

LEMMA PushLoop ==
  ASSUME NEW h, NEW i \in Nat, NEW end \in Nat, i <= end, NEW twice,
         end = (twice + 1) \div 2
  PROVE  \E f : PushedBy(f, h, i, end) /\ fds!PushFrom(h, i, twice) = f[end]
<1> DEFINE Loop(f, m) == f = [n \in i .. m |-> IF n = i THEN h ELSE fds!Push(f[n - 1], n - 1)]
           Bad == {m \in i .. end : ~\E f : Loop(f, m)}
<1>1. Bad = {}
  <2> SUFFICES ASSUME Bad # {} PROVE FALSE OBVIOUS
  <2>1. PICK m \in Bad : \A l \in Bad : m <= l
    <3>1. Bad \in SUBSET Nat OBVIOUS
    <3> HIDE DEF Bad
    <3> QED BY <3>1, Smallest
  <2>2. m # i
    <3>1. Loop([n \in i .. i |-> h], i) OBVIOUS
    <3> HIDE DEF Loop
    <3> QED BY <2>1, <3>1
  <2>3. m \in i + 1 .. end /\ m - 1 \in i .. end BY <2>1, <2>2
  <2>4. PICK f : Loop(f, m - 1)
    <3> HIDE DEF Loop
    <3>1. m - 1 \notin Bad BY <2>1, <2>3
    <3> QED BY <2>3, <3>1
  <2>5. PICK g : g = [n \in i .. m |-> IF n = m THEN fds!Push(f[m - 1], m - 1) ELSE f[n]] OBVIOUS
  <2>6. Loop(g, m)
    <3>1. \A n \in i .. m - 1 : g[n] = f[n] BY <2>3, <2>5
    <3>2. \A n \in i .. m - 1 : f[n] = IF n = i THEN h ELSE fds!Push(f[n - 1], n - 1)
      BY <2>4
    <3>3. \A n \in i .. m : g[n] = IF n = i THEN h ELSE fds!Push(g[n - 1], n - 1)
      <4> TAKE n \in i .. m
      <4>1. CASE n = m
        <5>1. g[n] = fds!Push(f[m - 1], m - 1) BY <2>5, <4>1
        <5>2. f[m - 1] = g[n - 1] BY <2>3, <3>1, <4>1
        <5> QED BY <2>2, <4>1, <5>1, <5>2
      <4>2. CASE n = i BY <2>3, <3>1, <3>2, <4>2
      <4>3. CASE n # m /\ n # i
        <5>1. n \in i .. m - 1 /\ n - 1 \in i .. m - 1 BY <2>3, <4>3
        <5>2. g[n] = f[n] /\ f[n - 1] = g[n - 1] BY <3>1, <5>1
        <5> QED BY <3>2, <4>3, <5>1, <5>2
      <4> QED BY <4>1, <4>2, <4>3
    <3>4. g = [n \in i .. m |-> g[n]] BY <2>5
    <3> QED BY <3>3, <3>4
  <2> HIDE DEF Loop
  <2> QED BY <2>1, <2>6
<1>2. \E f : Loop(f, end)
  <2>1. end \in i .. end /\ end \notin Bad BY <1>1
  <2> HIDE DEF Loop
  <2> QED BY <2>1
<1>3. PICK f : f = CHOOSE g : Loop(g, end) OBVIOUS
<1>4. Loop(f, end)
  <2> HIDE DEF Loop
  <2> QED BY <1>2, <1>3
<1>5. fds!PushFrom(h, i, twice) = f[end] BY <1>3 DEF fds!PushFrom
<1> QED BY <1>4, <1>5 DEF PushedBy

\* The new numbers become the queue.
LEMMA PushFromQueue ==
  ASSUME NEW i \in Nat, NEW end \in Nat, i <= end, NEW twice,
         end = (twice + 1) \div 2
  PROVE  /\ Queue(fds!PushFrom(<<>>, i, twice))
         /\ Elements(fds!PushFrom(<<>>, i, twice)) = i .. end - 1
<1>0. PICK h : h = <<>> OBVIOUS
<1>1. PICK f : PushedBy(f, h, i, end) /\ fds!PushFrom(h, i, twice) = f[end]
  BY PushLoop
<1> DEFINE Good(n) == Queue(f[n]) /\ Elements(f[n]) = i .. n - 1
           Bad == {n \in i .. end : ~Good(n)}
<1>2. Bad = {}
  <2> SUFFICES ASSUME Bad # {} PROVE FALSE OBVIOUS
  <2>1. PICK n \in Bad : \A m \in Bad : n <= m
    <3>1. Bad \in SUBSET Nat OBVIOUS
    <3> HIDE DEF Bad
    <3> QED BY <3>1, Smallest
  <2>2. n # i
    <3>1. f[i] = <<>> BY <1>0, <1>1 DEF PushedBy
    <3>2. Queue(<<>>) /\ Elements(<<>>) = {} BY DEF Queue, Distinct, Ordered, Elements
    <3>3. i .. i - 1 = {} OBVIOUS
    <3>4. Good(i) BY <3>1, <3>2, <3>3
    <3> QED BY <2>1, <3>4
  <2>3. n \in i + 1 .. end /\ n - 1 \in i .. end BY <2>1, <2>2
  <2>4. Good(n - 1)
    <3> HIDE DEF Good
    <3>1. n - 1 \notin Bad BY <2>1, <2>3
    <3> QED BY <2>3, <3>1
  <2>5. PICK g : g = f[n - 1] OBVIOUS
  <2>6. f[n] = fds!Push(g, n - 1) BY <1>1, <2>3, <2>5 DEF PushedBy
  <2>7. Queue(g) /\ Elements(g) = i .. n - 2 BY <2>3, <2>4, <2>5
  <2>8. n - 1 \in Nat /\ n - 1 \notin Elements(g) BY <2>3, <2>7
  <2>9. Queue(f[n]) /\ Elements(f[n]) = (i .. n - 2) \cup {n - 1}
    BY <2>6, <2>7, <2>8, PushQueue
  <2>10. (i .. n - 2) \cup {n - 1} = i .. n - 1 BY <2>3
  <2> QED BY <2>1, <2>9, <2>10
<1>3. Good(end)
  <2> HIDE DEF Good
  <2>1. end \in i .. end /\ end \notin Bad BY <1>2
  <2> QED BY <2>1
<1> QED BY <1>0, <1>1, <1>3

-----------------------------------------------------------------------------
\* The calls of the table.

TableInv ==
  /\ fds!TypeOK
  /\ Queue(descriptors)
  /\ Elements(descriptors) \cap fds!Index = fds!Index \ used
  /\ used = open \cap fds!Index

LEMMA Growth ==
  ASSUME NEW s \in Nat
  PROVE  /\ fds!Resized(s) \in Nat /\ fds!Resized(s) > s
         /\ (fds!TwiceNewSize(s) + 1) \div 2 \in {fds!Resized(s), fds!Resized(s) + 1}
BY DEF fds!Resized, fds!TwiceNewSize

LEMMA MapKeeps ==
  ASSUME TableInv, fds!Map
  PROVE  TableInv'
<1>1. PICK expands : expands = (descriptors = <<>>) OBVIOUS
<1>2. PICK queue : queue = IF descriptors = <<>> THEN fds!PushFrom(<<>>, size, fds!TwiceNewSize(size)) ELSE descriptors
  OBVIOUS
<1>3. PICK index : index = queue[1] OBVIOUS
<1>4. /\ size \in Nat /\ size' = IF descriptors = <<>> THEN fds!Resized(size) ELSE size
      /\ descriptors' = fds!Pop(queue)
      /\ used' = used \cup ({index} \cap (0 .. size' - 1))
      /\ open' = open \cup {index}
      /\ open \subseteq fds!Index
      /\ open \subseteq Nat
  BY <1>2, <1>3 DEF fds!Map, TableInv, fds!TypeOK
<1>5. size' \in Nat /\ size' >= size BY <1>4, Growth
<1>6. /\ Queue(queue) /\ queue # <<>>
      /\ Elements(queue) \cap (0 .. size' - 1) = (0 .. size' - 1) \ used
  <2>1. CASE descriptors = <<>>
    <3>1. PICK end \in Nat : end = (fds!TwiceNewSize(size) + 1) \div 2
      BY <1>4, Growth
    <3>2. end \in {size', size' + 1} /\ size < size' /\ size <= end
      <4>1. size' = fds!Resized(size) /\ size \in Nat BY <1>4, <2>1
      <4>2. fds!Resized(size) > size /\ end \in {fds!Resized(size), fds!Resized(size) + 1}
        BY <3>1, <4>1, Growth
      <4> QED BY <1>5, <4>1, <4>2
    <3>3. Queue(queue) /\ Elements(queue) = size .. end - 1
      BY <1>2, <1>4, <2>1, <3>1, <3>2, PushFromQueue
    <3>4. queue # <<>>
      <4>1. size \in Elements(queue) BY <1>4, <1>5, <3>2, <3>3
      <4> QED BY <4>1 DEF Elements
    <3>5. used = 0 .. size - 1
      <4>1. Elements(descriptors) = {} BY <2>1 DEF Elements
      <4>2. fds!Index \subseteq used BY <4>1 DEF TableInv
      <4> QED BY <4>2 DEF TableInv, fds!TypeOK, fds!Index
    <3> QED BY <1>4, <1>5, <3>2, <3>3, <3>4, <3>5
  <2>2. CASE descriptors # <<>>
    BY <1>2, <1>4, <2>2 DEF TableInv, fds!Index
  <2> QED BY <2>1, <2>2
<1>7. Queue(descriptors') /\ Elements(descriptors') = Elements(queue) \ {index}
  BY <1>3, <1>4, <1>6, PopQueue
<1>8. index \in Nat
  <2>1. queue \in Seq(Nat) BY <1>6 DEF Queue
  <2> QED BY <1>3, <1>6, <2>1
<1>9. /\ used' \subseteq fds!Index' /\ open' \subseteq Nat /\ descriptors' \in Seq(Nat)
  BY <1>4, <1>5, <1>7, <1>8 DEF TableInv, fds!TypeOK, fds!Index, Queue
<1>10. Elements(descriptors') \cap fds!Index' = fds!Index' \ used'
  BY <1>4, <1>6, <1>7 DEF fds!Index
<1>11. used' = open' \cap fds!Index'
  BY <1>4, <1>5 DEF TableInv, fds!Index
<1> QED BY <1>5, <1>7, <1>9, <1>10, <1>11 DEF TableInv, fds!TypeOK

LEMMA UnmapKeeps ==
  ASSUME TableInv, NEW fd \in open, fds!Unmap(fd)
  PROVE  TableInv'
<1>1. /\ fd \in fds!Index /\ fd \in Nat /\ fd \in used /\ size' = size /\ fds!Index' = fds!Index
      /\ used' = used \ {fd} /\ open' = open \ {fd}
      /\ descriptors' = fds!Push(descriptors, fd)
  BY DEF TableInv, fds!TypeOK, fds!Index, fds!Unmap
<1>2. fd \notin Elements(descriptors) BY <1>1 DEF TableInv
<1>3. /\ Queue(descriptors')
      /\ Elements(descriptors') = Elements(descriptors) \cup {fd}
  BY <1>1, <1>2, PushQueue DEF TableInv
<1>4. fds!TypeOK' BY <1>1, <1>3 DEF TableInv, fds!TypeOK, Queue
<1> QED BY <1>1, <1>3, <1>4 DEF TableInv

LEMMA EmptyKeeps ==
  ASSUME size = 0, used = {}, descriptors = <<>>, open = {}
  PROVE  TableInv
BY DEF TableInv, fds!TypeOK, fds!Index, Queue, Distinct, Ordered, Elements

LEMMA ResetKeeps ==
  ASSUME fds!Reset
  PROVE  TableInv'
BY DEF fds!Reset, TableInv, fds!TypeOK, fds!Index, Queue, Distinct, Ordered, Elements

LEMMA TableNext ==
  ASSUME TableInv, [fds!Next]_(fds!vars)
  PROVE  TableInv'
<1>1. CASE fds!Map BY <1>1, MapKeeps
<1>2. CASE fds!Reset BY <1>2, ResetKeeps
<1>3. ASSUME NEW fd \in open, fds!Unmap(fd) PROVE TableInv' BY <1>3, UnmapKeeps
<1>4. CASE UNCHANGED fds!vars
  BY <1>4 DEF fds!vars, TableInv, fds!TypeOK, fds!Index, Queue, Elements,
              Distinct, Ordered
<1> QED BY <1>1, <1>2, <1>3, <1>4 DEF fds!Next

\* What the invariant is for.
LEMMA LowestOnTop == TableInv => fds!LowestFree
<1> SUFFICES ASSUME TableInv PROVE fds!LowestFree OBVIOUS
<1>1. \A i \in DOMAIN descriptors : descriptors[1] <= descriptors[i]
  BY RootLeast DEF TableInv, Queue
<1> QED BY <1>1 DEF TableInv, Queue, Distinct, Elements, fds!LowestFree

-----------------------------------------------------------------------------
\* With at most nine descriptors in use the assert on the range holds: the
\* tenth is the first that unmap and the look-ups refuse.

\* With at most nine open descriptors the vector has 0, 2, 5 or nine elements,
\* and the number behind the nine stays in the queue.
TableRange ==
  /\ TableInv
  /\ size \in {0, 2, 5, 9}
  /\ open \subseteq fds!Index
  /\ \A x \in Elements(descriptors) : x < size \/ (size = 9 /\ x = 9)

LEMMA ThreeSizes ==
  /\ fds!Resized(0) = 2 /\ (fds!TwiceNewSize(0) + 1) \div 2 = 2
  /\ fds!Resized(2) = 5 /\ (fds!TwiceNewSize(2) + 1) \div 2 = 5
  /\ fds!Resized(5) = 9 /\ (fds!TwiceNewSize(5) + 1) \div 2 = 10
BY DEF fds!Resized, fds!TwiceNewSize

LEMMA MapKeepsRange ==
  ASSUME TableRange, fds!Map, MaxOpen \in Nat, MaxOpen <= 9
  PROVE  TableRange'
<1>1. TableInv' BY MapKeeps DEF TableRange
<1>2. PICK queue : queue = IF descriptors = <<>> THEN fds!PushFrom(<<>>, size, fds!TwiceNewSize(size)) ELSE descriptors
  OBVIOUS
<1>3. PICK index : index = queue[1] OBVIOUS
<1>4. /\ size \in Nat /\ size' = IF descriptors = <<>> THEN fds!Resized(size) ELSE size
      /\ descriptors' = fds!Pop(queue)
      /\ open' = open \cup {index}
      /\ open \subseteq fds!Index /\ used = open
      /\ Cardinality(open) < MaxOpen
  BY <1>2, <1>3, SameSize DEF fds!Map, TableRange, TableInv, fds!TypeOK
<1>5. size = 9 => open # 0 .. 8
  <2>1. Cardinality(0 .. 8) = 9
    <3>1. \A a, b \in Int : a <= b => Cardinality(a .. b) = b - a + 1 BY FS_Interval
    <3>2. 0 \in Int /\ 8 \in Int /\ 0 <= 8 /\ 8 - 0 + 1 = 9 OBVIOUS
    <3> QED BY <3>1, <3>2
  <2>2. Cardinality(open) < MaxOpen BY <1>4
  <2>3. ASSUME open = 0 .. 8 PROVE FALSE
    <3>1. Cardinality(open) = 9 BY <2>1, <2>3, Zenon
    <3> QED BY <2>2, <3>1
  <2> QED BY <2>3
<1>6. CASE descriptors = <<>>
  <2>1. fds!Index \subseteq open
    <3>1. Elements(descriptors) = {} BY <1>6 DEF Elements
    <3> QED BY <1>4, <3>1 DEF TableRange, TableInv
  <2>2. size \in {0, 2, 5}
    <3>1. open = fds!Index BY <1>4, <2>1
    <3>2. size = 9 => open = 0 .. 8 BY <3>1 DEF fds!Index
    <3> QED BY <1>5, <3>2 DEF TableRange
  <2>3. PICK end \in Nat : end = (fds!TwiceNewSize(size) + 1) \div 2 BY <1>4, Growth
  <2>4. /\ size' \in {2, 5, 9} /\ size < size' /\ size < end
        /\ end = IF size' = 9 THEN 10 ELSE size'
    BY <1>4, <1>6, <2>2, <2>3, ThreeSizes
  <2>5. Queue(queue) /\ Elements(queue) = size .. end - 1
    BY <1>2, <1>4, <1>6, <2>3, <2>4, PushFromQueue
  <2>6. queue # <<>> /\ index = size
    <3>1. size \in Elements(queue) BY <1>4, <2>4, <2>5
    <3>2. PICK i \in DOMAIN queue : size = queue[i] BY <3>1 DEF Elements
    <3>3. queue \in Seq(Nat) BY <2>5 DEF Queue
    <3>4. queue # <<>> /\ 1 \in DOMAIN queue BY <3>2, <3>3
    <3>5. queue[1] <= size BY <2>5, <3>2, RootLeast DEF Queue
    <3>6. queue[1] \in size .. end - 1 BY <2>5, <3>4 DEF Elements
    <3> QED BY <1>3, <1>4, <3>4, <3>5, <3>6
  <2>7. Elements(descriptors') = Elements(queue) \ {index}
    BY <1>3, <1>4, <2>5, <2>6, PopQueue
  <2>8. \A x \in Elements(descriptors') : x < size' \/ (size' = 9 /\ x = 9)
    BY <1>4, <2>4, <2>5, <2>7
  <2>9. open' \subseteq fds!Index' BY <1>4, <2>4, <2>6 DEF fds!Index
  <2> QED BY <1>1, <2>4, <2>8, <2>9 DEF TableRange
<1>7. CASE descriptors # <<>>
  <2>1. queue = descriptors /\ size' = size BY <1>2, <1>4, <1>7
  <2>2. Queue(descriptors) /\ descriptors \in Seq(Nat) BY DEF TableRange, TableInv, Queue
  <2>3. Elements(descriptors') = Elements(descriptors) \ {index}
    BY <1>3, <1>4, <1>7, <2>1, <2>2, PopQueue
  <2>4. index \in Elements(descriptors) BY <1>3, <1>7, <2>1, <2>2 DEF Elements
  <2>5. index < size
    <3> SUFFICES ASSUME ~(index < size) PROVE FALSE OBVIOUS
    <3>1. size = 9 /\ index = 9 BY <2>4 DEF TableRange
    <3>2. \A x \in Elements(descriptors) : ~(x < 9)
      <4> TAKE x \in Elements(descriptors)
      <4>1. PICK i \in DOMAIN descriptors : x = descriptors[i] BY DEF Elements
      <4>2. descriptors[1] <= descriptors[i] BY <2>2, RootLeast DEF Queue
      <4>3. descriptors[i] \in Nat BY <2>2
      <4> QED BY <1>3, <2>1, <3>1, <4>1, <4>2, <4>3
    <3>3. Elements(descriptors) \cap fds!Index = {} BY <3>1, <3>2 DEF fds!Index
    <3>4. fds!Index \subseteq used BY <3>3 DEF TableRange, TableInv
    <3>5. open = fds!Index BY <1>4, <3>4
    <3>6. open = 0 .. 8 BY <3>1, <3>5 DEF fds!Index
    <3> QED BY <1>5, <3>1, <3>6
  <2>6. index \in Nat BY <1>3, <1>7, <2>1, <2>2
  <2>7. open' \subseteq fds!Index' BY <1>4, <2>1, <2>5, <2>6 DEF fds!Index
  <2> QED BY <1>1, <2>1, <2>3, <2>7 DEF TableRange
<1> QED BY <1>6, <1>7

LEMMA UnmapKeepsRange ==
  ASSUME TableRange, NEW fd \in open, fds!Unmap(fd)
  PROVE  TableRange'
<1>1. TableInv' BY UnmapKeeps DEF TableRange
<1>2. /\ fd \in fds!Index /\ fd \in Nat /\ fd \in used /\ size' = size /\ fds!Index' = fds!Index
      /\ open' = open \ {fd}
      /\ descriptors' = fds!Push(descriptors, fd)
  BY DEF TableRange, TableInv, fds!TypeOK, fds!Index, fds!Unmap
<1>3. fd \notin Elements(descriptors) BY <1>2 DEF TableRange, TableInv
<1>4. Elements(descriptors') = Elements(descriptors) \cup {fd}
  BY <1>2, <1>3, PushQueue DEF TableRange, TableInv
<1>5. fd < size BY <1>2 DEF fds!Index, TableRange, TableInv, fds!TypeOK
<1> QED BY <1>1, <1>2, <1>4, <1>5 DEF TableRange

\* With at most nine descriptors open at a time, map never hands out a number
\* without a handle: what unmap and resolve assert of a descriptor holds.
THEOREM RangeHolds ==
  ASSUME MaxOpen \in Nat, MaxOpen <= 9
  PROVE  fds!Spec => []fds!RangeAssertion
<1>1. fds!Init => TableRange
  <2> SUFFICES ASSUME fds!Init PROVE TableRange OBVIOUS
  <2>1. TableInv BY EmptyKeeps DEF fds!Init
  <2>2. size = 0 /\ open = {} /\ Elements(descriptors) = {} BY DEF fds!Init, Elements
  <2> QED BY <2>1, <2>2 DEF TableRange
<1>2. TableRange /\ [fds!Next]_(fds!vars) => TableRange'
  <2> SUFFICES ASSUME TableRange, [fds!Next]_(fds!vars) PROVE TableRange' OBVIOUS
  <2>1. CASE fds!Map BY <2>1, MapKeepsRange
  <2>2. CASE fds!Reset
    <3>1. TableInv' BY <2>2, ResetKeeps
    <3>2. size' = 0 /\ open' = {} /\ Elements(descriptors') = {}
      BY <2>2 DEF fds!Reset, Elements
    <3> QED BY <3>1, <3>2 DEF TableRange
  <2>3. ASSUME NEW fd \in open, fds!Unmap(fd) PROVE TableRange' BY <2>3, UnmapKeepsRange
  <2>4. CASE UNCHANGED fds!vars
    BY <2>4 DEF fds!vars, TableRange, TableInv, fds!TypeOK, fds!Index, Queue, Elements, Distinct, Ordered
  <2> QED BY <2>1, <2>2, <2>3, <2>4 DEF fds!Next
<1>3. TableRange => fds!RangeAssertion BY DEF TableRange, fds!Index, fds!RangeAssertion
<1> QED BY <1>1, <1>2, <1>3, PTL DEF fds!Spec

-----------------------------------------------------------------------------
\* EXT2's Least chooses the smallest of a set.
LEMMA LeastIs ==
  ASSUME NEW T \in SUBSET Nat, T # {}
  PROVE  files!Least(T) \in T
<1>1. \E x \in T : \A y \in T : x <= y BY Smallest
<1> QED BY <1>1 DEF files!Least

-----------------------------------------------------------------------------
\* What follows from Ext2Assumption for the geometry of the disk.
Sizes ==
  /\ Groups \in Nat \ {0} /\ BlocksPerGroup \in Nat \ {0} /\ NodesPerGroup \in Nat \ {0}
  /\ Fixed \in 2 .. BlocksPerGroup - 1 /\ GroupFixed \in 1 .. BlocksPerGroup - 1
  /\ Reserved \in 2 .. NodesPerGroup - 1
  /\ Direct \in Nat \ {0} /\ Ptrs \in Nat \ {0} /\ BlockSize \in Nat \ {0}

LEMMA SizesHold == Sizes
<1>1. BlockSize \in Nat /\ BlockSize >= 12 + files!RoundUp(files!Header + 2, 4)
  BY FilesAssumption DEF files!Ext2Assumption
<1>2. files!RoundUp(files!Header + 2, 4) = 12 BY DEF files!RoundUp, files!Header
<1>3. BlockSize \in Nat \ {0} BY <1>1, <1>2
<1> QED BY <1>3, FilesAssumption DEF files!Ext2Assumption, Sizes

LEMMA GroupOfBlock ==
  ASSUME NEW b \in files!BlockNo
  PROVE  /\ b \in Nat /\ files!GroupOf(b) \in files!Group
         /\ b \in files!GroupOf(b) * BlocksPerGroup .. files!GroupOf(b) * BlocksPerGroup + BlocksPerGroup - 1
BY SizesHold DEF Sizes, files!BlockNo, files!GroupOf, files!Group

LEMMA GroupOfNode ==
  ASSUME NEW n \in files!Node
  PROVE  /\ n \in Nat /\ files!NodeGroup(n) \in files!Group
         /\ n \in files!NodeGroup(n) * NodesPerGroup + 1 .. files!NodeGroup(n) * NodesPerGroup + NodesPerGroup
BY SizesHold DEF Sizes, files!Node, files!NodeGroup, files!Group

\* What is free of the blocks and inodes of a group.
FreeIn(d, g) == {b \in files!BlockNo \ d.used : files!GroupOf(b) = g}
FreeNodesIn(d, g) == {n \in files!Node \ d.nodes : files!NodeGroup(n) = g}

Fields == {"used", "free", "nodes", "freeNodes", "inode", "ptrs", "dir", "log", "lost", "fault"}

\* The invariant, of any disk d that a call has on its hands: the counts of the
\* groups are those of their bitmaps ...
Counts(d) ==
  /\ DOMAIN d = Fields
  /\ d.used \subseteq files!BlockNo /\ d.nodes \subseteq files!Node
  /\ d.free \in [files!Group -> Nat] /\ d.freeNodes \in [files!Group -> Nat]
  /\ \A g \in files!Group : /\ d.free[g] = (IF g = 0 THEN 1 ELSE 0) + Cardinality(FreeIn(d, g))
                            /\ d.freeNodes[g] = (IF g = 0 THEN Reserved - 1 ELSE 0)
                                                + Cardinality(FreeNodesIn(d, g))

\* What a pointer of an inode is.
Pointer == files!BlockNo \cup TargetWord

\* ... and what the loops index and release are blocks of the disk.
Typed(d) ==
  /\ d.ptrs \in [files!BlockNo -> [1 .. Ptrs -> files!BlockNo]]
  /\ DOMAIN d.inode = files!Node
  /\ \A n \in files!Node : /\ DOMAIN d.inode[n] = {"type", "links", "size", "map"}
                           /\ d.inode[n].size \in Nat
                           /\ d.inode[n].map \in [1 .. Direct + 3 -> Pointer]
                           /\ \A i \in Direct + 1 .. Direct + 3 : d.inode[n].map[i] \in files!BlockNo

Sound(d) == Counts(d) /\ Typed(d)

\* What leaves bitmaps and counts alone keeps them in step.
Untouched(d, e) ==
  /\ DOMAIN e = Fields
  /\ e.used = d.used /\ e.free = d.free /\ e.nodes = d.nodes /\ e.freeNodes = d.freeNodes

LEMMA UntouchedKeeps ==
  ASSUME NEW d, NEW e, Counts(d), Untouched(d, e)
  PROVE  Counts(e)
<1>1. \A g : FreeIn(e, g) = FreeIn(d, g) /\ FreeNodesIn(e, g) = FreeNodesIn(d, g)
  BY DEF Untouched, FreeIn, FreeNodesIn
<1> QED BY <1>1 DEF Counts, Untouched

\* What leaves inodes and pointers alone besides.
LEMMA AsideKeeps ==
  ASSUME NEW d, NEW e, Sound(d), Untouched(d, e), e.inode = d.inode, e.ptrs = d.ptrs
  PROVE  Sound(e)
<1>1. Counts(e) BY UntouchedKeeps DEF Sound
<1>2. Typed(e) BY DEF Sound, Typed
<1> QED BY <1>1, <1>2 DEF Sound

LEMMA FaultyKeeps ==
  ASSUME NEW d, Sound(d), NEW w
  PROVE  Sound(files!Faulty(d, w))
<1>1. PICK e : e = files!Faulty(d, w) OBVIOUS
<1>2. Untouched(d, e) /\ e.inode = d.inode /\ e.ptrs = d.ptrs
  BY <1>1 DEF files!Faulty, Sound, Counts, Fields, Untouched
<1> QED BY <1>1, <1>2, AsideKeeps

LEMMA BlocksFinite ==
  /\ IsFiniteSet(files!BlockNo) /\ IsFiniteSet(files!Node)
<1>1. \A a, b \in Int : IsFiniteSet(a .. b) BY FS_Interval
<1>2. /\ 0 \in Int /\ Groups * BlocksPerGroup - 1 \in Int
      /\ 1 \in Int /\ Groups * NodesPerGroup \in Int
  BY SizesHold DEF Sizes
<1> QED BY <1>1, <1>2 DEF files!BlockNo, files!Node

LEMMA FreeFinite ==
  ASSUME NEW d, NEW g
  PROVE  /\ IsFiniteSet(FreeIn(d, g)) /\ Cardinality(FreeIn(d, g)) \in Nat
         /\ IsFiniteSet(FreeNodesIn(d, g)) /\ Cardinality(FreeNodesIn(d, g)) \in Nat
<1>1. FreeIn(d, g) \subseteq files!BlockNo /\ FreeNodesIn(d, g) \subseteq files!Node
  BY DEF FreeIn, FreeNodesIn
<1> QED BY <1>1, BlocksFinite, FS_Subset, FS_CardinalityType

\* One element fewer.
LEMMA OneLess ==
  ASSUME NEW S, IsFiniteSet(S), NEW x \in S
  PROVE  Cardinality(S) \in Nat \ {0} /\ Cardinality(S \ {x}) = Cardinality(S) - 1
BY FS_RemoveElement, FS_EmptySet, FS_CardinalityType

\* Reserving block b in group k.
LEMMA TakenKeeps ==
  ASSUME NEW d, Counts(d), NEW b \in files!BlockNo \ d.used, NEW e,
         DOMAIN e = Fields, e.used = d.used \cup {b},
         e.free = [d.free EXCEPT ![files!GroupOf(b)] = @ - 1],
         e.nodes = d.nodes, e.freeNodes = d.freeNodes
  PROVE  Counts(e)
<1>1. PICK k \in files!Group : k = files!GroupOf(b) BY GroupOfBlock
<1>2. FreeIn(e, k) = FreeIn(d, k) \ {b} /\ b \in FreeIn(d, k) BY <1>1 DEF FreeIn
<1>3. \A g \in files!Group : g # k => FreeIn(e, g) = FreeIn(d, g) BY <1>1 DEF FreeIn
<1>4. \A g : FreeNodesIn(e, g) = FreeNodesIn(d, g) BY DEF FreeNodesIn
<1>5. /\ Cardinality(FreeIn(d, k)) \in Nat \ {0}
      /\ Cardinality(FreeIn(e, k)) = Cardinality(FreeIn(d, k)) - 1
  <2>1. IsFiniteSet(FreeIn(d, k)) BY FreeFinite
  <2>2. Cardinality(FreeIn(d, k) \ {b}) = Cardinality(FreeIn(d, k)) - 1
        /\ Cardinality(FreeIn(d, k)) \in Nat \ {0}
    BY <1>2, <2>1, OneLess
  <2> QED BY <1>2, <2>2
<1>6. /\ d.free \in [files!Group -> Nat]
      /\ \A g \in files!Group : d.free[g] = (IF g = 0 THEN 1 ELSE 0) + Cardinality(FreeIn(d, g))
  BY DEF Counts
<1>7. d.free[k] - 1 \in Nat /\ d.free[k] - 1 = (IF k = 0 THEN 1 ELSE 0) + Cardinality(FreeIn(e, k))
  BY <1>5, <1>6
<1>8. /\ e.free \in [files!Group -> Nat] /\ e.free[k] = d.free[k] - 1
      /\ \A g \in files!Group : g # k => e.free[g] = d.free[g]
  <2>1. e.free = [d.free EXCEPT ![k] = d.free[k] - 1] BY <1>1
  <2> QED BY <1>6, <1>7, <2>1
<1>9. \A g \in files!Group : e.free[g] = (IF g = 0 THEN 1 ELSE 0) + Cardinality(FreeIn(e, g))
  BY <1>3, <1>6, <1>7, <1>8
<1>10. e.used \subseteq files!BlockNo BY DEF Counts
<1> QED BY <1>4, <1>8, <1>9, <1>10 DEF Counts

\* Releasing it.
LEMMA GivenKeeps ==
  ASSUME NEW d, Counts(d), NEW b \in d.used, NEW e,
         DOMAIN e = Fields, e.used = d.used \ {b},
         e.free = [d.free EXCEPT ![files!GroupOf(b)] = @ + 1],
         e.nodes = d.nodes, e.freeNodes = d.freeNodes
  PROVE  Counts(e)
<1>0. b \in files!BlockNo BY DEF Counts
<1>1. PICK k \in files!Group : k = files!GroupOf(b) BY <1>0, GroupOfBlock
<1>2. FreeIn(d, k) = FreeIn(e, k) \ {b} /\ b \in FreeIn(e, k) BY <1>0, <1>1 DEF FreeIn
<1>3. \A g \in files!Group : g # k => FreeIn(e, g) = FreeIn(d, g) BY <1>1 DEF FreeIn
<1>4. \A g : FreeNodesIn(e, g) = FreeNodesIn(d, g) BY DEF FreeNodesIn
<1>5. /\ Cardinality(FreeIn(e, k)) \in Nat
      /\ Cardinality(FreeIn(d, k)) = Cardinality(FreeIn(e, k)) - 1
  <2>1. IsFiniteSet(FreeIn(e, k)) BY FreeFinite
  <2>2. Cardinality(FreeIn(e, k) \ {b}) = Cardinality(FreeIn(e, k)) - 1
        /\ Cardinality(FreeIn(e, k)) \in Nat \ {0}
    BY <1>2, <2>1, OneLess
  <2> QED BY <1>2, <2>2
<1>6. /\ d.free \in [files!Group -> Nat]
      /\ \A g \in files!Group : d.free[g] = (IF g = 0 THEN 1 ELSE 0) + Cardinality(FreeIn(d, g))
  BY DEF Counts
<1>7. d.free[k] + 1 \in Nat /\ d.free[k] + 1 = (IF k = 0 THEN 1 ELSE 0) + Cardinality(FreeIn(e, k))
  BY <1>5, <1>6
<1>8. /\ e.free \in [files!Group -> Nat] /\ e.free[k] = d.free[k] + 1
      /\ \A g \in files!Group : g # k => e.free[g] = d.free[g]
  <2>1. e.free = [d.free EXCEPT ![k] = d.free[k] + 1] BY <1>1
  <2> QED BY <1>6, <1>7, <2>1
<1>9. \A g \in files!Group : e.free[g] = (IF g = 0 THEN 1 ELSE 0) + Cardinality(FreeIn(e, g))
  BY <1>3, <1>6, <1>7, <1>8
<1>10. e.used \subseteq files!BlockNo BY DEF Counts
<1> QED BY <1>4, <1>8, <1>9, <1>10 DEF Counts

LEMMA NextIsFree ==
  ASSUME NEW d, Counts(d), files!NextBlock(d) # files!Null
  PROVE  files!NextBlock(d) \in files!BlockNo \ d.used
<1>1. files!Takeable(d) # {} /\ files!NextBlock(d) = files!Least(files!Takeable(d))
  BY DEF files!NextBlock
<1>2. files!Takeable(d) \in SUBSET Nat BY GroupOfBlock DEF files!Takeable
<1>3. files!NextBlock(d) \in files!Takeable(d) BY <1>1, <1>2, LeastIs
<1> QED BY <1>3 DEF files!Takeable

LEMMA ZeroIsBlock == files!Null \in files!BlockNo
<1>1. Groups * BlocksPerGroup \in Nat \ {0} BY SizesHold DEF Sizes
<1> QED BY <1>1 DEF files!Null, files!BlockNo

\* Clearing the pointers of a block, or pointing one of them at a block.
LEMMA ClearedTyped ==
  ASSUME NEW d, Typed(d), NEW b, NEW e, e.inode = d.inode, e.ptrs = [d.ptrs EXCEPT ![b] = files!NoPtrs]
  PROVE  Typed(e)
<1>1. files!NoPtrs \in [1 .. Ptrs -> files!BlockNo] BY ZeroIsBlock DEF files!NoPtrs
<1>2. PICK P : P = [1 .. Ptrs -> files!BlockNo] OBVIOUS
<1>3. d.ptrs \in [files!BlockNo -> P] /\ files!NoPtrs \in P BY <1>1, <1>2 DEF Typed
<1>4. e.ptrs \in [files!BlockNo -> P] BY <1>3
<1> QED BY <1>2, <1>4 DEF Typed

LEMMA TakeBlockKeeps ==
  ASSUME NEW d, Sound(d), files!NextBlock(d) # files!Null
  PROVE  Sound(files!TakeBlock(d))
<1>1. PICK b \in files!BlockNo \ d.used : b = files!NextBlock(d) BY NextIsFree DEF Sound
<1>2. PICK e : e = files!TakeBlock(d) OBVIOUS
<1>3. /\ DOMAIN e = Fields /\ e.used = d.used \cup {b}
      /\ e.free = [d.free EXCEPT ![files!GroupOf(b)] = @ - 1]
      /\ e.nodes = d.nodes /\ e.freeNodes = d.freeNodes
  BY <1>1, <1>2 DEF files!TakeBlock, Sound, Counts, Fields
<1>4. e.inode = d.inode /\ e.ptrs = [d.ptrs EXCEPT ![b] = files!NoPtrs]
  BY <1>1, <1>2 DEF files!TakeBlock, Sound, Counts, Fields
<1>5. Counts(e) BY <1>1, <1>3, TakenKeeps DEF Sound
<1>6. Typed(e) BY <1>4, ClearedTyped DEF Sound
<1> QED BY <1>2, <1>5, <1>6 DEF Sound

LEMMA GiveBlockKeeps ==
  ASSUME NEW d, Sound(d), NEW b \in d.used
  PROVE  Sound(files!GiveBlock(d, b))
<1>1. PICK e : e = files!GiveBlock(d, b) OBVIOUS
<1>2. /\ DOMAIN e = Fields /\ e.used = d.used \ {b}
      /\ e.free = [d.free EXCEPT ![files!GroupOf(b)] = @ + 1]
      /\ e.nodes = d.nodes /\ e.freeNodes = d.freeNodes
  BY <1>1 DEF files!GiveBlock, Sound, Counts, Fields
<1>3. e.inode = d.inode /\ e.ptrs = [d.ptrs EXCEPT ![b] = files!NoPtrs]
  BY <1>1 DEF files!GiveBlock, Sound, Counts, Fields
<1>4. Counts(e) BY <1>2, GivenKeeps DEF Sound
<1>5. Typed(e) BY <1>3, ClearedTyped DEF Sound
<1> QED BY <1>1, <1>4, <1>5 DEF Sound

LEMMA ReleaseBlockKeeps ==
  ASSUME NEW d, Sound(d), NEW b
  PROVE  Sound(files!ReleaseBlock(d, b))
BY FaultyKeeps, GiveBlockKeeps DEF files!ReleaseBlock, files!Releasable

LEMMA NextIsBlock ==
  ASSUME NEW d, Sound(d)
  PROVE  files!NextBlock(d) \in files!BlockNo
BY NextIsFree, ZeroIsBlock DEF Sound

-----------------------------------------------------------------------------
\* The pointers of inodes and of indirect blocks.

LEMMA PointKeeps ==
  ASSUME NEW d, Sound(d), NEW b, NEW i, NEW x \in files!BlockNo
  PROVE  Sound(files!Point(d, b, i, x))
<1>1. PICK e : e = files!Point(d, b, i, x) OBVIOUS
<1>2. Untouched(d, e) /\ e.inode = d.inode /\ e.ptrs = [d.ptrs EXCEPT ![b][i] = x]
  BY <1>1 DEF files!Point, Sound, Counts, Fields, Untouched
<1>3. e.ptrs \in [files!BlockNo -> [1 .. Ptrs -> files!BlockNo]]
  <2>1. PICK g : g = d.ptrs OBVIOUS
  <2>2. g \in [files!BlockNo -> [1 .. Ptrs -> files!BlockNo]] /\ e.ptrs = [g EXCEPT ![b] = [g[b] EXCEPT ![i] = x]]
    BY <1>2, <2>1 DEF Sound, Typed
  <2>3. \A c \in files!BlockNo : c = b => [g[b] EXCEPT ![i] = x] \in [1 .. Ptrs -> files!BlockNo]
    BY <2>2
  <2> QED BY <2>2, <2>3
<1>4. Typed(e) BY <1>2, <1>3 DEF Sound, Typed
<1>5. Counts(e) BY <1>2, UntouchedKeeps DEF Sound
<1> QED BY <1>1, <1>4, <1>5 DEF Sound

LEMMA MapToKeeps ==
  ASSUME NEW d, Sound(d), NEW n, NEW i, NEW x \in Pointer,
         i \in Direct + 1 .. Direct + 3 => x \in files!BlockNo
  PROVE  Sound(files!MapTo(d, n, i, x))
<1>1. PICK e : e = files!MapTo(d, n, i, x) OBVIOUS
<1>2. /\ Untouched(d, e) /\ e.ptrs = d.ptrs
      /\ e.inode = [d.inode EXCEPT ![n].map[i] = x]
  BY <1>1 DEF files!MapTo, Sound, Counts, Fields, Untouched
<1>3. ASSUME NEW m \in files!Node
      PROVE  /\ DOMAIN e.inode[m] = {"type", "links", "size", "map"}
             /\ e.inode[m].size \in Nat
             /\ e.inode[m].map \in [1 .. Direct + 3 -> Pointer]
             /\ \A j \in Direct + 1 .. Direct + 3 : e.inode[m].map[j] \in files!BlockNo
  <2>1. PICK old : old = d.inode[m] OBVIOUS
  <2>2. /\ DOMAIN old = {"type", "links", "size", "map"} /\ old.size \in Nat
        /\ old.map \in [1 .. Direct + 3 -> Pointer]
        /\ \A j \in Direct + 1 .. Direct + 3 : old.map[j] \in files!BlockNo
    BY <2>1 DEF Sound, Typed
  <2>3. CASE m = n
    <3>1. e.inode[m] = [old EXCEPT !.map = [old.map EXCEPT ![i] = x]]
      BY <1>2, <2>1, <2>3 DEF Sound, Typed
    <3>2. e.inode[m].map = [old.map EXCEPT ![i] = x] BY <2>2, <3>1
    <3>3. e.inode[m].map \in [1 .. Direct + 3 -> Pointer] BY <2>2, <3>2
    <3>4. \A j \in Direct + 1 .. Direct + 3 : e.inode[m].map[j] \in files!BlockNo
      <4>1. Direct \in Nat BY SizesHold DEF Sizes
      <4>2. \A j \in Direct + 1 .. Direct + 3 : j \in 1 .. Direct + 3 BY <4>1
      <4> QED BY <2>2, <3>2, <4>2
    <3> QED BY <2>2, <3>1, <3>3, <3>4
  <2>4. CASE m # n
    <3>1. e.inode[m] = old BY <1>2, <2>1, <2>4 DEF Sound, Typed
    <3> QED BY <2>2, <3>1
  <2> QED BY <2>3, <2>4
<1>4. DOMAIN e.inode = files!Node BY <1>2 DEF Sound, Typed
<1>5. Typed(e) BY <1>2, <1>3, <1>4 DEF Sound, Typed
<1>6. Counts(e) BY <1>2, UntouchedKeeps DEF Sound
<1> QED BY <1>1, <1>5, <1>6 DEF Sound

\* What a step that adds a block returns.
Result(r) == DOMAIN r = {"disk", "added"} /\ Sound(r.disk)

LEMMA Fill1Keeps ==
  ASSUME NEW d, Sound(d), NEW b, NEW x \in files!BlockNo
  PROVE  Result(files!Fill1(d, b, x))
<1>1. PICK e : e = files!Point(d, b, files!FirstNull(d.ptrs[b]), x) OBVIOUS
<1>2. files!Fill1(d, b, x) = [disk |-> e, added |-> TRUE] BY <1>1 DEF files!Fill1
<1> QED BY <1>1, <1>2, PointKeeps DEF Result

LEMMA Fill2Keeps ==
  ASSUME NEW d, Sound(d), NEW b, NEW x \in files!BlockNo
  PROVE  Result(files!Fill2(d, b, x))
<1>1. PICK i : i = files!Least({k \in 1 .. Ptrs : files!Room1(d, d.ptrs[b][k])}) OBVIOUS
<1>2. PICK c : c = d.ptrs[b][i] OBVIOUS
<1>3. PICK m : m = files!NextBlock(d) OBVIOUS
<1>4. files!Fill2(d, b, x) =
        IF c # files!Null THEN files!Fill1(d, c, x)
        ELSE IF m = files!Null THEN [disk |-> d, added |-> FALSE]
        ELSE files!Fill1(files!Point(files!TakeBlock(d), b, i, m), m, x)
  BY <1>1, <1>2, <1>3 DEF files!Fill2, files!Through
<1>5. CASE c # files!Null BY <1>4, <1>5, Fill1Keeps
<1>6. CASE c = files!Null /\ m = files!Null
  <2>1. files!Fill2(d, b, x) = [disk |-> d, added |-> FALSE] BY <1>4, <1>6
  <2> QED BY <2>1 DEF Result
<1>7. CASE c = files!Null /\ m # files!Null
  <2>1. Sound(files!TakeBlock(d)) BY <1>3, <1>7, TakeBlockKeeps
  <2>2. m \in files!BlockNo BY <1>3, NextIsBlock
  <2>3. Sound(files!Point(files!TakeBlock(d), b, i, m)) BY <2>1, <2>2, PointKeeps
  <2> QED BY <1>4, <1>7, <2>2, <2>3, Fill1Keeps
<1> QED BY <1>5, <1>6, <1>7

LEMMA Fill3Keeps ==
  ASSUME NEW d, Sound(d), NEW b, NEW x \in files!BlockNo
  PROVE  Result(files!Fill3(d, b, x))
<1>1. PICK i : i = files!Least({k \in 1 .. Ptrs : files!Room2(d, d.ptrs[b][k])}) OBVIOUS
<1>2. PICK c : c = d.ptrs[b][i] OBVIOUS
<1>3. PICK m : m = files!NextBlock(d) OBVIOUS
<1>4. files!Fill3(d, b, x) =
        IF c # files!Null THEN files!Fill2(d, c, x)
        ELSE IF m = files!Null THEN [disk |-> d, added |-> FALSE]
        ELSE files!Fill2(files!Point(files!TakeBlock(d), b, i, m), m, x)
  BY <1>1, <1>2, <1>3 DEF files!Fill3, files!Through
<1>5. CASE c # files!Null BY <1>4, <1>5, Fill2Keeps
<1>6. CASE c = files!Null /\ m = files!Null
  <2>1. files!Fill3(d, b, x) = [disk |-> d, added |-> FALSE] BY <1>4, <1>6
  <2> QED BY <2>1 DEF Result
<1>7. CASE c = files!Null /\ m # files!Null
  <2>1. Sound(files!TakeBlock(d)) BY <1>3, <1>7, TakeBlockKeeps
  <2>2. m \in files!BlockNo BY <1>3, NextIsBlock
  <2>3. Sound(files!Point(files!TakeBlock(d), b, i, m)) BY <2>1, <2>2, PointKeeps
  <2> QED BY <1>4, <1>7, <2>2, <2>3, Fill2Keeps
<1> QED BY <1>5, <1>6, <1>7

LEMMA NotedKeeps ==
  ASSUME NEW r, Result(r), NEW n, NEW x \in files!BlockNo
  PROVE  Result(files!Noted(r, n, x))
<1>1. CASE r.added
  <2>1. PICK l : l = [r.disk.log EXCEPT ![n] = Append(@, x)] OBVIOUS
  <2>2. PICK e : e = [r.disk EXCEPT !.log = l] OBVIOUS
  <2>3. files!Noted(r, n, x) = [r EXCEPT !.disk = e] BY <1>1, <2>1, <2>2 DEF files!Noted
  <2>4. Untouched(r.disk, e) /\ e.inode = r.disk.inode /\ e.ptrs = r.disk.ptrs
    BY <2>2 DEF Result, Sound, Counts, Fields, Untouched
  <2>5. Sound(e) BY <2>4, AsideKeeps DEF Result
  <2> QED BY <2>3, <2>5 DEF Result
<1>2. CASE ~r.added
  <2>1. files!Noted(r, n, x) = r BY <1>2 DEF files!Noted
  <2> QED BY <2>1
<1> QED BY <1>1, <1>2

LEMMA AddBlockKeeps ==
  ASSUME NEW d, Sound(d), NEW n, NEW x \in files!BlockNo
  PROVE  Result(files!AddBlock(d, n, x))
<1>1. PICK map : map = d.inode[n].map OBVIOUS
<1>2. PICK m : m = files!NextBlock(d) OBVIOUS
<1>3. PICK e : e = [d EXCEPT !.log[n] = Append(@, x)] OBVIOUS
<1>4. Sound(e)
  <2>1. Untouched(d, e) /\ e.inode = d.inode /\ e.ptrs = d.ptrs
    BY <1>3 DEF Sound, Counts, Fields, Untouched
  <2> QED BY <2>1, AsideKeeps
<1>5. CASE files!HasNull(SubSeq(map, 1, Direct))
  <2>1. PICK f : f = files!MapTo(e, n, files!FirstNull(map), x) OBVIOUS
  <2>2. files!AddBlock(d, n, x) = [disk |-> f, added |-> TRUE]
    BY <1>1, <1>3, <1>5, <2>1 DEF files!AddBlock
  <2>3. x \in Pointer BY DEF Pointer
  <2>4. Sound(f) BY <1>4, <2>1, <2>3, MapToKeeps
  <2> QED BY <2>2, <2>4 DEF Result
<1>6. ASSUME m # files!Null, NEW i PROVE Sound(files!MapTo(files!TakeBlock(d), n, i, m))
  <2>1. m \in files!BlockNo /\ m \in Pointer BY <1>2, NextIsBlock DEF Pointer
  <2> QED BY <1>2, <1>6, <2>1, TakeBlockKeeps, MapToKeeps
<1>7. CASE ~files!HasNull(SubSeq(map, 1, Direct)) /\ files!Room1(d, map[Direct + 1])
  <2>1. PICK r : r = IF map[Direct + 1] # files!Null THEN files!Fill1(d, map[Direct + 1], x)
                     ELSE IF m = files!Null THEN [disk |-> d, added |-> FALSE]
                     ELSE files!Fill1(files!MapTo(files!TakeBlock(d), n, Direct + 1, m), m, x)
    OBVIOUS
  <2>2. files!AddBlock(d, n, x) = files!Noted(r, n, x)
    BY <1>1, <1>2, <1>7, <2>1 DEF files!AddBlock, files!Through
  <2>3. Result(r)
    <3>1. CASE map[Direct + 1] # files!Null BY <2>1, <3>1, Fill1Keeps
    <3>2. CASE map[Direct + 1] = files!Null /\ m = files!Null BY <2>1, <3>2 DEF Result
    <3>3. CASE map[Direct + 1] = files!Null /\ m # files!Null
      BY <1>6, <2>1, <3>3, Fill1Keeps
    <3> QED BY <3>1, <3>2, <3>3
  <2> QED BY <2>2, <2>3, NotedKeeps
<1>8. CASE /\ ~files!HasNull(SubSeq(map, 1, Direct)) /\ ~files!Room1(d, map[Direct + 1])
           /\ files!Room2(d, map[Direct + 2])
  <2>1. PICK r : r = IF map[Direct + 2] # files!Null THEN files!Fill2(d, map[Direct + 2], x)
                     ELSE IF m = files!Null THEN [disk |-> d, added |-> FALSE]
                     ELSE files!Fill2(files!MapTo(files!TakeBlock(d), n, Direct + 2, m), m, x)
    OBVIOUS
  <2>2. files!AddBlock(d, n, x) = files!Noted(r, n, x)
    BY <1>1, <1>2, <1>8, <2>1 DEF files!AddBlock, files!Through
  <2>3. Result(r)
    <3>1. CASE map[Direct + 2] # files!Null BY <2>1, <3>1, Fill2Keeps
    <3>2. CASE map[Direct + 2] = files!Null /\ m = files!Null BY <2>1, <3>2 DEF Result
    <3>3. CASE map[Direct + 2] = files!Null /\ m # files!Null
      BY <1>6, <2>1, <3>3, Fill2Keeps
    <3> QED BY <3>1, <3>2, <3>3
  <2> QED BY <2>2, <2>3, NotedKeeps
<1>9. CASE /\ ~files!HasNull(SubSeq(map, 1, Direct)) /\ ~files!Room1(d, map[Direct + 1])
           /\ ~files!Room2(d, map[Direct + 2]) /\ files!Room3(d, map[Direct + 3])
  <2>1. PICK r : r = IF map[Direct + 3] # files!Null THEN files!Fill3(d, map[Direct + 3], x)
                     ELSE IF m = files!Null THEN [disk |-> d, added |-> FALSE]
                     ELSE files!Fill3(files!MapTo(files!TakeBlock(d), n, Direct + 3, m), m, x)
    OBVIOUS
  <2>2. files!AddBlock(d, n, x) = files!Noted(r, n, x)
    BY <1>1, <1>2, <1>9, <2>1 DEF files!AddBlock, files!Through
  <2>3. Result(r)
    <3>1. CASE map[Direct + 3] # files!Null BY <2>1, <3>1, Fill3Keeps
    <3>2. CASE map[Direct + 3] = files!Null /\ m = files!Null BY <2>1, <3>2 DEF Result
    <3>3. CASE map[Direct + 3] = files!Null /\ m # files!Null
      BY <1>6, <2>1, <3>3, Fill3Keeps
    <3> QED BY <3>1, <3>2, <3>3
  <2> QED BY <2>2, <2>3, NotedKeeps
<1>10. CASE /\ ~files!HasNull(SubSeq(map, 1, Direct)) /\ ~files!Room1(d, map[Direct + 1])
            /\ ~files!Room2(d, map[Direct + 2]) /\ ~files!Room3(d, map[Direct + 3])
  <2>1. PICK f : f = files!Faulty(d, "too large") OBVIOUS
  <2>2. files!AddBlock(d, n, x) = [disk |-> f, added |-> FALSE]
    BY <1>1, <1>10, <2>1 DEF files!AddBlock
  <2>3. Sound(f) BY <2>1, FaultyKeeps
  <2> QED BY <2>2, <2>3 DEF Result
<1> QED BY <1>5, <1>7, <1>8, <1>9, <1>10

-----------------------------------------------------------------------------
\* Loops.  Each is a recursive function; that there is one is shown by its
\* first missing value.

\* expand_to, revert.
LEMMA RevertLoop ==
  ASSUME NEW s, Len(s) \in Nat, NEW d
  PROVE  \E f : /\ f[0] = d
                /\ \A k \in 1 .. Len(s) : f[k] = files!ReleaseBlock(f[k - 1], s[k])
                /\ files!Revert(d, s) = f[Len(s)]
<1> DEFINE Loop(f, n) ==
             f = [k \in 0 .. n |-> IF k = 0 THEN d ELSE files!ReleaseBlock(f[k - 1], s[k])]
           Bad == {n \in 0 .. Len(s) : ~\E f : Loop(f, n)}
<1>1. Bad = {}
  <2> SUFFICES ASSUME Bad # {} PROVE FALSE OBVIOUS
  <2>1. PICK n \in Bad : \A m \in Bad : n <= m
    <3>1. Bad \in SUBSET Nat OBVIOUS
    <3> HIDE DEF Bad
    <3> QED BY <3>1, Smallest
  <2>2. n # 0
    <3>1. Loop([k \in 0 .. 0 |-> d], 0) OBVIOUS
    <3> HIDE DEF Loop
    <3> QED BY <2>1, <3>1
  <2>3. n \in 1 .. Len(s) /\ n - 1 \in 0 .. Len(s) BY <2>1, <2>2
  <2>4. PICK f : Loop(f, n - 1)
    <3> HIDE DEF Loop
    <3>1. n - 1 \notin Bad BY <2>1, <2>3
    <3> QED BY <2>3, <3>1
  <2>5. PICK g : g = [k \in 0 .. n |-> IF k = n THEN files!ReleaseBlock(f[n - 1], s[n]) ELSE f[k]]
    OBVIOUS
  <2>6. Loop(g, n)
    <3>1. \A k \in 0 .. n - 1 : g[k] = f[k] BY <2>3, <2>5
    <3>2. \A k \in 0 .. n - 1 : f[k] = IF k = 0 THEN d ELSE files!ReleaseBlock(f[k - 1], s[k])
      BY <2>4
    <3>3. \A k \in 0 .. n : g[k] = IF k = 0 THEN d ELSE files!ReleaseBlock(g[k - 1], s[k])
      <4> TAKE k \in 0 .. n
      <4>1. CASE k = n
        <5>1. g[k] = files!ReleaseBlock(f[n - 1], s[n]) BY <2>5, <4>1
        <5>2. f[n - 1] = g[k - 1] BY <2>3, <3>1, <4>1
        <5> QED BY <2>2, <4>1, <5>1, <5>2
      <4>2. CASE k = 0 BY <2>3, <3>1, <3>2, <4>2
      <4>3. CASE k # n /\ k # 0
        <5>1. k \in 0 .. n - 1 /\ k - 1 \in 0 .. n - 1 BY <2>3, <4>3
        <5>2. g[k] = f[k] /\ f[k - 1] = g[k - 1] BY <3>1, <5>1
        <5> QED BY <3>2, <4>3, <5>1, <5>2
      <4> QED BY <4>1, <4>2, <4>3
    <3>4. g = [k \in 0 .. n |-> g[k]] BY <2>5
    <3> QED BY <3>3, <3>4
  <2> HIDE DEF Loop
  <2> QED BY <2>1, <2>6
<1>2. \E f : Loop(f, Len(s))
  <2>1. Len(s) \in 0 .. Len(s) /\ Len(s) \notin Bad BY <1>1
  <2> HIDE DEF Loop
  <2> QED BY <2>1
<1>3. PICK f : f = CHOOSE g : Loop(g, Len(s)) OBVIOUS
<1>4. Loop(f, Len(s))
  <2> HIDE DEF Loop
  <2> QED BY <1>2, <1>3
<1>5. files!Revert(d, s) = f[Len(s)] BY <1>3 DEF files!Revert, files!Each
<1>6. f[0] = d /\ \A k \in 1 .. Len(s) : f[k] = files!ReleaseBlock(f[k - 1], s[k])
  BY <1>4
<1> QED BY <1>5, <1>6

LEMMA RevertKeeps ==
  ASSUME NEW s, Len(s) \in Nat, NEW d, Sound(d)
  PROVE  Sound(files!Revert(d, s))
<1>0. Len(s) \in Nat OBVIOUS
<1>1. PICK f : /\ f[0] = d
               /\ \A k \in 1 .. Len(s) : f[k] = files!ReleaseBlock(f[k - 1], s[k])
               /\ files!Revert(d, s) = f[Len(s)]
  BY <1>0, RevertLoop
<1> DEFINE Bad == {k \in 0 .. Len(s) : ~Sound(f[k])}
<1>2. Bad = {}
  <2> SUFFICES ASSUME Bad # {} PROVE FALSE OBVIOUS
  <2>1. PICK n \in Bad : \A m \in Bad : n <= m
    <3>1. Bad \in SUBSET Nat OBVIOUS
    <3> HIDE DEF Bad
    <3> QED BY <3>1, Smallest
  <2>2. n \in 1 .. Len(s) /\ n - 1 \in 0 .. Len(s) BY <1>0, <1>1, <2>1
  <2>3. Sound(f[n - 1])
    <3>1. n - 1 \notin Bad BY <2>1, <2>2
    <3> QED BY <2>2, <3>1
  <2>4. f[n] = files!ReleaseBlock(f[n - 1], s[n]) BY <1>1, <2>2
  <2>5. Sound(f[n]) BY <2>3, <2>4, ReleaseBlockKeeps
  <2> QED BY <2>1, <2>5
<1> QED BY <1>0, <1>1, <1>2

\* release_reserved_blocks.
LEMMA ReleaseAllLoop ==
  ASSUME NEW s, Len(s) \in Nat, NEW d
  PROVE  \E f : /\ f[0] = d
                /\ \A k \in 1 .. Len(s) : f[k] = files!Released(f[k - 1], s[k])
                /\ files!ReleaseAll(d, s) = f[Len(s)]
<1> DEFINE Loop(f, n) ==
             f = [k \in 0 .. n |-> IF k = 0 THEN d ELSE files!Released(f[k - 1], s[k])]
           Bad == {n \in 0 .. Len(s) : ~\E f : Loop(f, n)}
<1>1. Bad = {}
  <2> SUFFICES ASSUME Bad # {} PROVE FALSE OBVIOUS
  <2>1. PICK n \in Bad : \A m \in Bad : n <= m
    <3>1. Bad \in SUBSET Nat OBVIOUS
    <3> HIDE DEF Bad
    <3> QED BY <3>1, Smallest
  <2>2. n # 0
    <3>1. Loop([k \in 0 .. 0 |-> d], 0) OBVIOUS
    <3> HIDE DEF Loop
    <3> QED BY <2>1, <3>1
  <2>3. n \in 1 .. Len(s) /\ n - 1 \in 0 .. Len(s) BY <2>1, <2>2
  <2>4. PICK f : Loop(f, n - 1)
    <3> HIDE DEF Loop
    <3>1. n - 1 \notin Bad BY <2>1, <2>3
    <3> QED BY <2>3, <3>1
  <2>5. PICK g : g = [k \in 0 .. n |-> IF k = n THEN files!Released(f[n - 1], s[n]) ELSE f[k]]
    OBVIOUS
  <2>6. Loop(g, n)
    <3>1. \A k \in 0 .. n - 1 : g[k] = f[k] BY <2>3, <2>5
    <3>2. \A k \in 0 .. n - 1 : f[k] = IF k = 0 THEN d ELSE files!Released(f[k - 1], s[k])
      BY <2>4
    <3>3. \A k \in 0 .. n : g[k] = IF k = 0 THEN d ELSE files!Released(g[k - 1], s[k])
      <4> TAKE k \in 0 .. n
      <4>1. CASE k = n
        <5>1. g[k] = files!Released(f[n - 1], s[n]) BY <2>5, <4>1
        <5>2. f[n - 1] = g[k - 1] BY <2>3, <3>1, <4>1
        <5> QED BY <2>2, <4>1, <5>1, <5>2
      <4>2. CASE k = 0 BY <2>3, <3>1, <3>2, <4>2
      <4>3. CASE k # n /\ k # 0
        <5>1. k \in 0 .. n - 1 /\ k - 1 \in 0 .. n - 1 BY <2>3, <4>3
        <5>2. g[k] = f[k] /\ f[k - 1] = g[k - 1] BY <3>1, <5>1
        <5> QED BY <3>2, <4>3, <5>1, <5>2
      <4> QED BY <4>1, <4>2, <4>3
    <3>4. g = [k \in 0 .. n |-> g[k]] BY <2>5
    <3> QED BY <3>3, <3>4
  <2> HIDE DEF Loop
  <2> QED BY <2>1, <2>6
<1>2. \E f : Loop(f, Len(s))
  <2>1. Len(s) \in 0 .. Len(s) /\ Len(s) \notin Bad BY <1>1
  <2> HIDE DEF Loop
  <2> QED BY <2>1
<1>3. PICK f : f = CHOOSE g : Loop(g, Len(s)) OBVIOUS
<1>4. Loop(f, Len(s))
  <2> HIDE DEF Loop
  <2> QED BY <1>2, <1>3
<1>5. files!ReleaseAll(d, s) = f[Len(s)] BY <1>3 DEF files!ReleaseAll, files!Each
<1>6. f[0] = d /\ \A k \in 1 .. Len(s) : f[k] = files!Released(f[k - 1], s[k])
  BY <1>4
<1> QED BY <1>5, <1>6

LEMMA ReleaseAllKeeps ==
  ASSUME NEW s, Len(s) \in Nat, NEW d, Sound(d)
  PROVE  Sound(files!ReleaseAll(d, s))
<1>0. Len(s) \in Nat OBVIOUS
<1>1. PICK f : /\ f[0] = d
               /\ \A k \in 1 .. Len(s) : f[k] = files!Released(f[k - 1], s[k])
               /\ files!ReleaseAll(d, s) = f[Len(s)]
  BY <1>0, ReleaseAllLoop
<1> DEFINE Bad == {k \in 0 .. Len(s) : ~Sound(f[k])}
<1>2. Bad = {}
  <2> SUFFICES ASSUME Bad # {} PROVE FALSE OBVIOUS
  <2>1. PICK n \in Bad : \A m \in Bad : n <= m
    <3>1. Bad \in SUBSET Nat OBVIOUS
    <3> HIDE DEF Bad
    <3> QED BY <3>1, Smallest
  <2>2. n \in 1 .. Len(s) /\ n - 1 \in 0 .. Len(s) BY <1>0, <1>1, <2>1
  <2>3. Sound(f[n - 1])
    <3>1. n - 1 \notin Bad BY <2>1, <2>2
    <3> QED BY <2>2, <3>1
  <2>4. f[n] = files!Released(f[n - 1], s[n]) BY <1>1, <2>2
  <2>5. Sound(f[n]) BY <2>3, <2>4, ReleaseBlockKeeps, FaultyKeeps DEF files!Released
  <2> QED BY <2>1, <2>5
<1> QED BY <1>0, <1>1, <1>2

\* What Reserve has when it goes on or ends.
Reserving(r) ==
  DOMAIN r = {"disk", "blocks", "short"} /\ Sound(r.disk) /\ r.blocks \in Seq(files!BlockNo)

LEMMA OneMoreKeeps ==
  ASSUME NEW r, Reserving(r), NEW i
  PROVE  Reserving(files!OneMore(r, i))
<1>1. PICK m : m = files!NextBlock(r.disk) OBVIOUS
<1>2. CASE r.short \/ m = files!Null BY <1>1, <1>2 DEF files!OneMore, Reserving
<1>3. CASE ~r.short /\ m # files!Null
  <2>1. PICK e : e = files!TakeBlock(r.disk) OBVIOUS
  <2>2. PICK q : q = Append(r.blocks, m) OBVIOUS
  <2>3. files!OneMore(r, i) = [disk |-> e, blocks |-> q, short |-> FALSE]
    BY <1>1, <1>3, <2>1, <2>2 DEF files!OneMore
  <2>4. Sound(e) BY <1>1, <1>3, <2>1, TakeBlockKeeps DEF Reserving
  <2>5. m \in files!BlockNo BY <1>1, NextIsBlock DEF Reserving
  <2>6. q \in Seq(files!BlockNo) BY <2>2, <2>5 DEF Reserving
  <2> QED BY <2>3, <2>4, <2>6 DEF Reserving
<1> QED BY <1>2, <1>3

\* expand_to: the blocks are reserved.
LEMMA ReservingLoop ==
  ASSUME NEW s, Len(s) \in Nat, NEW d
  PROVE  \E f : /\ f[0] = d
                /\ \A k \in 1 .. Len(s) : f[k] = files!OneMore(f[k - 1], s[k])
                /\ files!Each(d, s, files!OneMore) = f[Len(s)]
<1> DEFINE Loop(f, n) ==
             f = [k \in 0 .. n |-> IF k = 0 THEN d ELSE files!OneMore(f[k - 1], s[k])]
           Bad == {n \in 0 .. Len(s) : ~\E f : Loop(f, n)}
<1>1. Bad = {}
  <2> SUFFICES ASSUME Bad # {} PROVE FALSE OBVIOUS
  <2>1. PICK n \in Bad : \A m \in Bad : n <= m
    <3>1. Bad \in SUBSET Nat OBVIOUS
    <3> HIDE DEF Bad
    <3> QED BY <3>1, Smallest
  <2>2. n # 0
    <3>1. Loop([k \in 0 .. 0 |-> d], 0) OBVIOUS
    <3> HIDE DEF Loop
    <3> QED BY <2>1, <3>1
  <2>3. n \in 1 .. Len(s) /\ n - 1 \in 0 .. Len(s) BY <2>1, <2>2
  <2>4. PICK f : Loop(f, n - 1)
    <3> HIDE DEF Loop
    <3>1. n - 1 \notin Bad BY <2>1, <2>3
    <3> QED BY <2>3, <3>1
  <2>5. PICK g : g = [k \in 0 .. n |-> IF k = n THEN files!OneMore(f[n - 1], s[n]) ELSE f[k]]
    OBVIOUS
  <2>6. Loop(g, n)
    <3>1. \A k \in 0 .. n - 1 : g[k] = f[k] BY <2>3, <2>5
    <3>2. \A k \in 0 .. n - 1 : f[k] = IF k = 0 THEN d ELSE files!OneMore(f[k - 1], s[k])
      BY <2>4
    <3>3. \A k \in 0 .. n : g[k] = IF k = 0 THEN d ELSE files!OneMore(g[k - 1], s[k])
      <4> TAKE k \in 0 .. n
      <4>1. CASE k = n
        <5>1. g[k] = files!OneMore(f[n - 1], s[n]) BY <2>5, <4>1
        <5>2. f[n - 1] = g[k - 1] BY <2>3, <3>1, <4>1
        <5> QED BY <2>2, <4>1, <5>1, <5>2
      <4>2. CASE k = 0 BY <2>3, <3>1, <3>2, <4>2
      <4>3. CASE k # n /\ k # 0
        <5>1. k \in 0 .. n - 1 /\ k - 1 \in 0 .. n - 1 BY <2>3, <4>3
        <5>2. g[k] = f[k] /\ f[k - 1] = g[k - 1] BY <3>1, <5>1
        <5> QED BY <3>2, <4>3, <5>1, <5>2
      <4> QED BY <4>1, <4>2, <4>3
    <3>4. g = [k \in 0 .. n |-> g[k]] BY <2>5
    <3> QED BY <3>3, <3>4
  <2> HIDE DEF Loop
  <2> QED BY <2>1, <2>6
<1>2. \E f : Loop(f, Len(s))
  <2>1. Len(s) \in 0 .. Len(s) /\ Len(s) \notin Bad BY <1>1
  <2> HIDE DEF Loop
  <2> QED BY <2>1
<1>3. PICK f : f = CHOOSE g : Loop(g, Len(s)) OBVIOUS
<1>4. Loop(f, Len(s))
  <2> HIDE DEF Loop
  <2> QED BY <1>2, <1>3
<1>5. files!Each(d, s, files!OneMore) = f[Len(s)] BY <1>3 DEF files!Each
<1>6. f[0] = d /\ \A k \in 1 .. Len(s) : f[k] = files!OneMore(f[k - 1], s[k])
  BY <1>4
<1> QED BY <1>5, <1>6

LEMMA ReservingKeeps ==
  ASSUME NEW s, Len(s) \in Nat, NEW d, Reserving(d)
  PROVE  Reserving(files!Each(d, s, files!OneMore))
<1>0. Len(s) \in Nat OBVIOUS
<1>1. PICK f : /\ f[0] = d
               /\ \A k \in 1 .. Len(s) : f[k] = files!OneMore(f[k - 1], s[k])
               /\ files!Each(d, s, files!OneMore) = f[Len(s)]
  BY <1>0, ReservingLoop
<1> DEFINE Bad == {k \in 0 .. Len(s) : ~Reserving(f[k])}
<1>2. Bad = {}
  <2> SUFFICES ASSUME Bad # {} PROVE FALSE OBVIOUS
  <2>1. PICK n \in Bad : \A m \in Bad : n <= m
    <3>1. Bad \in SUBSET Nat OBVIOUS
    <3> HIDE DEF Bad
    <3> QED BY <3>1, Smallest
  <2>2. n \in 1 .. Len(s) /\ n - 1 \in 0 .. Len(s) BY <1>0, <1>1, <2>1
  <2>3. Reserving(f[n - 1])
    <3>1. n - 1 \notin Bad BY <2>1, <2>2
    <3> QED BY <2>2, <3>1
  <2>4. f[n] = files!OneMore(f[n - 1], s[n]) BY <1>1, <2>2
  <2>5. Reserving(f[n]) BY <2>3, <2>4, OneMoreKeeps
  <2> QED BY <2>1, <2>5
<1> QED BY <1>0, <1>1, <1>2

\* The numbers up to a count, none if it is negative.
LEMMA Numbers ==
  ASSUME NEW c \in Int
  PROVE  Len([i \in 1 .. c |-> i]) \in Nat
<1>1. CASE c \in Nat
  <2>1. [i \in 1 .. c |-> i] \in Seq(Nat) BY <1>1
  <2> QED BY <2>1, LenProperties
<1>2. CASE c \notin Nat
  <2>1. 1 .. c = {} /\ 1 .. 0 = {} BY <1>2
  <2>2. [i \in 1 .. c |-> i] = [i \in 1 .. 0 |-> i] BY <2>1
  <2>3. [i \in 1 .. 0 |-> i] \in Seq(Nat) OBVIOUS
  <2> QED BY <2>2, <2>3, LenProperties
<1> QED BY <1>1, <1>2

LEMMA ReserveKeeps ==
  ASSUME NEW d, Sound(d), NEW c \in Int
  PROVE  Reserving(files!Reserve(d, c))
<1>1. PICK r : r = [disk |-> d, blocks |-> <<>>, short |-> FALSE] OBVIOUS
<1>2. <<>> \in Seq(files!BlockNo) OBVIOUS
<1>3. Reserving(r) BY <1>1, <1>2 DEF Reserving
<1>4. PICK s : s = [i \in 1 .. c |-> i] OBVIOUS
<1>5. Len(s) \in Nat BY <1>4, Numbers
<1>6. Reserving(files!Each(r, s, files!OneMore)) BY <1>3, <1>5, ReservingKeeps
<1>7. files!Reserve(d, c) = files!Each(r, s, files!OneMore) BY <1>1, <1>4 DEF files!Reserve
<1> QED BY <1>6, <1>7

\* A file gets another size, an inode other hard links.
LEMMA InodeKeeps ==
  ASSUME NEW d, Sound(d), NEW n \in files!Node, NEW e, Untouched(d, e), e.ptrs = d.ptrs,
         NEW new, e.inode = [d.inode EXCEPT ![n] = new],
         DOMAIN new = {"type", "links", "size", "map"}, new.size \in Nat,
         new.map \in [1 .. Direct + 3 -> Pointer],
         \A i \in Direct + 1 .. Direct + 3 : new.map[i] \in files!BlockNo
  PROVE  Sound(e)
<1>1. Counts(e) BY UntouchedKeeps DEF Sound
<1>2. DOMAIN e.inode = files!Node BY DEF Sound, Typed
<1>3. \A m \in files!Node : e.inode[m] = IF m = n THEN new ELSE d.inode[m]
  BY DEF Sound, Typed
<1>4. Typed(e) BY <1>2, <1>3 DEF Sound, Typed
<1> QED BY <1>1, <1>4 DEF Sound

LEMMA InodeIs ==
  ASSUME NEW d, Sound(d), NEW n \in files!Node
  PROVE  /\ DOMAIN d.inode[n] = {"type", "links", "size", "map"} /\ d.inode[n].size \in Nat
         /\ d.inode[n].map \in [1 .. Direct + 3 -> Pointer]
         /\ \A i \in Direct + 1 .. Direct + 3 : d.inode[n].map[i] \in files!BlockNo
BY DEF Sound, Typed

LEMMA SizedKeeps ==
  ASSUME NEW d, Sound(d), NEW n \in files!Node, NEW x \in Nat
  PROVE  Sound([d EXCEPT !.inode[n].size = x])
<1>1. PICK e : e = [d EXCEPT !.inode[n].size = x] OBVIOUS
<1>2. PICK old : old = d.inode[n] OBVIOUS
<1>3. PICK new : new = [old EXCEPT !.size = x] OBVIOUS
<1>4. /\ DOMAIN old = {"type", "links", "size", "map"}
      /\ old.map \in [1 .. Direct + 3 -> Pointer]
      /\ \A i \in Direct + 1 .. Direct + 3 : old.map[i] \in files!BlockNo
  BY <1>2, InodeIs
<1>5. DOMAIN new = {"type", "links", "size", "map"} /\ new.size \in Nat /\ new.map = old.map
  BY <1>3, <1>4
<1>6. Untouched(d, e) /\ e.ptrs = d.ptrs /\ e.inode = [d.inode EXCEPT ![n] = new]
  BY <1>1, <1>2, <1>3 DEF Sound, Counts, Fields, Untouched
<1>7. Sound(e) BY <1>4, <1>5, <1>6, InodeKeeps
<1> QED BY <1>1, <1>7

LEMMA LongerKeeps ==
  ASSUME NEW d, Sound(d), NEW n \in files!Node
  PROVE  Sound([d EXCEPT !.inode[n].size = @ + BlockSize])
<1>1. d.inode[n].size \in Nat BY InodeIs
<1>2. PICK x : x = d.inode[n].size + BlockSize OBVIOUS
<1>3. x \in Nat BY <1>1, <1>2, SizesHold DEF Sizes
<1>4. [d EXCEPT !.inode[n].size = @ + BlockSize] = [d EXCEPT !.inode[n].size = x]
  BY <1>2
<1> QED BY <1>3, <1>4, SizedKeeps

\* What AddAll has when it goes on or ends.
Adding(r) ==
  DOMAIN r = {"disk", "rest"} /\ Sound(r.disk) /\ r.rest \in Seq(files!BlockNo)

LEMMA AddNextKeeps ==
  ASSUME NEW r, Adding(r), NEW n \in files!Node, NEW b \in files!BlockNo
  PROVE  Adding(files!AddNext(r, n, b))
<1>1. CASE r.rest # <<>>
  <2>1. PICK q : q = Append(r.rest, b) OBVIOUS
  <2>2. files!AddNext(r, n, b) = [r EXCEPT !.rest = q] BY <1>1, <2>1 DEF files!AddNext
  <2>3. q \in Seq(files!BlockNo) BY <2>1 DEF Adding
  <2> QED BY <2>2, <2>3 DEF Adding
<1>2. CASE r.rest = <<>>
  <2>1. PICK a : a = files!AddBlock(r.disk, n, b) OBVIOUS
  <2>2. Result(a) BY <2>1, AddBlockKeeps DEF Adding
  <2>3. files!AddNext(r, n, b) = files!Longer(a, n, b) BY <1>2, <2>1 DEF files!AddNext
  <2>4. CASE a.added
    <3>1. PICK e : e = [a.disk EXCEPT !.inode[n].size = @ + BlockSize] OBVIOUS
    <3>2. files!Longer(a, n, b) = [disk |-> e, rest |-> <<>>] BY <2>4, <3>1 DEF files!Longer
    <3>3. Sound(e) BY <2>2, <3>1, LongerKeeps DEF Result
    <3>4. <<>> \in Seq(files!BlockNo) OBVIOUS
    <3> QED BY <2>3, <3>2, <3>3, <3>4 DEF Adding
  <2>5. CASE ~a.added
    <3>1. files!Longer(a, n, b) = [disk |-> a.disk, rest |-> <<b>>] BY <2>5 DEF files!Longer
    <3>2. <<b>> \in Seq(files!BlockNo) OBVIOUS
    <3> QED BY <2>2, <2>3, <3>1, <3>2 DEF Adding, Result
  <2> QED BY <2>4, <2>5
<1> QED BY <1>1, <1>2

AddEach(d, s, n) == files!Each(d, s, LAMBDA r, b : files!AddNext(r, n, b))

\* expand_to: the blocks are added.
LEMMA AddingLoop ==
  ASSUME NEW s, Len(s) \in Nat, NEW d, NEW v
  PROVE  \E f : /\ f[0] = d
                /\ \A k \in 1 .. Len(s) : f[k] = files!AddNext(f[k - 1], v, s[k])
                /\ AddEach(d, s, v) = f[Len(s)]
<1> DEFINE Loop(f, n) ==
             f = [k \in 0 .. n |-> IF k = 0 THEN d ELSE files!AddNext(f[k - 1], v, s[k])]
           Bad == {n \in 0 .. Len(s) : ~\E f : Loop(f, n)}
<1>1. Bad = {}
  <2> SUFFICES ASSUME Bad # {} PROVE FALSE OBVIOUS
  <2>1. PICK n \in Bad : \A m \in Bad : n <= m
    <3>1. Bad \in SUBSET Nat OBVIOUS
    <3> HIDE DEF Bad
    <3> QED BY <3>1, Smallest
  <2>2. n # 0
    <3>1. Loop([k \in 0 .. 0 |-> d], 0) OBVIOUS
    <3> HIDE DEF Loop
    <3> QED BY <2>1, <3>1
  <2>3. n \in 1 .. Len(s) /\ n - 1 \in 0 .. Len(s) BY <2>1, <2>2
  <2>4. PICK f : Loop(f, n - 1)
    <3> HIDE DEF Loop
    <3>1. n - 1 \notin Bad BY <2>1, <2>3
    <3> QED BY <2>3, <3>1
  <2>5. PICK g : g = [k \in 0 .. n |-> IF k = n THEN files!AddNext(f[n - 1], v, s[n]) ELSE f[k]]
    OBVIOUS
  <2>6. Loop(g, n)
    <3>1. \A k \in 0 .. n - 1 : g[k] = f[k] BY <2>3, <2>5
    <3>2. \A k \in 0 .. n - 1 : f[k] = IF k = 0 THEN d ELSE files!AddNext(f[k - 1], v, s[k])
      BY <2>4
    <3>3. \A k \in 0 .. n : g[k] = IF k = 0 THEN d ELSE files!AddNext(g[k - 1], v, s[k])
      <4> TAKE k \in 0 .. n
      <4>1. CASE k = n
        <5>1. g[k] = files!AddNext(f[n - 1], v, s[n]) BY <2>5, <4>1
        <5>2. f[n - 1] = g[k - 1] BY <2>3, <3>1, <4>1
        <5> QED BY <2>2, <4>1, <5>1, <5>2
      <4>2. CASE k = 0 BY <2>3, <3>1, <3>2, <4>2
      <4>3. CASE k # n /\ k # 0
        <5>1. k \in 0 .. n - 1 /\ k - 1 \in 0 .. n - 1 BY <2>3, <4>3
        <5>2. g[k] = f[k] /\ f[k - 1] = g[k - 1] BY <3>1, <5>1
        <5> QED BY <3>2, <4>3, <5>1, <5>2
      <4> QED BY <4>1, <4>2, <4>3
    <3>4. g = [k \in 0 .. n |-> g[k]] BY <2>5
    <3> QED BY <3>3, <3>4
  <2> HIDE DEF Loop
  <2> QED BY <2>1, <2>6
<1>2. \E f : Loop(f, Len(s))
  <2>1. Len(s) \in 0 .. Len(s) /\ Len(s) \notin Bad BY <1>1
  <2> HIDE DEF Loop
  <2> QED BY <2>1
<1>3. PICK f : f = CHOOSE g : Loop(g, Len(s)) OBVIOUS
<1>4. Loop(f, Len(s))
  <2> HIDE DEF Loop
  <2> QED BY <1>2, <1>3
<1>5. AddEach(d, s, v) = f[Len(s)] BY <1>3 DEF AddEach, files!Each
<1>6. f[0] = d /\ \A k \in 1 .. Len(s) : f[k] = files!AddNext(f[k - 1], v, s[k])
  BY <1>4
<1> QED BY <1>5, <1>6

LEMMA AddingKeeps ==
  ASSUME NEW s, s \in Seq(files!BlockNo), NEW d, Adding(d), NEW v \in files!Node
  PROVE  Adding(AddEach(d, s, v))
<1>0. Len(s) \in Nat BY LenProperties
<1>1. PICK f : /\ f[0] = d
               /\ \A k \in 1 .. Len(s) : f[k] = files!AddNext(f[k - 1], v, s[k])
               /\ AddEach(d, s, v) = f[Len(s)]
  BY <1>0, AddingLoop
<1> DEFINE Bad == {k \in 0 .. Len(s) : ~Adding(f[k])}
<1>2. Bad = {}
  <2> SUFFICES ASSUME Bad # {} PROVE FALSE OBVIOUS
  <2>1. PICK n \in Bad : \A m \in Bad : n <= m
    <3>1. Bad \in SUBSET Nat OBVIOUS
    <3> HIDE DEF Bad
    <3> QED BY <3>1, Smallest
  <2>2. n \in 1 .. Len(s) /\ n - 1 \in 0 .. Len(s) BY <1>0, <1>1, <2>1
  <2>3. Adding(f[n - 1])
    <3>1. n - 1 \notin Bad BY <2>1, <2>2
    <3> QED BY <2>2, <3>1
  <2>4. f[n] = files!AddNext(f[n - 1], v, s[n]) BY <1>1, <2>2
  <2>5. Adding(f[n]) 
    <3>1. s[n] \in files!BlockNo BY <2>2
    <3> QED BY <2>3, <2>4, <3>1, AddNextKeeps
  <2> QED BY <2>1, <2>5
<1> QED BY <1>0, <1>1, <1>2

LEMMA AddAllKeeps ==
  ASSUME NEW d, Sound(d), NEW n \in files!Node, NEW s \in Seq(files!BlockNo)
  PROVE  Adding(files!AddAll(d, n, s))
<1>1. PICK r : r = [disk |-> d, rest |-> <<>>] OBVIOUS
<1>2. <<>> \in Seq(files!BlockNo) OBVIOUS
<1>3. Adding(r) BY <1>1, <1>2 DEF Adding
<1>4. Adding(AddEach(r, s, n)) BY <1>3, AddingKeeps
<1>5. files!AddAll(d, n, s) = AddEach(r, s, n) BY <1>1 DEF files!AddAll, AddEach
<1> QED BY <1>4, <1>5

-----------------------------------------------------------------------------
\* Writing.

LEMMA RoundedUp ==
  ASSUME NEW x \in Nat
  PROVE  files!BlocksIn(x) \in Nat /\ files!BlocksIn(x) * BlockSize \in Nat
<1>1. PICK u \in Nat \ {0} : u = BlockSize BY SizesHold DEF Sizes
<1>2. \A a \in Nat : a \div u \in Nat BY <1>1
<1>3. \A a \in Nat : a * u \in Nat BY <1>1
<1>4. (x + u - 1) \in Nat BY <1>1
<1> QED BY <1>1, <1>2, <1>3, <1>4 DEF files!BlocksIn, files!RoundUp

LEMMA ExpandKeeps ==
  ASSUME NEW d, Sound(d), NEW n \in files!Node, NEW end \in Nat
  PROVE  Sound(files!Expand(d, n, end))
<1>1. PICK have \in Nat : have = files!BlockCount(d, n) /\ have * BlockSize \in Nat
  <2>1. d.inode[n].size \in Nat BY InodeIs
  <2> QED BY <2>1, RoundedUp DEF files!BlockCount
<1>2. PICK full : full = [d EXCEPT !.inode[n].size = have * BlockSize] OBVIOUS
<1>3. Sound(full) BY <1>1, <1>2, SizedKeeps
<1>4. PICK c \in Int : c = files!BlocksIn(end) - have BY <1>1, RoundedUp
<1>5. PICK r : r = files!Reserve(full, c) OBVIOUS
<1>6. Reserving(r) BY <1>3, <1>5, ReserveKeeps
<1>7. CASE end <= have * BlockSize
  <2>1. files!Expand(d, n, end) = [d EXCEPT !.inode[n].size = end]
    BY <1>1, <1>7 DEF files!Expand
  <2> QED BY <2>1, SizedKeeps
<1>8. CASE ~(end <= have * BlockSize)
  <2>1. files!Expand(d, n, end) = files!Extended(r, n, end)
    BY <1>1, <1>2, <1>4, <1>5, <1>8 DEF files!Expand
  <2>2. Len(r.blocks) \in Nat BY <1>6, LenProperties DEF Reserving
  <2>3. CASE r.short
    <3>1. files!Extended(r, n, end) = files!Revert(r.disk, r.blocks)
      BY <2>3 DEF files!Extended
    <3> QED BY <1>6, <2>1, <2>2, <3>1, RevertKeeps DEF Reserving
  <2>4. CASE ~r.short
    <3>1. PICK a : a = files!AddAll(r.disk, n, r.blocks) OBVIOUS
    <3>2. files!Extended(r, n, end) = files!Ended(a, n, end)
      BY <2>4, <3>1 DEF files!Extended
    <3>3. Adding(a) BY <1>6, <3>1, AddAllKeeps DEF Reserving
    <3>4. Len(a.rest) \in Nat BY <3>3, LenProperties DEF Adding
    <3>5. Sound(files!Revert(a.disk, a.rest)) BY <3>3, <3>4, RevertKeeps DEF Adding
    <3>6. Sound([a.disk EXCEPT !.inode[n].size = end]) BY <3>3, SizedKeeps DEF Adding
    <3> QED BY <2>1, <3>2, <3>5, <3>6 DEF files!Ended
  <2> QED BY <2>3, <2>4
<1> QED BY <1>7, <1>8

-----------------------------------------------------------------------------
\* Directories and inodes.

\* Reserving inode n.
LEMMA TakenNodeKeeps ==
  ASSUME NEW d, Counts(d), NEW n \in files!Node \ d.nodes, NEW e,
         DOMAIN e = Fields, e.nodes = d.nodes \cup {n},
         e.freeNodes = [d.freeNodes EXCEPT ![files!NodeGroup(n)] = @ - 1],
         e.used = d.used, e.free = d.free
  PROVE  Counts(e)
<1>1. PICK k \in files!Group : k = files!NodeGroup(n) BY GroupOfNode
<1>2. FreeNodesIn(e, k) = FreeNodesIn(d, k) \ {n} /\ n \in FreeNodesIn(d, k)
  BY <1>1 DEF FreeNodesIn
<1>3. \A g \in files!Group : g # k => FreeNodesIn(e, g) = FreeNodesIn(d, g)
  BY <1>1 DEF FreeNodesIn
<1>4. \A g : FreeIn(e, g) = FreeIn(d, g) BY DEF FreeIn
<1>5. /\ Cardinality(FreeNodesIn(d, k)) \in Nat \ {0}
      /\ Cardinality(FreeNodesIn(e, k)) = Cardinality(FreeNodesIn(d, k)) - 1
  <2>1. IsFiniteSet(FreeNodesIn(d, k)) BY FreeFinite
  <2>2. Cardinality(FreeNodesIn(d, k) \ {n}) = Cardinality(FreeNodesIn(d, k)) - 1
        /\ Cardinality(FreeNodesIn(d, k)) \in Nat \ {0}
    BY <1>2, <2>1, OneLess
  <2> QED BY <1>2, <2>2
<1>6. PICK c \in Nat : c = Reserved - 1 BY SizesHold DEF Sizes
<1>7. /\ d.freeNodes \in [files!Group -> Nat]
      /\ \A g \in files!Group : d.freeNodes[g] = (IF g = 0 THEN c ELSE 0) + Cardinality(FreeNodesIn(d, g))
  BY <1>6 DEF Counts
<1>8. d.freeNodes[k] - 1 \in Nat
      /\ d.freeNodes[k] - 1 = (IF k = 0 THEN c ELSE 0) + Cardinality(FreeNodesIn(e, k))
  BY <1>5, <1>7
<1>9. /\ e.freeNodes \in [files!Group -> Nat] /\ e.freeNodes[k] = d.freeNodes[k] - 1
      /\ \A g \in files!Group : g # k => e.freeNodes[g] = d.freeNodes[g]
  <2>1. e.freeNodes = [d.freeNodes EXCEPT ![k] = d.freeNodes[k] - 1] BY <1>1
  <2> QED BY <1>7, <1>8, <2>1
<1>10. \A g \in files!Group : e.freeNodes[g] = (IF g = 0 THEN c ELSE 0) + Cardinality(FreeNodesIn(e, g))
  BY <1>3, <1>7, <1>8, <1>9
<1>11. e.nodes \subseteq files!Node BY DEF Counts
<1> QED BY <1>4, <1>6, <1>9, <1>10, <1>11 DEF Counts

\* Releasing it.
LEMMA GivenNodeKeeps ==
  ASSUME NEW d, Counts(d), NEW n \in d.nodes, NEW e,
         DOMAIN e = Fields, e.nodes = d.nodes \ {n},
         e.freeNodes = [d.freeNodes EXCEPT ![files!NodeGroup(n)] = @ + 1],
         e.used = d.used, e.free = d.free
  PROVE  Counts(e)
<1>0. n \in files!Node BY DEF Counts
<1>1. PICK k \in files!Group : k = files!NodeGroup(n) BY <1>0, GroupOfNode
<1>2. FreeNodesIn(d, k) = FreeNodesIn(e, k) \ {n} /\ n \in FreeNodesIn(e, k)
  BY <1>0, <1>1 DEF FreeNodesIn
<1>3. \A g \in files!Group : g # k => FreeNodesIn(e, g) = FreeNodesIn(d, g)
  BY <1>1 DEF FreeNodesIn
<1>4. \A g : FreeIn(e, g) = FreeIn(d, g) BY DEF FreeIn
<1>5. /\ Cardinality(FreeNodesIn(e, k)) \in Nat
      /\ Cardinality(FreeNodesIn(d, k)) = Cardinality(FreeNodesIn(e, k)) - 1
  <2>1. IsFiniteSet(FreeNodesIn(e, k)) BY FreeFinite
  <2>2. Cardinality(FreeNodesIn(e, k) \ {n}) = Cardinality(FreeNodesIn(e, k)) - 1
        /\ Cardinality(FreeNodesIn(e, k)) \in Nat \ {0}
    BY <1>2, <2>1, OneLess
  <2> QED BY <1>2, <2>2
<1>6. PICK c \in Nat : c = Reserved - 1 BY SizesHold DEF Sizes
<1>7. /\ d.freeNodes \in [files!Group -> Nat]
      /\ \A g \in files!Group : d.freeNodes[g] = (IF g = 0 THEN c ELSE 0) + Cardinality(FreeNodesIn(d, g))
  BY <1>6 DEF Counts
<1>8. d.freeNodes[k] + 1 \in Nat
      /\ d.freeNodes[k] + 1 = (IF k = 0 THEN c ELSE 0) + Cardinality(FreeNodesIn(e, k))
  BY <1>5, <1>7
<1>9. /\ e.freeNodes \in [files!Group -> Nat] /\ e.freeNodes[k] = d.freeNodes[k] + 1
      /\ \A g \in files!Group : g # k => e.freeNodes[g] = d.freeNodes[g]
  <2>1. e.freeNodes = [d.freeNodes EXCEPT ![k] = d.freeNodes[k] + 1] BY <1>1
  <2> QED BY <1>7, <1>8, <2>1
<1>10. \A g \in files!Group : e.freeNodes[g] = (IF g = 0 THEN c ELSE 0) + Cardinality(FreeNodesIn(e, g))
  BY <1>3, <1>7, <1>8, <1>9
<1>11. e.nodes \subseteq files!Node BY DEF Counts
<1> QED BY <1>4, <1>6, <1>9, <1>10, <1>11 DEF Counts

\* An inode starts afresh.
LEMMA BlankTyped ==
  ASSUME NEW d, Typed(d), NEW n, NEW new, NEW e, e.ptrs = d.ptrs,
         e.inode = [d.inode EXCEPT ![n] = new],
         DOMAIN new = {"type", "links", "size", "map"}, new.size = 0, new.map = files!NoMap
  PROVE  Typed(e)
<1>1. PICK top \in Nat : top = Direct + 3 BY SizesHold DEF Sizes
<1>2. files!NoMap \in [1 .. top -> files!BlockNo] BY <1>1, ZeroIsBlock DEF files!NoMap
<1>3. \A i \in Direct + 1 .. Direct + 3 : i \in 1 .. top BY <1>1, SizesHold DEF Sizes
<1>4. files!NoMap \in [1 .. Direct + 3 -> Pointer]
      /\ \A i \in Direct + 1 .. Direct + 3 : files!NoMap[i] \in files!BlockNo
  BY <1>1, <1>2, <1>3 DEF Pointer
<1>5. DOMAIN e.inode = files!Node BY DEF Typed
<1>6. \A m \in files!Node : e.inode[m] = IF m = n THEN new ELSE d.inode[m] BY DEF Typed
<1>7. \A m \in files!Node : /\ DOMAIN e.inode[m] = {"type", "links", "size", "map"}
                       /\ e.inode[m].size \in Nat
                       /\ e.inode[m].map \in [1 .. Direct + 3 -> Pointer]
                       /\ \A i \in Direct + 1 .. Direct + 3 : e.inode[m].map[i] \in files!BlockNo
  <2> TAKE m \in files!Node
  <2>1. CASE m = n
    <3>1. e.inode[m] = new BY <1>6, <2>1
    <3>2. /\ new.size \in Nat /\ new.map \in [1 .. Direct + 3 -> Pointer]
          /\ \A i \in Direct + 1 .. Direct + 3 : new.map[i] \in files!BlockNo
      BY <1>4
    <3> QED BY <3>1, <3>2
  <2>2. CASE m # n
    <3>1. e.inode[m] = d.inode[m] BY <1>6, <2>2
    <3> QED BY <3>1 DEF Typed
  <2> QED BY <2>1, <2>2
<1> QED BY <1>5, <1>7 DEF Typed

LEMMA TakeNodeKeeps ==
  ASSUME NEW d, Sound(d), NEW n \in files!FreeNodes(d), NEW type
  PROVE  Sound(files!TakeNode(d, n, type))
<1>1. CASE files!NodeGroup(n) > 0 BY <1>1, FaultyKeeps DEF files!TakeNode
<1>2. CASE ~(files!NodeGroup(n) > 0)
  <2>1. PICK new : new = [files!Blank EXCEPT !.type = type,
                            !.links = IF type = "dir" THEN 1 ELSE d.inode[n].links]
    OBVIOUS
  <2>2. DOMAIN new = {"type", "links", "size", "map"} /\ new.size = 0 /\ new.map = files!NoMap
    BY <2>1 DEF files!Blank
  <2>3. PICK e : e = files!TakeNode(d, n, type) OBVIOUS
  <2>4. e = [d EXCEPT !.nodes = @ \cup {n}, !.freeNodes[files!NodeGroup(n)] = @ - 1,
                      !.log[n] = <<>>, !.inode[n] = new]
    BY <1>2, <2>1, <2>3 DEF files!TakeNode
  <2>5. /\ DOMAIN e = Fields /\ e.nodes = d.nodes \cup {n}
        /\ e.freeNodes = [d.freeNodes EXCEPT ![files!NodeGroup(n)] = @ - 1]
        /\ e.used = d.used /\ e.free = d.free
    BY <2>4 DEF Sound, Counts, Fields
  <2>6. e.ptrs = d.ptrs /\ e.inode = [d.inode EXCEPT ![n] = new]
    BY <2>4 DEF Sound, Counts, Fields
  <2>7. n \in files!Node \ d.nodes BY DEF files!FreeNodes
  <2>8. Counts(e) BY <2>5, <2>7, TakenNodeKeeps DEF Sound
  <2>9. Typed(e) BY <2>2, <2>6, BlankTyped DEF Sound
  <2> QED BY <2>3, <2>8, <2>9 DEF Sound
<1> QED BY <1>1, <1>2

LEMMA GiveNodeKeeps ==
  ASSUME NEW d, Sound(d), NEW n
  PROVE  Sound(files!GiveNode(d, n))
<1>1. CASE n \notin d.nodes BY <1>1, FaultyKeeps DEF files!GiveNode
<1>2. CASE n \in d.nodes
  <2>1. PICK new : new = [files!Blank EXCEPT !.links = d.inode[n].links] OBVIOUS
  <2>2. DOMAIN new = {"type", "links", "size", "map"} /\ new.size = 0 /\ new.map = files!NoMap
    BY <2>1 DEF files!Blank
  <2>3. PICK e : e = files!GiveNode(d, n) OBVIOUS
  <2>4. e = [d EXCEPT !.nodes = @ \ {n}, !.freeNodes[files!NodeGroup(n)] = @ + 1,
                      !.log[n] = <<>>, !.inode[n] = new]
    BY <1>2, <2>1, <2>3 DEF files!GiveNode
  <2>5. /\ DOMAIN e = Fields /\ e.nodes = d.nodes \ {n}
        /\ e.freeNodes = [d.freeNodes EXCEPT ![files!NodeGroup(n)] = @ + 1]
        /\ e.used = d.used /\ e.free = d.free
    BY <2>4 DEF Sound, Counts, Fields
  <2>6. e.ptrs = d.ptrs /\ e.inode = [d.inode EXCEPT ![n] = new]
    BY <2>4 DEF Sound, Counts, Fields
  <2>7. Counts(e) BY <1>2, <2>5, GivenNodeKeeps DEF Sound
  <2>8. Typed(e) BY <2>2, <2>6, BlankTyped DEF Sound
  <2> QED BY <2>3, <2>7, <2>8 DEF Sound
<1> QED BY <1>1, <1>2

LEMMA LostKeeps ==
  ASSUME NEW d, Sound(d), NEW S
  PROVE  Sound([d EXCEPT !.lost = S])
<1>1. PICK e : e = [d EXCEPT !.lost = S] OBVIOUS
<1>2. Untouched(d, e) /\ e.inode = d.inode /\ e.ptrs = d.ptrs
  BY <1>1 DEF Sound, Counts, Fields, Untouched
<1> QED BY <1>1, <1>2, AsideKeeps

LEMMA AbandonKeeps ==
  ASSUME NEW d, Sound(d), NEW n
  PROVE  Sound(files!Abandon(d, n))
<1>1. PICK g : g = files!GiveNode(d, n) OBVIOUS
<1>2. PICK S : S = g.lost \cup files!Owned(d, n) OBVIOUS
<1>3. files!Abandon(d, n) = [g EXCEPT !.lost = S] BY <1>1, <1>2 DEF files!Abandon
<1> QED BY <1>1, <1>3, GiveNodeKeeps, LostKeeps

LEMMA DirKeeps ==
  ASSUME NEW d, Sound(d), NEW b, NEW es
  PROVE  Sound([d EXCEPT !.dir[b] = es])
<1>1. PICK e : e = [d EXCEPT !.dir[b] = es] OBVIOUS
<1>2. Untouched(d, e) /\ e.inode = d.inode /\ e.ptrs = d.ptrs
  BY <1>1 DEF Sound, Counts, Fields, Untouched
<1> QED BY <1>1, <1>2, AsideKeeps

LEMMA FirstEntryKeeps ==
  ASSUME NEW a, Result(a), NEW b, NEW p \in files!Node, NEW n, NEW len
  PROVE  Result(files!FirstEntry(a, b, p, n, len))
<1>1. CASE ~a.added
  <2>1. PICK e : e = files!ReleaseBlock(a.disk, b) OBVIOUS
  <2>2. files!FirstEntry(a, b, p, n, len) = [disk |-> e, added |-> FALSE]
    BY <1>1, <2>1 DEF files!FirstEntry
  <2> QED BY <2>1, <2>2, ReleaseBlockKeeps DEF Result
<1>2. CASE a.added /\ files!BlockCount(a.disk, p) >= Direct
  <2>1. PICK e : e = files!Faulty(a.disk, "not implemented") OBVIOUS
  <2>2. files!FirstEntry(a, b, p, n, len) = [disk |-> e, added |-> TRUE]
    BY <1>2, <2>1 DEF files!FirstEntry
  <2>3. Sound(e) BY <2>1, FaultyKeeps DEF Result
  <2> QED BY <2>2, <2>3 DEF Result
<1>3. CASE a.added /\ ~(files!BlockCount(a.disk, p) >= Direct)
  <2>1. PICK es : es = <<[files!Hole(BlockSize) EXCEPT !.node = n, !.len = len]>> OBVIOUS
  <2>2. PICK f : f = [a.disk EXCEPT !.inode[p].size = @ + BlockSize] OBVIOUS
  <2>3. PICK e : e = [f EXCEPT !.dir[b] = es] OBVIOUS
  <2>4. e = [a.disk EXCEPT !.inode[p].size = @ + BlockSize, !.dir[b] = es]
    BY <2>2, <2>3 DEF Result, Sound, Counts, Fields
  <2>5. files!FirstEntry(a, b, p, n, len) = [disk |-> e, added |-> TRUE]
    BY <1>3, <2>1, <2>4 DEF files!FirstEntry
  <2>6. Sound(f) BY <2>2, LongerKeeps DEF Result
  <2>7. Sound(e) BY <2>3, <2>6, DirKeeps
  <2> QED BY <2>5, <2>7 DEF Result
<1> QED BY <1>1, <1>2, <1>3

LEMMA AddChildKeeps ==
  ASSUME NEW d, Sound(d), NEW p \in files!Node, NEW n, NEW len
  PROVE  Result(files!AddChild(d, p, n, len))
<1>1. PICK bs : bs = files!DirBlocks(d, p) OBVIOUS
<1>2. PICK with : with = {i \in DOMAIN bs : files!Places(d.dir[bs[i]], len) # {}} OBVIOUS
<1>3. PICK b : b = bs[files!Least(with)] OBVIOUS
<1>4. CASE ~files!Markable(p)
  <2>1. PICK e : e = files!Faulty(d, "modified_map") OBVIOUS
  <2>2. files!AddChild(d, p, n, len) = [disk |-> e, added |-> TRUE]
    BY <1>4, <2>1 DEF files!AddChild
  <2>3. Sound(e) BY <2>1, FaultyKeeps
  <2> QED BY <2>2, <2>3 DEF Result
<1>5. CASE files!Markable(p) /\ with # {}
  <2>1. PICK es : es = files!Placed(d.dir[b], files!Least(files!Places(d.dir[b], len)), n, len) OBVIOUS
  <2>2. PICK e : e = [d EXCEPT !.dir[b] = es] OBVIOUS
  <2>3. e = [d EXCEPT !.dir[b] = files!Placed(@, files!Least(files!Places(@, len)), n, len)] BY <2>1, <2>2
  <2>4. files!AddChild(d, p, n, len) = [disk |-> e, added |-> TRUE]
    BY <1>1, <1>2, <1>3, <1>5, <2>3 DEF files!AddChild
  <2>5. Sound(e) BY <2>2, DirKeeps
  <2> QED BY <2>4, <2>5 DEF Result
<1>6. CASE files!Markable(p) /\ with = {}
  <2>1. files!AddChild(d, p, n, len) = files!AddChildBlock(d, p, n, len)
    BY <1>1, <1>2, <1>6 DEF files!AddChild
  <2>2. PICK c : c = files!NextBlock(d) OBVIOUS
  <2>3. CASE c = files!Null
    <3>1. PICK e : e = files!Faulty(d, "null block") OBVIOUS
    <3>2. files!AddChildBlock(d, p, n, len) = [disk |-> e, added |-> FALSE]
      BY <2>2, <2>3, <3>1 DEF files!AddChildBlock
    <3>3. Sound(e) BY <3>1, FaultyKeeps
    <3> QED BY <2>1, <3>2, <3>3 DEF Result
  <2>4. CASE c # files!Null /\ files!GroupOf(c) # 0
    <3>1. PICK e : e = files!Faulty(d, "block index") OBVIOUS
    <3>2. files!AddChildBlock(d, p, n, len) = [disk |-> e, added |-> FALSE]
      BY <2>2, <2>4, <3>1 DEF files!AddChildBlock
    <3>3. Sound(e) BY <3>1, FaultyKeeps
    <3> QED BY <2>1, <3>2, <3>3 DEF Result
  <2>5. CASE c # files!Null /\ files!GroupOf(c) = 0
    <3>1. PICK a : a = files!AddBlock(files!TakeBlock(d), p, c) OBVIOUS
    <3>2. files!AddChildBlock(d, p, n, len) = files!FirstEntry(a, c, p, n, len)
      BY <2>2, <2>5, <3>1 DEF files!AddChildBlock
    <3>3. c \in files!BlockNo /\ Sound(files!TakeBlock(d))
      BY <2>2, <2>5, NextIsBlock, TakeBlockKeeps
    <3>4. Result(a) BY <3>1, <3>3, AddBlockKeeps
    <3> QED BY <2>1, <3>2, <3>4, FirstEntryKeeps
  <2> QED BY <2>3, <2>4, <2>5
<1> QED BY <1>4, <1>5, <1>6

LEMMA EnterKeeps ==
  ASSUME NEW d, Sound(d), NEW p \in files!Node, NEW n, NEW len
  PROVE  Sound(files!Enter(d, p, n, len))
<1>1. PICK a : a = files!AddChild(d, p, n, len) OBVIOUS
<1>2. Sound(a.disk) BY <1>1, AddChildKeeps DEF Result
<1>3. Sound(files!Entered(a, n)) BY <1>2, AbandonKeeps DEF files!Entered
<1> QED BY <1>1, <1>3 DEF files!Enter

LEMMA LinkNextKeeps ==
  ASSUME NEW r, Result(r), NEW n
  PROVE  Result(files!LinkNext(r, n))
<1>1. PICK m : m = files!NextBlock(r.disk) OBVIOUS
<1>2. CASE ~r.added BY <1>2 DEF files!LinkNext
<1>3. CASE r.added /\ m = files!Null
  <2>1. files!LinkNext(r, n) = [r EXCEPT !.added = FALSE] BY <1>1, <1>3 DEF files!LinkNext
  <2> QED BY <2>1 DEF Result
<1>4. CASE r.added /\ m # files!Null
  <2>1. PICK a : a = files!AddBlock(files!TakeBlock(r.disk), n, m) OBVIOUS
  <2>2. files!LinkNext(r, n) = files!Linked(a, m) BY <1>1, <1>4, <2>1 DEF files!LinkNext
  <2>3. m \in files!BlockNo /\ Sound(files!TakeBlock(r.disk))
    BY <1>1, <1>4, NextIsBlock, TakeBlockKeeps DEF Result
  <2>4. Result(a) BY <2>1, <2>3, AddBlockKeeps
  <2>5. PICK e : e = files!ReleaseBlock(a.disk, m) OBVIOUS
  <2>6. Sound(e) BY <2>4, <2>5, ReleaseBlockKeeps DEF Result
  <2>7. files!Linked(a, m) = a \/ files!Linked(a, m) = [disk |-> e, added |-> FALSE]
    BY <2>5 DEF files!Linked
  <2> QED BY <2>2, <2>4, <2>6, <2>7 DEF Result
<1> QED BY <1>2, <1>3, <1>4

LinkEach(d, s, n) == files!Each(d, s, LAMBDA r, i : files!LinkNext(r, n))

\* write_blocks_to_node.
LEMMA LinkingLoop ==
  ASSUME NEW s, Len(s) \in Nat, NEW d, NEW v
  PROVE  \E f : /\ f[0] = d
                /\ \A k \in 1 .. Len(s) : f[k] = files!LinkNext(f[k - 1], v)
                /\ LinkEach(d, s, v) = f[Len(s)]
<1> DEFINE Loop(f, n) ==
             f = [k \in 0 .. n |-> IF k = 0 THEN d ELSE files!LinkNext(f[k - 1], v)]
           Bad == {n \in 0 .. Len(s) : ~\E f : Loop(f, n)}
<1>1. Bad = {}
  <2> SUFFICES ASSUME Bad # {} PROVE FALSE OBVIOUS
  <2>1. PICK n \in Bad : \A m \in Bad : n <= m
    <3>1. Bad \in SUBSET Nat OBVIOUS
    <3> HIDE DEF Bad
    <3> QED BY <3>1, Smallest
  <2>2. n # 0
    <3>1. Loop([k \in 0 .. 0 |-> d], 0) OBVIOUS
    <3> HIDE DEF Loop
    <3> QED BY <2>1, <3>1
  <2>3. n \in 1 .. Len(s) /\ n - 1 \in 0 .. Len(s) BY <2>1, <2>2
  <2>4. PICK f : Loop(f, n - 1)
    <3> HIDE DEF Loop
    <3>1. n - 1 \notin Bad BY <2>1, <2>3
    <3> QED BY <2>3, <3>1
  <2>5. PICK g : g = [k \in 0 .. n |-> IF k = n THEN files!LinkNext(f[n - 1], v) ELSE f[k]]
    OBVIOUS
  <2>6. Loop(g, n)
    <3>1. \A k \in 0 .. n - 1 : g[k] = f[k] BY <2>3, <2>5
    <3>2. \A k \in 0 .. n - 1 : f[k] = IF k = 0 THEN d ELSE files!LinkNext(f[k - 1], v)
      BY <2>4
    <3>3. \A k \in 0 .. n : g[k] = IF k = 0 THEN d ELSE files!LinkNext(g[k - 1], v)
      <4> TAKE k \in 0 .. n
      <4>1. CASE k = n
        <5>1. g[k] = files!LinkNext(f[n - 1], v) BY <2>5, <4>1
        <5>2. f[n - 1] = g[k - 1] BY <2>3, <3>1, <4>1
        <5> QED BY <2>2, <4>1, <5>1, <5>2
      <4>2. CASE k = 0 BY <2>3, <3>1, <3>2, <4>2
      <4>3. CASE k # n /\ k # 0
        <5>1. k \in 0 .. n - 1 /\ k - 1 \in 0 .. n - 1 BY <2>3, <4>3
        <5>2. g[k] = f[k] /\ f[k - 1] = g[k - 1] BY <3>1, <5>1
        <5> QED BY <3>2, <4>3, <5>1, <5>2
      <4> QED BY <4>1, <4>2, <4>3
    <3>4. g = [k \in 0 .. n |-> g[k]] BY <2>5
    <3> QED BY <3>3, <3>4
  <2> HIDE DEF Loop
  <2> QED BY <2>1, <2>6
<1>2. \E f : Loop(f, Len(s))
  <2>1. Len(s) \in 0 .. Len(s) /\ Len(s) \notin Bad BY <1>1
  <2> HIDE DEF Loop
  <2> QED BY <2>1
<1>3. PICK f : f = CHOOSE g : Loop(g, Len(s)) OBVIOUS
<1>4. Loop(f, Len(s))
  <2> HIDE DEF Loop
  <2> QED BY <1>2, <1>3
<1>5. LinkEach(d, s, v) = f[Len(s)] BY <1>3 DEF LinkEach, files!Each
<1>6. f[0] = d /\ \A k \in 1 .. Len(s) : f[k] = files!LinkNext(f[k - 1], v)
  BY <1>4
<1> QED BY <1>5, <1>6

LEMMA LinkingKeeps ==
  ASSUME NEW s, Len(s) \in Nat, NEW d, Result(d), NEW v
  PROVE  Result(LinkEach(d, s, v))
<1>0. Len(s) \in Nat OBVIOUS
<1>1. PICK f : /\ f[0] = d
               /\ \A k \in 1 .. Len(s) : f[k] = files!LinkNext(f[k - 1], v)
               /\ LinkEach(d, s, v) = f[Len(s)]
  BY <1>0, LinkingLoop
<1> DEFINE Bad == {k \in 0 .. Len(s) : ~Result(f[k])}
<1>2. Bad = {}
  <2> SUFFICES ASSUME Bad # {} PROVE FALSE OBVIOUS
  <2>1. PICK n \in Bad : \A m \in Bad : n <= m
    <3>1. Bad \in SUBSET Nat OBVIOUS
    <3> HIDE DEF Bad
    <3> QED BY <3>1, Smallest
  <2>2. n \in 1 .. Len(s) /\ n - 1 \in 0 .. Len(s) BY <1>0, <1>1, <2>1
  <2>3. Result(f[n - 1])
    <3>1. n - 1 \notin Bad BY <2>1, <2>2
    <3> QED BY <2>2, <3>1
  <2>4. f[n] = files!LinkNext(f[n - 1], v) BY <1>1, <2>2
  <2>5. Result(f[n]) BY <2>3, <2>4, LinkNextKeeps
  <2> QED BY <2>1, <2>5
<1> QED BY <1>0, <1>1, <1>2

LEMMA LinkBlocksKeeps ==
  ASSUME NEW d, Sound(d), NEW n, NEW c \in Int
  PROVE  Result(files!LinkBlocks(d, n, c))
<1>1. PICK r : r = [disk |-> d, added |-> TRUE] OBVIOUS
<1>2. Result(r) BY <1>1 DEF Result
<1>3. PICK s : s = [i \in 1 .. c |-> i] OBVIOUS
<1>4. Len(s) \in Nat BY <1>3, Numbers
<1>5. Result(LinkEach(r, s, n)) BY <1>2, <1>4, LinkingKeeps
<1>6. files!LinkBlocks(d, n, c) = LinkEach(r, s, n)
  BY <1>1, <1>3 DEF files!LinkBlocks, LinkEach
<1> QED BY <1>5, <1>6

-----------------------------------------------------------------------------
\* The blocks of an inode.

Pointers(s) == s \in Seq(Pointer)

LEMMA KeptKeeps ==
  ASSUME NEW found, Pointers(found), NEW b \in Pointer
  PROVE  Pointers(files!Kept(found, b))
BY DEF Pointers, files!Kept

\* What is not null of a row of pointers.
LEMMA KeepingLoop ==
  ASSUME NEW s, Len(s) \in Nat, NEW d
  PROVE  \E f : /\ f[0] = d
                /\ \A k \in 1 .. Len(s) : f[k] = files!Kept(f[k - 1], s[k])
                /\ files!Each(d, s, files!Kept) = f[Len(s)]
<1> DEFINE Loop(f, n) ==
             f = [k \in 0 .. n |-> IF k = 0 THEN d ELSE files!Kept(f[k - 1], s[k])]
           Bad == {n \in 0 .. Len(s) : ~\E f : Loop(f, n)}
<1>1. Bad = {}
  <2> SUFFICES ASSUME Bad # {} PROVE FALSE OBVIOUS
  <2>1. PICK n \in Bad : \A m \in Bad : n <= m
    <3>1. Bad \in SUBSET Nat OBVIOUS
    <3> HIDE DEF Bad
    <3> QED BY <3>1, Smallest
  <2>2. n # 0
    <3>1. Loop([k \in 0 .. 0 |-> d], 0) OBVIOUS
    <3> HIDE DEF Loop
    <3> QED BY <2>1, <3>1
  <2>3. n \in 1 .. Len(s) /\ n - 1 \in 0 .. Len(s) BY <2>1, <2>2
  <2>4. PICK f : Loop(f, n - 1)
    <3> HIDE DEF Loop
    <3>1. n - 1 \notin Bad BY <2>1, <2>3
    <3> QED BY <2>3, <3>1
  <2>5. PICK g : g = [k \in 0 .. n |-> IF k = n THEN files!Kept(f[n - 1], s[n]) ELSE f[k]]
    OBVIOUS
  <2>6. Loop(g, n)
    <3>1. \A k \in 0 .. n - 1 : g[k] = f[k] BY <2>3, <2>5
    <3>2. \A k \in 0 .. n - 1 : f[k] = IF k = 0 THEN d ELSE files!Kept(f[k - 1], s[k])
      BY <2>4
    <3>3. \A k \in 0 .. n : g[k] = IF k = 0 THEN d ELSE files!Kept(g[k - 1], s[k])
      <4> TAKE k \in 0 .. n
      <4>1. CASE k = n
        <5>1. g[k] = files!Kept(f[n - 1], s[n]) BY <2>5, <4>1
        <5>2. f[n - 1] = g[k - 1] BY <2>3, <3>1, <4>1
        <5> QED BY <2>2, <4>1, <5>1, <5>2
      <4>2. CASE k = 0 BY <2>3, <3>1, <3>2, <4>2
      <4>3. CASE k # n /\ k # 0
        <5>1. k \in 0 .. n - 1 /\ k - 1 \in 0 .. n - 1 BY <2>3, <4>3
        <5>2. g[k] = f[k] /\ f[k - 1] = g[k - 1] BY <3>1, <5>1
        <5> QED BY <3>2, <4>3, <5>1, <5>2
      <4> QED BY <4>1, <4>2, <4>3
    <3>4. g = [k \in 0 .. n |-> g[k]] BY <2>5
    <3> QED BY <3>3, <3>4
  <2> HIDE DEF Loop
  <2> QED BY <2>1, <2>6
<1>2. \E f : Loop(f, Len(s))
  <2>1. Len(s) \in 0 .. Len(s) /\ Len(s) \notin Bad BY <1>1
  <2> HIDE DEF Loop
  <2> QED BY <2>1
<1>3. PICK f : f = CHOOSE g : Loop(g, Len(s)) OBVIOUS
<1>4. Loop(f, Len(s))
  <2> HIDE DEF Loop
  <2> QED BY <1>2, <1>3
<1>5. files!Each(d, s, files!Kept) = f[Len(s)] BY <1>3 DEF files!Each
<1>6. f[0] = d /\ \A k \in 1 .. Len(s) : f[k] = files!Kept(f[k - 1], s[k])
  BY <1>4
<1> QED BY <1>5, <1>6

LEMMA KeepingKeeps ==
  ASSUME NEW s, Pointers(s), NEW d, Pointers(d)
  PROVE  Pointers(files!Each(d, s, files!Kept))
<1>0. Len(s) \in Nat BY LenProperties DEF Pointers
<1>1. PICK f : /\ f[0] = d
               /\ \A k \in 1 .. Len(s) : f[k] = files!Kept(f[k - 1], s[k])
               /\ files!Each(d, s, files!Kept) = f[Len(s)]
  BY <1>0, KeepingLoop
<1> DEFINE Bad == {k \in 0 .. Len(s) : ~Pointers(f[k])}
<1>2. Bad = {}
  <2> SUFFICES ASSUME Bad # {} PROVE FALSE OBVIOUS
  <2>1. PICK n \in Bad : \A m \in Bad : n <= m
    <3>1. Bad \in SUBSET Nat OBVIOUS
    <3> HIDE DEF Bad
    <3> QED BY <3>1, Smallest
  <2>2. n \in 1 .. Len(s) /\ n - 1 \in 0 .. Len(s) BY <1>0, <1>1, <2>1
  <2>3. Pointers(f[n - 1])
    <3>1. n - 1 \notin Bad BY <2>1, <2>2
    <3> QED BY <2>2, <3>1
  <2>4. f[n] = files!Kept(f[n - 1], s[n]) BY <1>1, <2>2
  <2>5. Pointers(f[n]) 
    <3>1. s[n] \in Pointer BY <2>2 DEF Pointers
    <3> QED BY <2>3, <2>4, <3>1, KeptKeeps
  <2> QED BY <2>1, <2>5
<1> QED BY <1>0, <1>1, <1>2

LEMMA NonNullPointers ==
  ASSUME NEW s, Pointers(s)
  PROVE  Pointers(files!NonNull(s))
<1>1. Pointers(<<>>) BY DEF Pointers
<1>2. Pointers(files!Each(<<>>, s, files!Kept)) BY <1>1, KeepingKeeps
<1> QED BY <1>2 DEF files!NonNull

\* Where the element in column j of row i is when the rows are put one behind
\* another, and back.
Row(k, w) == ((k - 1) \div w) + 1
Col(k, w) == ((k - 1) % w) + 1
Pos(i, j, w) == (i - 1) * w + j

LEMMA Divided ==
  ASSUME NEW w \in Nat \ {0}, NEW k \in Nat \ {0}
  PROVE  Row(k, w) \in Nat \ {0} /\ Col(k, w) \in 1 .. w /\ k = Pos(Row(k, w), Col(k, w), w)
BY DEF Row, Col, Pos

LEMMA PosIn ==
  ASSUME NEW w \in Nat \ {0}, NEW c \in Nat, NEW i \in 1 .. c, NEW j \in 1 .. w
  PROVE  Pos(i, j, w) \in 1 .. c * w
<1>1. (i - 1) * w \in Nat /\ (i - 1) * w + w <= c * w
  <2>1. \A a, b \in Nat : a <= b => a * w <= b * w OBVIOUS
  <2>2. i * w <= c * w /\ i * w = (i - 1) * w + w BY <2>1
  <2> QED BY <2>2
<1> QED BY <1>1 DEF Pos

LEMMA PosLess ==
  ASSUME NEW w \in Nat \ {0}, NEW i \in Nat \ {0}, NEW h \in Nat \ {0}, NEW j \in 1 .. w,
         NEW l \in 1 .. w, i < h
  PROVE  Pos(i, j, w) < Pos(h, l, w)
<1>1. \A a, b \in Nat : a <= b => a * w <= b * w OBVIOUS
<1>2. i * w <= (h - 1) * w /\ i * w = (i - 1) * w + w BY <1>1
<1> QED BY <1>2 DEF Pos

LEMMA RowOfPos ==
  ASSUME NEW w \in Nat \ {0}, NEW i \in Nat \ {0}, NEW j \in 1 .. w
  PROVE  Row(Pos(i, j, w), w) = i /\ Col(Pos(i, j, w), w) = j
<1>1. \A B \in Nat \ {0} : \A y \in 0 .. B - 1 : \A h \in Nat :
        (h * B + y) \div B = h /\ (h * B + y) % B = y
  OBVIOUS
<1>2. i - 1 \in Nat /\ j - 1 \in 0 .. w - 1 OBVIOUS
<1>3. ((i - 1) * w + (j - 1)) \div w = i - 1 /\ ((i - 1) * w + (j - 1)) % w = j - 1
  BY <1>1, <1>2
<1>4. Pos(i, j, w) - 1 = (i - 1) * w + (j - 1) BY DEF Pos
<1> QED BY <1>3, <1>4 DEF Row, Col

LEMMA RowIn ==
  ASSUME NEW w \in Nat \ {0}, NEW c \in Nat, NEW k \in 1 .. c * w
  PROVE  Row(k, w) \in 1 .. c /\ Col(k, w) \in 1 .. w /\ k = Pos(Row(k, w), Col(k, w), w)
<1>1. PICK i \in Nat \ {0}, j \in 1 .. w : i = Row(k, w) /\ j = Col(k, w) /\ k = Pos(i, j, w)
  <2>1. k \in Nat \ {0} OBVIOUS
  <2> HIDE DEF Row, Col, Pos
  <2> QED BY <2>1, Divided
<1>2. i <= c
  <2> SUFFICES ASSUME c < i PROVE FALSE OBVIOUS
  <2>1. \A a, b \in Nat : a <= b => a * w <= b * w OBVIOUS
  <2>2. c * w <= (i - 1) * w BY <2>1
  <2>3. c * w \in Nat /\ (i - 1) * w \in Nat OBVIOUS
  <2> QED BY <1>1, <2>2, <2>3 DEF Pos
<1> QED BY <1>1, <1>2

LEMMA Pointing ==
  ASSUME NEW d, Sound(d), NEW b \in files!BlockNo
  PROVE  /\ d.ptrs[b] \in [1 .. Ptrs -> files!BlockNo]
         /\ d.ptrs[b] \in Seq(Pointer) /\ files!NoPtrs \in Seq(Pointer)
<1>1. PICK q : q = d.ptrs[b] OBVIOUS
<1>2. PICK n \in Nat : n = Ptrs BY SizesHold DEF Sizes
<1>3. q \in [1 .. n -> files!BlockNo] BY <1>1, <1>2 DEF Sound, Typed
<1>4. files!NoPtrs \in [1 .. n -> files!BlockNo] BY <1>2, ZeroIsBlock DEF files!NoPtrs
<1>5. [1 .. n -> files!BlockNo] \subseteq Seq(Pointer) BY DEF Pointer
<1> QED BY <1>1, <1>2, <1>3, <1>4, <1>5

LEMMA AtIsBlock ==
  ASSUME NEW d, Sound(d), NEW b \in files!BlockNo, NEW i \in 1 .. Ptrs
  PROVE  files!At(d, b, i) \in files!BlockNo
<1>1. d.ptrs[b] \in [1 .. Ptrs -> files!BlockNo] BY Pointing
<1> QED BY <1>1, ZeroIsBlock DEF files!At

\* What the levels of pointers reach, by row and column.
LEMMA Slots1Are ==
  ASSUME NEW d, Sound(d), NEW b \in files!BlockNo
  PROVE  /\ files!Slots1(d, b) \in [1 .. Ptrs -> files!BlockNo]
         /\ \A i \in 1 .. Ptrs : files!Slots1(d, b)[i] = files!At(d, b, i)
BY AtIsBlock DEF files!Slots1

\* Rows of width w behind one another.
Joined(w, rows) == [k \in 1 .. Ptrs * w |-> rows[Row(k, w)][Col(k, w)]]

LEMMA JoinedAre ==
  ASSUME NEW w \in Nat \ {0}, NEW rows \in [1 .. Ptrs -> [1 .. w -> files!BlockNo]]
  PROVE  /\ Joined(w, rows) \in [1 .. Ptrs * w -> files!BlockNo]
         /\ \A i \in 1 .. Ptrs, j \in 1 .. w : /\ Pos(i, j, w) \in 1 .. Ptrs * w
                                               /\ Joined(w, rows)[Pos(i, j, w)] = rows[i][j]
<1>1. PICK p \in Nat : p = Ptrs BY SizesHold DEF Sizes
<1>2. PICK s : s = [k \in 1 .. p * w |-> rows[Row(k, w)][Col(k, w)]] OBVIOUS
<1>3. Joined(w, rows) = s BY <1>1, <1>2 DEF Joined
<1>4. ASSUME NEW k \in 1 .. p * w PROVE s[k] \in files!BlockNo
  <2>1. PICK i \in 1 .. p, j \in 1 .. w : i = Row(k, w) /\ j = Col(k, w) BY RowIn
  <2>2. s[k] = rows[i][j] BY <1>2, <2>1
  <2>3. rows[i] \in [1 .. w -> files!BlockNo] BY <1>1
  <2> QED BY <2>2, <2>3
<1>5. ASSUME NEW i \in 1 .. p, NEW j \in 1 .. w
      PROVE  Pos(i, j, w) \in 1 .. p * w /\ s[Pos(i, j, w)] = rows[i][j]
  <2>1. Pos(i, j, w) \in 1 .. p * w BY PosIn
  <2>2. i \in Nat \ {0} OBVIOUS
  <2>3. Row(Pos(i, j, w), w) = i /\ Col(Pos(i, j, w), w) = j BY <2>2, RowOfPos
  <2> QED BY <1>2, <2>1, <2>3
<1>6. s \in [1 .. p * w -> files!BlockNo] BY <1>2, <1>4
<1> QED BY <1>1, <1>3, <1>5, <1>6

Squared == Ptrs * Ptrs

LEMMA PtrsIs == Ptrs \in Nat \ {0} /\ Squared \in Nat \ {0}
<1>1. \A a \in Nat \ {0} : a * a \in Nat \ {0} OBVIOUS
<1> QED BY <1>1, SizesHold DEF Sizes, Squared

LEMMA Slots2Are ==
  ASSUME NEW d, Sound(d), NEW b \in files!BlockNo
  PROVE  /\ files!Slots2(d, b) \in [1 .. Squared -> files!BlockNo]
         /\ \A i, j \in 1 .. Ptrs : /\ Pos(i, j, Ptrs) \in 1 .. Squared
                                    /\ files!Slots2(d, b)[Pos(i, j, Ptrs)] = files!At(d, files!At(d, b, i), j)
<1>1. PICK rows : rows = [i \in 1 .. Ptrs |-> files!Slots1(d, files!At(d, b, i))] OBVIOUS
<1>2. ASSUME NEW i \in 1 .. Ptrs
      PROVE  /\ rows[i] \in [1 .. Ptrs -> files!BlockNo]
             /\ \A j \in 1 .. Ptrs : rows[i][j] = files!At(d, files!At(d, b, i), j)
  <2>1. files!At(d, b, i) \in files!BlockNo BY AtIsBlock
  <2> QED BY <1>1, <2>1, Slots1Are
<1>3. rows \in [1 .. Ptrs -> [1 .. Ptrs -> files!BlockNo]] BY <1>1, <1>2
<1>4. files!Slots2(d, b) = Joined(Ptrs, rows)
  <2>1. PICK p \in Nat \ {0} : p = Ptrs BY PtrsIs
  <2>2. \A k \in 1 .. p * p : rows[Row(k, p)] = files!Slots1(d, files!At(d, b, Row(k, p)))
    BY <1>1, <2>1, RowIn
  <2>3. files!Slots2(d, b) =
          [k \in 1 .. p * p |-> files!Slots1(d, files!At(d, b, Row(k, p)))[Col(k, p)]]
    BY <2>1 DEF files!Slots2, files!Rows, Row, Col
  <2>4. Joined(Ptrs, rows) = [k \in 1 .. p * p |-> rows[Row(k, p)][Col(k, p)]]
    BY <2>1 DEF Joined
  <2> HIDE DEF Row, Col
  <2> QED BY <2>2, <2>3, <2>4
<1>5. /\ Joined(Ptrs, rows) \in [1 .. Ptrs * Ptrs -> files!BlockNo]
      /\ \A i, j \in 1 .. Ptrs : /\ Pos(i, j, Ptrs) \in 1 .. Ptrs * Ptrs
                                 /\ Joined(Ptrs, rows)[Pos(i, j, Ptrs)] = rows[i][j]
  BY <1>3, PtrsIs, JoinedAre
<1> QED BY <1>2, <1>4, <1>5 DEF Squared

\* The place of column (j, l) in row i of the third level.
Pos3(i, j, l) == Pos(i, Pos(j, l, Ptrs), Squared)

LEMMA Slots3Are ==
  ASSUME NEW d, Sound(d), NEW b \in files!BlockNo
  PROVE  /\ files!Slots3(d, b) \in [1 .. Ptrs * Squared -> files!BlockNo]
         /\ \A i, j, l \in 1 .. Ptrs :
              /\ Pos3(i, j, l) \in 1 .. Ptrs * Squared
              /\ files!Slots3(d, b)[Pos3(i, j, l)] =
                   files!At(d, files!At(d, files!At(d, b, i), j), l)
<1>1. PICK rows : rows = [i \in 1 .. Ptrs |-> files!Slots2(d, files!At(d, b, i))] OBVIOUS
<1>2. ASSUME NEW i \in 1 .. Ptrs
      PROVE  /\ rows[i] \in [1 .. Squared -> files!BlockNo]
             /\ \A j, l \in 1 .. Ptrs :
                  /\ Pos(j, l, Ptrs) \in 1 .. Squared
                  /\ rows[i][Pos(j, l, Ptrs)] = files!At(d, files!At(d, files!At(d, b, i), j), l)
  <2>1. files!At(d, b, i) \in files!BlockNo BY AtIsBlock
  <2> QED BY <1>1, <2>1, Slots2Are
<1>3. rows \in [1 .. Ptrs -> [1 .. Squared -> files!BlockNo]] BY <1>1, <1>2
<1>4. files!Slots3(d, b) = Joined(Squared, rows)
  <2>1. PICK p \in Nat \ {0} : p = Ptrs BY PtrsIs
  <2>2. PICK w \in Nat \ {0} : w = Squared BY PtrsIs
  <2>3. \A k \in 1 .. p * w : rows[Row(k, w)] = files!Slots2(d, files!At(d, b, Row(k, w)))
    BY <1>1, <2>1, RowIn
  <2>4. files!Slots3(d, b) =
          [k \in 1 .. p * w |-> files!Slots2(d, files!At(d, b, Row(k, w)))[Col(k, w)]]
    BY <2>1, <2>2 DEF files!Slots3, files!Rows, Row, Col, Squared
  <2>5. Joined(Squared, rows) = [k \in 1 .. p * w |-> rows[Row(k, w)][Col(k, w)]]
    BY <2>1, <2>2 DEF Joined
  <2> HIDE DEF Row, Col
  <2> QED BY <2>3, <2>4, <2>5
<1>5. /\ Joined(Squared, rows) \in [1 .. Ptrs * Squared -> files!BlockNo]
      /\ \A i \in 1 .. Ptrs, j \in 1 .. Squared : /\ Pos(i, j, Squared) \in 1 .. Ptrs * Squared
                                                  /\ Joined(Squared, rows)[Pos(i, j, Squared)] = rows[i][j]
  BY <1>3, PtrsIs, JoinedAre
<1> QED BY <1>2, <1>4, <1>5 DEF Pos3

LEMMA SlotsPointers ==
  ASSUME NEW d, Sound(d), NEW b \in files!BlockNo
  PROVE  /\ Pointers(files!Slots1(d, b)) /\ Pointers(files!Slots2(d, b))
         /\ Pointers(files!Slots3(d, b))
<1>1. \A n \in Nat : [1 .. n -> files!BlockNo] \subseteq Seq(Pointer) BY DEF Pointer
<1>2. Ptrs \in Nat /\ Squared \in Nat /\ Ptrs * Squared \in Nat
  <2>1. \A a, c \in Nat : a * c \in Nat OBVIOUS
  <2> QED BY <2>1, PtrsIs
<1> QED BY <1>1, <1>2, Slots1Are, Slots2Are, Slots3Are DEF Pointers

\* How far a walk over the levels has come.
Walk(w) ==
  /\ DOMAIN w = {"blocks", "start", "count"}
  /\ Pointers(w.blocks) /\ w.start \in Nat /\ w.count \in Nat

LEMMA LevelWalks ==
  ASSUME NEW w, Walk(w), NEW slots, Pointers(slots), NEW width \in Nat
  PROVE  Walk(files!Level(w, slots, width))
<1>1. CASE w.count = 0 BY <1>1 DEF files!Level
<1>2. CASE w.count # 0 /\ w.start >= width
  <2>1. PICK x : x = w.start - width OBVIOUS
  <2>2. x \in Nat BY SMTT(30), <1>2, <2>1 DEF Walk
  <2>3. files!Level(w, slots, width) = [w EXCEPT !.start = x] BY <1>2, <2>1 DEF files!Level
  <2> QED BY <2>2, <2>3 DEF Walk
<1>3. CASE w.count # 0 /\ ~(w.start >= width)
  <2>1. PICK q : q = SubSeq(slots, w.start + 1, Len(slots)) OBVIOUS
  <2>2. Pointers(q)
    <3>1. slots \in Seq(Pointer) /\ Len(slots) \in Nat /\ w.start + 1 \in Nat
      BY LenProperties DEF Pointers, Walk
    <3>2. \A i \in w.start + 1 .. Len(slots) : slots[i] \in Pointer BY <3>1 DEF Walk
    <3>3. w.start + 1 \in Int /\ Len(slots) \in Int BY <3>1
    <3> QED BY <2>1, <3>2, <3>3, SubSeqProperties DEF Pointers
  <2>3. PICK there : there = files!NonNull(q) OBVIOUS
  <2>4. there \in Seq(Pointer) /\ Len(there) \in Nat
    BY <2>2, <2>3, NonNullPointers, LenProperties DEF Pointers
  <2>5. PICK k : k = IF Len(there) < w.count THEN Len(there) ELSE w.count OBVIOUS
  <2>6. k \in Nat /\ k <= Len(there) /\ k <= w.count BY <2>4, <2>5 DEF Walk
  <2>7. PICK found : found = SubSeq(there, 1, k) OBVIOUS
  <2>8. found \in Seq(Pointer) /\ Len(found) = k
    <3>1. \A i \in 1 .. k : there[i] \in Pointer BY <2>4, <2>6
    <3>2. 1 \in Int /\ k \in Int BY <2>6
    <3>3. /\ SubSeq(there, 1, k) \in Seq(Pointer)
          /\ Len(SubSeq(there, 1, k)) = IF 1 <= k THEN k - 1 + 1 ELSE 0
      BY <3>1, <3>2, SubSeqProperties
    <3> QED BY <2>6, <2>7, <3>3
  <2>9. PICK x : x = w.count - Len(found) OBVIOUS
  <2>10. x \in Nat BY <2>6, <2>8, <2>9 DEF Walk
  <2>11. PICK y : y = w.blocks \o found OBVIOUS
  <2>12. Pointers(y) BY <2>8, <2>11, ConcatProperties DEF Pointers, Walk
  <2>13. files!Level(w, slots, width) = [blocks |-> y, start |-> 0, count |-> x]
    BY <1>3, <2>1, <2>3, <2>5, <2>7, <2>9, <2>11 DEF files!Level
  <2> QED BY <2>10, <2>12, <2>13 DEF Walk
<1> QED BY SMTT(30), <1>1, <1>2, <1>3

LEMMA FileBlocksPointers ==
  ASSUME NEW d, Sound(d), NEW n \in files!Node, NEW start \in Nat, NEW count \in Nat
  PROVE  Pointers(files!FileBlocks(d, n, start, count))
<1>1. PICK map : map = d.inode[n].map OBVIOUS
<1>2. map \in [1 .. Direct + 3 -> Pointer] /\ \A i \in Direct + 1 .. Direct + 3 : map[i] \in files!BlockNo
  BY <1>1, InodeIs
<1>3. Direct \in Nat /\ Ptrs \in Nat BY SizesHold DEF Sizes
<1>4. /\ map[Direct + 1] \in files!BlockNo /\ map[Direct + 2] \in files!BlockNo
      /\ map[Direct + 3] \in files!BlockNo
  BY <1>2, <1>3
<1>5. Ptrs * Ptrs \in Nat /\ Ptrs * Ptrs * Ptrs \in Nat
  <2>1. \A a, b \in Nat : a * b \in Nat OBVIOUS
  <2> QED BY <1>3, <2>1
<1>6. PICK w0 : w0 = [blocks |-> <<>>, start |-> start, count |-> count] OBVIOUS
<1>7. Walk(w0) BY <1>6 DEF Walk, Pointers
<1>8. Pointers(SubSeq(map, 1, Direct))
  <2>1. \A i \in 1 .. Direct : map[i] \in Pointer BY <1>2, <1>3
  <2>2. 1 \in Int /\ Direct \in Int BY <1>3
  <2> QED BY <2>1, <2>2, SubSeqProperties DEF Pointers
<1>9. PICK w1 : w1 = files!Level(w0, SubSeq(map, 1, Direct), Direct) OBVIOUS
<1>10. PICK w2 : w2 = files!Level(w1, files!Slots1(d, map[Direct + 1]), Ptrs) OBVIOUS
<1>11. PICK w3 : w3 = files!Level(w2, files!Slots2(d, map[Direct + 2]), Ptrs * Ptrs) OBVIOUS
<1>12. PICK w4 : w4 = files!Level(w3, files!Slots3(d, map[Direct + 3]), Ptrs * Ptrs * Ptrs) OBVIOUS
<1>13. Walk(w1) BY <1>3, <1>7, <1>8, <1>9, LevelWalks
<1>14. Walk(w2) BY <1>3, <1>4, <1>10, <1>13, SlotsPointers, LevelWalks
<1>15. Walk(w3) BY <1>4, <1>5, <1>11, <1>14, SlotsPointers, LevelWalks
<1>16. Walk(w4) BY <1>4, <1>5, <1>12, <1>15, SlotsPointers, LevelWalks
<1>17. files!FileBlocks(d, n, start, count) = w4.blocks
  BY <1>1, <1>6, <1>9, <1>10, <1>11, <1>12 DEF files!FileBlocks
<1> QED BY <1>16, <1>17 DEF Walk

LEMMA PointedBlocks ==
  ASSUME NEW d, Sound(d), NEW S \in SUBSET files!BlockNo
  PROVE  files!Pointed(d, S) \in SUBSET files!BlockNo
<1>1. \A b \in S : d.ptrs[b] \in [1 .. Ptrs -> files!BlockNo] BY Pointing
<1>2. \A b \in S : files!ToSet(d.ptrs[b]) \subseteq files!BlockNo BY <1>1 DEF files!ToSet
<1> QED BY <1>2 DEF files!Pointed

LEMMA IndirectAreBlocks ==
  ASSUME NEW d, Sound(d), NEW n \in files!Node
  PROVE  files!IndirectBlocks(d, n) \subseteq files!BlockNo
<1>1. \A i \in Direct + 1 .. Direct + 3 : d.inode[n].map[i] \in files!BlockNo BY InodeIs
<1>2. /\ d.inode[n].map[Direct + 1] \in files!BlockNo /\ d.inode[n].map[Direct + 2] \in files!BlockNo
      /\ d.inode[n].map[Direct + 3] \in files!BlockNo
  <2>1. Direct \in Nat BY SizesHold DEF Sizes
  <2> QED BY <1>1, <2>1
<1>3. PICK V1 : V1 = {d.inode[n].map[Direct + 1]} \ {files!Null} OBVIOUS
<1>4. PICK V2 : V2 = {d.inode[n].map[Direct + 2]} \ {files!Null} OBVIOUS
<1>5. PICK V3 : V3 = {d.inode[n].map[Direct + 3]} \ {files!Null} OBVIOUS
<1>6. /\ V1 \in SUBSET files!BlockNo /\ V2 \in SUBSET files!BlockNo /\ V3 \in SUBSET files!BlockNo
  BY <1>2, <1>3, <1>4, <1>5
<1>7. /\ files!Pointed(d, V2) \in SUBSET files!BlockNo /\ files!Pointed(d, V3) \in SUBSET files!BlockNo
      /\ files!Pointed(d, files!Pointed(d, V3)) \in SUBSET files!BlockNo
  BY <1>6, PointedBlocks
<1>8. files!IndirectBlocks(d, n) =
        V1 \cup V2 \cup files!Pointed(d, V2) \cup V3 \cup files!Pointed(d, V3) \cup files!Pointed(d, files!Pointed(d, V3))
  BY <1>3, <1>4, <1>5 DEF files!IndirectBlocks
<1> QED BY <1>6, <1>7, <1>8

LEMMA ListedOnce ==
  ASSUME NEW S, S \subseteq files!BlockNo
  PROVE  Pointers(files!SetToSeq(S))
<1>1. IsFiniteSet(S) BY BlocksFinite, FS_Subset
<1>2. PICK c \in Nat : c = Cardinality(S) /\ ExistsBijection(1 .. c, S)
  BY <1>1, FS_CardinalityType
<1>3. PICK f \in [1 .. c -> S] : files!IsInjective(f)
  BY <1>2 DEF ExistsBijection, Bijection, Injection, IsInjective, files!IsInjective
<1>4. files!SetToSeq(S) \in [1 .. c -> S] BY <1>2, <1>3, SameSize DEF files!SetToSeq
<1>5. [1 .. c -> S] \subseteq Seq(Pointer) BY DEF Pointer
<1> QED BY <1>4, <1>5 DEF Pointers

LEMMA BlocksOfPointers ==
  ASSUME NEW d, Sound(d), NEW n \in files!Node
  PROVE  files!BlocksOf(d, n) \in Seq(Pointer) /\ Len(files!BlocksOf(d, n)) \in Nat
<1>1. files!BlockCount(d, n) \in Nat BY InodeIs, RoundedUp DEF files!BlockCount
<1>2. PICK f : f = files!FileBlocks(d, n, 0, files!BlockCount(d, n)) OBVIOUS
<1>3. PICK g : g = files!SetToSeq(files!IndirectBlocks(d, n)) OBVIOUS
<1>4. f \in Seq(Pointer)
  <2>1. 0 \in Nat OBVIOUS
  <2> QED BY <1>1, <1>2, <2>1, FileBlocksPointers DEF Pointers
<1>5. g \in Seq(Pointer) BY <1>3, IndirectAreBlocks, ListedOnce DEF Pointers
<1>6. f \o g \in Seq(Pointer) BY <1>4, <1>5, ConcatProperties
<1>7. files!BlocksOf(d, n) = f \o g BY <1>2, <1>3 DEF files!BlocksOf
<1> QED BY <1>6, <1>7, LenProperties

LEMMA ReleaseNodeKeeps ==
  ASSUME NEW d, Sound(d), NEW n \in files!Node
  PROVE  Sound(files!ReleaseNode(d, n))
<1>1. PICK links : links = files!FewerLinks(d.inode[n].links) OBVIOUS
<1>2. PICK dec : dec = [d EXCEPT !.inode[n].links = links] OBVIOUS
<1>3. Sound(dec)
  <2>1. PICK old : old = d.inode[n] OBVIOUS
  <2>2. PICK new : new = [old EXCEPT !.links = links] OBVIOUS
  <2>3. /\ DOMAIN old = {"type", "links", "size", "map"} /\ old.size \in Nat
        /\ old.map \in [1 .. Direct + 3 -> Pointer]
        /\ \A i \in Direct + 1 .. Direct + 3 : old.map[i] \in files!BlockNo
    BY <2>1, InodeIs
  <2>4. /\ DOMAIN new = {"type", "links", "size", "map"} /\ new.size = old.size
        /\ new.map = old.map
    BY <2>2, <2>3
  <2>5. /\ Untouched(d, dec) /\ dec.ptrs = d.ptrs
        /\ dec.inode = [d.inode EXCEPT ![n] = new]
    BY <1>2, <2>1, <2>2 DEF Sound, Counts, Fields, Untouched
  <2> QED BY <2>3, <2>4, <2>5, InodeKeeps
<1>4. PICK bs : bs = files!BlocksOf(dec, n) /\ Len(bs) \in Nat BY <1>3, BlocksOfPointers
<1>5. PICK freed : freed = files!ReleaseAll(dec, bs) OBVIOUS
<1>6. Sound(freed) BY <1>3, <1>4, <1>5, ReleaseAllKeeps
<1>7. PICK g : g = files!GiveNode(freed, n) OBVIOUS
<1>8. Sound(g) BY <1>6, <1>7, GiveNodeKeeps
<1>9. PICK S : S = g.lost \cup
        IF d.inode[n].type = "link" THEN files!ToSet(d.log[n]) \ files!ToSet(files!BlocksOf(d, n)) ELSE {}
  OBVIOUS
<1>10. PICK e : e = [g EXCEPT !.lost = S] OBVIOUS
<1>11. Sound(e) BY <1>8, <1>10, LostKeeps
<1>12. files!ReleaseNode(d, n) =
         IF links > 0 THEN dec
         ELSE IF bs = <<>> THEN files!Faulty(d, "release_node")
         ELSE IF freed.fault # "none" THEN freed
         ELSE IF files!IsShort(d, n) THEN files!Faulty(g, "stray block")
         ELSE e
  BY <1>1, <1>2, <1>4, <1>5, <1>7, <1>9, <1>10 DEF files!ReleaseNode
<1>13. Sound(files!Faulty(d, "release_node")) /\ Sound(files!Faulty(g, "stray block"))
  BY <1>8, FaultyKeeps
<1> QED BY <1>3, <1>6, <1>11, <1>12, <1>13

-----------------------------------------------------------------------------
\* The calls.

LEMMA FirstFreeNode ==
  ASSUME NEW d, files!FreeNodes(d) # {}
  PROVE  files!Least(files!FreeNodes(d)) \in files!FreeNodes(d)
<1>1. files!FreeNodes(d) \in SUBSET Nat BY GroupOfNode DEF files!FreeNodes
<1> QED BY <1>1, LeastIs

LEMMA WriteSound ==
  ASSUME Sound(volume), NEW n \in files!Node, NEW end \in WriteEnd, files!Write(n, end)
  PROVE  Sound(volume')
<1>1. end \in Nat BY FilesAssumption DEF files!Ext2Assumption
<1> QED BY <1>1, ExpandKeeps DEF files!Write

LEMMA CreateSound ==
  ASSUME Sound(volume), NEW p \in files!Node, NEW type, NEW len, files!Create(p, type, len)
  PROVE  Sound(volume')
<1>1. PICK n : n = files!Least(files!FreeNodes(volume)) OBVIOUS
<1>2. n \in files!FreeNodes(volume) BY <1>1, FirstFreeNode DEF files!Create
<1>3. Sound(files!TakeNode(volume, n, type)) BY <1>2, TakeNodeKeeps
<1>4. volume' = files!Enter(files!TakeNode(volume, n, type), p, n, len)
  BY <1>1 DEF files!Create
<1> QED BY <1>3, <1>4, EnterKeeps

LEMMA ShortKeeps ==
  ASSUME NEW d, Sound(d), NEW n, NEW word \in TargetWord
  PROVE  Sound(files!MapTo(d, n, 1, word))
<1>1. word \in Pointer BY DEF Pointer
<1>2. 1 \notin Direct + 1 .. Direct + 3 BY SizesHold DEF Sizes
<1> QED BY <1>1, <1>2, MapToKeeps

LEMMA CreateDeviceSound ==
  ASSUME Sound(volume), NEW p \in files!Node, NEW len, NEW word \in TargetWord,
         files!CreateDevice(p, len, word)
  PROVE  Sound(volume')
<1>1. PICK n : n = files!Least(files!FreeNodes(volume)) OBVIOUS
<1>2. CASE ~\E m \in files!FreeNodes(volume) : files!NodeGroup(m) = 0
  <2>1. volume' = files!Faulty(volume, "no inode") BY <1>2 DEF files!CreateDevice
  <2> QED BY <2>1, FaultyKeeps
<1>3. CASE \E m \in files!FreeNodes(volume) : files!NodeGroup(m) = 0
  <2>1. n \in files!FreeNodes(volume) BY <1>1, <1>3, FirstFreeNode
  <2>2. PICK d : d = files!TakeNode(volume, n, "device") OBVIOUS
  <2>3. Sound(files!MapTo(d, n, 1, word)) BY <2>1, <2>2, TakeNodeKeeps, ShortKeeps
  <2>4. volume' = files!Enter(files!MapTo(d, n, 1, word), p, n, len)
    BY <1>1, <1>3, <2>2 DEF files!CreateDevice
  <2> QED BY <2>3, <2>4, EnterKeeps
<1> QED BY <1>2, <1>3

LEMMA CreateLinkSound ==
  ASSUME Sound(volume), NEW p \in files!Node, NEW len, NEW target \in TargetLen,
         NEW word \in TargetWord, files!CreateLink(p, len, target, word)
  PROVE  Sound(volume')
<1>1. PICK n : n = files!Least(files!FreeNodes(volume)) OBVIOUS
<1>2. n \in files!FreeNodes(volume) BY <1>1, FirstFreeNode DEF files!CreateLink
<1>3. PICK d : d = files!TakeNode(volume, n, "link") OBVIOUS
<1>4. Sound(d) BY <1>2, <1>3, TakeNodeKeeps
<1>5. n \in files!Node /\ target \in Nat
  BY <1>2, FilesAssumption DEF files!FreeNodes, files!Ext2Assumption
<1>6. CASE d.fault # "none"
  <2>1. volume' = d BY <1>1, <1>3, <1>6 DEF files!CreateLink
  <2> QED BY <1>4, <2>1
<1>7. CASE d.fault = "none" /\ target <= Inline
  <2>1. PICK m : m = files!MapTo(d, n, 1, word) BY SMTT(30)
  <2>2. PICK e : e = [m EXCEPT !.inode[n].size = target] OBVIOUS
  <2>3. Sound(e) BY <1>4, <1>5, <2>1, <2>2, ShortKeeps, SizedKeeps
  <2>4. volume' = files!Enter(e, p, n, len)
    BY <1>1, <1>3, <1>7, <2>1, <2>2 DEF files!CreateLink
  <2> QED BY <2>3, <2>4, EnterKeeps
<1>8. CASE d.fault = "none" /\ ~(target <= Inline)
  <2>1. PICK c : c = target \div BlockSize + 1 OBVIOUS
  <2>2. c \in Int BY <1>5, <2>1, SizesHold DEF Sizes
  <2>3. PICK w : w = files!LinkBlocks(d, n, c) OBVIOUS
  <2>4. Sound(w.disk) BY <1>4, <2>2, <2>3, LinkBlocksKeeps DEF Result
  <2>5. PICK e : e = [w.disk EXCEPT !.inode[n].size = target] OBVIOUS
  <2>6. Sound(e) BY <1>5, <2>4, <2>5, SizedKeeps
  <2>7. volume' = IF w.added THEN files!Enter(e, p, n, len) ELSE files!Abandon(w.disk, n)
    BY <1>1, <1>3, <1>8, <2>1, <2>3, <2>5 DEF files!CreateLink
  <2> QED BY <2>4, <2>6, <2>7, EnterKeeps, AbandonKeeps
<1> QED BY <1>6, <1>7, <1>8

LEMMA RemoveNodeSound ==
  ASSUME Sound(volume), NEW p \in files!Node, NEW n \in files!Node, files!RemoveNode(p, n)
  PROVE  Sound(volume')
<1>1. CASE volume.inode[n].type = "device"
  <2>1. volume' = files!Faulty(volume, "no node") BY <1>1 DEF files!RemoveNode
  <2> QED BY <2>1, FaultyKeeps
<1>2. CASE volume.inode[n].type # "device"
  <2>1. PICK at : at = CHOOSE x \in files!EntryAt(volume, p, n) : TRUE OBVIOUS
  <2>2. PICK d : d = files!ClearEntry(volume, at[1], at[2]) OBVIOUS
  <2>3. volume' = files!ReleaseNode(d, n) BY <1>2, <2>1, <2>2 DEF files!RemoveNode
  <2>4. PICK es : es = [volume.dir[at[1]] EXCEPT ![at[2]] = files!Hole(@.size)] OBVIOUS
  <2>5. d = [volume EXCEPT !.dir[at[1]] = es] BY <2>2, <2>4 DEF files!ClearEntry
  <2>6. Sound(d) BY <2>5, DirKeeps
  <2> QED BY <2>3, <2>6, ReleaseNodeKeeps
<1> QED BY <1>1, <1>2

-----------------------------------------------------------------------------
\* What Format leaves.

LEMMA InGroup ==
  ASSUME NEW g \in files!Group, NEW i \in Int
  PROVE  /\ i \in 0 .. BlocksPerGroup - 1 =>
              g * BlocksPerGroup + i \in files!BlockNo /\ files!GroupOf(g * BlocksPerGroup + i) = g
         /\ i \in 1 .. NodesPerGroup =>
              g * NodesPerGroup + i \in files!Node /\ files!NodeGroup(g * NodesPerGroup + i) = g
<1>1. \A B \in Nat \ {0} : \A j \in 0 .. B - 1 : \A h \in Nat : (h * B + j) \div B = h
  OBVIOUS
<1>2. \A B \in Nat \ {0}, G \in Nat \ {0} : \A h \in 0 .. G - 1 : h * B + B <= G * B /\ 0 <= h * B
  OBVIOUS
<1>3. PICK B \in Nat \ {0} : B = BlocksPerGroup BY SizesHold DEF Sizes
<1>4. PICK N \in Nat \ {0} : N = NodesPerGroup BY SizesHold DEF Sizes
<1>5. PICK G \in Nat \ {0} : G = Groups BY SizesHold DEF Sizes
<1>6. g \in 0 .. G - 1 BY <1>5 DEF files!Group
<1>7. /\ g * B \in Nat /\ G * B \in Nat /\ g * B + B <= G * B
      /\ g * N \in Nat /\ G * N \in Nat /\ g * N + N <= G * N
  BY <1>2, <1>6
<1>8. ASSUME i \in 0 .. B - 1 PROVE g * B + i \in 0 .. G * B - 1 /\ (g * B + i) \div B = g
  <2>1. (g * B + i) \div B = g BY <1>1, <1>6, <1>8
  <2> QED BY <1>7, <1>8, <2>1
<1>9. ASSUME i \in 1 .. N PROVE g * N + i \in 1 .. G * N /\ (g * N + i - 1) \div N = g
  <2>1. PICK j \in 0 .. N - 1 : j = i - 1 BY <1>9
  <2>2. (g * N + j) \div N = g BY <1>1, <1>6, <2>1
  <2>3. g * N + i - 1 = g * N + j BY <1>7, <2>1
  <2> QED BY <1>7, <1>9, <2>2, <2>3
<1>10. PICK x : x = g * B + i OBVIOUS
<1>11. i \in 0 .. B - 1 => x \in files!BlockNo /\ files!GroupOf(x) = g
  BY <1>3, <1>5, <1>8, <1>10 DEF files!BlockNo, files!GroupOf
<1>12. PICK y : y = g * N + i OBVIOUS
<1>13. i \in 1 .. N => y \in files!Node /\ files!NodeGroup(y) = g
  <2>1. files!Node = 1 .. G * N /\ \A n : files!NodeGroup(n) = (n - 1) \div N
    BY <1>4, <1>5 DEF files!Node, files!NodeGroup
  <2> SUFFICES ASSUME i \in 1 .. N PROVE y \in files!Node /\ files!NodeGroup(y) = g OBVIOUS
  <2>2. y \in 1 .. G * N /\ (g * N + i - 1) \div N = g BY <1>9, <1>12
  <2>3. y - 1 = g * N + i - 1
    <3>1. PICK z \in Nat : z = g * N BY <1>7
    <3>2. y = z + i BY <1>12, <3>1
    <3>3. y - 1 = z + i - 1 BY <3>2
    <3> QED BY <3>1, <3>3
  <2>4. (y - 1) \div N = g BY <2>2, <2>3
  <2> QED BY <2>1, <2>2, <2>4
<1> QED BY <1>3, <1>4, <1>10, <1>11, <1>12, <1>13

\* The blocks of a group, and its inodes, are intervals.
LEMMA OfGroup ==
  ASSUME NEW g \in files!Group
  PROVE  /\ {b \in files!BlockNo : files!GroupOf(b) = g} =
              g * BlocksPerGroup .. g * BlocksPerGroup + BlocksPerGroup - 1
         /\ {n \in files!Node : files!NodeGroup(n) = g} =
              g * NodesPerGroup + 1 .. g * NodesPerGroup + NodesPerGroup
<1>1. PICK B \in Nat \ {0} : B = BlocksPerGroup BY SizesHold DEF Sizes
<1>2. PICK N \in Nat \ {0} : N = NodesPerGroup BY SizesHold DEF Sizes
<1>3. g \in Nat BY SizesHold DEF files!Group, Sizes
<1>4. PICK x \in Nat : x = g * B BY <1>3
<1>5. PICK y \in Nat : y = g * N BY <1>3
<1>6. ASSUME NEW b \in x .. x + B - 1 PROVE b \in files!BlockNo /\ files!GroupOf(b) = g
  <2>1. PICK i \in 0 .. B - 1 : b = x + i
    <3>1. b - x \in 0 .. B - 1 /\ b = x + (b - x) OBVIOUS
    <3> QED BY <3>1
  <2>2. i \in Int BY <1>1
  <2> QED BY <1>1, <1>4, <2>1, <2>2, InGroup
<1>7. ASSUME NEW n \in y + 1 .. y + N PROVE n \in files!Node /\ files!NodeGroup(n) = g
  <2>1. PICK i \in 1 .. N : n = y + i
    <3>1. n - y \in 1 .. N /\ n = y + (n - y) OBVIOUS
    <3> QED BY <3>1
  <2>2. i \in Int BY <1>2
  <2> QED BY <1>2, <1>5, <2>1, <2>2, InGroup
<1>8. \A b \in files!BlockNo : files!GroupOf(b) = g => b \in x .. x + B - 1
  BY <1>1, <1>4, GroupOfBlock
<1>9. \A n \in files!Node : files!NodeGroup(n) = g => n \in y + 1 .. y + N
  BY <1>2, <1>5, GroupOfNode
<1> QED BY <1>1, <1>2, <1>4, <1>5, <1>6, <1>7, <1>8, <1>9

LEMMA Interval ==
  ASSUME NEW a \in Int, NEW b \in Int, a <= b
  PROVE  Cardinality(a .. b) = b - a + 1
BY FS_Interval

\* What Format leaves free of a group.
LEMMA FormattedFree ==
  ASSUME NEW g \in files!Group, NEW d, d.used = files!Formatted \cup {Fixed}
  PROVE  FreeIn(d, g) = IF g = 0 THEN Fixed + 1 .. BlocksPerGroup - 1
                        ELSE g * BlocksPerGroup + GroupFixed
                               .. g * BlocksPerGroup + BlocksPerGroup - 1
<1>1. PICK B \in Nat \ {0} : B = BlocksPerGroup /\ Fixed \in 2 .. B - 1 /\ GroupFixed \in 1 .. B - 1
  BY SizesHold DEF Sizes
<1>2. g \in Nat BY SizesHold DEF files!Group, Sizes
<1>3. PICK x \in Nat : x = g * B BY <1>2
<1>4. {b \in files!BlockNo : files!GroupOf(b) = g} = x .. x + B - 1 BY <1>1, <1>3, OfGroup
<1>5. FreeIn(d, g) = (x .. x + B - 1) \ (files!Formatted \cup {Fixed}) BY <1>4 DEF FreeIn
<1>6. \A b : b \in files!Formatted <=> \/ b \in 0 .. Fixed - 1
                                       \/ \E h \in files!Group \ {0}, i \in 0 .. GroupFixed - 1 : b = h * B + i
  BY <1>1 DEF files!Formatted
<1>7. ASSUME NEW h \in files!Group \ {0}, NEW i \in 0 .. GroupFixed - 1
      PROVE  files!GroupOf(h * B + i) = h
  <2>1. i \in Int /\ i \in 0 .. BlocksPerGroup - 1 BY <1>1
  <2> QED BY <1>1, <2>1, InGroup
<1>8. ASSUME NEW b \in x .. x + B - 1
      PROVE  b \in files!Formatted <=>
               IF g = 0 THEN b < Fixed ELSE b < x + GroupFixed
  <2>1. b \in files!BlockNo /\ files!GroupOf(b) = g /\ b \in Nat BY <1>4
  <2>2. CASE g = 0
    <3>1. \A h \in files!Group \ {0}, i \in 0 .. GroupFixed - 1 : b # h * B + i
      BY <1>7, <2>1, <2>2
    <3>2. b \in files!Formatted <=> b \in 0 .. Fixed - 1 BY <1>6, <3>1
    <3> QED BY <1>1, <2>1, <2>2, <3>2
  <2>3. CASE g # 0
    <3>1. x >= B
      <4>1. \A h \in Nat \ {0} : \A c \in Nat : h * c >= c OBVIOUS
      <4> QED BY <1>2, <1>3, <2>3, <4>1
    <3>2. b \notin 0 .. Fixed - 1 BY <1>1, <2>1, <3>1
    <3>3. b \in files!Formatted <=> \E i \in 0 .. GroupFixed - 1 : b = x + i
      <4>1. ASSUME NEW i \in 0 .. GroupFixed - 1, b = x + i PROVE b \in files!Formatted
        BY <1>3, <1>6, <2>3, <4>1
      <4>2. ASSUME b \in files!Formatted PROVE \E i \in 0 .. GroupFixed - 1 : b = x + i
        <5>1. PICK h \in files!Group \ {0}, i \in 0 .. GroupFixed - 1 : b = h * B + i
          BY <1>6, <3>2, <4>2
        <5>2. h = g BY <1>7, <2>1, <5>1
        <5> QED BY <1>3, <5>1, <5>2
      <4> QED BY <4>1, <4>2
    <3>4. b < x + GroupFixed <=> b - x \in 0 .. GroupFixed - 1 BY <1>1, <2>1
    <3>5. b = x + (b - x) BY <2>1
    <3>6. \A i \in 0 .. GroupFixed - 1 : b = x + i => b < x + GroupFixed BY <1>1
    <3> QED BY <2>3, <3>3, <3>4, <3>5, <3>6
  <2> QED BY <2>2, <2>3
<1>9. CASE g = 0
  <2>1. x = 0 BY <1>1, <1>3, <1>9
  <2>2. \A b \in 0 .. B - 1 : b \in files!Formatted <=> b < Fixed BY <1>8, <1>9, <2>1
  <2>3. (0 .. B - 1) \ (files!Formatted \cup {Fixed}) = Fixed + 1 .. B - 1 BY <1>1, <2>2
  <2> QED BY <1>1, <1>5, <1>9, <2>1, <2>3
<1>10. CASE g # 0
  <2>1. x >= B
    <3>1. \A h \in Nat \ {0} : \A c \in Nat : h * c >= c OBVIOUS
    <3> QED BY <1>2, <1>3, <1>10, <3>1
  <2>2. \A b \in x .. x + B - 1 : b \in files!Formatted <=> b < x + GroupFixed
    BY <1>8, <1>10
  <2>3. Fixed \notin x .. x + B - 1 BY <1>1, <2>1
  <2>4. (x .. x + B - 1) \ (files!Formatted \cup {Fixed}) = x + GroupFixed .. x + B - 1
    BY <1>1, <2>2, <2>3
  <2> QED BY <1>1, <1>3, <1>5, <1>10, <2>4
<1> QED BY <1>9, <1>10

LEMMA FormattedFreeNodes ==
  ASSUME NEW g \in files!Group, NEW d, d.nodes = 1 .. Reserved
  PROVE  FreeNodesIn(d, g) = IF g = 0 THEN Reserved + 1 .. NodesPerGroup
                             ELSE g * NodesPerGroup + 1 .. g * NodesPerGroup + NodesPerGroup
<1>1. PICK N \in Nat \ {0} : N = NodesPerGroup /\ Reserved \in 2 .. N - 1
  BY SizesHold DEF Sizes
<1>2. g \in Nat BY SizesHold DEF files!Group, Sizes
<1>3. PICK y \in Nat : y = g * N BY <1>1, <1>2
<1>4. {n \in files!Node : files!NodeGroup(n) = g} = y + 1 .. y + N BY <1>1, <1>3, OfGroup
<1>5. FreeNodesIn(d, g) = (y + 1 .. y + N) \ (1 .. Reserved) BY <1>4 DEF FreeNodesIn
<1>6. CASE g = 0
  <2>1. y = 0 BY <1>1, <1>3, <1>6
  <2>2. (1 .. N) \ (1 .. Reserved) = Reserved + 1 .. N BY <1>1
  <2> QED BY <1>1, <1>5, <1>6, <2>1, <2>2
<1>7. CASE g # 0
  <2>1. y >= N
    <3>1. \A h \in Nat \ {0} : \A c \in Nat : h * c >= c OBVIOUS
    <3> QED BY <1>1, <1>2, <1>3, <1>7, <3>1
  <2>2. (y + 1 .. y + N) \ (1 .. Reserved) = y + 1 .. y + N BY <1>1, <2>1
  <2> QED BY <1>1, <1>3, <1>5, <1>7, <2>2
<1> QED BY <1>6, <1>7

LEMMA InitSound ==
  ASSUME files!Init
  PROVE  Sound(volume)
<1>1. PICK d : d = volume OBVIOUS
<1>2. DOMAIN d = Fields BY <1>1 DEF files!Init, Fields
<1>3. /\ d.used = files!Formatted \cup {Fixed} /\ d.nodes = 1 .. Reserved
      /\ d.free = [g \in files!Group |-> BlocksPerGroup - (IF g = 0 THEN Fixed ELSE GroupFixed)]
      /\ d.freeNodes = [g \in files!Group |-> NodesPerGroup - (IF g = 0 THEN 1 ELSE 0)]
  BY <1>1 DEF files!Init
<1>4. /\ d.inode = [n \in files!Node |-> IF n = files!Root
                      THEN [type |-> "dir", links |-> 0, size |-> BlockSize,
                            map |-> [files!NoMap EXCEPT ![1] = Fixed]]
                      ELSE files!Blank]
      /\ d.ptrs = [b \in files!BlockNo |-> files!NoPtrs]
  BY <1>1 DEF files!Init
<1>5. PICK B \in Nat \ {0} : B = BlocksPerGroup /\ Fixed \in 2 .. B - 1 /\ GroupFixed \in 1 .. B - 1
  BY SizesHold DEF Sizes
<1>6. PICK N \in Nat \ {0} : N = NodesPerGroup /\ Reserved \in 2 .. N - 1
  BY SizesHold DEF Sizes
<1>7. 0 \in files!Group BY SizesHold DEF files!Group, Sizes
<1>8. \A g \in files!Group : g \in Nat /\ g * B \in Nat /\ g * N \in Nat
  BY SizesHold DEF files!Group, Sizes
<1>9. Fixed \in files!BlockNo
  <2>1. 0 * BlocksPerGroup + Fixed = Fixed /\ Fixed \in 0 .. BlocksPerGroup - 1 /\ Fixed \in Int
    BY <1>5
  <2> QED BY <1>7, <2>1, InGroup
<1>10. files!Formatted \subseteq files!BlockNo
  <2>1. ASSUME NEW i \in 0 .. Fixed - 1 PROVE i \in files!BlockNo
    <3>1. 0 * BlocksPerGroup + i = i /\ i \in 0 .. BlocksPerGroup - 1 /\ i \in Int BY <1>5
    <3> QED BY <1>7, <3>1, InGroup
  <2>2. ASSUME NEW g \in files!Group, NEW i \in 0 .. GroupFixed - 1
        PROVE  g * BlocksPerGroup + i \in files!BlockNo
    <3>1. i \in 0 .. BlocksPerGroup - 1 /\ i \in Int BY <1>5
    <3> QED BY <3>1, InGroup
  <2> QED BY <2>1, <2>2 DEF files!Formatted
<1>11. 1 .. Reserved \subseteq files!Node
  <2>1. ASSUME NEW i \in 1 .. Reserved PROVE i \in files!Node
    <3>1. 0 * NodesPerGroup + i = i /\ i \in 1 .. NodesPerGroup /\ i \in Int BY <1>6
    <3> QED BY <1>7, <3>1, InGroup
  <2> QED BY <2>1
<1>12. ASSUME NEW g \in files!Group
       PROVE  d.free[g] \in Nat /\ d.free[g] = (IF g = 0 THEN 1 ELSE 0) + Cardinality(FreeIn(d, g))
  <2>1. d.free[g] = B - (IF g = 0 THEN Fixed ELSE GroupFixed) BY <1>3, <1>5
  <2>2. CASE g = 0
    <3>1. FreeIn(d, g) = Fixed + 1 .. B - 1 BY <1>3, <1>5, <2>2, FormattedFree
    <3>2. Cardinality(Fixed + 1 .. B - 1) = B - 1 - Fixed
      <4>1. /\ Fixed + 1 \in Int /\ B - 1 \in Int BY <1>5
      <4>2. Cardinality(Fixed + 1 .. B - 1) = IF Fixed + 1 > B - 1 THEN 0 ELSE B - 1 - (Fixed + 1) + 1
        BY <4>1, FS_Interval
      <4> QED BY <1>5, <4>2
    <3> QED BY <1>5, <2>1, <2>2, <3>1, <3>2
  <2>3. CASE g # 0
    <3>1. PICK x \in Nat : x = g * B BY <1>8
    <3>2. FreeIn(d, g) = x + GroupFixed .. x + B - 1
      BY <1>3, <1>5, <2>3, <3>1, FormattedFree
    <3>3. Cardinality(x + GroupFixed .. x + B - 1) = B - GroupFixed
      <4>1. x + GroupFixed \in Int /\ x + B - 1 \in Int /\ x + GroupFixed <= x + B - 1
        BY <1>5
      <4>2. Cardinality(x + GroupFixed .. x + B - 1) = x + B - 1 - (x + GroupFixed) + 1
        BY <4>1, Interval
      <4> QED BY <1>5, <4>2
    <3> QED BY <1>5, <2>1, <2>3, <3>2, <3>3
  <2> QED BY <2>2, <2>3
<1>13. ASSUME NEW g \in files!Group
       PROVE  /\ d.freeNodes[g] \in Nat
              /\ d.freeNodes[g] = (IF g = 0 THEN Reserved - 1 ELSE 0) + Cardinality(FreeNodesIn(d, g))
  <2>1. d.freeNodes[g] = N - (IF g = 0 THEN 1 ELSE 0) BY <1>3, <1>6
  <2>2. CASE g = 0
    <3>1. FreeNodesIn(d, g) = Reserved + 1 .. N BY <1>3, <1>6, <2>2, FormattedFreeNodes
    <3>2. Cardinality(Reserved + 1 .. N) = N - Reserved
      <4>1. Reserved + 1 \in Int /\ N \in Int /\ Reserved + 1 <= N BY <1>6
      <4>2. Cardinality(Reserved + 1 .. N) = N - (Reserved + 1) + 1 BY <4>1, Interval
      <4> QED BY <1>6, <4>2
    <3> QED BY <1>6, <2>1, <2>2, <3>1, <3>2
  <2>3. CASE g # 0
    <3>1. PICK y \in Nat : y = g * N BY <1>8
    <3>2. FreeNodesIn(d, g) = y + 1 .. y + N BY <1>3, <1>6, <2>3, <3>1, FormattedFreeNodes
    <3>3. Cardinality(y + 1 .. y + N) = N
      <4>1. y + 1 \in Int /\ y + N \in Int /\ y + 1 <= y + N BY <1>6
      <4>2. Cardinality(y + 1 .. y + N) = y + N - (y + 1) + 1 BY <4>1, Interval
      <4> QED BY <1>6, <4>2
    <3> QED BY <1>6, <2>1, <2>3, <3>2, <3>3
  <2> QED BY <2>2, <2>3
<1>14. d.free \in [files!Group -> Nat] /\ d.freeNodes \in [files!Group -> Nat]
  BY <1>3, <1>12, <1>13
<1>15. Counts(d) BY <1>2, <1>3, <1>9, <1>10, <1>11, <1>12, <1>13, <1>14 DEF Counts
<1>16. Typed(d)
  <2>1. PICK top \in Nat : top = Direct + 3 BY SizesHold DEF Sizes
  <2>2. files!NoMap \in [1 .. top -> files!BlockNo] BY <2>1, ZeroIsBlock DEF files!NoMap
  <2>3. \A i \in Direct + 1 .. Direct + 3 : i \in 1 .. top BY <2>1, SizesHold DEF Sizes
  <2>4. [files!NoMap EXCEPT ![1] = Fixed] \in [1 .. top -> files!BlockNo] BY <1>9, <2>2
  <2>5. d.ptrs \in [files!BlockNo -> [1 .. Ptrs -> files!BlockNo]]
    BY <1>4, ZeroIsBlock DEF files!NoPtrs
  <2>6. ASSUME NEW n \in files!Node
        PROVE  /\ DOMAIN d.inode[n] = {"type", "links", "size", "map"}
               /\ d.inode[n].size \in Nat
               /\ d.inode[n].map \in [1 .. top -> files!BlockNo]
    <3>1. CASE n = files!Root
      <4>1. d.inode[n] = [type |-> "dir", links |-> 0, size |-> BlockSize,
                          map |-> [files!NoMap EXCEPT ![1] = Fixed]]
        BY <1>4, <3>1
      <4> QED BY <2>4, <4>1, SizesHold DEF Sizes
    <3>2. CASE n # files!Root
      <4>1. d.inode[n] = [type |-> "none", links |-> 0, size |-> 0, map |-> files!NoMap]
        BY <1>4, <3>2 DEF files!Blank
      <4> QED BY <2>2, <4>1
    <3> QED BY <3>1, <3>2
  <2>7. [1 .. top -> files!BlockNo] \subseteq [1 .. Direct + 3 -> Pointer]
    BY <2>1 DEF Pointer
  <2>8. DOMAIN d.inode = files!Node BY <1>4
  <2> QED BY <2>3, <2>5, <2>6, <2>7, <2>8 DEF Typed
<1> QED BY <1>1, <1>15, <1>16 DEF Sound

LEMMA NextSound ==
  ASSUME Sound(volume), [files!Next]_(files!vars)
  PROVE  Sound(volume')
<1>1. CASE \E p, n \in files!Node : files!RemoveNode(p, n) BY <1>1, RemoveNodeSound
<1>2. CASE \E n \in files!Node, end \in WriteEnd : files!Write(n, end) BY <1>2, WriteSound
<1>3. CASE \E p \in files!Node, type \in {"dir", "file"}, len \in NameLen : files!Create(p, type, len)
  BY <1>3, CreateSound
<1>4. CASE \E p \in files!Node, len \in NameLen, word \in TargetWord :
             files!CreateDevice(p, len, word)
  BY <1>4, CreateDeviceSound
<1>5. CASE \E p \in files!Node, len \in NameLen, target \in TargetLen, word \in TargetWord :
             files!CreateLink(p, len, target, word)
  BY <1>5, CreateLinkSound
<1>6. CASE UNCHANGED files!vars BY <1>6 DEF files!vars
<1> QED BY <1>1, <1>2, <1>3, <1>4, <1>5, <1>6 DEF files!Next

LEMMA SoundTracks == Sound(volume) => files!CountsTrack
<1> SUFFICES ASSUME Sound(volume), NEW g \in files!Group
             PROVE  LET first == IF g = 0 THEN 1 ELSE 0
                    IN /\ volume.free[g] = first + Cardinality(FreeIn(volume, g))
                       /\ volume.freeNodes[g] = first * (Reserved - 1)
                                              + Cardinality(FreeNodesIn(volume, g))
  BY SameSize DEF files!CountsTrack, FreeIn, FreeNodesIn
<1>1. /\ volume.free[g] = (IF g = 0 THEN 1 ELSE 0) + Cardinality(FreeIn(volume, g))
      /\ volume.freeNodes[g] = (IF g = 0 THEN Reserved - 1 ELSE 0)
                             + Cardinality(FreeNodesIn(volume, g))
  BY DEF Sound, Counts
<1>2. PICK c \in Nat : c = Reserved - 1 BY SizesHold DEF Sizes
<1>3. 1 * c = c /\ 0 * c = 0 BY <1>2
<1> QED BY <1>1, <1>2, <1>3

-----------------------------------------------------------------------------
\* A step of the file system is one of EXT2 or leaves its disk alone, and so
\* for the table.
LEMMA StepOfOne ==
  ASSUME [FilesNext]_<<part, files_vars>>
  PROVE  [files!Next]_(files!vars) /\ [fds!Next]_(fds!vars)
BY DEF FilesNext, FilesStep, OtherFiles, files_vars, fds_vars, files!vars, fds!vars

LEMMA TableAlways == FilesSpec => []TableInv
<1>1. FilesInit => TableInv BY EmptyKeeps DEF FilesInit, fds!Init
<1>2. TableInv /\ [FilesNext]_<<part, files_vars>> => TableInv'
  BY StepOfOne, TableNext
<1> QED BY <1>1, <1>2, PTL DEF FilesSpec

LEMMA SoundAlways == FilesSpec => []Sound(volume)
<1>1. FilesInit => Sound(volume) BY InitSound DEF FilesInit
<1>2. Sound(volume) /\ [FilesNext]_<<part, files_vars>> => Sound(volume)'
  BY StepOfOne, NextSound
<1> QED BY <1>1, <1>2, PTL DEF FilesSpec

-----------------------------------------------------------------------------
\* However descriptors are taken and returned and the vector grows, the queue
\* has those that are free, each once, with the smallest on top, which is the
\* one that map gives out.
THEOREM LowestFreeAlways == FilesSpec => []LowestFree
<1>1. TableInv => LowestFree BY LowestOnTop DEF LowestFree
<1> QED BY <1>1, TableAlways, PTL

\* On a disk of any geometry and after any calls, those included that fail half
\* way, the count of free blocks and the count of free inodes of each group are
\* those of its bitmaps (but for the blocks and inodes Format does not count).
\* The same is so when a short link's characters have been released as a block.
THEOREM CountsTrackAlways == FilesSpec => []CountsTrack
<1>1. Sound(volume) => CountsTrack BY SoundTracks DEF CountsTrack
<1> QED BY <1>1, SoundAlways, PTL

-----------------------------------------------------------------------------
\* Who owns a block.  What inode n reaches through one, two, three and four
\* pointers; all of it counts, though only some of it is the inode's.
One(d, n, r) == d.inode[n].map[r]
Two(d, n, r, i) == files!At(d, One(d, n, r), i)
Three(d, n, r, i, j) == files!At(d, Two(d, n, r, i), j)
Four(d, n, r, i, j, l) == files!At(d, Three(d, n, r, i, j), l)

Place == 1 .. Direct + 3
Column == 1 .. Ptrs

\* No two pointers of the inodes O and of the indirect blocks are to the same block.
Unshared(d, O) ==
  /\ \A n, m \in O : \A r, s \in Place :
       One(d, n, r) = One(d, m, s) /\ One(d, n, r) # files!Null => n = m /\ r = s
  /\ \A n \in O : \A r \in Place : \A b \in files!BlockNo : \A i \in Column :
       One(d, n, r) = d.ptrs[b][i] => One(d, n, r) = files!Null
  /\ \A b, c \in files!BlockNo : \A i, j \in Column :
       d.ptrs[b][i] = d.ptrs[c][j] /\ d.ptrs[b][i] # files!Null => b = c /\ i = j

\* A pointer is to a block in use that is not one of Format's, nor of the blocks
\* F that are reserved and not yet added, nor one a link has left behind.
Fresh(d, O, F) ==
  /\ \A n \in O : \A r \in Place :
       \/ One(d, n, r) = files!Null
       \/ One(d, n, r) \in d.used \ (files!Formatted \cup d.lost \cup F)
  /\ \A b \in files!BlockNo : \A i \in Column :
       \/ d.ptrs[b][i] = files!Null
       \/ /\ d.ptrs[b][i] \in d.used \ (files!Formatted \cup F)
          /\ b \notin d.lost => d.ptrs[b][i] \notin d.lost

Stock(d, F) ==
  /\ files!Formatted \subseteq d.used /\ d.lost \subseteq d.used /\ F \subseteq d.used
  /\ files!Formatted \cap d.lost = {} /\ files!Formatted \cap F = {} /\ d.lost \cap F = {}

\* Every block in use is one of these or an inode's.
Cover(d, O, F) ==
  \A b \in d.used : \/ b \in files!Formatted \cup d.lost \cup F
                    \/ \E n \in O : b \in files!Owned(d, n)

\* Block p of the blocks s that were added to an inode, if there are so many.
LogAt(s, p) == IF p <= Len(s) THEN s[p] ELSE files!Null

\* The slots of inode n have the blocks that were added to it, in order, and no
\* other block.
InLog(d, n) ==
  /\ d.log[n] \in Seq(files!BlockNo \ {files!Null})
  /\ Len(d.log[n]) <= Direct + Ptrs + Squared + Ptrs * Squared
  /\ \A r \in 1 .. Direct : One(d, n, r) = LogAt(d.log[n], r)
  /\ \A i \in Column : Two(d, n, Direct + 1, i) = LogAt(d.log[n], Direct + i)
  /\ \A i, j \in Column :
       Three(d, n, Direct + 2, i, j) = LogAt(d.log[n], Direct + Ptrs + Pos(i, j, Ptrs))
  /\ \A i, j, l \in Column :
       Four(d, n, Direct + 3, i, j, l) = LogAt(d.log[n], Direct + Ptrs + Squared + Pos3(i, j, l))

Held(d, O, F) ==
  /\ Sound(d) /\ O \subseteq files!Node /\ DOMAIN d.log = files!Node
  /\ Unshared(d, O) /\ Fresh(d, O, F) /\ Stock(d, F) /\ Cover(d, O, F)
  /\ \A n \in O : InLog(d, n)

\* What there is to know of places.
LEMMA Geometry ==
  /\ Direct \in Nat \ {0} /\ Ptrs \in Nat \ {0} /\ Squared \in Nat \ {0}
  /\ Direct + 1 \in Place /\ Direct + 2 \in Place /\ Direct + 3 \in Place
  /\ 1 .. Direct \subseteq Place
  /\ files!Null \in files!BlockNo /\ files!Null \in files!Formatted
<1>1. Direct \in Nat \ {0} BY SizesHold DEF Sizes
<1>2. files!Null \in files!Formatted BY SizesHold DEF Sizes, files!Null, files!Formatted
<1> QED BY <1>1, <1>2, PtrsIs, ZeroIsBlock DEF Place

\* Pointers are to blocks.
Reached(d, O) ==
  /\ \A n \in O : \A r \in Place : One(d, n, r) \in files!BlockNo
  /\ \A b \in files!BlockNo : \A i \in Column : d.ptrs[b][i] \in files!BlockNo
  /\ \A b \in files!BlockNo : \A i \in Column : files!At(d, b, i) \in files!BlockNo
  /\ \A n \in O : \A r \in Place : \A i \in Column : Two(d, n, r, i) \in files!BlockNo
  /\ \A n \in O : \A r \in Place : \A i, j \in Column : Three(d, n, r, i, j) \in files!BlockNo
  /\ \A n \in O : \A r \in Place : \A i, j, l \in Column : Four(d, n, r, i, j, l) \in files!BlockNo

LEMMA ReachesBlocks ==
  ASSUME NEW d, Sound(d), NEW O, NEW F, Fresh(d, O, F)
  PROVE  Reached(d, O)
<1>1. \A n \in O : \A r \in Place : One(d, n, r) \in files!BlockNo
  <2>1. d.used \subseteq files!BlockNo BY DEF Sound, Counts
  <2> QED BY <2>1, ZeroIsBlock DEF Fresh
<1>2. \A b \in files!BlockNo : \A i \in Column : d.ptrs[b][i] \in files!BlockNo
  BY Pointing DEF Column
<1>3. \A b \in files!BlockNo : \A i \in Column : files!At(d, b, i) \in files!BlockNo
  BY AtIsBlock DEF Column
<1>4. \A n \in O : \A r \in Place : \A i \in Column : Two(d, n, r, i) \in files!BlockNo
  BY <1>1, <1>3 DEF Two
<1>5. \A n \in O : \A r \in Place : \A i, j \in Column : Three(d, n, r, i, j) \in files!BlockNo
  BY <1>3, <1>4 DEF Three
<1>6. \A n \in O : \A r \in Place : \A i, j, l \in Column : Four(d, n, r, i, j, l) \in files!BlockNo
  BY <1>3, <1>5 DEF Four
<1> QED BY <1>1, <1>2, <1>3, <1>4, <1>5, <1>6 DEF Reached

\* So no block is reached in two ways.
TwoApart(d, O) ==
  \A n, m \in O : \A r, s \in Place : \A i, k \in Column :
    Two(d, n, r, i) = Two(d, m, s, k) /\ Two(d, n, r, i) # files!Null => n = m /\ r = s /\ i = k
ThreeApart(d, O) ==
  \A n, m \in O : \A r, s \in Place : \A i, k, j, h \in Column :
    Three(d, n, r, i, j) = Three(d, m, s, k, h) /\ Three(d, n, r, i, j) # files!Null =>
      n = m /\ r = s /\ i = k /\ j = h
FourApart(d, O) ==
  \A n, m \in O : \A r, s \in Place : \A i, k, j, h, l, g \in Column :
    Four(d, n, r, i, j, l) = Four(d, m, s, k, h, g) /\ Four(d, n, r, i, j, l) # files!Null =>
      n = m /\ r = s /\ i = k /\ j = h /\ l = g
OneOthers(d, O) ==
  \A n, m \in O : \A r, s \in Place : One(d, n, r) # files!Null =>
    /\ \A i \in Column : One(d, n, r) # Two(d, m, s, i)
    /\ \A i, j \in Column : One(d, n, r) # Three(d, m, s, i, j)
    /\ \A i, j, l \in Column : One(d, n, r) # Four(d, m, s, i, j, l)
TwoOthers(d, O) ==
  \A n, m \in O : \A r, s \in Place : \A k \in Column : Two(d, n, r, k) # files!Null =>
    /\ \A i, j \in Column : Two(d, n, r, k) # Three(d, m, s, i, j)
    /\ \A i, j, l \in Column : Two(d, n, r, k) # Four(d, m, s, i, j, l)
ThreeOthers(d, O) ==
  \A n, m \in O : \A r, s \in Place : \A k, h \in Column : Three(d, n, r, k, h) # files!Null =>
    \A i, j, l \in Column : Three(d, n, r, k, h) # Four(d, m, s, i, j, l)
Apart(d, O) ==
  /\ TwoApart(d, O) /\ ThreeApart(d, O) /\ FourApart(d, O)
  /\ OneOthers(d, O) /\ TwoOthers(d, O) /\ ThreeOthers(d, O)

\* The same pointer of the same block, or two different blocks.
LEMMA AtApart ==
  ASSUME NEW d, NEW O, Unshared(d, O), NEW b \in files!BlockNo, NEW c \in files!BlockNo,
         NEW i \in Column, NEW k \in Column,
         files!At(d, b, i) = files!At(d, c, k), files!At(d, b, i) # files!Null
  PROVE  b = c /\ i = k /\ b # files!Null
<1>1. b # files!Null /\ c # files!Null BY DEF files!At
<1>2. d.ptrs[b][i] = d.ptrs[c][k] /\ d.ptrs[b][i] # files!Null BY <1>1 DEF files!At
<1> QED BY <1>1, <1>2 DEF Unshared

LEMMA AreApart ==
  ASSUME NEW d, NEW O, Unshared(d, O), Reached(d, O)
  PROVE  Apart(d, O)
<1>1. TwoApart(d, O)
  <2> SUFFICES ASSUME NEW n \in O, NEW m \in O, NEW r \in Place, NEW s \in Place,
                      NEW i \in Column, NEW k \in Column,
                      Two(d, n, r, i) = Two(d, m, s, k), Two(d, n, r, i) # files!Null
               PROVE  n = m /\ r = s /\ i = k
    BY DEF TwoApart
  <2>1. One(d, n, r) \in files!BlockNo /\ One(d, m, s) \in files!BlockNo BY DEF Reached
  <2>2. One(d, n, r) = One(d, m, s) /\ i = k /\ One(d, n, r) # files!Null
    BY <2>1, AtApart DEF Two
  <2> QED BY <2>2 DEF Unshared
<1>2. ThreeApart(d, O)
  <2> SUFFICES ASSUME NEW n \in O, NEW m \in O, NEW r \in Place, NEW s \in Place,
                      NEW i \in Column, NEW k \in Column, NEW j \in Column, NEW h \in Column,
                      Three(d, n, r, i, j) = Three(d, m, s, k, h), Three(d, n, r, i, j) # files!Null
               PROVE  n = m /\ r = s /\ i = k /\ j = h
    BY DEF ThreeApart
  <2>1. Two(d, n, r, i) \in files!BlockNo /\ Two(d, m, s, k) \in files!BlockNo BY DEF Reached
  <2>2. Two(d, n, r, i) = Two(d, m, s, k) /\ j = h /\ Two(d, n, r, i) # files!Null
    BY <2>1, AtApart DEF Three
  <2> QED BY <1>1, <2>2 DEF TwoApart
<1>3. FourApart(d, O)
  <2> SUFFICES ASSUME NEW n \in O, NEW m \in O, NEW r \in Place, NEW s \in Place
               PROVE  \A i, k, j, h, l, g \in Column :
                        Four(d, n, r, i, j, l) = Four(d, m, s, k, h, g)
                        /\ Four(d, n, r, i, j, l) # files!Null =>
                          n = m /\ r = s /\ i = k /\ j = h /\ l = g
    BY DEF FourApart
  <2> TAKE i, k, j, h, l, g \in Column
  <2> HAVE Four(d, n, r, i, j, l) = Four(d, m, s, k, h, g) /\ Four(d, n, r, i, j, l) # files!Null
  <2>1. Three(d, n, r, i, j) \in files!BlockNo /\ Three(d, m, s, k, h) \in files!BlockNo
    BY DEF Reached
  <2>2. Three(d, n, r, i, j) = Three(d, m, s, k, h) /\ l = g /\ Three(d, n, r, i, j) # files!Null
    BY <2>1, AtApart DEF Four
  <2> QED BY <1>2, <2>2 DEF ThreeApart
<1>4. ASSUME NEW n \in O, NEW r \in Place, One(d, n, r) # files!Null,
             NEW b \in files!BlockNo, NEW i \in Column
      PROVE  One(d, n, r) # files!At(d, b, i)
  BY <1>4 DEF Unshared, files!At
<1>5. OneOthers(d, O)
  <2> SUFFICES ASSUME NEW n \in O, NEW m \in O, NEW r \in Place, NEW s \in Place,
                      One(d, n, r) # files!Null
               PROVE  /\ \A i \in Column : One(d, n, r) # Two(d, m, s, i)
                      /\ \A i, j \in Column : One(d, n, r) # Three(d, m, s, i, j)
                      /\ \A i, j, l \in Column : One(d, n, r) # Four(d, m, s, i, j, l)
    BY DEF OneOthers
  <2>1. \A i \in Column : One(d, n, r) # Two(d, m, s, i) BY <1>4 DEF Two, Reached
  <2>2. \A i, j \in Column : One(d, n, r) # Three(d, m, s, i, j) BY <1>4 DEF Three, Reached
  <2>3. \A i, j, l \in Column : One(d, n, r) # Four(d, m, s, i, j, l) BY <1>4 DEF Four, Reached
  <2> QED BY <2>1, <2>2, <2>3
<1>6. TwoOthers(d, O)
  <2> SUFFICES ASSUME NEW n \in O, NEW m \in O, NEW r \in Place, NEW s \in Place,
                      NEW k \in Column, Two(d, n, r, k) # files!Null
               PROVE  /\ \A i, j \in Column : Two(d, n, r, k) # Three(d, m, s, i, j)
                      /\ \A i, j, l \in Column : Two(d, n, r, k) # Four(d, m, s, i, j, l)
    BY DEF TwoOthers
  <2>1. One(d, n, r) \in files!BlockNo /\ One(d, n, r) # files!Null
    BY DEF Reached, Two, files!At
  <2>2. ASSUME NEW i \in Column, NEW j \in Column, Two(d, n, r, k) = Three(d, m, s, i, j) PROVE FALSE
    <3>1. Two(d, m, s, i) \in files!BlockNo BY DEF Reached
    <3>2. One(d, n, r) = Two(d, m, s, i) BY <2>1, <2>2, <3>1, AtApart DEF Two, Three
    <3> QED BY <1>5, <2>1, <3>2 DEF OneOthers
  <2>3. ASSUME NEW i \in Column, NEW j \in Column, NEW l \in Column,
               Two(d, n, r, k) = Four(d, m, s, i, j, l) PROVE FALSE
    <3>1. Three(d, m, s, i, j) \in files!BlockNo BY DEF Reached
    <3>2. One(d, n, r) = Three(d, m, s, i, j) BY <2>1, <2>3, <3>1, AtApart DEF Two, Four
    <3> QED BY <1>5, <2>1, <3>2 DEF OneOthers
  <2> QED BY <2>2, <2>3
<1>7. ThreeOthers(d, O)
  <2> SUFFICES ASSUME NEW n \in O, NEW m \in O, NEW r \in Place, NEW s \in Place,
                      NEW k \in Column, NEW h \in Column, Three(d, n, r, k, h) # files!Null,
                      NEW i \in Column, NEW j \in Column, NEW l \in Column,
                      Three(d, n, r, k, h) = Four(d, m, s, i, j, l)
               PROVE  FALSE
    BY DEF ThreeOthers
  <2>1. Two(d, n, r, k) \in files!BlockNo /\ Two(d, n, r, k) # files!Null
    BY DEF Reached, Three, files!At
  <2>2. Three(d, m, s, i, j) \in files!BlockNo BY DEF Reached
  <2>3. Two(d, n, r, k) = Three(d, m, s, i, j) BY <2>1, <2>2, AtApart DEF Three, Four
  <2> QED BY <1>6, <2>1, <2>3 DEF TwoOthers
<1> QED BY <1>1, <1>2, <1>3, <1>5, <1>6, <1>7 DEF Apart

\* The indirect blocks of an inode are where its three trees branch.
Branch(d, n, y) ==
  /\ y # files!Null
  /\ \/ \E r \in {Direct + 1, Direct + 2, Direct + 3} : y = One(d, n, r)
     \/ \E r \in {Direct + 2, Direct + 3} : \E i \in Column : y = Two(d, n, r, i)
     \/ \E i, j \in Column : y = Three(d, n, Direct + 3, i, j)

LEMMA PointedIs ==
  ASSUME NEW d, Sound(d), NEW S \in SUBSET files!BlockNo, NEW y
  PROVE  y \in files!Pointed(d, S) <=>
           y # files!Null /\ \E b \in S : \E i \in Column : y = d.ptrs[b][i]
<1>1. \A b \in S : DOMAIN d.ptrs[b] = Column BY Pointing DEF Column
<1> QED BY <1>1 DEF files!Pointed, files!ToSet

LEMMA BranchIs ==
  ASSUME NEW d, Sound(d), NEW n \in files!Node
  PROVE  \A y : y \in files!IndirectBlocks(d, n) <=> Branch(d, n, y)
<1>1. PICK x : x = One(d, n, Direct + 1) OBVIOUS
<1>2. PICK u : u = One(d, n, Direct + 2) OBVIOUS
<1>3. PICK v : v = One(d, n, Direct + 3) OBVIOUS
<1>4. x \in files!BlockNo /\ u \in files!BlockNo /\ v \in files!BlockNo
  <2>1. /\ Direct + 1 \in Direct + 1 .. Direct + 3 /\ Direct + 2 \in Direct + 1 .. Direct + 3
        /\ Direct + 3 \in Direct + 1 .. Direct + 3
    BY Geometry
  <2> QED BY <1>1, <1>2, <1>3, <2>1, InodeIs DEF One
<1>5. PICK U : U = {u} \ {files!Null} OBVIOUS
<1>6. PICK V : V = {v} \ {files!Null} OBVIOUS
<1>7. U \in SUBSET files!BlockNo /\ V \in SUBSET files!BlockNo BY <1>4, <1>5, <1>6
<1>8. PICK W \in SUBSET files!BlockNo : W = files!Pointed(d, V) BY <1>7, PointedBlocks
<1>9. \A y : y \in files!Pointed(d, U) <=>
               y # files!Null /\ \E i \in Column : y = files!At(d, u, i)
  <2> TAKE y
  <2>1. y \in files!Pointed(d, U) <=>
          y # files!Null /\ \E b \in U : \E i \in Column : y = d.ptrs[b][i]
    BY <1>7, PointedIs
  <2> QED BY <1>5, <2>1 DEF files!At
<1>10. \A y : y \in W <=> y # files!Null /\ \E i \in Column : y = files!At(d, v, i)
  <2> TAKE y
  <2>1. y \in W <=> y # files!Null /\ \E b \in V : \E i \in Column : y = d.ptrs[b][i]
    BY <1>7, <1>8, PointedIs
  <2> QED BY <1>6, <2>1 DEF files!At
<1>11. \A y : y \in files!Pointed(d, W) <=>
                y # files!Null /\ \E i, j \in Column : y = files!At(d, files!At(d, v, i), j)
  <2> TAKE y
  <2>1. y \in files!Pointed(d, W) <=>
          y # files!Null /\ \E b \in W : \E i \in Column : y = d.ptrs[b][i]
    BY <1>8, PointedIs
  <2>2. ASSUME y # files!Null, NEW b \in W, NEW j \in Column, y = d.ptrs[b][j]
        PROVE  \E i, h \in Column : y = files!At(d, files!At(d, v, i), h)
    <3>1. PICK i \in Column : b = files!At(d, v, i) /\ b # files!Null BY <1>10
    <3>2. y = files!At(d, files!At(d, v, i), j) BY <2>2, <3>1 DEF files!At
    <3> QED BY <3>2
  <2>3. ASSUME y # files!Null, NEW i \in Column, NEW j \in Column,
               y = files!At(d, files!At(d, v, i), j)
        PROVE  \E b \in W : \E h \in Column : y = d.ptrs[b][h]
    <3>1. files!At(d, v, i) # files!Null BY <2>3 DEF files!At
    <3>2. files!At(d, v, i) \in W BY <1>10, <3>1
    <3>3. y = d.ptrs[files!At(d, v, i)][j] BY <2>3, <3>1 DEF files!At
    <3> QED BY <3>2, <3>3
  <2> QED BY <2>1, <2>2, <2>3
<1>12. files!IndirectBlocks(d, n) =
         ({x} \ {files!Null}) \cup U \cup files!Pointed(d, U) \cup V \cup W \cup files!Pointed(d, W)
  BY <1>1, <1>2, <1>3, <1>5, <1>6, <1>8 DEF files!IndirectBlocks, One
<1> TAKE y
<1>13. Branch(d, n, y) <=>
         y # files!Null /\ \/ y = x \/ y = u \/ y = v
                           \/ \E i \in Column : y = files!At(d, u, i)
                           \/ \E i \in Column : y = files!At(d, v, i)
                           \/ \E i, j \in Column : y = files!At(d, files!At(d, v, i), j)
  BY <1>1, <1>2, <1>3 DEF Branch, Two, Three
<1>14. y \in U <=> y = u /\ y # files!Null BY <1>5
<1>15. y \in V <=> y = v /\ y # files!Null BY <1>6
<1> QED BY <1>9, <1>10, <1>11, <1>12, <1>13, <1>14, <1>15

\* The places of an inode, each with the level it is on, are the same.
SameOne(d, e, n) == \A r \in Place : One(e, n, r) = One(d, n, r)
SameTwo(d, e, n) ==
  \A r \in {Direct + 1, Direct + 2, Direct + 3} : \A i \in Column :
    Two(e, n, r, i) = Two(d, n, r, i)
SameThree(d, e, n) ==
  \A r \in {Direct + 2, Direct + 3} : \A i, j \in Column :
    Three(e, n, r, i, j) = Three(d, n, r, i, j)
SameFour(d, e, n) ==
  \A i, j, l \in Column : Four(e, n, Direct + 3, i, j, l) = Four(d, n, Direct + 3, i, j, l)
SamePlaces(d, e, n) ==
  SameOne(d, e, n) /\ SameTwo(d, e, n) /\ SameThree(d, e, n) /\ SameFour(d, e, n)

LEMMA SameInLog ==
  ASSUME NEW d, NEW e, NEW n, InLog(d, n), SamePlaces(d, e, n), e.log[n] = d.log[n]
  PROVE  InLog(e, n)
<1>1. \A r \in 1 .. Direct : One(e, n, r) = One(d, n, r) BY Geometry DEF SamePlaces, SameOne
<1> QED BY <1>1 DEF SamePlaces, SameTwo, SameThree, SameFour, InLog

LEMMA SameBranch ==
  ASSUME NEW d, NEW e, NEW n, SamePlaces(d, e, n)
  PROVE  \A y : Branch(e, n, y) <=> Branch(d, n, y)
BY Geometry DEF SamePlaces, SameOne, SameTwo, SameThree, Branch

LEMMA SameOwned ==
  ASSUME NEW d, NEW e, Sound(d), Sound(e), NEW n \in files!Node, SamePlaces(d, e, n),
         e.log[n] = d.log[n]
  PROVE  files!Owned(e, n) = files!Owned(d, n)
<1>1. files!IndirectBlocks(e, n) = files!IndirectBlocks(d, n)
  <2>1. \A y : Branch(e, n, y) <=> Branch(d, n, y) BY SameBranch
  <2>2. \A y : y \in files!IndirectBlocks(e, n) <=> Branch(e, n, y) BY BranchIs
  <2>3. \A y : y \in files!IndirectBlocks(d, n) <=> Branch(d, n, y) BY BranchIs
  <2> QED BY <2>1, <2>2, <2>3
<1> QED BY <1>1 DEF files!Owned

\* What changes no branch of an inode changes none of its places.
LEMMA PlacesStay ==
  ASSUME NEW d, NEW e, NEW n, e.inode[n].map = d.inode[n].map,
         \A b : Branch(d, n, b) => e.ptrs[b] = d.ptrs[b]
  PROVE  SamePlaces(d, e, n)
<1>1. \A r \in Place : One(e, n, r) = One(d, n, r) BY DEF One
<1>2. ASSUME NEW r \in {Direct + 1, Direct + 2, Direct + 3}, NEW i \in Column
      PROVE  Two(e, n, r, i) = Two(d, n, r, i)
  <2>1. One(e, n, r) = One(d, n, r) BY <1>1, Geometry
  <2>2. One(d, n, r) # files!Null => e.ptrs[One(d, n, r)] = d.ptrs[One(d, n, r)] BY DEF Branch
  <2> QED BY <2>1, <2>2 DEF Two, files!At
<1>3. ASSUME NEW r \in {Direct + 2, Direct + 3}, NEW i \in Column, NEW j \in Column
      PROVE  Three(e, n, r, i, j) = Three(d, n, r, i, j)
  <2>1. Two(e, n, r, i) = Two(d, n, r, i) BY <1>2
  <2>2. Two(d, n, r, i) # files!Null => e.ptrs[Two(d, n, r, i)] = d.ptrs[Two(d, n, r, i)]
    BY DEF Branch
  <2> QED BY <2>1, <2>2 DEF Three, files!At
<1>4. ASSUME NEW i \in Column, NEW j \in Column, NEW l \in Column
      PROVE  Four(e, n, Direct + 3, i, j, l) = Four(d, n, Direct + 3, i, j, l)
  <2>1. Three(e, n, Direct + 3, i, j) = Three(d, n, Direct + 3, i, j) BY <1>3
  <2>2. PICK b : b = Three(d, n, Direct + 3, i, j) OBVIOUS
  <2>3. b # files!Null => e.ptrs[b] = d.ptrs[b] BY <2>2 DEF Branch
  <2> QED BY <2>1, <2>2, <2>3 DEF Four, files!At
<1> QED BY <1>1, <1>2, <1>3, <1>4 DEF SamePlaces, SameOne, SameTwo, SameThree, SameFour

\* Branches are in use.
LEMMA BranchInUse ==
  ASSUME NEW d, NEW O, NEW F, Held(d, O, F), NEW n \in O, NEW y, Branch(d, n, y)
  PROVE  y \in d.used \ (files!Formatted \cup d.lost \cup F) /\ y \in files!BlockNo
<1>0. Reached(d, O) BY ReachesBlocks DEF Held
<1>1. ASSUME NEW r \in Place
      PROVE  One(d, n, r) = files!Null \/ One(d, n, r) \in d.used \ (files!Formatted \cup d.lost \cup F)
  BY DEF Held, Fresh
<1>2. ASSUME NEW b \in files!BlockNo, NEW i \in Column,
             b = files!Null \/ b \in d.used \ (files!Formatted \cup d.lost \cup F)
      PROVE  files!At(d, b, i) = files!Null
             \/ files!At(d, b, i) \in d.used \ (files!Formatted \cup d.lost \cup F)
  BY <1>2 DEF Held, Fresh, files!At
<1>3. ASSUME NEW r \in Place, NEW i \in Column
      PROVE  Two(d, n, r, i) = files!Null
             \/ Two(d, n, r, i) \in d.used \ (files!Formatted \cup d.lost \cup F)
  <2>1. One(d, n, r) \in files!BlockNo BY <1>0 DEF Reached
  <2> QED BY <1>1, <1>2, <2>1 DEF Two
<1>4. ASSUME NEW r \in Place, NEW i \in Column, NEW j \in Column
      PROVE  Three(d, n, r, i, j) = files!Null
             \/ Three(d, n, r, i, j) \in d.used \ (files!Formatted \cup d.lost \cup F)
  <2>1. Two(d, n, r, i) \in files!BlockNo BY <1>0 DEF Reached
  <2> QED BY <1>2, <1>3, <2>1 DEF Three
<1>5. y \in d.used \ (files!Formatted \cup d.lost \cup F)
  BY <1>1, <1>3, <1>4, Geometry DEF Branch
<1> QED BY <1>5 DEF Held, Sound, Counts

\* Fewer pointers are not shared either.
LEMMA FewerUnshared ==
  ASSUME NEW d, NEW O, Unshared(d, O), NEW P \in SUBSET O, NEW e,
         \A n \in P : SameOne(d, e, n),
         \A b \in files!BlockNo : \A i \in Column :
           e.ptrs[b][i] = d.ptrs[b][i] \/ e.ptrs[b][i] = files!Null
  PROVE  Unshared(e, P)
<1>1. ASSUME NEW n \in P, NEW m \in P, NEW r \in Place, NEW s \in Place,
             One(e, n, r) = One(e, m, s), One(e, n, r) # files!Null
      PROVE  n = m /\ r = s
  <2>1. One(e, n, r) = One(d, n, r) /\ One(e, m, s) = One(d, m, s) BY DEF SameOne
  <2>2. n \in O /\ m \in O OBVIOUS
  <2>3. One(d, n, r) = One(d, m, s) /\ One(d, n, r) # files!Null BY <1>1, <2>1
  <2> QED BY <2>2, <2>3 DEF Unshared
<1>2. ASSUME NEW n \in P, NEW r \in Place, NEW b \in files!BlockNo, NEW i \in Column,
             One(e, n, r) = e.ptrs[b][i]
      PROVE  One(e, n, r) = files!Null
  <2>1. One(e, n, r) = One(d, n, r) BY DEF SameOne
  <2>2. n \in O OBVIOUS
  <2>3. CASE e.ptrs[b][i] = files!Null BY <1>2, <2>3
  <2>4. CASE e.ptrs[b][i] = d.ptrs[b][i]
    <3>1. One(d, n, r) = d.ptrs[b][i] BY <1>2, <2>1, <2>4
    <3> QED BY <2>1, <2>2, <3>1 DEF Unshared
  <2> QED BY <2>3, <2>4
<1>3. ASSUME NEW b \in files!BlockNo, NEW c \in files!BlockNo, NEW i \in Column, NEW j \in Column,
             e.ptrs[b][i] = e.ptrs[c][j], e.ptrs[b][i] # files!Null
      PROVE  b = c /\ i = j
  BY <1>3 DEF Unshared
<1> QED BY <1>1, <1>2, <1>3 DEF Unshared

\* What taking or giving a block leaves alone.
Kin(d, e) ==
  /\ e.inode = d.inode /\ e.nodes = d.nodes /\ e.log = d.log /\ e.lost = d.lost

\* Block b points nowhere.
Cleared(d, e, b) == e.ptrs = [d.ptrs EXCEPT ![b] = files!NoPtrs]
Clear(d, e, b) ==
  /\ e.ptrs[b] = files!NoPtrs /\ \A c \in files!BlockNo : c # b => e.ptrs[c] = d.ptrs[c]
  /\ \A c \in files!BlockNo : \A i \in Column :
       e.ptrs[c][i] = d.ptrs[c][i] \/ e.ptrs[c][i] = files!Null

LEMMA ClearedPointers ==
  ASSUME NEW d, Sound(d), NEW b \in files!BlockNo, NEW e, Cleared(d, e, b)
  PROVE  Clear(d, e, b)
<1>1. DOMAIN d.ptrs = files!BlockNo BY DEF Sound, Typed
<1>2. e.ptrs[b] = files!NoPtrs /\ \A c \in files!BlockNo : c # b => e.ptrs[c] = d.ptrs[c]
  BY <1>1 DEF Cleared
<1>3. \A i \in Column : files!NoPtrs[i] = files!Null BY DEF files!NoPtrs, Column
<1> QED BY <1>2, <1>3 DEF Clear

\* A block that is in nobody's tree is cleared.
LEMMA ClearedStays ==
  ASSUME NEW d, NEW O, NEW F, Held(d, O, F), NEW b \in files!BlockNo,
         \A n \in O : ~Branch(d, n, b),
         NEW e, Cleared(d, e, b), Kin(d, e), Sound(e)
  PROVE  /\ Unshared(e, O) /\ \A n \in O : InLog(e, n)
         /\ \A n \in O : files!Owned(e, n) = files!Owned(d, n)
<1>0. Sound(d) BY DEF Held
<1>1. Clear(d, e, b) BY <1>0, ClearedPointers
<1>2. \A n \in O : SamePlaces(d, e, n)
  <2> TAKE n \in O
  <2>1. ASSUME NEW c, Branch(d, n, c) PROVE e.ptrs[c] = d.ptrs[c]
    <3>1. c \in files!BlockNo BY <2>1, BranchInUse
    <3> QED BY <1>1, <2>1, <3>1 DEF Clear
  <2>2. e.inode[n].map = d.inode[n].map BY DEF Kin
  <2> QED BY <2>1, <2>2, PlacesStay
<1>3. Unshared(e, O)
  <2>1. \A n \in O : SameOne(d, e, n) BY <1>2 DEF SamePlaces
  <2>2. Unshared(d, O) BY DEF Held
  <2>3. O \in SUBSET O OBVIOUS
  <2> QED BY <1>1, <2>1, <2>2, <2>3, FewerUnshared DEF Clear
<1>4. \A n \in O : InLog(e, n) BY <1>2, SameInLog DEF Held, Kin
<1>5. \A n \in O : files!Owned(e, n) = files!Owned(d, n) BY <1>2, SameOwned DEF Held, Kin
<1> QED BY <1>3, <1>4, <1>5

Took(d, e, c) ==
  /\ Kin(d, e) /\ e.used = d.used \cup {c} /\ e.fault = d.fault
  /\ Cleared(d, e, c) /\ e.dir = [d.dir EXCEPT ![c] = <<>>]
Gave(d, e, b) ==
  /\ Kin(d, e) /\ e.used = d.used \ {b} /\ e.fault = d.fault
  /\ Cleared(d, e, b) /\ e.dir = [d.dir EXCEPT ![b] = <<>>]

LEMMA TakeFields ==
  ASSUME NEW d, Sound(d)
  PROVE  Took(d, files!TakeBlock(d), files!NextBlock(d))
<1>1. {"used", "free", "nodes", "inode", "ptrs", "dir", "log", "lost", "fault"} \subseteq DOMAIN d
  BY DEF Sound, Counts, Fields
<1> QED BY <1>1 DEF files!TakeBlock, Kin, Took, Cleared

\* reserve_block: the block is reserved and nobody's.
LEMMA TakeHeld ==
  ASSUME NEW d, NEW O, NEW F, Held(d, O, F), NEW c, c = files!NextBlock(d), c # files!Null
  PROVE  /\ Held(files!TakeBlock(d), O, F \cup {c})
         /\ c \in files!BlockNo \ d.used /\ files!TakeBlock(d).ptrs[c] = files!NoPtrs
<1>1. PICK e : e = files!TakeBlock(d) OBVIOUS
<1>2. Sound(d) BY DEF Held
<1>3. c \in files!BlockNo \ d.used BY <1>2, NextIsFree DEF Sound
<1>4. Sound(e) BY <1>2, <1>1, TakeBlockKeeps
<1>5. Kin(d, e) /\ e.used = d.used \cup {c} /\ Cleared(d, e, c)
  <2>1. Took(d, files!TakeBlock(d), files!NextBlock(d)) BY <1>2, TakeFields
  <2> QED BY <1>1, <2>1 DEF Took
<1>6. \A n \in O : ~Branch(d, n, c) BY <1>3, BranchInUse
<1>7. /\ Unshared(e, O) /\ \A n \in O : InLog(e, n)
      /\ \A n \in O : files!Owned(e, n) = files!Owned(d, n)
  BY <1>3, <1>4, <1>5, <1>6, ClearedStays
<1>8. Clear(d, e, c)
  BY <1>2, <1>3, <1>5, ClearedPointers
<1>9. Fresh(e, O, F \cup {c})
  <2>1. \A n \in O : \A r \in Place : One(e, n, r) = One(d, n, r) BY <1>5 DEF Kin, One
  <2>2. e.lost = d.lost BY <1>5 DEF Kin
  <2>3. \A n \in O : \A r \in Place :
          \/ One(e, n, r) = files!Null
          \/ One(e, n, r) \in e.used \ (files!Formatted \cup e.lost \cup (F \cup {c}))
    BY <1>3, <1>5, <2>1, <2>2 DEF Held, Fresh
  <2>4. ASSUME NEW b \in files!BlockNo, NEW i \in Column
        PROVE  \/ e.ptrs[b][i] = files!Null
               \/ /\ e.ptrs[b][i] \in e.used \ (files!Formatted \cup (F \cup {c}))
                  /\ b \notin e.lost => e.ptrs[b][i] \notin e.lost
    BY <1>3, <1>5, <1>8, <2>2 DEF Held, Fresh, Clear
  <2> QED BY <2>3, <2>4 DEF Fresh
<1>10. Stock(e, F \cup {c})
  <2>1. c \notin files!Formatted /\ c \notin d.lost BY <1>3 DEF Held, Stock
  <2> QED BY <1>5, <2>1 DEF Held, Stock, Kin
<1>11. Cover(e, O, F \cup {c})
  BY <1>5, <1>7 DEF Held, Cover, Kin
<1> QED BY <1>1, <1>3, <1>4, <1>5, <1>7, <1>8, <1>9, <1>10, <1>11 DEF Held, Kin, Clear

LEMMA GiveFields ==
  ASSUME NEW d, Sound(d), NEW b
  PROVE  Gave(d, files!GiveBlock(d, b), b)
<1>1. {"used", "free", "nodes", "inode", "ptrs", "dir", "log", "lost", "fault"} \subseteq DOMAIN d
  BY DEF Sound, Counts, Fields
<1> QED BY <1>1 DEF files!GiveBlock, Kin, Gave, Cleared

\* release_block of a block that was reserved and not added.
LEMMA GiveHeld ==
  ASSUME NEW d, NEW O, NEW F, Held(d, O, F), NEW b \in F
  PROVE  Held(files!GiveBlock(d, b), O, F \ {b})
<1>1. PICK e : e = files!GiveBlock(d, b) OBVIOUS
<1>2. Sound(d) BY DEF Held
<1>3. b \in d.used /\ b \in files!BlockNo BY DEF Held, Stock, Sound, Counts
<1>4. Sound(e) BY <1>2, <1>1, <1>3, GiveBlockKeeps
<1>5. Kin(d, e) /\ e.used = d.used \ {b} /\ Cleared(d, e, b)
  <2>1. Gave(d, files!GiveBlock(d, b), b) BY <1>2, GiveFields
  <2> QED BY <1>1, <2>1 DEF Gave
<1>6. \A n \in O : ~Branch(d, n, b) BY BranchInUse
<1>7. /\ Unshared(e, O) /\ \A n \in O : InLog(e, n)
      /\ \A n \in O : files!Owned(e, n) = files!Owned(d, n)
  BY <1>3, <1>4, <1>5, <1>6, ClearedStays
<1>8. Clear(d, e, b)
  BY <1>2, <1>3, <1>5, ClearedPointers
<1>9. Fresh(e, O, F \ {b})
  <2>1. \A n \in O : \A r \in Place : One(e, n, r) = One(d, n, r) BY <1>5 DEF Kin, One
  <2>2. e.lost = d.lost BY <1>5 DEF Kin
  <2>3. \A n \in O : \A r \in Place :
          \/ One(e, n, r) = files!Null
          \/ One(e, n, r) \in e.used \ (files!Formatted \cup e.lost \cup (F \ {b}))
    BY <1>5, <2>1, <2>2 DEF Held, Fresh
  <2>4. ASSUME NEW c \in files!BlockNo, NEW i \in Column
        PROVE  \/ e.ptrs[c][i] = files!Null
               \/ /\ e.ptrs[c][i] \in e.used \ (files!Formatted \cup (F \ {b}))
                  /\ c \notin e.lost => e.ptrs[c][i] \notin e.lost
    BY <1>5, <1>8, <2>2 DEF Held, Fresh, Clear
  <2> QED BY <2>3, <2>4 DEF Fresh
<1>10. Stock(e, F \ {b}) BY <1>5 DEF Held, Stock, Kin
<1>11. Cover(e, O, F \ {b}) BY <1>5, <1>7 DEF Held, Cover, Kin
<1> QED BY <1>1, <1>4, <1>5, <1>7, <1>9, <1>10, <1>11 DEF Held, Kin

\* Setting one pointer changes nothing that is not a pointer.
Wired(d, e) ==
  /\ e.used = d.used /\ e.lost = d.lost /\ e.nodes = d.nodes /\ e.log = d.log
  /\ e.dir = d.dir /\ e.fault = d.fault
  /\ \A m \in files!Node : /\ e.inode[m].type = d.inode[m].type
                           /\ e.inode[m].links = d.inode[m].links
                           /\ e.inode[m].size = d.inode[m].size

PtrSet(d, e, b, i, x) ==
  /\ Wired(d, e) /\ e.inode = d.inode
  /\ e.ptrs[b][i] = x
  /\ \A c \in files!BlockNo : \A k \in Column : c # b \/ k # i => e.ptrs[c][k] = d.ptrs[c][k]
  /\ \A c \in files!BlockNo : c # b => e.ptrs[c] = d.ptrs[c]

MapSet(d, e, n, r, x) ==
  /\ Wired(d, e) /\ e.ptrs = d.ptrs
  /\ One(e, n, r) = x
  /\ \A m \in files!Node : m # n => e.inode[m] = d.inode[m]
  /\ \A s : s # r => One(e, n, s) = One(d, n, s)

LEMMA PointSets ==
  ASSUME NEW d, Sound(d), NEW b \in files!BlockNo, NEW i \in Column, NEW x \in files!BlockNo
  PROVE  Sound(files!Point(d, b, i, x)) /\ PtrSet(d, files!Point(d, b, i, x), b, i, x)
<1>1. PICK e : e = files!Point(d, b, i, x) OBVIOUS
<1>2. Sound(e) BY <1>1, PointKeeps
<1>3. PICK g : g = d.ptrs OBVIOUS
<1>4. g \in [files!BlockNo -> [Column -> files!BlockNo]] BY <1>3 DEF Sound, Typed, Column
<1>5. {"used", "nodes", "inode", "ptrs", "dir", "log", "lost", "fault"} \subseteq DOMAIN d
  BY DEF Sound, Counts, Fields
<1>6. /\ e.used = d.used /\ e.lost = d.lost /\ e.nodes = d.nodes /\ e.log = d.log
      /\ e.dir = d.dir /\ e.fault = d.fault /\ e.inode = d.inode
      /\ e.ptrs = [g EXCEPT ![b] = [g[b] EXCEPT ![i] = x]]
  BY <1>1, <1>3, <1>5 DEF files!Point
<1>7. /\ e.ptrs[b] = [g[b] EXCEPT ![i] = x]
      /\ \A c \in files!BlockNo : c # b => e.ptrs[c] = g[c]
  BY <1>4, <1>6
<1>8. e.ptrs[b][i] = x /\ \A k \in Column : k # i => e.ptrs[b][k] = g[b][k] BY <1>4, <1>7
<1> QED BY <1>1, <1>2, <1>3, <1>6, <1>7, <1>8 DEF PtrSet, Wired

LEMMA MapSets ==
  ASSUME NEW d, Sound(d), NEW n \in files!Node, NEW r \in Place, NEW x \in files!BlockNo
  PROVE  Sound(files!MapTo(d, n, r, x)) /\ MapSet(d, files!MapTo(d, n, r, x), n, r, x)
<1>1. PICK e : e = files!MapTo(d, n, r, x) OBVIOUS
<1>2. Sound(e)
  <2>1. x \in Pointer BY DEF Pointer
  <2> QED BY <1>1, <2>1, MapToKeeps
<1>3. {"used", "nodes", "inode", "ptrs", "dir", "log", "lost", "fault"} \subseteq DOMAIN d
  BY DEF Sound, Counts, Fields
<1>4. PICK I : I = d.inode OBVIOUS
<1>5. PICK N : N = I[n] OBVIOUS
<1>6. /\ e.used = d.used /\ e.lost = d.lost /\ e.nodes = d.nodes /\ e.log = d.log
      /\ e.dir = d.dir /\ e.fault = d.fault /\ e.ptrs = d.ptrs
      /\ e.inode = [I EXCEPT ![n] = [N EXCEPT !.map = [N.map EXCEPT ![r] = x]]]
  BY <1>1, <1>3, <1>4, <1>5 DEF files!MapTo
<1>7. DOMAIN I = files!Node /\ DOMAIN N = {"type", "links", "size", "map"} /\ DOMAIN N.map = Place
  BY <1>4, <1>5 DEF Sound, Typed, Place
<1>8. e.inode[n] = [N EXCEPT !.map = [N.map EXCEPT ![r] = x]]
      /\ \A m \in files!Node : m # n => e.inode[m] = I[m]
  BY <1>6, <1>7
<1>9. /\ e.inode[n].map = [N.map EXCEPT ![r] = x] /\ e.inode[n].type = N.type
      /\ e.inode[n].links = N.links /\ e.inode[n].size = N.size
  BY <1>7, <1>8
<1>10. One(e, n, r) = x /\ \A s : s # r => One(e, n, s) = One(d, n, s)
  BY <1>4, <1>5, <1>7, <1>9 DEF One
<1> QED BY <1>1, <1>2, <1>4, <1>5, <1>6, <1>8, <1>9, <1>10 DEF MapSet, Wired

\* A block in hand is not pointed at, and a block without pointers leads nowhere.
LEMMA InHand ==
  ASSUME NEW d, NEW O, NEW F, Held(d, O, F), NEW x \in F
  PROVE  /\ x \in files!BlockNo /\ x # files!Null /\ x \in d.used
         /\ x \notin files!Formatted /\ x \notin d.lost
         /\ \A n \in O : \A r \in Place : One(d, n, r) # x
         /\ \A b \in files!BlockNo : \A i \in Column : d.ptrs[b][i] # x
         /\ \A n \in O : ~Branch(d, n, x)
<1>1. x \in d.used /\ x \notin files!Formatted /\ x \notin d.lost BY DEF Held, Stock
<1>2. x \in files!BlockNo BY <1>1 DEF Held, Sound, Counts
<1>3. x # files!Null BY <1>1, Geometry
<1>4. \A n \in O : \A r \in Place : One(d, n, r) # x BY <1>3 DEF Held, Fresh
<1>5. \A b \in files!BlockNo : \A i \in Column : d.ptrs[b][i] # x BY <1>3 DEF Held, Fresh
<1>6. \A n \in O : ~Branch(d, n, x) BY BranchInUse
<1> QED BY <1>1, <1>2, <1>3, <1>4, <1>5, <1>6

Leaf(d, x) == \A k \in Column : d.ptrs[x][k] = files!Null

\* What is left to show of a step that sets a pointer is about the inodes.
Rest(d, e, O, F, x) ==
  /\ Sound(e) /\ Wired(d, e) /\ Unshared(e, O) /\ Fresh(e, O, F \ {x}) /\ Stock(e, F \ {x})

LEMMA PtrRest ==
  ASSUME NEW d, NEW O, NEW F, Held(d, O, F), NEW x \in F, NEW b \in files!BlockNo,
         NEW i \in Column, NEW e, PtrSet(d, e, b, i, x), Sound(e)
  PROVE  Rest(d, e, O, F, x)
<1>1. /\ x \in files!BlockNo /\ x # files!Null /\ x \in d.used
      /\ x \notin files!Formatted /\ x \notin d.lost
      /\ \A n \in O : \A r \in Place : One(d, n, r) # x
      /\ \A c \in files!BlockNo : \A k \in Column : d.ptrs[c][k] # x
  BY InHand
<1>2. \A n : \A r : One(e, n, r) = One(d, n, r) BY DEF One, PtrSet
<1>3. e.ptrs[b][i] = x
      /\ \A c \in files!BlockNo : \A k \in Column : c # b \/ k # i => e.ptrs[c][k] = d.ptrs[c][k]
  BY DEF PtrSet
<1>4. Unshared(e, O)
  <2>1. Unshared(d, O) BY DEF Held
  <2>2. \A n, m \in O : \A r, s \in Place :
          One(e, n, r) = One(e, m, s) /\ One(e, n, r) # files!Null => n = m /\ r = s
    BY <1>2, <2>1 DEF Unshared
  <2>3. ASSUME NEW n \in O, NEW r \in Place, NEW c \in files!BlockNo, NEW k \in Column,
               One(e, n, r) = e.ptrs[c][k]
        PROVE  One(e, n, r) = files!Null
    <3>1. CASE c = b /\ k = i BY <1>1, <1>2, <1>3, <2>3, <3>1
    <3>2. CASE c # b \/ k # i
      <4>1. One(d, n, r) = d.ptrs[c][k] BY <1>2, <1>3, <2>3, <3>2
      <4> QED BY <1>2, <2>1, <4>1 DEF Unshared
    <3> QED BY <3>1, <3>2
  <2>4. ASSUME NEW c \in files!BlockNo, NEW a \in files!BlockNo, NEW k \in Column, NEW j \in Column,
               e.ptrs[c][k] = e.ptrs[a][j], e.ptrs[c][k] # files!Null
        PROVE  c = a /\ k = j
    <3>1. CASE c = b /\ k = i BY <1>1, <1>3, <2>4, <3>1
    <3>2. CASE a = b /\ j = i BY <1>1, <1>3, <2>4, <3>2
    <3>3. CASE (c # b \/ k # i) /\ (a # b \/ j # i)
      <4>1. d.ptrs[c][k] = d.ptrs[a][j] /\ d.ptrs[c][k] # files!Null BY <1>3, <2>4, <3>3
      <4> QED BY <2>1, <4>1 DEF Unshared
    <3> QED BY <3>1, <3>2, <3>3
  <2> QED BY <2>2, <2>3, <2>4 DEF Unshared
<1>5. e.used = d.used /\ e.lost = d.lost BY DEF PtrSet, Wired
<1>6. Fresh(e, O, F \ {x})
  <2>1. \A n \in O : \A r \in Place :
          \/ One(e, n, r) = files!Null
          \/ One(e, n, r) \in e.used \ (files!Formatted \cup e.lost \cup (F \ {x}))
    BY <1>2, <1>5 DEF Held, Fresh
  <2>2. ASSUME NEW c \in files!BlockNo, NEW k \in Column
        PROVE  \/ e.ptrs[c][k] = files!Null
               \/ /\ e.ptrs[c][k] \in e.used \ (files!Formatted \cup (F \ {x}))
                  /\ c \notin e.lost => e.ptrs[c][k] \notin e.lost
    <3>1. CASE c = b /\ k = i BY <1>1, <1>3, <1>5, <3>1
    <3>2. CASE c # b \/ k # i BY <1>3, <1>5, <3>2 DEF Held, Fresh
    <3> QED BY <3>1, <3>2
  <2> QED BY <2>1, <2>2 DEF Fresh
<1>7. Stock(e, F \ {x}) BY <1>5 DEF Held, Stock
<1> QED BY <1>4, <1>6, <1>7 DEF Rest, PtrSet

LEMMA MapRest ==
  ASSUME NEW d, NEW O, NEW F, Held(d, O, F), NEW x \in F, NEW n \in O, NEW r \in Place,
         NEW e, MapSet(d, e, n, r, x), Sound(e)
  PROVE  Rest(d, e, O, F, x)
<1>1. /\ x \in files!BlockNo /\ x # files!Null /\ x \in d.used
      /\ x \notin files!Formatted /\ x \notin d.lost
      /\ \A m \in O : \A s \in Place : One(d, m, s) # x
      /\ \A c \in files!BlockNo : \A k \in Column : d.ptrs[c][k] # x
  BY InHand
<1>2. /\ One(e, n, r) = x
      /\ \A m \in O : \A s \in Place : m # n \/ s # r => One(e, m, s) = One(d, m, s)
  <2>1. O \subseteq files!Node BY DEF Held
  <2> QED BY <2>1 DEF MapSet, One
<1>3. e.used = d.used /\ e.lost = d.lost /\ e.ptrs = d.ptrs BY DEF MapSet, Wired
<1>4. Unshared(e, O)
  <2>1. Unshared(d, O) BY DEF Held
  <2>2. ASSUME NEW m \in O, NEW l \in O, NEW s \in Place, NEW t \in Place,
               One(e, m, s) = One(e, l, t), One(e, m, s) # files!Null
        PROVE  m = l /\ s = t
    <3>1. CASE m = n /\ s = r BY <1>1, <1>2, <2>2, <3>1
    <3>2. CASE l = n /\ t = r BY <1>1, <1>2, <2>2, <3>2
    <3>3. CASE (m # n \/ s # r) /\ (l # n \/ t # r)
      <4>1. One(d, m, s) = One(d, l, t) /\ One(d, m, s) # files!Null BY <1>2, <2>2, <3>3
      <4> QED BY <2>1, <4>1 DEF Unshared
    <3> QED BY <3>1, <3>2, <3>3
  <2>3. ASSUME NEW m \in O, NEW s \in Place, NEW c \in files!BlockNo, NEW k \in Column,
               One(e, m, s) = e.ptrs[c][k]
        PROVE  One(e, m, s) = files!Null
    <3>1. CASE m = n /\ s = r BY <1>1, <1>2, <1>3, <2>3, <3>1
    <3>2. CASE m # n \/ s # r
      <4>1. One(d, m, s) = d.ptrs[c][k] BY <1>2, <1>3, <2>3, <3>2
      <4> QED BY <1>2, <2>1, <3>2, <4>1 DEF Unshared
    <3> QED BY <3>1, <3>2
  <2>4. \A b, c \in files!BlockNo : \A i, j \in Column :
          e.ptrs[b][i] = e.ptrs[c][j] /\ e.ptrs[b][i] # files!Null => b = c /\ i = j
    BY <1>3, <2>1 DEF Unshared
  <2> QED BY <2>2, <2>3, <2>4 DEF Unshared
<1>5. Fresh(e, O, F \ {x})
  <2>1. ASSUME NEW m \in O, NEW s \in Place
        PROVE  \/ One(e, m, s) = files!Null
               \/ One(e, m, s) \in e.used \ (files!Formatted \cup e.lost \cup (F \ {x}))
    <3>1. CASE m = n /\ s = r BY <1>1, <1>2, <1>3, <3>1
    <3>2. CASE m # n \/ s # r BY <1>2, <1>3, <3>2 DEF Held, Fresh
    <3> QED BY <3>1, <3>2
  <2>2. ASSUME NEW c \in files!BlockNo, NEW k \in Column
        PROVE  \/ e.ptrs[c][k] = files!Null
               \/ /\ e.ptrs[c][k] \in e.used \ (files!Formatted \cup (F \ {x}))
                  /\ c \notin e.lost => e.ptrs[c][k] \notin e.lost
    BY <1>3 DEF Held, Fresh
  <2> QED BY <2>1, <2>2 DEF Fresh
<1>6. Stock(e, F \ {x}) BY <1>3 DEF Held, Stock
<1> QED BY <1>4, <1>5, <1>6 DEF Rest, MapSet

\* Which place of the inodes O the pointer is that was set.
Change1(d, e, O, n, r, x) ==
  /\ \A m \in O : SameTwo(d, e, m) /\ SameThree(d, e, m) /\ SameFour(d, e, m)
  /\ One(e, n, r) = x
  /\ \A m \in O : \A s \in Place : m # n \/ s # r => One(e, m, s) = One(d, m, s)
Change2(d, e, O, n, r, i, x) ==
  /\ \A m \in O : SameOne(d, e, m) /\ SameThree(d, e, m) /\ SameFour(d, e, m)
  /\ Two(e, n, r, i) = x
  /\ \A m \in O : \A s \in {Direct + 1, Direct + 2, Direct + 3} : \A k \in Column :
       m # n \/ s # r \/ k # i => Two(e, m, s, k) = Two(d, m, s, k)
Change3(d, e, O, n, r, i, j, x) ==
  /\ \A m \in O : SameOne(d, e, m) /\ SameTwo(d, e, m) /\ SameFour(d, e, m)
  /\ Three(e, n, r, i, j) = x
  /\ \A m \in O : \A s \in {Direct + 2, Direct + 3} : \A k, h \in Column :
       m # n \/ s # r \/ k # i \/ h # j => Three(e, m, s, k, h) = Three(d, m, s, k, h)
Change4(d, e, O, n, i, j, l, x) ==
  /\ \A m \in O : SameOne(d, e, m) /\ SameTwo(d, e, m) /\ SameThree(d, e, m)
  /\ Four(e, n, Direct + 3, i, j, l) = x
  /\ \A m \in O : \A k, h, g \in Column :
       m # n \/ k # i \/ h # j \/ g # l =>
         Four(e, m, Direct + 3, k, h, g) = Four(d, m, Direct + 3, k, h, g)

Linkable == {Direct + 1, Direct + 2, Direct + 3}

\* What At finds after a pointer of block b was set.
LEMMA AtSet ==
  ASSUME NEW d, NEW e, NEW b \in files!BlockNo, NEW i \in Column, NEW x, PtrSet(d, e, b, i, x),
         b # files!Null
  PROVE  /\ files!At(e, b, i) = x
         /\ \A c \in files!BlockNo : \A k \in Column :
              c # b \/ k # i => files!At(e, c, k) = files!At(d, c, k)
BY DEF PtrSet, files!At

LEMMA SetOne ==
  ASSUME NEW d, NEW O, NEW F, Held(d, O, F), NEW x \in F, NEW n \in O, NEW r \in Place,
         One(d, n, r) = files!Null, r \in 1 .. Direct \/ Leaf(d, x),
         NEW e, MapSet(d, e, n, r, x)
  PROVE  Change1(d, e, O, n, r, x)
<1>1. x \in files!BlockNo /\ x # files!Null BY InHand
<1>2. /\ One(e, n, r) = x
      /\ \A m \in O : \A s \in Place : m # n \/ s # r => One(e, m, s) = One(d, m, s)
  <2>1. O \subseteq files!Node BY DEF Held
  <2> QED BY <2>1 DEF MapSet, One
<1>3. \A c, k : files!At(e, c, k) = files!At(d, c, k) BY DEF MapSet, files!At
<1>4. ASSUME NEW m \in O, NEW s \in Linkable, NEW k \in Column
      PROVE  Two(e, m, s, k) = Two(d, m, s, k)
  <2>1. s \in Place BY Geometry DEF Linkable
  <2>2. CASE m = n /\ s = r
    <3>1. Leaf(d, x)
      <4>1. s \notin 1 .. Direct BY Geometry DEF Linkable
      <4> QED BY <2>2, <4>1
    <3>2. Two(e, m, s, k) = files!Null BY <1>1, <1>2, <1>3, <2>2, <3>1 DEF Two, Leaf, files!At
    <3>3. Two(d, m, s, k) = files!Null BY <2>2 DEF Two, files!At
    <3> QED BY <3>2, <3>3
  <2>3. CASE m # n \/ s # r BY <1>2, <1>3, <2>1, <2>3 DEF Two
  <2> QED BY <2>2, <2>3
<1>5. \A m \in O : \A s \in {Direct + 2, Direct + 3} : \A k, h \in Column :
        Three(e, m, s, k, h) = Three(d, m, s, k, h)
  BY <1>3, <1>4 DEF Three, Linkable
<1>6. \A m \in O : \A k, h, g \in Column :
        Four(e, m, Direct + 3, k, h, g) = Four(d, m, Direct + 3, k, h, g)
  BY <1>3, <1>5 DEF Four
<1>7. \A m \in O : SameTwo(d, e, m) BY <1>4 DEF SameTwo, Linkable
<1>8. \A m \in O : SameThree(d, e, m) BY <1>5 DEF SameThree
<1>9. \A m \in O : SameFour(d, e, m) BY <1>6 DEF SameFour
<1> QED BY <1>2, <1>7, <1>8, <1>9 DEF Change1

LEMMA SetTwo ==
  ASSUME NEW d, NEW O, NEW F, Held(d, O, F), NEW x \in F, NEW n \in O, NEW r \in Linkable,
         NEW b, b = One(d, n, r), b # files!Null, NEW i \in Column, Two(d, n, r, i) = files!Null,
         r = Direct + 1 \/ Leaf(d, x), NEW e, PtrSet(d, e, b, i, x)
  PROVE  Change2(d, e, O, n, r, i, x)
<1>0. Reached(d, O) /\ Unshared(d, O) /\ Apart(d, O)
  <2>1. Reached(d, O) BY ReachesBlocks DEF Held
  <2> QED BY <2>1, AreApart DEF Held
<1>1. x \in files!BlockNo /\ x # files!Null /\ x # b
  <2>1. r \in Place BY Geometry DEF Linkable
  <2> QED BY <2>1, InHand
<1>2. r \in Place /\ b \in files!BlockNo BY <1>0, Geometry DEF Linkable, Reached
<1>3. /\ files!At(e, b, i) = x
      /\ \A c \in files!BlockNo : \A k \in Column :
           c # b \/ k # i => files!At(e, c, k) = files!At(d, c, k)
  BY <1>2, AtSet
<1>4. \A m \in O : \A s \in Place : One(e, m, s) = One(d, m, s) BY DEF One, PtrSet
<1>5. Two(e, n, r, i) = x BY <1>2, <1>3, <1>4 DEF Two
<1>6. ASSUME NEW m \in O, NEW s \in Place, NEW k \in Column, m # n \/ s # r \/ k # i
      PROVE  Two(e, m, s, k) = Two(d, m, s, k)
  <2>1. One(d, m, s) \in files!BlockNo BY <1>0 DEF Reached
  <2>2. m # n \/ s # r => One(d, m, s) # b BY <1>0, <1>2 DEF Unshared
  <2>3. One(d, m, s) # b \/ k # i BY <1>6, <2>2
  <2>4. files!At(e, One(d, m, s), k) = files!At(d, One(d, m, s), k) BY <1>3, <2>1, <2>3
  <2> QED BY <1>4, <2>4 DEF Two
<1>7. ASSUME NEW m \in O, NEW s \in {Direct + 2, Direct + 3}, NEW k \in Column, NEW h \in Column
      PROVE  Three(e, m, s, k, h) = Three(d, m, s, k, h)
  <2>0. s \in Place BY Geometry
  <2>1. CASE m = n /\ s = r /\ k = i
    <3>1. Leaf(d, x)
      <4>1. s # Direct + 1 BY Geometry
      <4> QED BY <2>1, <4>1
    <3>2. Three(e, m, s, k, h) = files!At(e, x, h) BY <1>5, <2>1 DEF Three
    <3>3. files!At(e, x, h) = files!At(d, x, h) BY <1>1, <1>3
    <3>4. files!At(d, x, h) = files!Null BY <3>1 DEF Leaf, files!At
    <3>5. Three(d, m, s, k, h) = files!Null BY <2>1 DEF Three, files!At
    <3> QED BY <3>2, <3>3, <3>4, <3>5
  <2>2. CASE m # n \/ s # r \/ k # i
    <3>1. Two(e, m, s, k) = Two(d, m, s, k) BY <1>6, <2>0, <2>2
    <3>2. Two(d, m, s, k) \in files!BlockNo BY <1>0, <2>0 DEF Reached
    <3>3. b # Two(d, m, s, k) BY <1>0, <1>2, <2>0 DEF Apart, OneOthers
    <3> QED BY <1>3, <3>1, <3>2, <3>3 DEF Three
  <2> QED BY <2>1, <2>2
<1>8. ASSUME NEW m \in O, NEW k \in Column, NEW h \in Column, NEW g \in Column
      PROVE  Four(e, m, Direct + 3, k, h, g) = Four(d, m, Direct + 3, k, h, g)
  <2>1. Direct + 3 \in Place BY Geometry
  <2>2. PICK c : c = Three(d, m, Direct + 3, k, h) OBVIOUS
  <2>3. c \in files!BlockNo BY <1>0, <2>1, <2>2 DEF Reached
  <2>4. b # c BY <1>0, <1>2, <2>1, <2>2 DEF Apart, OneOthers
  <2>5. Three(e, m, Direct + 3, k, h) = c BY <1>7, <2>2
  <2> QED BY <1>3, <2>2, <2>3, <2>4, <2>5 DEF Four
<1>9. \A m \in O : SameOne(d, e, m) BY <1>4 DEF SameOne
<1>10. \A m \in O : SameThree(d, e, m) BY <1>7 DEF SameThree
<1>11. \A m \in O : SameFour(d, e, m) BY <1>8 DEF SameFour
<1>12. \A s \in Linkable : s \in Place BY Geometry DEF Linkable
<1> QED BY <1>5, <1>6, <1>9, <1>10, <1>11, <1>12 DEF Change2, Linkable

LEMMA SetThree ==
  ASSUME NEW d, NEW O, NEW F, Held(d, O, F), NEW x \in F, NEW n \in O,
         NEW r \in {Direct + 2, Direct + 3}, NEW i \in Column,
         NEW b, b = Two(d, n, r, i), b # files!Null, NEW j \in Column,
         Three(d, n, r, i, j) = files!Null,
         r = Direct + 2 \/ Leaf(d, x), NEW e, PtrSet(d, e, b, j, x)
  PROVE  Change3(d, e, O, n, r, i, j, x)
<1>1. Reached(d, O) /\ Unshared(d, O) /\ Apart(d, O)
  <2>1. Reached(d, O) BY ReachesBlocks DEF Held
  <2> QED BY <2>1, AreApart DEF Held
<1>2. r \in Place /\ b \in files!BlockNo BY <1>1, Geometry DEF Reached
<1>3. x \in files!BlockNo /\ x # files!Null /\ x # b
  <2>1. One(d, n, r) \in files!BlockNo BY <1>1, <1>2 DEF Reached
  <2>2. b = d.ptrs[One(d, n, r)][i] BY DEF Two, files!At
  <2> QED BY <2>1, <2>2, InHand
<1>4. /\ files!At(e, b, j) = x
      /\ \A c \in files!BlockNo : \A k \in Column :
           c # b \/ k # j => files!At(e, c, k) = files!At(d, c, k)
  BY <1>2, AtSet
<1>5. \A m \in O : \A s \in Place : One(e, m, s) = One(d, m, s) BY DEF One, PtrSet
<1>6. ASSUME NEW m \in O, NEW s \in Place, NEW k \in Column
      PROVE  Two(e, m, s, k) = Two(d, m, s, k)
  <2>1. One(d, m, s) \in files!BlockNo BY <1>1 DEF Reached
  <2>2. One(d, m, s) # b BY <1>1, <1>2 DEF Apart, OneOthers
  <2>3. files!At(e, One(d, m, s), k) = files!At(d, One(d, m, s), k) BY <1>4, <2>1, <2>2
  <2> QED BY <1>5, <2>3 DEF Two
<1>7. Three(e, n, r, i, j) = x BY <1>2, <1>4, <1>6 DEF Three
<1>8. ASSUME NEW m \in O, NEW s \in Place, NEW k \in Column, NEW h \in Column,
             m # n \/ s # r \/ k # i \/ h # j
      PROVE  Three(e, m, s, k, h) = Three(d, m, s, k, h)
  <2>1. Two(d, m, s, k) \in files!BlockNo BY <1>1 DEF Reached
  <2>2. m # n \/ s # r \/ k # i => Two(d, m, s, k) # b BY <1>1, <1>2 DEF Apart, TwoApart
  <2>3. Two(d, m, s, k) # b \/ h # j BY <1>8, <2>2
  <2>4. files!At(e, Two(d, m, s, k), h) = files!At(d, Two(d, m, s, k), h) BY <1>4, <2>1, <2>3
  <2> QED BY <1>6, <2>4 DEF Three
<1>9. ASSUME NEW m \in O, NEW k \in Column, NEW h \in Column, NEW g \in Column
      PROVE  Four(e, m, Direct + 3, k, h, g) = Four(d, m, Direct + 3, k, h, g)
  <2>1. Direct + 3 \in Place BY Geometry
  <2>2. PICK c : c = Three(d, m, Direct + 3, k, h) OBVIOUS
  <2>3. c \in files!BlockNo BY <1>1, <2>1, <2>2 DEF Reached
  <2>4. b # c BY <1>1, <1>2, <2>1, <2>2 DEF Apart, TwoOthers
  <2>5. CASE m = n /\ Direct + 3 = r /\ k = i /\ h = j
    <3>1. Leaf(d, x)
      <4>1. r # Direct + 2 BY <2>5, Geometry
      <4> QED BY <4>1
    <3>2. Four(e, m, Direct + 3, k, h, g) = files!At(e, x, g) BY <1>7, <2>5 DEF Four
    <3>3. files!At(e, x, g) = files!At(d, x, g) BY <1>3, <1>4
    <3>4. files!At(d, x, g) = files!Null BY <3>1 DEF Leaf, files!At
    <3>5. Four(d, m, Direct + 3, k, h, g) = files!Null BY <2>5 DEF Four, files!At
    <3> QED BY <3>2, <3>3, <3>4, <3>5
  <2>6. CASE ~(m = n /\ Direct + 3 = r /\ k = i /\ h = j)
    <3>1. Three(e, m, Direct + 3, k, h) = c BY <1>8, <2>1, <2>2, <2>6
    <3> QED BY <1>4, <2>2, <2>3, <2>4, <3>1 DEF Four
  <2> QED BY <2>5, <2>6
<1>10. \A m \in O : SameOne(d, e, m) BY <1>5 DEF SameOne
<1>11. \A s \in Linkable : s \in Place BY Geometry DEF Linkable
<1>12. \A m \in O : SameTwo(d, e, m) BY <1>6, <1>11 DEF SameTwo, Linkable
<1>13. \A m \in O : SameFour(d, e, m) BY <1>9 DEF SameFour
<1>14. \A m \in O : \A s \in {Direct + 2, Direct + 3} : \A k, h \in Column :
         m # n \/ s # r \/ k # i \/ h # j => Three(e, m, s, k, h) = Three(d, m, s, k, h)
  BY <1>8, <1>11 DEF Linkable
<1> QED BY <1>7, <1>10, <1>12, <1>13, <1>14 DEF Change3

LEMMA SetFour ==
  ASSUME NEW d, NEW O, NEW F, Held(d, O, F), NEW x \in F, NEW n \in O,
         NEW i \in Column, NEW j \in Column,
         NEW b, b = Three(d, n, Direct + 3, i, j), b # files!Null, NEW l \in Column,
         NEW e, PtrSet(d, e, b, l, x)
  PROVE  Change4(d, e, O, n, i, j, l, x)
<1>0. Reached(d, O) /\ Unshared(d, O) /\ Apart(d, O)
  <2>1. Reached(d, O) BY ReachesBlocks DEF Held
  <2> QED BY <2>1, AreApart DEF Held
<1>2. Direct + 3 \in Place /\ b \in files!BlockNo BY <1>0, Geometry DEF Reached
<1>3. /\ files!At(e, b, l) = x
      /\ \A c \in files!BlockNo : \A k \in Column :
           c # b \/ k # l => files!At(e, c, k) = files!At(d, c, k)
  BY <1>2, AtSet
<1>4. \A m \in O : \A s \in Place : One(e, m, s) = One(d, m, s) BY DEF One, PtrSet
<1>5. ASSUME NEW m \in O, NEW s \in Place, NEW k \in Column
      PROVE  Two(e, m, s, k) = Two(d, m, s, k)
  <2>1. One(d, m, s) \in files!BlockNo BY <1>0 DEF Reached
  <2>2. One(d, m, s) # b BY <1>0, <1>2 DEF Apart, OneOthers
  <2>3. files!At(e, One(d, m, s), k) = files!At(d, One(d, m, s), k) BY <1>3, <2>1, <2>2
  <2> QED BY <1>4, <2>3 DEF Two
<1>6. ASSUME NEW m \in O, NEW s \in Place, NEW k \in Column, NEW h \in Column
      PROVE  Three(e, m, s, k, h) = Three(d, m, s, k, h)
  <2>1. Two(d, m, s, k) \in files!BlockNo BY <1>0 DEF Reached
  <2>2. Two(d, m, s, k) # b BY <1>0, <1>2 DEF Apart, TwoOthers
  <2>3. files!At(e, Two(d, m, s, k), h) = files!At(d, Two(d, m, s, k), h) BY <1>3, <2>1, <2>2
  <2> QED BY <1>5, <2>3 DEF Three
<1>7. Four(e, n, Direct + 3, i, j, l) = x BY <1>2, <1>3, <1>6 DEF Four
<1>8. ASSUME NEW m \in O, NEW k \in Column, NEW h \in Column, NEW g \in Column,
             m # n \/ k # i \/ h # j \/ g # l
      PROVE  Four(e, m, Direct + 3, k, h, g) = Four(d, m, Direct + 3, k, h, g)
  <2>1. PICK c : c = Three(d, m, Direct + 3, k, h) OBVIOUS
  <2>2. c \in files!BlockNo BY <1>0, <1>2, <2>1 DEF Reached
  <2>3. m # n \/ k # i \/ h # j => c # b BY <1>0, <1>2, <2>1 DEF Apart, ThreeApart
  <2>4. c # b \/ g # l BY <1>8, <2>3
  <2>5. files!At(e, c, g) = files!At(d, c, g) BY <1>3, <2>2, <2>4
  <2>6. Three(e, m, Direct + 3, k, h) = c BY <1>2, <1>6, <2>1
  <2> QED BY <2>1, <2>5, <2>6 DEF Four
<1>9. \A m \in O : SameOne(d, e, m) BY <1>4 DEF SameOne
<1>10. \A s \in Linkable : s \in Place BY Geometry DEF Linkable
<1>11. \A m \in O : SameTwo(d, e, m) BY <1>5, <1>10 DEF SameTwo, Linkable
<1>12. \A m \in O : SameThree(d, e, m) BY <1>6, <1>10 DEF SameThree, Linkable
<1> QED BY <1>7, <1>8, <1>9, <1>11, <1>12 DEF Change4

-----------------------------------------------------------------------------
\* An inode gets an indirect block.

\* The places of an inode that lead to data are the same.
SameSlots(d, e, n) ==
  /\ \A r \in 1 .. Direct : One(e, n, r) = One(d, n, r)
  /\ \A i \in Column : Two(e, n, Direct + 1, i) = Two(d, n, Direct + 1, i)
  /\ \A i, j \in Column : Three(e, n, Direct + 2, i, j) = Three(d, n, Direct + 2, i, j)
  /\ SameFour(d, e, n)

LEMMA SlotsInLog ==
  ASSUME NEW d, NEW e, NEW n, InLog(d, n), SameSlots(d, e, n), e.log[n] = d.log[n]
  PROVE  InLog(e, n)
BY DEF SameSlots, SameFour, InLog

\* The other inodes have what they had.
OthersSame(d, e, O, n) == \A m \in O : m # n => SamePlaces(d, e, m)

OneMoreBranch(d, e, n, x) == \A y : Branch(e, n, y) <=> Branch(d, n, y) \/ y = x
SameBranches(d, e, n) == \A y : Branch(e, n, y) <=> Branch(d, n, y)

\* What linking an indirect block does.
LinkStep(d, e, O, n, x) ==
  OthersSame(d, e, O, n) /\ SameSlots(d, e, n) /\ OneMoreBranch(d, e, n, x)

LEMMA LinkHeld ==
  ASSUME NEW d, NEW O, NEW F, Held(d, O, F), NEW x \in F, NEW n \in O, NEW e,
         Rest(d, e, O, F, x), LinkStep(d, e, O, n, x)
  PROVE  Held(e, O, F \ {x})
<1>1. /\ Sound(d) /\ Sound(e) /\ e.log = d.log /\ e.used = d.used /\ e.lost = d.lost
      /\ O \subseteq files!Node
  BY DEF Held, Rest, Wired
<1>2. ASSUME NEW m \in O, m # n
      PROVE  InLog(e, m) /\ files!Owned(e, m) = files!Owned(d, m)
  <2>1. SamePlaces(d, e, m) BY <1>2 DEF LinkStep, OthersSame
  <2>2. InLog(d, m) /\ m \in files!Node BY <1>1 DEF Held
  <2> QED BY <1>1, <2>1, <2>2, SameInLog, SameOwned
<1>3. InLog(e, n)
  <2>1. InLog(d, n) BY DEF Held
  <2> QED BY <1>1, <2>1, SlotsInLog DEF LinkStep
<1>4. \A y : y \in files!Owned(e, n) <=> y \in files!Owned(d, n) \/ y = x
  <2>1. n \in files!Node BY <1>1
  <2>2. \A y : y \in files!IndirectBlocks(e, n) <=> Branch(e, n, y) BY <1>1, <2>1, BranchIs
  <2>3. \A y : y \in files!IndirectBlocks(d, n) <=> Branch(d, n, y) BY <1>1, <2>1, BranchIs
  <2> QED BY <1>1, <2>2, <2>3 DEF files!Owned, LinkStep, OneMoreBranch
<1>5. Cover(e, O, F \ {x})
  <2> SUFFICES ASSUME NEW b \in e.used
               PROVE  \/ b \in files!Formatted \cup e.lost \cup (F \ {x})
                      \/ \E m \in O : b \in files!Owned(e, m)
    BY DEF Cover
  <2>1. CASE b = x BY <1>4, <2>1
  <2>2. CASE b # x
    <3>1. \/ b \in files!Formatted \cup d.lost \cup F
          \/ \E m \in O : b \in files!Owned(d, m)
      BY <1>1 DEF Held, Cover
    <3>2. \A m \in O : b \in files!Owned(d, m) => b \in files!Owned(e, m) BY <1>2, <1>4
    <3> QED BY <1>1, <2>2, <3>1, <3>2
  <2> QED BY <2>1, <2>2
<1>6. DOMAIN e.log = files!Node BY <1>1 DEF Held
<1> QED BY <1>1, <1>2, <1>3, <1>5, <1>6 DEF Held, Rest

LEMMA LinkOne ==
  ASSUME NEW d, NEW O, NEW F, Held(d, O, F), NEW x \in F, NEW n \in O, NEW r \in Linkable,
         One(d, n, r) = files!Null, Leaf(d, x), NEW e, MapSet(d, e, n, r, x), Sound(e)
  PROVE  Held(e, O, F \ {x})
<1>0. r \in Place /\ Direct + 1 \in Place /\ Direct + 2 \in Place /\ Direct + 3 \in Place
      /\ \A s \in 1 .. Direct : s \in Place /\ s # r
  BY Geometry DEF Linkable
<1>1. Change1(d, e, O, n, r, x) BY <1>0, SetOne
<1>2. OthersSame(d, e, O, n) BY <1>1 DEF Change1, OthersSame, SamePlaces, SameOne
<1>3. SameSlots(d, e, n) BY <1>0, <1>1, Geometry DEF Change1, SameSlots, SameTwo, SameThree
<1>4. x # files!Null BY InHand
<1>5. OneMoreBranch(d, e, n, x)
  <2>1. \A i \in Column, s \in {Direct + 2, Direct + 3} : Two(e, n, s, i) = Two(d, n, s, i)
    BY <1>1 DEF Change1, SameTwo
  <2>2. \A i, j \in Column : Three(e, n, Direct + 3, i, j) = Three(d, n, Direct + 3, i, j)
    BY <1>1 DEF Change1, SameThree
  <2>3. /\ One(e, n, r) = x
        /\ \A s \in Linkable : s # r => One(e, n, s) = One(d, n, s)
    BY <1>0, <1>1 DEF Change1, Linkable
  <2>4. \A y : Branch(e, n, y) <=>
          y # files!Null /\
          \/ \E s \in Linkable : y = One(e, n, s)
          \/ \E s \in {Direct + 2, Direct + 3} : \E i \in Column : y = Two(d, n, s, i)
          \/ \E i, j \in Column : y = Three(d, n, Direct + 3, i, j)
    BY <2>1, <2>2 DEF Branch, Linkable
  <2>5. \A y : y # files!Null =>
          ((\E s \in Linkable : y = One(e, n, s)) <=> (\E s \in Linkable : y = One(d, n, s)) \/ y = x)
    BY <2>3
  <2> QED BY <1>4, <2>4, <2>5 DEF OneMoreBranch, Branch, Linkable
<1>6. Rest(d, e, O, F, x) BY <1>0, MapRest
<1> QED BY <1>2, <1>3, <1>5, <1>6, LinkHeld DEF LinkStep

LEMMA LinkTwo ==
  ASSUME NEW d, NEW O, NEW F, Held(d, O, F), NEW x \in F, NEW n \in O,
         NEW r \in {Direct + 2, Direct + 3}, NEW b, b = One(d, n, r), b # files!Null,
         NEW i \in Column, Two(d, n, r, i) = files!Null, Leaf(d, x),
         NEW e, PtrSet(d, e, b, i, x), Sound(e)
  PROVE  Held(e, O, F \ {x})
<1>0. r \in Place /\ r \in Linkable /\ r # Direct + 1 /\ b \in files!BlockNo
  <2>1. r \in Place /\ r \in Linkable /\ r # Direct + 1 BY Geometry DEF Linkable
  <2>2. Reached(d, O) BY ReachesBlocks DEF Held
  <2> QED BY <2>1, <2>2 DEF Reached
<1>1. Change2(d, e, O, n, r, i, x) BY <1>0, SetTwo
<1>2. OthersSame(d, e, O, n) BY <1>1 DEF Change2, OthersSame, SamePlaces, SameTwo
<1>3. SameSlots(d, e, n)
  <2>1. \A s \in 1 .. Direct : s \in Place BY Geometry
  <2> QED BY <1>0, <1>1, <2>1 DEF Change2, SameSlots, SameOne, SameThree
<1>4. x # files!Null BY InHand
<1>5. OneMoreBranch(d, e, n, x)
  <2>1. \A s \in Linkable : One(e, n, s) = One(d, n, s)
    BY <1>1, Geometry DEF Change2, SameOne, Linkable
  <2>2. \A k, j \in Column : Three(e, n, Direct + 3, k, j) = Three(d, n, Direct + 3, k, j)
    BY <1>1 DEF Change2, SameThree
  <2>3. /\ Two(e, n, r, i) = x
        /\ \A s \in {Direct + 2, Direct + 3} : \A k \in Column :
             s # r \/ k # i => Two(e, n, s, k) = Two(d, n, s, k)
    BY <1>1 DEF Change2
  <2>4. \A y : Branch(e, n, y) <=>
          y # files!Null /\
          \/ \E s \in Linkable : y = One(d, n, s)
          \/ \E s \in {Direct + 2, Direct + 3} : \E k \in Column : y = Two(e, n, s, k)
          \/ \E k, j \in Column : y = Three(d, n, Direct + 3, k, j)
    BY <2>1, <2>2 DEF Branch, Linkable
  <2>5. \A y : y # files!Null =>
          ((\E s \in {Direct + 2, Direct + 3} : \E k \in Column : y = Two(e, n, s, k)) <=>
           (\E s \in {Direct + 2, Direct + 3} : \E k \in Column : y = Two(d, n, s, k)) \/ y = x)
    BY <2>3
  <2> QED BY <1>4, <2>4, <2>5 DEF OneMoreBranch, Branch, Linkable
<1>6. Rest(d, e, O, F, x) BY <1>0, PtrRest
<1> QED BY <1>2, <1>3, <1>5, <1>6, LinkHeld DEF LinkStep

LEMMA LinkThree ==
  ASSUME NEW d, NEW O, NEW F, Held(d, O, F), NEW x \in F, NEW n \in O,
         NEW i \in Column, NEW b, b = Two(d, n, Direct + 3, i), b # files!Null,
         NEW j \in Column, Three(d, n, Direct + 3, i, j) = files!Null, Leaf(d, x),
         NEW e, PtrSet(d, e, b, j, x), Sound(e)
  PROVE  Held(e, O, F \ {x})
<1>0. PICK r \in {Direct + 2, Direct + 3} : r = Direct + 3 OBVIOUS
<1>1. r \in Place /\ r # Direct + 2 /\ b \in files!BlockNo
  <2>1. r \in Place /\ r # Direct + 2 BY <1>0, Geometry
  <2>2. Reached(d, O) BY ReachesBlocks DEF Held
  <2> QED BY <1>0, <2>1, <2>2 DEF Reached
<1>2. Change3(d, e, O, n, r, i, j, x) BY <1>0, SetThree
<1>3. OthersSame(d, e, O, n) BY <1>2 DEF Change3, OthersSame, SamePlaces, SameThree
<1>4. SameSlots(d, e, n)
  <2>1. \A s \in 1 .. Direct : s \in Place BY Geometry
  <2> QED BY <1>1, <1>2, <2>1 DEF Change3, SameSlots, SameOne, SameTwo
<1>5. x # files!Null BY InHand
<1>6. OneMoreBranch(d, e, n, x)
  <2>1. \A s \in Linkable : One(e, n, s) = One(d, n, s)
    BY <1>2, Geometry DEF Change3, SameOne, Linkable
  <2>2. \A k \in Column : \A s \in {Direct + 2, Direct + 3} : Two(e, n, s, k) = Two(d, n, s, k)
    BY <1>2 DEF Change3, SameTwo
  <2>3. /\ Three(e, n, Direct + 3, i, j) = x
        /\ \A k, h \in Column :
             k # i \/ h # j => Three(e, n, Direct + 3, k, h) = Three(d, n, Direct + 3, k, h)
    BY <1>0, <1>2 DEF Change3
  <2>4. \A y : Branch(e, n, y) <=>
          y # files!Null /\
          \/ \E s \in Linkable : y = One(d, n, s)
          \/ \E s \in {Direct + 2, Direct + 3} : \E k \in Column : y = Two(d, n, s, k)
          \/ \E k, h \in Column : y = Three(e, n, Direct + 3, k, h)
    BY <2>1, <2>2 DEF Branch, Linkable
  <2>5. \A y : y # files!Null =>
          ((\E k, h \in Column : y = Three(e, n, Direct + 3, k, h)) <=>
           (\E k, h \in Column : y = Three(d, n, Direct + 3, k, h)) \/ y = x)
    BY <2>3
  <2> SUFFICES ASSUME NEW y PROVE Branch(e, n, y) <=> Branch(d, n, y) \/ y = x
    BY DEF OneMoreBranch
  <2> DEFINE A == \/ \E s \in Linkable : y = One(d, n, s)
                 \/ \E s \in {Direct + 2, Direct + 3} : \E k \in Column : y = Two(d, n, s, k)
             B == \E k, h \in Column : y = Three(e, n, Direct + 3, k, h)
             C == \E k, h \in Column : y = Three(d, n, Direct + 3, k, h)
  <2>6. Branch(e, n, y) <=> y # files!Null /\ (A \/ B) BY <2>4
  <2>7. Branch(d, n, y) <=> y # files!Null /\ (A \/ C) BY DEF Branch, Linkable
  <2>8. y # files!Null => (B <=> C \/ y = x) BY <2>5
  <2> HIDE DEF A, B, C
  <2> QED BY <1>5, <2>6, <2>7, <2>8
<1>7. Rest(d, e, O, F, x) BY <1>1, PtrRest
<1> QED BY <1>3, <1>4, <1>6, <1>7, LinkHeld DEF LinkStep

-----------------------------------------------------------------------------
\* An inode gets a block of data: where it goes, the log ends.

LEMMA LogEnds ==
  ASSUME NEW s \in Seq(files!BlockNo \ {files!Null}), NEW q \in Nat \ {0}
  PROVE  /\ LogAt(s, q) = files!Null => Len(s) < q
         /\ LogAt(s, q) # files!Null => q <= Len(s)
BY DEF LogAt

LEMMA LogGrows ==
  ASSUME NEW s \in Seq(files!BlockNo \ {files!Null}), NEW x \in files!BlockNo \ {files!Null}
  PROVE  /\ Append(s, x) \in Seq(files!BlockNo \ {files!Null}) /\ Len(Append(s, x)) = Len(s) + 1
         /\ LogAt(Append(s, x), Len(s) + 1) = x
         /\ \A q \in Nat \ {0} : q # Len(s) + 1 => LogAt(Append(s, x), q) = LogAt(s, q)
BY DEF LogAt

\* The ranges of the positions.
LEMMA Positions ==
  /\ \A i, j \in Column : Pos(i, j, Ptrs) \in 1 .. Squared
  /\ \A i, j, l \in Column : Pos3(i, j, l) \in 1 .. Ptrs * Squared
  /\ Ptrs * Squared \in Nat
  /\ \A i, j, k, h \in Column : Pos(i, j, Ptrs) = Pos(k, h, Ptrs) => i = k /\ j = h
  /\ \A i, j, l, k, h, g \in Column : Pos3(i, j, l) = Pos3(k, h, g) => i = k /\ j = h /\ l = g
<1>1. \A i, j \in Column : Pos(i, j, Ptrs) \in 1 .. Squared
  BY PtrsIs, PosIn DEF Column, Squared
<1>2. \A i, j, l \in Column : Pos3(i, j, l) \in 1 .. Ptrs * Squared
  BY <1>1, PtrsIs, PosIn DEF Column, Pos3
<1>3. Ptrs * Squared \in Nat
  <2>1. \A a, c \in Nat : a * c \in Nat OBVIOUS
  <2> QED BY <2>1, PtrsIs
<1>4. ASSUME NEW i \in Column, NEW j \in Column, NEW k \in Column, NEW h \in Column,
             Pos(i, j, Ptrs) = Pos(k, h, Ptrs)
      PROVE  i = k /\ j = h
  <2>1. i \in Nat \ {0} /\ k \in Nat \ {0} /\ j \in 1 .. Ptrs /\ h \in 1 .. Ptrs BY PtrsIs DEF Column
  <2>2. Row(Pos(i, j, Ptrs), Ptrs) = i /\ Col(Pos(i, j, Ptrs), Ptrs) = j BY <2>1, PtrsIs, RowOfPos
  <2>3. Row(Pos(k, h, Ptrs), Ptrs) = k /\ Col(Pos(k, h, Ptrs), Ptrs) = h BY <2>1, PtrsIs, RowOfPos
  <2> QED BY <1>4, <2>2, <2>3
<1>5. ASSUME NEW i \in Column, NEW j \in Column, NEW l \in Column,
             NEW k \in Column, NEW h \in Column, NEW g \in Column, Pos3(i, j, l) = Pos3(k, h, g)
      PROVE  i = k /\ j = h /\ l = g
  <2>1. i \in Nat \ {0} /\ k \in Nat \ {0} BY PtrsIs DEF Column
  <2>2. PICK p \in 1 .. Squared : p = Pos(j, l, Ptrs) BY <1>1
  <2>3. PICK q \in 1 .. Squared : q = Pos(h, g, Ptrs) BY <1>1
  <2>4. Row(Pos(i, p, Squared), Squared) = i /\ Col(Pos(i, p, Squared), Squared) = p
    BY <2>1, PtrsIs, RowOfPos
  <2>5. Row(Pos(k, q, Squared), Squared) = k /\ Col(Pos(k, q, Squared), Squared) = q
    BY <2>1, PtrsIs, RowOfPos
  <2>6. i = k /\ p = q BY <1>5, <2>2, <2>3, <2>4, <2>5 DEF Pos3
  <2> QED BY <1>4, <2>2, <2>3, <2>6
<1> HIDE DEF Pos, Pos3
<1> QED BY <1>1, <1>2, <1>3, <1>4, <1>5

LEMMA Pos3Apart ==
  ASSUME NEW i \in Column, NEW j \in Column, NEW l \in Column,
         NEW k \in Column, NEW h \in Column, NEW g \in Column, Pos3(k, h, g) = Pos3(i, j, l)
  PROVE  k = i /\ h = j /\ g = l
<1>1. \A a, b, c, u, v, w \in Column : Pos3(a, b, c) = Pos3(u, v, w) => a = u /\ b = v /\ c = w
  BY Positions
<1> QED BY <1>1

\* The log ends at the first place that is null.
LEMMA EndsInOne ==
  ASSUME NEW d, NEW n, InLog(d, n), NEW r \in 1 .. Direct, One(d, n, r) = files!Null,
         \A k \in 1 .. r - 1 : One(d, n, k) # files!Null
  PROVE  r = Len(d.log[n]) + 1
<1>1. PICK s \in Seq(files!BlockNo \ {files!Null}) : s = d.log[n] BY DEF InLog
<1>2. Direct \in Nat BY Geometry
<1>3. LogAt(s, r) = files!Null BY <1>1 DEF InLog
<1>4. r # 1 => LogAt(s, r - 1) # files!Null
  <2>1. r # 1 => r - 1 \in 1 .. Direct /\ r - 1 \in 1 .. r - 1 BY <1>2
  <2> QED BY <1>1, <2>1 DEF InLog
<1>5. Len(s) < r BY <1>2, <1>3, LogEnds
<1>6. r # 1 => r - 1 <= Len(s) BY <1>2, <1>4, LogEnds
<1> QED BY <1>1, <1>2, <1>5, <1>6

LEMMA EndsInTwo ==
  ASSUME NEW d, NEW n, InLog(d, n), NEW i \in Column, Two(d, n, Direct + 1, i) = files!Null,
         \A r \in 1 .. Direct : One(d, n, r) # files!Null,
         \A k \in 1 .. i - 1 : Two(d, n, Direct + 1, k) # files!Null
  PROVE  Direct + i = Len(d.log[n]) + 1
<1>1. PICK s \in Seq(files!BlockNo \ {files!Null}) : s = d.log[n] BY DEF InLog
<1>2. Direct \in Nat \ {0} /\ Ptrs \in Nat \ {0} /\ i \in Nat \ {0} BY Geometry DEF Column
<1>3. LogAt(s, Direct + i) = files!Null BY <1>1 DEF InLog
<1>4. LogAt(s, Direct + i - 1) # files!Null
  <2>1. CASE i = 1
    <3>1. Direct \in 1 .. Direct BY <1>2
    <3>2. LogAt(s, Direct) # files!Null BY <1>1, <3>1 DEF InLog
    <3>3. Direct + i - 1 = Direct BY <1>2, <2>1
    <3> QED BY <3>2, <3>3
  <2>2. CASE i # 1
    <3>1. i - 1 \in Column /\ i - 1 \in 1 .. i - 1 BY <1>2, <2>2 DEF Column
    <3>2. LogAt(s, Direct + (i - 1)) # files!Null BY <1>1, <3>1 DEF InLog
    <3>3. Direct + i - 1 = Direct + (i - 1) BY <1>2
    <3> QED BY <3>2, <3>3
  <2> QED BY <2>1, <2>2
<1>5. Direct + i \in Nat \ {0} /\ Direct + i - 1 \in Nat \ {0} BY <1>2
<1>6. Len(s) < Direct + i BY <1>3, <1>5, LogEnds
<1>7. Direct + i - 1 <= Len(s) BY <1>4, <1>5, LogEnds
<1> QED BY <1>1, <1>2, <1>6, <1>7

LEMMA EndsInThree ==
  ASSUME NEW d, NEW n, InLog(d, n), NEW i \in Column, NEW j \in Column,
         Three(d, n, Direct + 2, i, j) = files!Null,
         \A k \in Column : Two(d, n, Direct + 1, k) # files!Null,
         \A k \in 1 .. i - 1 : \A h \in Column : Three(d, n, Direct + 2, k, h) # files!Null,
         \A h \in 1 .. j - 1 : Three(d, n, Direct + 2, i, h) # files!Null
  PROVE  Direct + Ptrs + Pos(i, j, Ptrs) = Len(d.log[n]) + 1
<1>1. PICK s \in Seq(files!BlockNo \ {files!Null}) : s = d.log[n] BY DEF InLog
<1>2. /\ Direct \in Nat \ {0} /\ Ptrs \in Nat \ {0} /\ i \in 1 .. Ptrs /\ j \in 1 .. Ptrs
      /\ Ptrs \in Column
  BY Geometry DEF Column
<1>3. LogAt(s, Direct + Ptrs + Pos(i, j, Ptrs)) = files!Null BY <1>1 DEF InLog
<1>4. PICK p \in Nat \ {0} : p = Pos(i, j, Ptrs) BY PtrsIs, Positions, SMTT(30)
<1>5. LogAt(s, Direct + Ptrs + p - 1) # files!Null
  <2>1. CASE j # 1
    <3>1. j - 1 \in Column /\ j - 1 \in 1 .. j - 1 BY <1>2, <2>1 DEF Column
    <3>2. LogAt(s, Direct + Ptrs + Pos(i, j - 1, Ptrs)) # files!Null BY <1>1, <3>1 DEF InLog
    <3>3. Pos(i, j - 1, Ptrs) = p - 1
      <4>1. PICK a \in Int : a = (i - 1) * Ptrs BY <1>2
      <4> QED BY <1>2, <1>4, <4>1 DEF Pos
    <3>4. Direct + Ptrs + p - 1 = Direct + Ptrs + (p - 1) BY <1>2
    <3> QED BY <3>2, <3>3, <3>4
  <2>2. CASE j = 1 /\ i # 1
    <3>1. i - 1 \in Column /\ i - 1 \in 1 .. i - 1 BY <1>2, <2>2 DEF Column
    <3>2. LogAt(s, Direct + Ptrs + Pos(i - 1, Ptrs, Ptrs)) # files!Null BY <1>1, <1>2, <3>1 DEF InLog
    <3>3. Pos(i - 1, Ptrs, Ptrs) = p - 1
      <4>1. (i - 1 - 1) * Ptrs + Ptrs = (i - 1) * Ptrs BY <1>2
      <4> QED BY <1>2, <1>4, <2>2, <4>1 DEF Pos
    <3>4. Direct + Ptrs + p - 1 = Direct + Ptrs + (p - 1) BY <1>2
    <3> QED BY <3>2, <3>3, <3>4
  <2>3. CASE j = 1 /\ i = 1
    <3>1. p = 1 BY <1>2, <1>4, <2>3 DEF Pos
    <3>2. LogAt(s, Direct + Ptrs) # files!Null BY <1>1, <1>2 DEF InLog
    <3>3. Direct + Ptrs + p - 1 = Direct + Ptrs BY <1>2, <3>1
    <3> QED BY <3>2, <3>3
  <2> QED BY <2>1, <2>2, <2>3
<1>6. Direct + Ptrs + p \in Nat \ {0} /\ Direct + Ptrs + p - 1 \in Nat \ {0} BY <1>2
<1>7. Len(s) < Direct + Ptrs + p BY <1>3, <1>4, <1>6, LogEnds
<1>8. Direct + Ptrs + p - 1 <= Len(s) BY <1>5, <1>6, LogEnds
<1>9. Direct + Ptrs + p = Len(s) + 1 BY <1>2, <1>7, <1>8
<1> QED BY <1>1, <1>4, <1>9

LEMMA EndsInFour ==
  ASSUME NEW d, NEW n, InLog(d, n), NEW i \in Column, NEW j \in Column, NEW l \in Column,
         Four(d, n, Direct + 3, i, j, l) = files!Null,
         \A k, h \in Column : Three(d, n, Direct + 2, k, h) # files!Null,
         \A k \in 1 .. i - 1 : \A h, g \in Column : Four(d, n, Direct + 3, k, h, g) # files!Null,
         \A h \in 1 .. j - 1 : \A g \in Column : Four(d, n, Direct + 3, i, h, g) # files!Null,
         \A g \in 1 .. l - 1 : Four(d, n, Direct + 3, i, j, g) # files!Null
  PROVE  Direct + Ptrs + Squared + Pos3(i, j, l) = Len(d.log[n]) + 1
<1>1. PICK s \in Seq(files!BlockNo \ {files!Null}) : s = d.log[n] BY DEF InLog
<1>2. /\ Direct \in Nat \ {0} /\ Ptrs \in Nat \ {0} /\ Squared \in Nat \ {0}
      /\ i \in 1 .. Ptrs /\ j \in 1 .. Ptrs /\ l \in 1 .. Ptrs /\ Ptrs \in Column
  BY Geometry DEF Column
<1>3. PICK B \in Nat \ {0} : B = Direct + Ptrs + Squared BY <1>2
<1>4. LogAt(s, B + Pos3(i, j, l)) = files!Null BY <1>1, <1>3 DEF InLog
<1>5. PICK p \in Nat \ {0} : p = Pos3(i, j, l)
  <2>1. PICK Q \in Nat : Q = Ptrs * Squared BY Positions
  <2>2. Pos3(i, j, l) \in 1 .. Q BY <2>1, Positions
  <2> QED BY <2>2
<1>6. PICK a \in Int : a = (i - 1) * Squared BY <1>2
<1>7. p = a + ((j - 1) * Ptrs + l) BY <1>5, <1>6 DEF Pos3, Pos
<1>8. Pos(Ptrs, Ptrs, Ptrs) = Squared
  <2>1. (Ptrs - 1) * Ptrs + Ptrs = Ptrs * Ptrs BY <1>2
  <2> QED BY <2>1 DEF Pos, Squared
<1>9. LogAt(s, B + p - 1) # files!Null
  <2>0. B + p - 1 = B + (p - 1) BY <1>3
  <2>1. CASE l # 1
    <3>1. l - 1 \in Column /\ l - 1 \in 1 .. l - 1 BY <1>2, <2>1 DEF Column
    <3>2. LogAt(s, B + Pos3(i, j, l - 1)) # files!Null BY <1>1, <1>3, <3>1 DEF InLog
    <3>3. Pos3(i, j, l - 1) = p - 1
      <4>1. PICK c \in Int : c = (j - 1) * Ptrs BY <1>2
      <4> QED BY <1>2, <1>6, <1>7, <4>1 DEF Pos3, Pos
    <3> QED BY <2>0, <3>2, <3>3
  <2>2. CASE l = 1 /\ j # 1
    <3>1. j - 1 \in Column /\ j - 1 \in 1 .. j - 1 BY <1>2, <2>2 DEF Column
    <3>2. LogAt(s, B + Pos3(i, j - 1, Ptrs)) # files!Null BY <1>1, <1>2, <1>3, <3>1 DEF InLog
    <3>3. Pos3(i, j - 1, Ptrs) = p - 1
      <4>1. (j - 1 - 1) * Ptrs + Ptrs = (j - 1) * Ptrs BY <1>2
      <4>2. PICK c \in Int : c = (j - 1) * Ptrs BY <1>2
      <4> QED BY <1>2, <1>6, <1>7, <2>2, <4>1, <4>2 DEF Pos3, Pos
    <3> QED BY <2>0, <3>2, <3>3
  <2>3. CASE l = 1 /\ j = 1 /\ i # 1
    <3>1. i - 1 \in Column /\ i - 1 \in 1 .. i - 1 BY <1>2, <2>3 DEF Column
    <3>2. LogAt(s, B + Pos3(i - 1, Ptrs, Ptrs)) # files!Null BY <1>1, <1>2, <1>3, <3>1 DEF InLog
    <3>3. Pos3(i - 1, Ptrs, Ptrs) = p - 1
      <4>1. (i - 1 - 1) * Squared + Squared = (i - 1) * Squared BY <1>2
      <4>2. Pos3(i - 1, Ptrs, Ptrs) = (i - 1 - 1) * Squared + Squared BY <1>8 DEF Pos3, Pos
      <4>3. p = a + 1 BY <1>2, <1>7, <2>3
      <4> QED BY <1>6, <4>1, <4>2, <4>3
    <3> QED BY <2>0, <3>2, <3>3
  <2>4. CASE l = 1 /\ j = 1 /\ i = 1
    <3>1. p = 1 BY <1>2, <1>6, <1>7, <2>4
    <3>2. LogAt(s, Direct + Ptrs + Pos(Ptrs, Ptrs, Ptrs)) # files!Null BY <1>1, <1>2 DEF InLog
    <3>3. B + p - 1 = Direct + Ptrs + Squared BY <1>2, <1>3, <3>1
    <3> QED BY <1>8, <3>2, <3>3
  <2> QED BY <2>1, <2>2, <2>3, <2>4
<1>10. B + p \in Nat \ {0} /\ B + p - 1 \in Nat \ {0} BY <1>3
<1>11. Len(s) < B + p BY <1>4, <1>5, <1>10, LogEnds
<1>12. B + p - 1 <= Len(s) BY <1>9, <1>10, LogEnds
<1> QED BY <1>1, <1>3, <1>5, <1>11, <1>12, SMTT(30)

\* What is the same but for the log of inode n, which has one block more.
LogsTo(e, f, n, x) ==
  /\ f.used = e.used /\ f.lost = e.lost /\ f.nodes = e.nodes /\ f.dir = e.dir
  /\ f.fault = e.fault /\ f.inode = e.inode /\ f.ptrs = e.ptrs
  /\ f.log = [e.log EXCEPT ![n] = Append(@, x)]

LEMMA LogsPlaces ==
  ASSUME NEW e, NEW f, NEW n, NEW x, LogsTo(e, f, n, x)
  PROVE  /\ \A m, r : One(f, m, r) = One(e, m, r)
         /\ \A m, r, i : Two(f, m, r, i) = Two(e, m, r, i)
         /\ \A m, r, i, j : Three(f, m, r, i, j) = Three(e, m, r, i, j)
         /\ \A m, r, i, j, l : Four(f, m, r, i, j, l) = Four(e, m, r, i, j, l)
<1>1. \A m, r : One(f, m, r) = One(e, m, r) BY DEF One, LogsTo
<1>2. \A b, i : files!At(f, b, i) = files!At(e, b, i) BY DEF files!At, LogsTo
<1>3. \A m, r, i : Two(f, m, r, i) = Two(e, m, r, i) BY <1>1, <1>2 DEF Two
<1>4. \A m, r, i, j : Three(f, m, r, i, j) = Three(e, m, r, i, j) BY <1>2, <1>3 DEF Three
<1>5. \A m, r, i, j, l : Four(f, m, r, i, j, l) = Four(e, m, r, i, j, l) BY <1>2, <1>4 DEF Four
<1> QED BY <1>1, <1>3, <1>4, <1>5

LEMMA PutHeld ==
  ASSUME NEW d, NEW O, NEW F, Held(d, O, F), NEW x \in F, NEW n \in O, NEW e,
         Rest(d, e, O, F, x), OthersSame(d, e, O, n), SameBranches(d, e, n),
         NEW f, LogsTo(e, f, n, x), Sound(f), InLog(f, n)
  PROVE  Held(f, O, F \ {x})
<1>1. /\ Sound(d) /\ e.used = d.used /\ e.lost = d.lost /\ e.log = d.log
      /\ O \subseteq files!Node /\ DOMAIN d.log = files!Node
  BY DEF Held, Rest, Wired
<1>2. /\ f.used = d.used /\ f.lost = d.lost /\ f.ptrs = e.ptrs
      /\ f.log = [d.log EXCEPT ![n] = Append(@, x)]
  BY <1>1 DEF LogsTo
<1>3. f.log[n] = Append(d.log[n], x) /\ \A m : m # n => f.log[m] = d.log[m]
  BY <1>1, <1>2
<1>4. ASSUME NEW m \in O, m # n
      PROVE  InLog(f, m) /\ files!Owned(f, m) = files!Owned(d, m)
  <2>1. SamePlaces(d, e, m) BY <1>4 DEF OthersSame
  <2>2. SamePlaces(d, f, m)
    BY <2>1, LogsPlaces DEF SamePlaces, SameOne, SameTwo, SameThree, SameFour
  <2>3. InLog(d, m) /\ m \in files!Node BY <1>1 DEF Held
  <2> QED BY <1>1, <1>3, <1>4, <2>2, <2>3, SameInLog, SameOwned
<1>5. ASSUME NEW y PROVE y \in files!Owned(f, n) <=> y \in files!Owned(d, n) \/ y = x
  <2>1. n \in files!Node BY <1>1
  <2>2. y \in files!IndirectBlocks(f, n) <=> Branch(f, n, y) BY <2>1, BranchIs
  <2>3. y \in files!IndirectBlocks(d, n) <=> Branch(d, n, y) BY <1>1, <2>1, BranchIs
  <2>4. Branch(f, n, y) <=> Branch(e, n, y) BY LogsPlaces DEF Branch
  <2>5. Branch(e, n, y) <=> Branch(d, n, y) BY DEF SameBranches
  <2>6. y \in files!ToSet(f.log[n]) <=> y \in files!ToSet(d.log[n]) \/ y = x
    <3>1. PICK s \in Seq(files!BlockNo \ {files!Null}) : s = d.log[n] BY DEF Held, InLog
    <3>2. y \in files!ToSet(Append(s, x)) <=> y \in files!ToSet(s) \/ y = x
      <4>1. x \in files!BlockNo \ {files!Null} BY InHand
      <4>2. PICK t : t = Append(s, x) OBVIOUS
      <4>3. Len(t) = Len(s) + 1 /\ Len(s) \in Nat /\ t[Len(s) + 1] = x
            /\ \A q \in 1 .. Len(s) : t[q] = s[q]
        BY <4>1, <4>2
      <4>4. DOMAIN t = 1 .. Len(s) + 1 /\ DOMAIN s = 1 .. Len(s) BY <4>3
      <4> QED BY <4>2, <4>3, <4>4 DEF files!ToSet
    <3> QED BY <1>3, <3>1, <3>2
  <2> QED BY <2>2, <2>3, <2>4, <2>5, <2>6 DEF files!Owned
<1>6. Cover(f, O, F \ {x})
  <2> SUFFICES ASSUME NEW b \in f.used
               PROVE  \/ b \in files!Formatted \cup f.lost \cup (F \ {x})
                      \/ \E m \in O : b \in files!Owned(f, m)
    BY DEF Cover
  <2>1. CASE b = x BY <1>5, <2>1
  <2>2. CASE b # x
    <3>1. \/ b \in files!Formatted \cup d.lost \cup F
          \/ \E m \in O : b \in files!Owned(d, m)
      BY <1>2 DEF Held, Cover
    <3>2. \A m \in O : b \in files!Owned(d, m) => b \in files!Owned(f, m) BY <1>4, <1>5
    <3> QED BY <1>2, <2>2, <3>1, <3>2
  <2> QED BY <2>1, <2>2
<1>7. Unshared(f, O) BY <1>2, LogsPlaces DEF Rest, Unshared
<1>8. Fresh(f, O, F \ {x}) BY <1>1, <1>2, LogsPlaces DEF Rest, Fresh
<1>9. Stock(f, F \ {x}) BY <1>1, <1>2 DEF Rest, Stock
<1>10. DOMAIN f.log = files!Node BY <1>1, <1>2
<1>11. \A m \in O : InLog(f, m) BY <1>4
<1> QED BY <1>1, <1>6, <1>7, <1>8, <1>9, <1>10, <1>11 DEF Held

\* A log that has one block more, and what its places are.
OneLonger(d, f, n, x) ==
  /\ f.log[n] \in Seq(files!BlockNo \ {files!Null})
  /\ Len(f.log[n]) = Len(d.log[n]) + 1
  /\ LogAt(f.log[n], Len(d.log[n]) + 1) = x
  /\ \A q \in Nat \ {0} : q # Len(d.log[n]) + 1 => LogAt(f.log[n], q) = LogAt(d.log[n], q)

LEMMA IsLonger ==
  ASSUME NEW d, NEW O, NEW F, Held(d, O, F), NEW x \in F, NEW n \in O, NEW e, e.log = d.log,
         NEW f, LogsTo(e, f, n, x)
  PROVE  OneLonger(d, f, n, x)
<1>1. x \in files!BlockNo \ {files!Null} BY InHand
<1>2. PICK s \in Seq(files!BlockNo \ {files!Null}) : s = d.log[n] BY DEF Held, InLog
<1>3. f.log[n] = Append(s, x) BY <1>2 DEF LogsTo, Held
<1> QED BY <1>1, <1>2, <1>3, LogGrows DEF OneLonger

\* Place p has x, the others what they had.
PlacedAt(d, f, n, p, x) ==
  /\ \A s \in 1 .. Direct : One(f, n, s) = IF s = p THEN x ELSE One(d, n, s)
  /\ \A i \in Column : Two(f, n, Direct + 1, i) =
       IF Direct + i = p THEN x ELSE Two(d, n, Direct + 1, i)
  /\ \A i, j \in Column : Three(f, n, Direct + 2, i, j) =
       IF Direct + Ptrs + Pos(i, j, Ptrs) = p THEN x ELSE Three(d, n, Direct + 2, i, j)
  /\ \A i, j, l \in Column : Four(f, n, Direct + 3, i, j, l) =
       IF Direct + Ptrs + Squared + Pos3(i, j, l) = p THEN x ELSE Four(d, n, Direct + 3, i, j, l)

LEMMA PutInLog ==
  ASSUME NEW d, NEW f, NEW n, NEW x, InLog(d, n), OneLonger(d, f, n, x),
         NEW p \in 1 .. Direct + Ptrs + Squared + Ptrs * Squared, p = Len(d.log[n]) + 1,
         PlacedAt(d, f, n, p, x)
  PROVE  InLog(f, n)
<1>1. /\ Direct \in Nat \ {0} /\ Ptrs \in Nat \ {0} /\ Squared \in Nat \ {0}
  BY Geometry
<1>2. PICK Q \in Nat : Q = Ptrs * Squared BY Positions
<1>3. p \in Nat \ {0} /\ p <= Direct + Ptrs + Squared + Q BY <1>1, <1>2
<1>4. LogAt(f.log[n], p) = x
      /\ \A q \in Nat \ {0} : q # p => LogAt(f.log[n], q) = LogAt(d.log[n], q)
  BY DEF OneLonger
<1>5. \A s \in 1 .. Direct : One(f, n, s) = LogAt(f.log[n], s)
  BY <1>1, <1>4 DEF PlacedAt, InLog
<1>6. \A i \in Column : Two(f, n, Direct + 1, i) = LogAt(f.log[n], Direct + i)
  <2> TAKE i \in Column
  <2>1. PICK q \in Nat \ {0} : q = Direct + i BY <1>1 DEF Column
  <2> QED BY <1>4, <2>1 DEF PlacedAt, InLog
<1>7. \A i, j \in Column :
        Three(f, n, Direct + 2, i, j) = LogAt(f.log[n], Direct + Ptrs + Pos(i, j, Ptrs))
  <2> TAKE i, j \in Column
  <2>1. Pos(i, j, Ptrs) \in 1 .. Squared BY Positions
  <2>2. PICK q \in Nat \ {0} : q = Direct + Ptrs + Pos(i, j, Ptrs) BY <1>1, <2>1
  <2> QED BY <1>4, <2>2 DEF PlacedAt, InLog
<1>8. \A i, j, l \in Column :
        Four(f, n, Direct + 3, i, j, l) =
          LogAt(f.log[n], Direct + Ptrs + Squared + Pos3(i, j, l))
  <2> TAKE i, j, l \in Column
  <2>1. Pos3(i, j, l) \in 1 .. Q BY <1>2, Positions
  <2>2. PICK q \in Nat \ {0} : q = Direct + Ptrs + Squared + Pos3(i, j, l) BY <1>1, <1>2, <2>1
  <2> QED BY <1>4, <2>2 DEF PlacedAt, InLog
<1>9. Len(f.log[n]) <= Direct + Ptrs + Squared + Ptrs * Squared
  BY <1>2, <1>3 DEF OneLonger
<1> QED BY <1>5, <1>6, <1>7, <1>8, <1>9 DEF InLog, OneLonger

LEMMA PutOne ==
  ASSUME NEW d, NEW O, NEW F, Held(d, O, F), NEW x \in F, NEW n \in O, NEW r \in 1 .. Direct,
         One(d, n, r) = files!Null, r = Len(d.log[n]) + 1,
         NEW e, MapSet(d, e, n, r, x), Sound(e), NEW f, LogsTo(e, f, n, x), Sound(f)
  PROVE  Held(f, O, F \ {x})
<1>0. r \in Place /\ r \notin Linkable /\ \A s \in 1 .. Direct : s \in Place
  BY Geometry DEF Linkable
<1>1. Change1(d, e, O, n, r, x) BY <1>0, SetOne
<1>2. OthersSame(d, e, O, n) BY <1>1 DEF Change1, OthersSame, SamePlaces, SameOne
<1>3. SameBranches(d, e, n)
  <2>1. \A s \in Linkable : One(e, n, s) = One(d, n, s) BY <1>0, <1>1, Geometry DEF Change1, Linkable
  <2> QED BY <1>1, <2>1 DEF Change1, SameTwo, SameThree, SameBranches, Branch, Linkable
<1>4. Rest(d, e, O, F, x) BY <1>0, MapRest
<1>5. OneLonger(d, f, n, x)
  <2>1. e.log = d.log BY <1>4 DEF Rest, Wired
  <2> QED BY <2>1, IsLonger
<1>6. /\ Direct \in Nat \ {0} /\ Ptrs \in Nat \ {0} /\ Squared \in Nat \ {0} BY Geometry
<1>7. PlacedAt(d, f, n, r, x)
  <2>1. \A s \in 1 .. Direct : One(f, n, s) = IF s = r THEN x ELSE One(d, n, s)
    BY <1>0, <1>1, LogsPlaces DEF Change1
  <2>2. \A i \in Column : Two(f, n, Direct + 1, i) =
          IF Direct + i = r THEN x ELSE Two(d, n, Direct + 1, i)
    <3> TAKE i \in Column
    <3>1. Direct + i # r BY <1>6 DEF Column
    <3> QED BY <1>1, <3>1, LogsPlaces DEF Change1, SameTwo
  <2>3. \A i, j \in Column : Three(f, n, Direct + 2, i, j) =
          IF Direct + Ptrs + Pos(i, j, Ptrs) = r THEN x ELSE Three(d, n, Direct + 2, i, j)
    <3> TAKE i, j \in Column
    <3>1. PICK p \in 1 .. Squared : p = Pos(i, j, Ptrs) BY Positions
    <3>2. Direct + Ptrs + p # r BY <1>6
    <3> QED BY <1>1, <3>1, <3>2, LogsPlaces DEF Change1, SameThree
  <2>4. \A i, j, l \in Column : Four(f, n, Direct + 3, i, j, l) =
          IF Direct + Ptrs + Squared + Pos3(i, j, l) = r THEN x ELSE Four(d, n, Direct + 3, i, j, l)
    <3> TAKE i, j, l \in Column
    <3>1. PICK Q \in Nat : Q = Ptrs * Squared BY Positions
    <3>2. PICK p \in 1 .. Q : p = Pos3(i, j, l) BY <3>1, Positions
    <3>3. Direct + Ptrs + Squared + p # r BY <1>6, <3>1
    <3> QED BY <1>1, <3>2, <3>3, LogsPlaces DEF Change1, SameFour
  <2> QED BY <2>1, <2>2, <2>3, <2>4 DEF PlacedAt
<1>8. InLog(f, n)
  <2>1. PICK Q \in Nat : Q = Ptrs * Squared BY Positions
  <2>2. r \in 1 .. Direct + Ptrs + Squared + Ptrs * Squared BY <1>6, <2>1
  <2>3. InLog(d, n) BY DEF Held
  <2> QED BY <1>5, <1>7, <2>2, <2>3, PutInLog
<1> QED BY <1>2, <1>3, <1>4, <1>8, PutHeld

LEMMA PutTwo ==
  ASSUME NEW d, NEW O, NEW F, Held(d, O, F), NEW x \in F, NEW n \in O, NEW i \in Column,
         NEW b, b = One(d, n, Direct + 1), b # files!Null,
         Two(d, n, Direct + 1, i) = files!Null, Direct + i = Len(d.log[n]) + 1,
         NEW e, PtrSet(d, e, b, i, x), Sound(e), NEW f, LogsTo(e, f, n, x), Sound(f)
  PROVE  Held(f, O, F \ {x})
<1>0. /\ Direct + 1 \in Place /\ Direct + 1 \in Linkable /\ b \in files!BlockNo
      /\ \A s \in 1 .. Direct : s \in Place
  <2>1. Reached(d, O) BY ReachesBlocks DEF Held
  <2> QED BY <2>1, Geometry DEF Linkable, Reached
<1>1. Change2(d, e, O, n, Direct + 1, i, x) BY <1>0, SetTwo
<1>2. OthersSame(d, e, O, n) BY <1>1 DEF Change2, OthersSame, SamePlaces, SameTwo
<1>3. SameBranches(d, e, n)
  <2>1. \A s \in Linkable : One(e, n, s) = One(d, n, s)
    BY <1>1, Geometry DEF Change2, SameOne, Linkable
  <2>2. \A s \in {Direct + 2, Direct + 3} : \A k \in Column : Two(e, n, s, k) = Two(d, n, s, k)
    BY <1>1, Geometry DEF Change2
  <2> QED BY <1>1, <2>1, <2>2 DEF Change2, SameThree, SameBranches, Branch, Linkable
<1>4. Rest(d, e, O, F, x) BY <1>0, PtrRest
<1>5. OneLonger(d, f, n, x)
  <2>1. e.log = d.log BY <1>4 DEF Rest, Wired
  <2> QED BY <2>1, IsLonger
<1>6. /\ Direct \in Nat \ {0} /\ Ptrs \in Nat \ {0} /\ Squared \in Nat \ {0} /\ i \in 1 .. Ptrs
  BY Geometry DEF Column
<1>7. PlacedAt(d, f, n, Direct + i, x)
  <2>1. \A s \in 1 .. Direct : One(f, n, s) = IF s = Direct + i THEN x ELSE One(d, n, s)
    <3> TAKE s \in 1 .. Direct
    <3>1. s # Direct + i BY <1>6
    <3> QED BY <1>0, <1>1, <3>1, LogsPlaces DEF Change2, SameOne
  <2>2. \A k \in Column : Two(f, n, Direct + 1, k) =
          IF Direct + k = Direct + i THEN x ELSE Two(d, n, Direct + 1, k)
    <3> TAKE k \in Column
    <3>1. Direct + k = Direct + i => k = i BY <1>6 DEF Column
    <3> QED BY <1>1, <3>1, LogsPlaces DEF Change2
  <2>3. \A k, j \in Column : Three(f, n, Direct + 2, k, j) =
          IF Direct + Ptrs + Pos(k, j, Ptrs) = Direct + i THEN x ELSE Three(d, n, Direct + 2, k, j)
    <3> TAKE k, j \in Column
    <3>1. PICK p \in 1 .. Squared : p = Pos(k, j, Ptrs) BY Positions
    <3>2. Direct + Ptrs + p # Direct + i BY <1>6
    <3> QED BY <1>1, <3>1, <3>2, LogsPlaces DEF Change2, SameThree
  <2>4. \A k, j, l \in Column : Four(f, n, Direct + 3, k, j, l) =
          IF Direct + Ptrs + Squared + Pos3(k, j, l) = Direct + i THEN x
          ELSE Four(d, n, Direct + 3, k, j, l)
    <3> TAKE k, j, l \in Column
    <3>1. PICK Q \in Nat : Q = Ptrs * Squared BY Positions
    <3>2. PICK p \in 1 .. Q : p = Pos3(k, j, l) BY <3>1, Positions
    <3>3. Direct + Ptrs + Squared + p # Direct + i BY <1>6, <3>1
    <3> QED BY <1>1, <3>2, <3>3, LogsPlaces DEF Change2, SameFour
  <2> QED BY <2>1, <2>2, <2>3, <2>4 DEF PlacedAt
<1>8. InLog(f, n)
  <2>1. PICK Q \in Nat : Q = Ptrs * Squared BY Positions
  <2>2. Direct + i \in 1 .. Direct + Ptrs + Squared + Ptrs * Squared BY <1>6, <2>1
  <2>3. InLog(d, n) BY DEF Held
  <2> QED BY <1>5, <1>7, <2>2, <2>3, PutInLog
<1> QED BY <1>2, <1>3, <1>4, <1>8, PutHeld

LEMMA PutThree ==
  ASSUME NEW d, NEW O, NEW F, Held(d, O, F), NEW x \in F, NEW n \in O,
         NEW i \in Column, NEW j \in Column, NEW b, b = Two(d, n, Direct + 2, i), b # files!Null,
         Three(d, n, Direct + 2, i, j) = files!Null,
         Direct + Ptrs + Pos(i, j, Ptrs) = Len(d.log[n]) + 1,
         NEW e, PtrSet(d, e, b, j, x), Sound(e), NEW f, LogsTo(e, f, n, x), Sound(f)
  PROVE  Held(f, O, F \ {x})
<1>0. /\ Direct + 2 \in Place /\ b \in files!BlockNo /\ \A s \in 1 .. Direct : s \in Place
  <2>1. Reached(d, O) BY ReachesBlocks DEF Held
  <2> QED BY <2>1, Geometry DEF Reached
<1>1. Change3(d, e, O, n, Direct + 2, i, j, x)
  <2>1. PICK r \in {Direct + 2, Direct + 3} : r = Direct + 2 OBVIOUS
  <2> QED BY <2>1, SetThree
<1>2. OthersSame(d, e, O, n) BY <1>1 DEF Change3, OthersSame, SamePlaces, SameThree
<1>3. SameBranches(d, e, n)
  <2>1. \A s \in Linkable : One(e, n, s) = One(d, n, s)
    BY <1>1, Geometry DEF Change3, SameOne, Linkable
  <2>2. \A s \in {Direct + 2, Direct + 3} : \A k \in Column : Two(e, n, s, k) = Two(d, n, s, k)
    BY <1>1 DEF Change3, SameTwo
  <2>3. \A k, h \in Column : Three(e, n, Direct + 3, k, h) = Three(d, n, Direct + 3, k, h)
    BY <1>1, Geometry DEF Change3
  <2> QED BY <2>1, <2>2, <2>3 DEF SameBranches, Branch, Linkable
<1>4. Rest(d, e, O, F, x) BY <1>0, PtrRest
<1>5. OneLonger(d, f, n, x)
  <2>1. e.log = d.log BY <1>4 DEF Rest, Wired
  <2> QED BY <2>1, IsLonger
<1>6. /\ Direct \in Nat \ {0} /\ Ptrs \in Nat \ {0} /\ Squared \in Nat \ {0}
  BY Geometry
<1>7. PICK q \in 1 .. Squared : q = Pos(i, j, Ptrs) BY Positions
<1>8. PlacedAt(d, f, n, Direct + Ptrs + q, x)
  <2>1. \A s \in 1 .. Direct : One(f, n, s) = IF s = Direct + Ptrs + q THEN x ELSE One(d, n, s)
    <3> TAKE s \in 1 .. Direct
    <3>1. s # Direct + Ptrs + q BY <1>6
    <3> QED BY <1>0, <1>1, <3>1, LogsPlaces DEF Change3, SameOne
  <2>2. \A k \in Column : Two(f, n, Direct + 1, k) =
          IF Direct + k = Direct + Ptrs + q THEN x ELSE Two(d, n, Direct + 1, k)
    <3> TAKE k \in Column
    <3>1. Direct + k # Direct + Ptrs + q BY <1>6 DEF Column
    <3> QED BY <1>1, <3>1, LogsPlaces DEF Change3, SameTwo
  <2>3. \A k, h \in Column : Three(f, n, Direct + 2, k, h) =
          IF Direct + Ptrs + Pos(k, h, Ptrs) = Direct + Ptrs + q THEN x
          ELSE Three(d, n, Direct + 2, k, h)
    <3> TAKE k, h \in Column
    <3>1. PICK p \in 1 .. Squared : p = Pos(k, h, Ptrs) BY Positions
    <3>2. Direct + Ptrs + p = Direct + Ptrs + q => k = i /\ h = j
      <4>1. Direct + Ptrs + p = Direct + Ptrs + q => p = q BY <1>6
      <4> QED BY <1>7, <3>1, <4>1, Positions
    <3> QED BY <1>1, <1>7, <3>1, <3>2, LogsPlaces DEF Change3
  <2>4. \A k, h, l \in Column : Four(f, n, Direct + 3, k, h, l) =
          IF Direct + Ptrs + Squared + Pos3(k, h, l) = Direct + Ptrs + q THEN x
          ELSE Four(d, n, Direct + 3, k, h, l)
    <3> TAKE k, h, l \in Column
    <3>1. PICK Q \in Nat : Q = Ptrs * Squared BY Positions
    <3>2. PICK p \in 1 .. Q : p = Pos3(k, h, l) BY <3>1, Positions
    <3>3. Direct + Ptrs + Squared + p # Direct + Ptrs + q BY <1>6, <3>1
    <3> QED BY <1>1, <3>2, <3>3, LogsPlaces DEF Change3, SameFour
  <2> QED BY <2>1, <2>2, <2>3, <2>4 DEF PlacedAt
<1>9. InLog(f, n)
  <2>1. PICK Q \in Nat : Q = Ptrs * Squared BY Positions
  <2>2. Direct + Ptrs + q \in 1 .. Direct + Ptrs + Squared + Ptrs * Squared BY <1>6, <2>1
  <2>3. InLog(d, n) BY DEF Held
  <2>4. Direct + Ptrs + q = Len(d.log[n]) + 1 BY <1>7
  <2> QED BY <1>5, <1>8, <2>2, <2>3, <2>4, PutInLog
<1> QED BY <1>2, <1>3, <1>4, <1>9, PutHeld

LEMMA PutFour ==
  ASSUME NEW d, NEW O, NEW F, Held(d, O, F), NEW x \in F, NEW n \in O,
         NEW i \in Column, NEW j \in Column, NEW l \in Column,
         NEW b, b = Three(d, n, Direct + 3, i, j), b # files!Null,
         Direct + Ptrs + Squared + Pos3(i, j, l) = Len(d.log[n]) + 1,
         NEW e, PtrSet(d, e, b, l, x), Sound(e), NEW f, LogsTo(e, f, n, x), Sound(f)
  PROVE  Held(f, O, F \ {x})
<1>0. /\ Direct + 3 \in Place /\ b \in files!BlockNo /\ \A s \in 1 .. Direct : s \in Place
  <2>1. Reached(d, O) BY ReachesBlocks DEF Held
  <2> QED BY <2>1, Geometry DEF Reached
<1>1. Change4(d, e, O, n, i, j, l, x) BY SetFour
<1>2. OthersSame(d, e, O, n) BY <1>1 DEF Change4, OthersSame, SamePlaces, SameFour
<1>3. SameBranches(d, e, n)
  <2>1. \A s \in Linkable : One(e, n, s) = One(d, n, s)
    BY <1>1, Geometry DEF Change4, SameOne, Linkable
  <2>2. \A s \in {Direct + 2, Direct + 3} : \A k \in Column : Two(e, n, s, k) = Two(d, n, s, k)
    BY <1>1 DEF Change4, SameTwo
  <2>3. \A k, h \in Column : Three(e, n, Direct + 3, k, h) = Three(d, n, Direct + 3, k, h)
    BY <1>1 DEF Change4, SameThree
  <2> QED BY <2>1, <2>2, <2>3 DEF SameBranches, Branch, Linkable
<1>4. Rest(d, e, O, F, x) BY <1>0, PtrRest
<1>5. OneLonger(d, f, n, x)
  <2>1. e.log = d.log BY <1>4 DEF Rest, Wired
  <2> QED BY <2>1, IsLonger
<1>6. /\ Direct \in Nat \ {0} /\ Ptrs \in Nat \ {0} /\ Squared \in Nat \ {0}
  BY Geometry
<1>7. PICK Q \in Nat : Q = Ptrs * Squared BY Positions
<1>8. PICK q \in 1 .. Q : q = Pos3(i, j, l) BY <1>7, Positions
<1>9. PICK B \in Nat : B = Direct + Ptrs + Squared BY <1>6
<1>10. PlacedAt(d, f, n, B + q, x)
  <2>1. \A s \in 1 .. Direct : One(f, n, s) = IF s = B + q THEN x ELSE One(d, n, s)
    <3> TAKE s \in 1 .. Direct
    <3>1. s # B + q BY <1>6, <1>7, <1>9
    <3> QED BY <1>0, <1>1, <3>1, LogsPlaces DEF Change4, SameOne
  <2>2. \A k \in Column : Two(f, n, Direct + 1, k) =
          IF Direct + k = B + q THEN x ELSE Two(d, n, Direct + 1, k)
    <3> TAKE k \in Column
    <3>1. Direct + k # B + q BY <1>6, <1>7, <1>9 DEF Column
    <3> QED BY <1>1, <3>1, LogsPlaces DEF Change4, SameTwo
  <2>3. \A k, h \in Column : Three(f, n, Direct + 2, k, h) =
          IF Direct + Ptrs + Pos(k, h, Ptrs) = B + q THEN x ELSE Three(d, n, Direct + 2, k, h)
    <3> TAKE k, h \in Column
    <3>1. PICK p \in 1 .. Squared : p = Pos(k, h, Ptrs) BY Positions
    <3>2. Direct + Ptrs + p # B + q BY <1>6, <1>7, <1>9
    <3> QED BY <1>1, <3>1, <3>2, LogsPlaces DEF Change4, SameThree
  <2>4. \A k, h, g \in Column : Four(f, n, Direct + 3, k, h, g) =
          IF Direct + Ptrs + Squared + Pos3(k, h, g) = B + q THEN x
          ELSE Four(d, n, Direct + 3, k, h, g)
    <3> TAKE k, h, g \in Column
    <3>1. PICK p \in 1 .. Q : p = Pos3(k, h, g) BY <1>7, Positions
    <3>2. B + p = B + q => k = i /\ h = j /\ g = l
      <4> SUFFICES ASSUME B + p = B + q PROVE k = i /\ h = j /\ g = l OBVIOUS
      <4>1. p = q BY <1>7
      <4>2. Pos3(k, h, g) = Pos3(i, j, l) BY <1>8, <3>1, <4>1
      <4> QED BY <4>2, Pos3Apart
    <3> QED BY <1>1, <1>8, <1>9, <3>1, <3>2, LogsPlaces DEF Change4
  <2> QED BY <2>1, <2>2, <2>3, <2>4 DEF PlacedAt
<1>11. InLog(f, n)
  <2>1. B + q \in 1 .. Direct + Ptrs + Squared + Ptrs * Squared BY <1>6, <1>7, <1>9
  <2>2. InLog(d, n) BY DEF Held
  <2>3. B + q = Len(d.log[n]) + 1 BY <1>8, <1>9
  <2> QED BY <1>5, <1>10, <2>1, <2>2, <2>3, PutInLog
<1> QED BY <1>2, <1>3, <1>4, <1>11, PutHeld

-----------------------------------------------------------------------------
\* add_block_to_node.

\* What else a call for inode n leaves as it was.
Beside(d, e, n) ==
  /\ e.lost = d.lost /\ e.nodes = d.nodes /\ e.fault = d.fault
  /\ \A m \in files!Node : m # n => e.log[m] = d.log[m] /\ e.inode[m] = d.inode[m]
  /\ \A m \in files!Node : /\ e.inode[m].type = d.inode[m].type
                           /\ e.inode[m].links = d.inode[m].links
                           /\ e.inode[m].size = d.inode[m].size
  /\ d.used \subseteq e.used /\ \A b \in d.used : e.dir[b] = d.dir[b]

LEMMA BesideTwice ==
  ASSUME NEW d, NEW e, NEW f, NEW n, Beside(d, e, n), Beside(e, f, n)
  PROVE  Beside(d, f, n)
BY DEF Beside

Logged(d, n, x) == [d EXCEPT !.log[n] = Append(@, x)]

\* What adding block x of F to inode n comes to, but for the log.
Went(d, r, O, F, n, x) ==
  /\ DOMAIN r = {"disk", "added"} /\ r.added \in BOOLEAN
  /\ r.added => Held(Logged(r.disk, n, x), O, F \ {x})
  /\ ~r.added => Held(r.disk, O, F)
  /\ Beside(d, r.disk, n) /\ r.disk.log = d.log

LEMMA WentOn ==
  ASSUME NEW d, NEW e, NEW r, NEW O, NEW F, NEW n, NEW x,
         Beside(d, e, n), e.log = d.log, Went(e, r, O, F, n, x)
  PROVE  Went(d, r, O, F, n, x)
BY BesideTwice DEF Went

LEMMA WentAdded ==
  ASSUME NEW d, NEW e, NEW O, NEW F, NEW n, NEW x, Held(Logged(e, n, x), O, F \ {x}),
         Beside(d, e, n), e.log = d.log
  PROVE  Went(d, [disk |-> e, added |-> TRUE], O, F, n, x)
<1>1. PICK r : r = [disk |-> e, added |-> TRUE] OBVIOUS
<1>2. DOMAIN r = {"disk", "added"} /\ r.disk = e /\ r.added = TRUE BY <1>1
<1>3. r.added /\ r.added \in BOOLEAN BY <1>2
<1>4. Went(d, r, O, F, n, x) BY <1>2, <1>3, Zenon DEF Went
<1> QED BY <1>1, <1>4

LEMMA WentNot ==
  ASSUME NEW d, NEW e, NEW O, NEW F, NEW n, NEW x, Held(e, O, F), Beside(d, e, n), e.log = d.log
  PROVE  Went(d, [disk |-> e, added |-> FALSE], O, F, n, x)
<1>1. PICK r : r = [disk |-> e, added |-> FALSE] OBVIOUS
<1>2. DOMAIN r = {"disk", "added"} /\ r.disk = e /\ r.added = FALSE BY <1>1
<1>3. ~r.added /\ r.added \in BOOLEAN BY <1>2
<1>4. Went(d, r, O, F, n, x) BY <1>2, <1>3, Zenon DEF Went
<1> QED BY <1>1, <1>4

LEMMA LoggedIs ==
  ASSUME NEW d, Sound(d), NEW n, NEW x
  PROVE  Sound(Logged(d, n, x)) /\ LogsTo(d, Logged(d, n, x), n, x)
<1>1. PICK e : e = Logged(d, n, x) OBVIOUS
<1>2. Untouched(d, e) /\ e.inode = d.inode /\ e.ptrs = d.ptrs
  BY <1>1 DEF Sound, Counts, Fields, Untouched, Logged
<1>3. Sound(e) BY <1>2, AsideKeeps
<1>4. {"used", "nodes", "inode", "ptrs", "dir", "log", "lost", "fault"} \subseteq DOMAIN d
  BY DEF Sound, Counts, Fields
<1>5. LogsTo(d, e, n, x) BY <1>1, <1>4 DEF LogsTo, Logged
<1> QED BY <1>1, <1>3, <1>5

LEMMA PointsBeside ==
  ASSUME NEW d, NEW e, NEW b, NEW i, NEW x, PtrSet(d, e, b, i, x), NEW n
  PROVE  Beside(d, e, n) /\ e.log = d.log
BY DEF PtrSet, Wired, Beside

LEMMA MapsBeside ==
  ASSUME NEW d, NEW e, NEW n, NEW r, NEW x, MapSet(d, e, n, r, x)
  PROVE  Beside(d, e, n) /\ e.log = d.log
BY DEF MapSet, Wired, Beside

LEMMA TakesBeside ==
  ASSUME NEW d, Sound(d), files!NextBlock(d) # files!Null, NEW n
  PROVE  Beside(d, files!TakeBlock(d), n) /\ files!TakeBlock(d).log = d.log
<1>1. PICK c : c = files!NextBlock(d) OBVIOUS
<1>2. PICK e : e = files!TakeBlock(d) OBVIOUS
<1>3. c \in files!BlockNo \ d.used BY <1>1, NextIsFree DEF Sound
<1>4. Took(d, e, c) BY <1>1, <1>2, TakeFields
<1>5. \A b \in d.used : e.dir[b] = d.dir[b] BY <1>3, <1>4 DEF Took
<1> QED BY <1>2, <1>4, <1>5 DEF Beside, Took, Kin

LEMMA LeastFirst ==
  ASSUME NEW T \in SUBSET Nat, T # {}
  PROVE  files!Least(T) \in T /\ \A y \in T : files!Least(T) <= y
<1>1. \E x \in T : \A y \in T : x <= y BY Smallest
<1> QED BY <1>1 DEF files!Least

\* The first null pointer.
LEMMA FirstNullIs ==
  ASSUME NEW s \in [Column -> files!BlockNo], files!HasNull(s)
  PROVE  /\ files!FirstNull(s) \in Column /\ s[files!FirstNull(s)] = files!Null
         /\ \A k \in 1 .. files!FirstNull(s) - 1 : s[k] # files!Null
<1>1. PICK S : S = {i \in DOMAIN s : s[i] = files!Null} OBVIOUS
<1>2. S \in SUBSET Nat /\ S # {} /\ S \subseteq Column
  BY <1>1, PtrsIs DEF files!HasNull, Column
<1>3. PICK m : m = files!Least(S) OBVIOUS
<1>4. m \in S /\ \A y \in S : m <= y BY <1>2, <1>3, LeastFirst
<1>5. \A k \in 1 .. m - 1 : k \notin S BY <1>2, <1>4
<1>6. \A k \in 1 .. m - 1 : k \in Column BY <1>2, <1>4, PtrsIs DEF Column
<1>7. files!FirstNull(s) = m BY <1>1, <1>3 DEF files!FirstNull
<1> QED BY <1>1, <1>2, <1>4, <1>5, <1>6, <1>7

\* The next free block in hand, for an indirect block.
Taken(d, e, O, F, n, m) ==
  /\ Held(e, O, F \cup {m}) /\ (F \cup {m}) \ {m} = F
  /\ m \in files!BlockNo /\ m # files!Null /\ m \notin d.used
  /\ e.ptrs[m] = files!NoPtrs /\ Leaf(e, m)
  /\ \A b \in files!BlockNo : b # m => e.ptrs[b] = d.ptrs[b]
  /\ e.inode = d.inode /\ e.log = d.log /\ Beside(d, e, n)

LEMMA TakenIs ==
  ASSUME NEW d, NEW O, NEW F, Held(d, O, F), NEW n, NEW m, m = files!NextBlock(d), m # files!Null
  PROVE  Taken(d, files!TakeBlock(d), O, F, n, m)
<1>1. Sound(d) BY DEF Held
<1>2. PICK e : e = files!TakeBlock(d) OBVIOUS
<1>3. /\ Held(e, O, F \cup {m}) /\ m \in files!BlockNo \ d.used /\ e.ptrs[m] = files!NoPtrs
  BY <1>2, TakeHeld
<1>4. Took(d, e, m) BY <1>1, <1>2, TakeFields
<1>5. Clear(d, e, m) BY <1>1, <1>3, <1>4, ClearedPointers DEF Took
<1>6. (F \cup {m}) \ {m} = F BY <1>3 DEF Held, Stock
<1>7. Leaf(e, m) BY <1>3 DEF Leaf, files!NoPtrs, Column
<1>8. Beside(d, e, n) /\ e.log = d.log BY <1>1, <1>2, TakesBeside
<1>9. e.inode = d.inode BY <1>4 DEF Took, Kin
<1> QED BY <1>2, <1>3, <1>5, <1>6, <1>7, <1>8, <1>9 DEF Taken, Clear

\* The log says what the places are that lead to data.
LEMMA LogSlots ==
  ASSUME NEW d, NEW e, NEW n, InLog(d, n), InLog(e, n), e.log[n] = d.log[n]
  PROVE  SameSlots(d, e, n)
BY DEF InLog, SameSlots, SameFour

\* The pointers of a block are null or not.
LEMMA NullOrNot ==
  ASSUME NEW d, Sound(d), NEW b \in files!BlockNo, b # files!Null
  PROVE  /\ d.ptrs[b] \in [Column -> files!BlockNo]
         /\ files!HasNull(d.ptrs[b]) <=> \E k \in Column : files!At(d, b, k) = files!Null
         /\ \A k \in Column : d.ptrs[b][k] = files!At(d, b, k)
<1>1. d.ptrs[b] \in [Column -> files!BlockNo] BY Pointing DEF Column
<1> QED BY <1>1 DEF files!HasNull, files!At

\* Fill1, three times: the data goes into indirect block b of the first level,
\* of the second, of the third.
LEMMA FillTwo ==
  ASSUME NEW d, NEW O, NEW F, Held(d, O, F), NEW x \in F, NEW n \in O,
         NEW b, b = One(d, n, Direct + 1), b # files!Null, files!HasNull(d.ptrs[b]),
         \A r \in 1 .. Direct : One(d, n, r) # files!Null
  PROVE  Went(d, files!Fill1(d, b, x), O, F, n, x)
<1>0. Sound(d) /\ n \in files!Node /\ InLog(d, n) /\ x \in files!BlockNo BY InHand DEF Held
<1>1. Direct + 1 \in Place /\ b \in files!BlockNo
  <2>1. Reached(d, O) BY ReachesBlocks DEF Held
  <2> QED BY <2>1, Geometry DEF Reached
<1>2. /\ d.ptrs[b] \in [Column -> files!BlockNo]
      /\ \A k \in Column : d.ptrs[b][k] = files!At(d, b, k)
  BY <1>0, <1>1, NullOrNot
<1>3. PICK i \in Column : /\ i = files!FirstNull(d.ptrs[b]) /\ d.ptrs[b][i] = files!Null
                          /\ \A k \in 1 .. i - 1 : d.ptrs[b][k] # files!Null
  BY <1>2, FirstNullIs
<1>4. PICK e : e = files!Point(d, b, i, x) OBVIOUS
<1>5. Sound(e) /\ PtrSet(d, e, b, i, x) BY <1>0, <1>1, <1>4, PointSets
<1>6. PICK f : f = Logged(e, n, x) OBVIOUS
<1>7. Sound(f) /\ LogsTo(e, f, n, x) BY <1>5, <1>6, LoggedIs
<1>8. \A k \in 1 .. i - 1 : k \in Column BY PtrsIs DEF Column
<1>9. Two(d, n, Direct + 1, i) = files!Null
      /\ \A k \in 1 .. i - 1 : Two(d, n, Direct + 1, k) # files!Null
  BY <1>2, <1>3, <1>8 DEF Two
<1>10. Direct + i = Len(d.log[n]) + 1 BY <1>0, <1>9, EndsInTwo
<1>11. Held(f, O, F \ {x}) BY <1>5, <1>7, <1>9, <1>10, PutTwo
<1>12. Beside(d, e, n) /\ e.log = d.log BY <1>5, PointsBeside
<1>13. files!Fill1(d, b, x) = [disk |-> e, added |-> TRUE] BY <1>3, <1>4 DEF files!Fill1
<1> QED BY <1>6, <1>11, <1>12, <1>13, WentAdded

LEMMA FillThree ==
  ASSUME NEW d, NEW O, NEW F, Held(d, O, F), NEW x \in F, NEW n \in O, NEW i \in Column,
         NEW b, b = Two(d, n, Direct + 2, i), b # files!Null, files!HasNull(d.ptrs[b]),
         \A k \in Column : Two(d, n, Direct + 1, k) # files!Null,
         \A k \in 1 .. i - 1 : \A h \in Column : Three(d, n, Direct + 2, k, h) # files!Null
  PROVE  Went(d, files!Fill1(d, b, x), O, F, n, x)
<1>0. Sound(d) /\ n \in files!Node /\ InLog(d, n) /\ x \in files!BlockNo BY InHand DEF Held
<1>1. b \in files!BlockNo
  <2>1. Reached(d, O) BY ReachesBlocks DEF Held
  <2> QED BY <2>1, Geometry DEF Reached
<1>2. /\ d.ptrs[b] \in [Column -> files!BlockNo]
      /\ \A k \in Column : d.ptrs[b][k] = files!At(d, b, k)
  BY <1>0, <1>1, NullOrNot
<1>3. PICK j \in Column : /\ j = files!FirstNull(d.ptrs[b]) /\ d.ptrs[b][j] = files!Null
                          /\ \A k \in 1 .. j - 1 : d.ptrs[b][k] # files!Null
  BY <1>2, FirstNullIs
<1>4. PICK e : e = files!Point(d, b, j, x) OBVIOUS
<1>5. Sound(e) /\ PtrSet(d, e, b, j, x) BY <1>0, <1>1, <1>4, PointSets
<1>6. PICK f : f = Logged(e, n, x) OBVIOUS
<1>7. Sound(f) /\ LogsTo(e, f, n, x) BY <1>5, <1>6, LoggedIs
<1>8. \A k \in 1 .. j - 1 : k \in Column BY PtrsIs DEF Column
<1>9. Three(d, n, Direct + 2, i, j) = files!Null
      /\ \A k \in 1 .. j - 1 : Three(d, n, Direct + 2, i, k) # files!Null
  BY <1>2, <1>3, <1>8 DEF Three
<1>10. Direct + Ptrs + Pos(i, j, Ptrs) = Len(d.log[n]) + 1 BY <1>0, <1>9, EndsInThree
<1>11. Held(f, O, F \ {x}) BY <1>5, <1>7, <1>9, <1>10, PutThree
<1>12. Beside(d, e, n) /\ e.log = d.log BY <1>5, PointsBeside
<1>13. files!Fill1(d, b, x) = [disk |-> e, added |-> TRUE] BY <1>3, <1>4 DEF files!Fill1
<1> QED BY <1>6, <1>11, <1>12, <1>13, WentAdded

LEMMA FillFour ==
  ASSUME NEW d, NEW O, NEW F, Held(d, O, F), NEW x \in F, NEW n \in O,
         NEW i \in Column, NEW j \in Column,
         NEW b, b = Three(d, n, Direct + 3, i, j), b # files!Null, files!HasNull(d.ptrs[b]),
         \A k, h \in Column : Three(d, n, Direct + 2, k, h) # files!Null,
         \A k \in 1 .. i - 1 : \A h, g \in Column : Four(d, n, Direct + 3, k, h, g) # files!Null,
         \A h \in 1 .. j - 1 : \A g \in Column : Four(d, n, Direct + 3, i, h, g) # files!Null
  PROVE  Went(d, files!Fill1(d, b, x), O, F, n, x)
<1>0. Sound(d) /\ n \in files!Node /\ InLog(d, n) /\ x \in files!BlockNo BY InHand DEF Held
<1>1. b \in files!BlockNo
  <2>1. Reached(d, O) BY ReachesBlocks DEF Held
  <2> QED BY <2>1, Geometry DEF Reached
<1>2. /\ d.ptrs[b] \in [Column -> files!BlockNo]
      /\ \A k \in Column : d.ptrs[b][k] = files!At(d, b, k)
  BY <1>0, <1>1, NullOrNot
<1>3. PICK l \in Column : /\ l = files!FirstNull(d.ptrs[b]) /\ d.ptrs[b][l] = files!Null
                          /\ \A k \in 1 .. l - 1 : d.ptrs[b][k] # files!Null
  BY <1>2, FirstNullIs
<1>4. PICK e : e = files!Point(d, b, l, x) OBVIOUS
<1>5. Sound(e) /\ PtrSet(d, e, b, l, x) BY <1>0, <1>1, <1>4, PointSets
<1>6. PICK f : f = Logged(e, n, x) OBVIOUS
<1>7. Sound(f) /\ LogsTo(e, f, n, x) BY <1>5, <1>6, LoggedIs
<1>8. \A k \in 1 .. l - 1 : k \in Column BY PtrsIs DEF Column
<1>9. Four(d, n, Direct + 3, i, j, l) = files!Null
      /\ \A k \in 1 .. l - 1 : Four(d, n, Direct + 3, i, j, k) # files!Null
  BY <1>2, <1>3, <1>8 DEF Four
<1>10. Direct + Ptrs + Squared + Pos3(i, j, l) = Len(d.log[n]) + 1 BY <1>0, <1>9, EndsInFour
<1>11. Held(f, O, F \ {x}) BY <1>5, <1>7, <1>10, PutFour
<1>12. Beside(d, e, n) /\ e.log = d.log BY <1>5, PointsBeside
<1>13. files!Fill1(d, b, x) = [disk |-> e, added |-> TRUE] BY <1>3, <1>4 DEF files!Fill1
<1> QED BY <1>6, <1>11, <1>12, <1>13, WentAdded

\* There is room where a place is null.
LEMMA Rooms ==
  ASSUME NEW d, Sound(d), NEW b \in files!BlockNo
  PROVE  /\ files!Room1(d, b) <=> \E i \in Column : files!At(d, b, i) = files!Null
         /\ files!Room2(d, b) <=>
              \E i, j \in Column : files!At(d, files!At(d, b, i), j) = files!Null
         /\ files!Room3(d, b) <=>
              \E i, j, l \in Column :
                files!At(d, files!At(d, files!At(d, b, i), j), l) = files!Null
<1>1. 1 \in Column BY PtrsIs DEF Column
<1>2. \A c : c = files!Null => \A i : files!At(d, c, i) = files!Null BY DEF files!At
<1>3. ASSUME NEW c \in files!BlockNo
      PROVE  files!Room1(d, c) <=> \E i \in Column : files!At(d, c, i) = files!Null
  <2>1. CASE c = files!Null BY <1>1, <1>2, <2>1 DEF files!Room1
  <2>2. CASE c # files!Null
    <3>1. files!HasNull(d.ptrs[c]) <=> \E k \in Column : files!At(d, c, k) = files!Null
      BY <2>2, NullOrNot
    <3> QED BY <2>2, <3>1 DEF files!Room1
  <2> QED BY <2>1, <2>2
<1>4. \A c \in files!BlockNo : \A i \in Column : files!At(d, c, i) \in files!BlockNo
  BY AtIsBlock DEF Column
<1>5. ASSUME NEW c \in files!BlockNo
      PROVE  files!Room2(d, c) <=>
               \E i, j \in Column : files!At(d, files!At(d, c, i), j) = files!Null
  <2>1. CASE c = files!Null BY <1>1, <1>2, <2>1 DEF files!Room2
  <2>2. CASE c # files!Null
    <3>1. \A i \in Column : d.ptrs[c][i] = files!At(d, c, i) BY <2>2, NullOrNot
    <3>2. files!Room2(d, c) <=> \E i \in Column : files!Room1(d, files!At(d, c, i))
      BY <2>2, <3>1 DEF files!Room2, Column
    <3> QED BY <1>3, <1>4, <3>2
  <2> QED BY <2>1, <2>2
<1>6. files!Room3(d, b) <=>
        \E i, j, l \in Column : files!At(d, files!At(d, files!At(d, b, i), j), l) = files!Null
  <2>1. CASE b = files!Null BY <1>1, <1>2, <2>1 DEF files!Room3
  <2>2. CASE b # files!Null
    <3>1. \A i \in Column : d.ptrs[b][i] = files!At(d, b, i) BY <2>2, NullOrNot
    <3>2. files!Room3(d, b) <=> \E i \in Column : files!Room2(d, files!At(d, b, i))
      BY <2>2, <3>1 DEF files!Room3, Column
    <3> QED BY <1>4, <1>5, <3>2
  <2> QED BY <2>1, <2>2
<1> QED BY <1>3, <1>5, <1>6

\* Which of the pointers of block b the next level goes on with: the first with
\* room behind it.
LEMMA FirstRoom ==
  ASSUME NEW d, Sound(d), NEW b \in files!BlockNo, b # files!Null,
         \E i, j \in Column : files!At(d, files!At(d, b, i), j) = files!Null
  PROVE  \E i \in Column :
           /\ i = files!Least({k \in 1 .. Ptrs : files!Room1(d, d.ptrs[b][k])})
           /\ \E j \in Column : files!At(d, files!At(d, b, i), j) = files!Null
           /\ \A k \in 1 .. i - 1 : \A h \in Column :
                files!At(d, files!At(d, b, k), h) # files!Null
<1>1. \A k \in Column : d.ptrs[b][k] = files!At(d, b, k) /\ files!At(d, b, k) \in files!BlockNo
  BY NullOrNot, AtIsBlock DEF Column
<1>2. PICK S : S = {k \in 1 .. Ptrs : files!Room1(d, d.ptrs[b][k])} OBVIOUS
<1>3. \A k : k \in S <=> k \in Column /\ \E h \in Column : files!At(d, files!At(d, b, k), h) = files!Null
  BY <1>1, <1>2, Rooms DEF Column
<1>4. S \in SUBSET Nat /\ S # {} /\ S \subseteq Column BY <1>2, <1>3, PtrsIs DEF Column
<1>5. PICK i : i = files!Least(S) OBVIOUS
<1>6. i \in S /\ \A k \in S : i <= k BY <1>4, <1>5, LeastFirst
<1>7. \A k \in 1 .. i - 1 : k \in Column /\ k \notin S BY <1>4, <1>6, PtrsIs DEF Column
<1>8. i \in Column /\ i = files!Least({k \in 1 .. Ptrs : files!Room1(d, d.ptrs[b][k])})
  BY <1>2, <1>4, <1>5, <1>6
<1> QED BY <1>3, <1>6, <1>7, <1>8

LEMMA FirstRoomy ==
  ASSUME NEW d, Sound(d), NEW b \in files!BlockNo, b # files!Null,
         \E i, j, l \in Column : files!At(d, files!At(d, files!At(d, b, i), j), l) = files!Null
  PROVE  \E i \in Column :
           /\ i = files!Least({k \in 1 .. Ptrs : files!Room2(d, d.ptrs[b][k])})
           /\ \E j, l \in Column : files!At(d, files!At(d, files!At(d, b, i), j), l) = files!Null
           /\ \A k \in 1 .. i - 1 : \A h, g \in Column :
                files!At(d, files!At(d, files!At(d, b, k), h), g) # files!Null
<1>1. \A k \in Column : d.ptrs[b][k] = files!At(d, b, k) /\ files!At(d, b, k) \in files!BlockNo
  BY NullOrNot, AtIsBlock DEF Column
<1>2. PICK S : S = {k \in 1 .. Ptrs : files!Room2(d, d.ptrs[b][k])} OBVIOUS
<1>3. \A k : k \in S <=>
        k \in Column /\ \E h, g \in Column : files!At(d, files!At(d, files!At(d, b, k), h), g) = files!Null
  BY <1>1, <1>2, Rooms DEF Column
<1>4. S \in SUBSET Nat /\ S # {} /\ S \subseteq Column BY <1>2, <1>3, PtrsIs DEF Column
<1>5. PICK i : i = files!Least(S) OBVIOUS
<1>6. i \in S /\ \A k \in S : i <= k BY <1>4, <1>5, LeastFirst
<1>7. \A k \in 1 .. i - 1 : k \in Column /\ k \notin S BY <1>4, <1>6, PtrsIs DEF Column
<1>8. i \in Column /\ i = files!Least({k \in 1 .. Ptrs : files!Room2(d, d.ptrs[b][k])})
  BY <1>2, <1>4, <1>5, <1>6
<1> QED BY <1>3, <1>6, <1>7, <1>8

\* Fill2, twice: through the block of inode n, and through one below it.
LEMMA GrowTwo ==
  ASSUME NEW d, NEW O, NEW F, Held(d, O, F), NEW x \in F, NEW n \in O,
         NEW b, b = One(d, n, Direct + 2), b # files!Null,
         \E i, j \in Column : Three(d, n, Direct + 2, i, j) = files!Null,
         \A k \in Column : Two(d, n, Direct + 1, k) # files!Null
  PROVE  Went(d, files!Fill2(d, b, x), O, F, n, x)
<1>0. Sound(d) /\ n \in files!Node /\ InLog(d, n) /\ x \in files!BlockNo BY InHand DEF Held
<1>1. Direct + 2 \in Place /\ b \in files!BlockNo
  <2>1. Reached(d, O) BY ReachesBlocks DEF Held
  <2> QED BY <2>1, Geometry DEF Reached
<1>2. \A i \in Column : Two(d, n, Direct + 2, i) = files!At(d, b, i) BY DEF Two
<1>3. \A i, j \in Column : Three(d, n, Direct + 2, i, j) = files!At(d, files!At(d, b, i), j)
  BY <1>2 DEF Three
<1>4. PICK i \in Column :
        /\ i = files!Least({k \in 1 .. Ptrs : files!Room1(d, d.ptrs[b][k])})
        /\ \E j \in Column : Three(d, n, Direct + 2, i, j) = files!Null
        /\ \A k \in 1 .. i - 1 : \A h \in Column : Three(d, n, Direct + 2, k, h) # files!Null
  <2>1. \E k, j \in Column : files!At(d, files!At(d, b, k), j) = files!Null BY <1>3
  <2>2. PICK i \in Column :
          /\ i = files!Least({k \in 1 .. Ptrs : files!Room1(d, d.ptrs[b][k])})
          /\ \E j \in Column : files!At(d, files!At(d, b, i), j) = files!Null
          /\ \A k \in 1 .. i - 1 : \A h \in Column :
               files!At(d, files!At(d, b, k), h) # files!Null
    BY <1>0, <1>1, <2>1, FirstRoom
  <2>3. \A k \in 1 .. i - 1 : k \in Column BY PtrsIs DEF Column
  <2> QED BY <1>3, <2>2, <2>3
<1>5. PICK c : c = d.ptrs[b][i] OBVIOUS
<1>6. c = Two(d, n, Direct + 2, i) /\ c \in files!BlockNo
  <2>1. c = files!At(d, b, i) BY <1>5 DEF files!At
  <2> QED BY <1>0, <1>1, <1>2, <2>1, AtIsBlock DEF Column
<1>7. PICK m : m = files!NextBlock(d) OBVIOUS
<1>8. files!Fill2(d, b, x) =
        IF c # files!Null THEN files!Fill1(d, c, x)
        ELSE IF m = files!Null THEN [disk |-> d, added |-> FALSE]
        ELSE files!Fill1(files!Point(files!TakeBlock(d), b, i, m), m, x)
  BY <1>4, <1>5, <1>7 DEF files!Fill2, files!Through
<1>9. CASE c # files!Null
  <2>1. files!HasNull(d.ptrs[c])
    <3>1. \E j \in Column : files!At(d, c, j) = files!Null BY <1>4, <1>6 DEF Three
    <3> QED BY <1>0, <1>6, <1>9, <3>1, NullOrNot
  <2>2. Went(d, files!Fill1(d, c, x), O, F, n, x) BY <1>4, <1>6, <1>9, <2>1, FillThree
  <2> QED BY <1>8, <1>9, <2>2
<1>10. CASE c = files!Null /\ m = files!Null
  <2>1. Beside(d, d, n) BY DEF Beside
  <2> QED BY <1>8, <1>10, <2>1, WentNot
<1>11. CASE c = files!Null /\ m # files!Null
  <2>1. PICK d1 : d1 = files!TakeBlock(d) OBVIOUS
  <2>2. Taken(d, d1, O, F, n, m) BY <1>7, <1>11, <2>1, TakenIs
  <2>3. PICK d2 : d2 = files!Point(d1, b, i, m) OBVIOUS
  <2>4. Sound(d1) /\ m \in files!BlockNo /\ m \in F \cup {m} BY <2>2 DEF Taken, Held
  <2>5. Sound(d2) /\ PtrSet(d1, d2, b, i, m) BY <1>1, <2>3, <2>4, PointSets
  <2>6. b # m
    <3>1. Branch(d, n, b) BY DEF Branch
    <3> QED BY <2>2, <3>1, BranchInUse DEF Taken
  <2>7. b = One(d1, n, Direct + 2) /\ Two(d1, n, Direct + 2, i) = files!Null
    <3>1. b = One(d1, n, Direct + 2) BY <2>2 DEF Taken, One
    <3>2. d1.ptrs[b] = d.ptrs[b] BY <1>1, <2>2, <2>6 DEF Taken
    <3> QED BY <1>5, <1>11, <3>1, <3>2 DEF Two, files!At
  <2>8. Held(d2, O, F)
    <3>1. PICK r \in {Direct + 2, Direct + 3} : r = Direct + 2 OBVIOUS
    <3>2. Held(d2, O, (F \cup {m}) \ {m}) BY <2>2, <2>4, <2>5, <2>7, <3>1, LinkTwo DEF Taken
    <3> QED BY <2>2, <3>2 DEF Taken
  <2>9. Beside(d, d2, n) /\ d2.log = d.log
    <3>1. Beside(d1, d2, n) /\ d2.log = d1.log BY <2>5, PointsBeside
    <3> QED BY <2>2, <3>1, BesideTwice DEF Taken
  <2>10. SameSlots(d, d2, n)
    <3>1. InLog(d2, n) BY <2>8 DEF Held
    <3> QED BY <1>0, <2>9, <3>1, LogSlots
  <2>11. m = Two(d2, n, Direct + 2, i)
    <3>1. b = One(d2, n, Direct + 2) BY <2>5, <2>7 DEF PtrSet, One
    <3>2. d2.ptrs[b][i] = m BY <2>5 DEF PtrSet
    <3> QED BY <3>1, <3>2 DEF Two, files!At
  <2>12. files!HasNull(d2.ptrs[m]) /\ m # files!Null
    <3>1. d2.ptrs[m] = files!NoPtrs BY <2>2, <2>5, <2>6 DEF Taken, PtrSet
    <3>2. 1 \in 1 .. Ptrs BY PtrsIs
    <3> QED BY <2>2, <3>1, <3>2 DEF files!HasNull, files!NoPtrs, Taken
  <2>13. \A k \in Column : Two(d2, n, Direct + 1, k) # files!Null BY <2>10 DEF SameSlots
  <2>14. \A k \in 1 .. i - 1 : \A h \in Column : Three(d2, n, Direct + 2, k, h) # files!Null
    <3>1. \A k \in 1 .. i - 1 : k \in Column BY PtrsIs DEF Column
    <3> QED BY <1>4, <2>10, <3>1 DEF SameSlots
  <2>15. Went(d2, files!Fill1(d2, m, x), O, F, n, x)
    BY <2>8, <2>11, <2>12, <2>13, <2>14, FillThree
  <2>16. Went(d, files!Fill1(d2, m, x), O, F, n, x) BY <2>9, <2>15, WentOn
  <2> QED BY <1>8, <1>11, <2>1, <2>3, <2>16
<1> QED BY <1>9, <1>10, <1>11

LEMMA GrowThree ==
  ASSUME NEW d, NEW O, NEW F, Held(d, O, F), NEW x \in F, NEW n \in O, NEW i \in Column,
         NEW b, b = Two(d, n, Direct + 3, i), b # files!Null,
         \E j, l \in Column : Four(d, n, Direct + 3, i, j, l) = files!Null,
         \A k, h \in Column : Three(d, n, Direct + 2, k, h) # files!Null,
         \A k \in 1 .. i - 1 : \A h, g \in Column : Four(d, n, Direct + 3, k, h, g) # files!Null
  PROVE  Went(d, files!Fill2(d, b, x), O, F, n, x)
<1>0. Sound(d) /\ n \in files!Node /\ InLog(d, n) /\ x \in files!BlockNo BY InHand DEF Held
<1>1. Direct + 3 \in Place /\ b \in files!BlockNo
  <2>1. Reached(d, O) BY ReachesBlocks DEF Held
  <2> QED BY <2>1, Geometry DEF Reached
<1>2. \A j \in Column : Three(d, n, Direct + 3, i, j) = files!At(d, b, j) BY DEF Three
<1>3. \A j, l \in Column : Four(d, n, Direct + 3, i, j, l) = files!At(d, files!At(d, b, j), l)
  BY <1>2 DEF Four
<1>4. PICK j \in Column :
        /\ j = files!Least({k \in 1 .. Ptrs : files!Room1(d, d.ptrs[b][k])})
        /\ \E l \in Column : Four(d, n, Direct + 3, i, j, l) = files!Null
        /\ \A k \in 1 .. j - 1 : \A h \in Column : Four(d, n, Direct + 3, i, k, h) # files!Null
  <2>1. \E k, l \in Column : files!At(d, files!At(d, b, k), l) = files!Null BY <1>3
  <2>2. PICK j \in Column :
          /\ j = files!Least({k \in 1 .. Ptrs : files!Room1(d, d.ptrs[b][k])})
          /\ \E l \in Column : files!At(d, files!At(d, b, j), l) = files!Null
          /\ \A k \in 1 .. j - 1 : \A h \in Column :
               files!At(d, files!At(d, b, k), h) # files!Null
    BY <1>0, <1>1, <2>1, FirstRoom
  <2>3. \A k \in 1 .. j - 1 : k \in Column BY PtrsIs DEF Column
  <2> QED BY <1>3, <2>2, <2>3
<1>5. PICK c : c = d.ptrs[b][j] OBVIOUS
<1>6. c = Three(d, n, Direct + 3, i, j) /\ c \in files!BlockNo
  <2>1. c = files!At(d, b, j) BY <1>5 DEF files!At
  <2> QED BY <1>0, <1>1, <1>2, <2>1, AtIsBlock DEF Column
<1>7. PICK m : m = files!NextBlock(d) OBVIOUS
<1>8. files!Fill2(d, b, x) =
        IF c # files!Null THEN files!Fill1(d, c, x)
        ELSE IF m = files!Null THEN [disk |-> d, added |-> FALSE]
        ELSE files!Fill1(files!Point(files!TakeBlock(d), b, j, m), m, x)
  BY <1>4, <1>5, <1>7 DEF files!Fill2, files!Through
<1>9. CASE c # files!Null
  <2>1. files!HasNull(d.ptrs[c])
    <3>1. \E l \in Column : files!At(d, c, l) = files!Null BY <1>4, <1>6 DEF Four
    <3> QED BY <1>0, <1>6, <1>9, <3>1, NullOrNot
  <2>2. Went(d, files!Fill1(d, c, x), O, F, n, x) BY <1>4, <1>6, <1>9, <2>1, FillFour
  <2> QED BY <1>8, <1>9, <2>2
<1>10. CASE c = files!Null /\ m = files!Null
  <2>1. Beside(d, d, n) BY DEF Beside
  <2> QED BY <1>8, <1>10, <2>1, WentNot
<1>11. CASE c = files!Null /\ m # files!Null
  <2>1. PICK d1 : d1 = files!TakeBlock(d) OBVIOUS
  <2>2. Taken(d, d1, O, F, n, m) BY <1>7, <1>11, <2>1, TakenIs
  <2>3. PICK d2 : d2 = files!Point(d1, b, j, m) OBVIOUS
  <2>4. Sound(d1) /\ m \in files!BlockNo /\ m \in F \cup {m} BY <2>2 DEF Taken, Held
  <2>5. Sound(d2) /\ PtrSet(d1, d2, b, j, m) BY <1>1, <2>3, <2>4, PointSets
  <2>6. b # m
    <3>1. Branch(d, n, b) BY DEF Branch
    <3> QED BY <2>2, <3>1, BranchInUse DEF Taken
  <2>7. b = Two(d1, n, Direct + 3, i) /\ Three(d1, n, Direct + 3, i, j) = files!Null
    <3>1. PICK u : u = One(d, n, Direct + 3) OBVIOUS
    <3>2. u # files!Null /\ u # m /\ u \in files!BlockNo
      <4>1. u # files!Null BY <3>1 DEF Two, files!At
      <4>2. Branch(d, n, u) BY <3>1, <4>1 DEF Branch
      <4> QED BY <2>2, <4>1, <4>2, BranchInUse DEF Taken
    <3>3. u = One(d1, n, Direct + 3) BY <2>2, <3>1 DEF Taken, One
    <3>4. d1.ptrs[b] = d.ptrs[b] /\ d1.ptrs[u] = d.ptrs[u] BY <1>1, <2>2, <2>6, <3>2 DEF Taken
    <3>5. b = Two(d1, n, Direct + 3, i) BY <3>1, <3>2, <3>3, <3>4 DEF Two, files!At
    <3> QED BY <1>5, <1>11, <3>4, <3>5 DEF Three, files!At
  <2>8. Held(d2, O, F)
    <3>1. Held(d2, O, (F \cup {m}) \ {m}) BY <2>2, <2>4, <2>5, <2>7, LinkThree DEF Taken
    <3> QED BY <2>2, <3>1 DEF Taken
  <2>9. Beside(d, d2, n) /\ d2.log = d.log
    <3>1. Beside(d1, d2, n) /\ d2.log = d1.log BY <2>5, PointsBeside
    <3> QED BY <2>2, <3>1, BesideTwice DEF Taken
  <2>10. SameSlots(d, d2, n)
    <3>1. InLog(d2, n) BY <2>8 DEF Held
    <3> QED BY <1>0, <2>9, <3>1, LogSlots
  <2>11. m = Three(d2, n, Direct + 3, i, j)
    <3>1. One(d2, n, Direct + 3) = One(d1, n, Direct + 3) BY <2>5 DEF PtrSet, One
    <3>2. PICK u : u = One(d1, n, Direct + 3) OBVIOUS
    <3>3. u # b /\ u \in files!BlockNo
      <4>1. Reached(d1, O) /\ Unshared(d1, O)
        BY <2>2, ReachesBlocks DEF Held, Taken
      <4>2. Apart(d1, O) BY <4>1, AreApart
      <4>3. u # files!Null BY <2>7, <3>2 DEF Two, files!At
      <4> QED BY <1>1, <2>7, <3>2, <4>1, <4>2, <4>3 DEF Apart, OneOthers, Reached
    <3>4. b = Two(d2, n, Direct + 3, i)
      BY <2>5, <2>7, <3>1, <3>2, <3>3 DEF Two, files!At, PtrSet
    <3>5. d2.ptrs[b][j] = m BY <2>5 DEF PtrSet
    <3> QED BY <3>4, <3>5 DEF Three, files!At
  <2>12. files!HasNull(d2.ptrs[m]) /\ m # files!Null
    <3>1. d2.ptrs[m] = files!NoPtrs BY <2>2, <2>5, <2>6 DEF Taken, PtrSet
    <3>2. 1 \in 1 .. Ptrs BY PtrsIs
    <3> QED BY <2>2, <3>1, <3>2 DEF files!HasNull, files!NoPtrs, Taken
  <2>13. \A k, h \in Column : Three(d2, n, Direct + 2, k, h) # files!Null BY <2>10 DEF SameSlots
  <2>14. \A k \in 1 .. i - 1 : \A h, g \in Column : Four(d2, n, Direct + 3, k, h, g) # files!Null
    <3>1. \A k \in 1 .. i - 1 : k \in Column BY PtrsIs DEF Column
    <3> QED BY <2>10, <3>1 DEF SameSlots, SameFour
  <2>15. \A k \in 1 .. j - 1 : \A g \in Column : Four(d2, n, Direct + 3, i, k, g) # files!Null
    <3>1. \A k \in 1 .. j - 1 : k \in Column BY PtrsIs DEF Column
    <3> QED BY <1>4, <2>10, <3>1 DEF SameSlots, SameFour
  <2>16. Went(d2, files!Fill1(d2, m, x), O, F, n, x)
    BY <2>8, <2>11, <2>12, <2>13, <2>14, <2>15, FillFour
  <2>17. Went(d, files!Fill1(d2, m, x), O, F, n, x) BY <2>9, <2>16, WentOn
  <2> QED BY <1>8, <1>11, <2>1, <2>3, <2>17
<1> QED BY <1>9, <1>10, <1>11

\* Fill3.
LEMMA GrowFour ==
  ASSUME NEW d, NEW O, NEW F, Held(d, O, F), NEW x \in F, NEW n \in O,
         NEW b, b = One(d, n, Direct + 3), b # files!Null,
         \E i, j, l \in Column : Four(d, n, Direct + 3, i, j, l) = files!Null,
         \A k, h \in Column : Three(d, n, Direct + 2, k, h) # files!Null
  PROVE  Went(d, files!Fill3(d, b, x), O, F, n, x)
<1>0. Sound(d) /\ n \in files!Node /\ InLog(d, n) /\ x \in files!BlockNo BY InHand DEF Held
<1>1. Direct + 3 \in Place /\ b \in files!BlockNo
  <2>1. Reached(d, O) BY ReachesBlocks DEF Held
  <2> QED BY <2>1, Geometry DEF Reached
<1>2. \A i \in Column : Two(d, n, Direct + 3, i) = files!At(d, b, i) BY DEF Two
<1>3. \A i, j, l \in Column :
        Four(d, n, Direct + 3, i, j, l) = files!At(d, files!At(d, files!At(d, b, i), j), l)
  BY <1>2 DEF Three, Four
<1>4. PICK i \in Column :
        /\ i = files!Least({k \in 1 .. Ptrs : files!Room2(d, d.ptrs[b][k])})
        /\ \E j, l \in Column : Four(d, n, Direct + 3, i, j, l) = files!Null
        /\ \A k \in 1 .. i - 1 : \A h, g \in Column : Four(d, n, Direct + 3, k, h, g) # files!Null
  <2>1. \E k, j, l \in Column : files!At(d, files!At(d, files!At(d, b, k), j), l) = files!Null
    BY <1>3
  <2>2. PICK i \in Column :
          /\ i = files!Least({k \in 1 .. Ptrs : files!Room2(d, d.ptrs[b][k])})
          /\ \E j, l \in Column : files!At(d, files!At(d, files!At(d, b, i), j), l) = files!Null
          /\ \A k \in 1 .. i - 1 : \A h, g \in Column :
               files!At(d, files!At(d, files!At(d, b, k), h), g) # files!Null
    BY <1>0, <1>1, <2>1, FirstRoomy
  <2>3. \E j, l \in Column : Four(d, n, Direct + 3, i, j, l) = files!Null
    <3>1. PICK j \in Column, l \in Column :
            files!At(d, files!At(d, files!At(d, b, i), j), l) = files!Null
      BY <2>2
    <3>2. Four(d, n, Direct + 3, i, j, l) = files!Null BY <1>3, <3>1
    <3> QED BY <3>2
  <2>4. ASSUME NEW k \in 1 .. i - 1, NEW h \in Column, NEW g \in Column
        PROVE  Four(d, n, Direct + 3, k, h, g) # files!Null
    <3>1. k \in Column BY PtrsIs DEF Column
    <3>2. files!At(d, files!At(d, files!At(d, b, k), h), g) # files!Null BY <2>2
    <3> QED BY <1>3, <3>1, <3>2
  <2> QED BY <2>2, <2>3, <2>4
<1>5. PICK c : c = d.ptrs[b][i] OBVIOUS
<1>6. c = Two(d, n, Direct + 3, i)
  <2>1. c = files!At(d, b, i) BY <1>5 DEF files!At
  <2> QED BY <1>2, <2>1
<1>7. PICK m : m = files!NextBlock(d) OBVIOUS
<1>8. files!Fill3(d, b, x) =
        IF c # files!Null THEN files!Fill2(d, c, x)
        ELSE IF m = files!Null THEN [disk |-> d, added |-> FALSE]
        ELSE files!Fill2(files!Point(files!TakeBlock(d), b, i, m), m, x)
  BY <1>4, <1>5, <1>7 DEF files!Fill3, files!Through
<1>9. CASE c # files!Null
  <2>1. Went(d, files!Fill2(d, c, x), O, F, n, x) BY <1>4, <1>6, <1>9, GrowThree
  <2> QED BY <1>8, <1>9, <2>1
<1>10. CASE c = files!Null /\ m = files!Null
  <2>1. Beside(d, d, n) BY DEF Beside
  <2> QED BY <1>8, <1>10, <2>1, WentNot
<1>11. CASE c = files!Null /\ m # files!Null
  <2>1. PICK d1 : d1 = files!TakeBlock(d) OBVIOUS
  <2>2. Taken(d, d1, O, F, n, m) BY <1>7, <1>11, <2>1, TakenIs
  <2>3. PICK d2 : d2 = files!Point(d1, b, i, m) OBVIOUS
  <2>4. Sound(d1) /\ m \in files!BlockNo /\ m \in F \cup {m} BY <2>2 DEF Taken, Held
  <2>5. Sound(d2) /\ PtrSet(d1, d2, b, i, m) BY <1>1, <2>3, <2>4, PointSets
  <2>6. b # m
    <3>1. Branch(d, n, b) BY DEF Branch
    <3> QED BY <2>2, <3>1, BranchInUse DEF Taken
  <2>7. b = One(d1, n, Direct + 3) /\ Two(d1, n, Direct + 3, i) = files!Null
    <3>1. b = One(d1, n, Direct + 3) BY <2>2 DEF Taken, One
    <3>2. d1.ptrs[b] = d.ptrs[b] BY <1>1, <2>2, <2>6 DEF Taken
    <3> QED BY <1>5, <1>11, <3>1, <3>2 DEF Two, files!At
  <2>8. Held(d2, O, F)
    <3>1. PICK r \in {Direct + 2, Direct + 3} : r = Direct + 3 OBVIOUS
    <3>2. Held(d2, O, (F \cup {m}) \ {m}) BY <2>2, <2>4, <2>5, <2>7, <3>1, LinkTwo DEF Taken
    <3> QED BY <2>2, <3>2 DEF Taken
  <2>9. Beside(d, d2, n) /\ d2.log = d.log
    <3>1. Beside(d1, d2, n) /\ d2.log = d1.log BY <2>5, PointsBeside
    <3> QED BY <2>2, <3>1, BesideTwice DEF Taken
  <2>10. SameSlots(d, d2, n)
    <3>1. InLog(d2, n) BY <2>8 DEF Held
    <3> QED BY <1>0, <2>9, <3>1, LogSlots
  <2>11. m = Two(d2, n, Direct + 3, i)
    <3>1. b = One(d2, n, Direct + 3) BY <2>5, <2>7 DEF PtrSet, One
    <3>2. d2.ptrs[b][i] = m BY <2>5 DEF PtrSet
    <3> QED BY <3>1, <3>2 DEF Two, files!At
  <2>12. m # files!Null BY <2>2 DEF Taken
  <2>13. \A k, h \in Column : Three(d2, n, Direct + 2, k, h) # files!Null BY <2>10 DEF SameSlots
  <2>14. \A k \in 1 .. i - 1 : \A h, g \in Column : Four(d2, n, Direct + 3, k, h, g) # files!Null
    <3>1. \A k \in 1 .. i - 1 : k \in Column BY PtrsIs DEF Column
    <3> QED BY <1>4, <2>10, <3>1 DEF SameSlots, SameFour
  <2>15. \E j, l \in Column : Four(d2, n, Direct + 3, i, j, l) = files!Null
    <3>1. PICK j \in Column, l \in Column : Four(d, n, Direct + 3, i, j, l) = files!Null BY <1>4
    <3>2. Four(d2, n, Direct + 3, i, j, l) = files!Null BY <2>10, <3>1 DEF SameSlots, SameFour
    <3> QED BY <3>2
  <2>16. Went(d2, files!Fill2(d2, m, x), O, F, n, x)
    BY <2>8, <2>11, <2>12, <2>13, <2>14, <2>15, GrowThree
  <2>17. Went(d, files!Fill2(d2, m, x), O, F, n, x) BY <2>9, <2>16, WentOn
  <2> QED BY <1>8, <1>11, <2>1, <2>3, <2>17
<1> QED BY <1>9, <1>10, <1>11

\* The first indirect block of a level: linked to the inode, with no pointers yet.
LinkedTo(d, e, O, F, n, r, m) ==
  /\ Held(e, O, F) /\ Beside(d, e, n) /\ e.log = d.log
  /\ One(e, n, r) = m /\ m # files!Null /\ m \in files!BlockNo /\ e.ptrs[m] = files!NoPtrs
  /\ SameSlots(d, e, n)

LEMMA LinksTo ==
  ASSUME NEW d, NEW O, NEW F, Held(d, O, F), NEW n \in O, NEW r \in Linkable,
         One(d, n, r) = files!Null, NEW m, m = files!NextBlock(d), m # files!Null
  PROVE  LinkedTo(d, files!MapTo(files!TakeBlock(d), n, r, m), O, F, n, r, m)
<1>0. Sound(d) /\ n \in files!Node /\ InLog(d, n) /\ r \in Place
  BY Geometry DEF Held, Linkable
<1>1. PICK d1 : d1 = files!TakeBlock(d) OBVIOUS
<1>2. Taken(d, d1, O, F, n, m) BY <1>1, TakenIs
<1>3. PICK d2 : d2 = files!MapTo(d1, n, r, m) OBVIOUS
<1>4. Sound(d1) /\ m \in files!BlockNo /\ m \in F \cup {m} BY <1>2 DEF Taken, Held
<1>5. Sound(d2) /\ MapSet(d1, d2, n, r, m) BY <1>0, <1>3, <1>4, MapSets
<1>6. One(d1, n, r) = files!Null BY <1>2 DEF Taken, One
<1>7. Held(d2, O, F)
  <2>1. Held(d2, O, (F \cup {m}) \ {m}) BY <1>2, <1>4, <1>5, <1>6, LinkOne DEF Taken
  <2> QED BY <1>2, <2>1 DEF Taken
<1>8. Beside(d, d2, n) /\ d2.log = d.log
  <2>1. Beside(d1, d2, n) /\ d2.log = d1.log BY <1>5, MapsBeside
  <2> QED BY <1>2, <2>1, BesideTwice DEF Taken
<1>9. SameSlots(d, d2, n)
  <2>1. InLog(d2, n) BY <1>7 DEF Held
  <2> QED BY <1>0, <1>8, <2>1, LogSlots
<1>10. One(d2, n, r) = m /\ d2.ptrs[m] = files!NoPtrs BY <1>2, <1>5 DEF MapSet, Taken
<1> QED BY <1>1, <1>3, <1>4, <1>7, <1>8, <1>9, <1>10 DEF LinkedTo

\* AddBlock, with the log.
AddedTo(d, e, O, F, n, x) ==
  Held(e, O, F) /\ Beside(d, e, n) /\ e.log[n] = Append(d.log[n], x)
NotAdded(d, e, O, F, n) == Held(e, O, F) /\ Beside(d, e, n) /\ e.log = d.log
Added(d, r, O, F, n, x) ==
  /\ DOMAIN r = {"disk", "added"} /\ r.added \in BOOLEAN
  /\ r.added => AddedTo(d, r.disk, O, F \ {x}, n, x)
  /\ ~r.added => r.disk.fault # "none" \/ NotAdded(d, r.disk, O, F, n)

LEMMA LogsBeside ==
  ASSUME NEW d, NEW e, NEW n \in files!Node, NEW x, LogsTo(d, e, n, x), DOMAIN d.log = files!Node
  PROVE  Beside(d, e, n) /\ e.log[n] = Append(d.log[n], x)
BY DEF LogsTo, Beside

LEMMA WentSound ==
  ASSUME NEW d, NEW r, NEW O, NEW F, NEW n, NEW x, Went(d, r, O, F, n, x)
  PROVE  Sound(r.disk)
<1>1. CASE r.added
  <2>1. PICK e : e = Logged(r.disk, n, x) OBVIOUS
  <2>2. Sound(e) BY <1>1, <2>1 DEF Went, Held
  <2>3. Untouched(e, r.disk) /\ r.disk.inode = e.inode /\ r.disk.ptrs = e.ptrs
    BY <2>1, <2>2 DEF Sound, Counts, Fields, Untouched, Logged
  <2> QED BY <2>2, <2>3, AsideKeeps
<1>2. CASE ~r.added BY <1>2 DEF Went, Held
<1> QED BY <1>1, <1>2

LEMMA NotedAdds ==
  ASSUME NEW d, NEW r, NEW O, NEW F, NEW n \in files!Node, NEW x, DOMAIN d.log = files!Node,
         Went(d, r, O, F, n, x), Sound(r.disk)
  PROVE  Added(d, files!Noted(r, n, x), O, F, n, x)
<1>1. CASE r.added
  <2>1. PICK e : e = Logged(r.disk, n, x) OBVIOUS
  <2>2. LogsTo(r.disk, e, n, x) BY <2>1, LoggedIs
  <2>3. r.disk.log = d.log /\ Beside(d, r.disk, n) BY DEF Went
  <2>4. Beside(r.disk, e, n) /\ e.log[n] = Append(d.log[n], x)
    <3>1. PICK g : g = r.disk OBVIOUS
    <3>2. DOMAIN g.log = files!Node /\ LogsTo(g, e, n, x) /\ g.log = d.log BY <2>2, <2>3, <3>1
    <3>3. Beside(g, e, n) /\ e.log[n] = Append(g.log[n], x) BY <3>2, LogsBeside
    <3> QED BY <3>1, <3>2, <3>3
  <2>5. Held(e, O, F \ {x}) BY <1>1, <2>1 DEF Went
  <2>6. AddedTo(d, e, O, F \ {x}, n, x) BY <2>3, <2>4, <2>5, BesideTwice DEF AddedTo
  <2>7. PICK q : q = files!Noted(r, n, x) OBVIOUS
  <2>8. q = [r EXCEPT !.disk = e] BY <1>1, <2>1, <2>7 DEF files!Noted, Logged
  <2>9. DOMAIN q = {"disk", "added"} /\ q.disk = e /\ (q.added <=> r.added) BY <2>8 DEF Went
  <2>10. q.added \in BOOLEAN BY <2>8 DEF Went
  <2>11. q.added BY <1>1, <2>9
  <2>12. Added(d, q, O, F, n, x) BY <2>6, <2>9, <2>10, <2>11, Zenon DEF Added
  <2> QED BY <2>7, <2>12
<1>2. CASE ~r.added
  <2>1. files!Noted(r, n, x) = r BY <1>2 DEF files!Noted
  <2>2. NotAdded(d, r.disk, O, F, n) BY <1>2 DEF Went, NotAdded
  <2>3. Added(d, r, O, F, n, x) BY <1>2, <2>2, Zenon DEF Added, Went
  <2> QED BY <2>1, <2>3
<1> QED BY <1>1, <1>2

\* The first null pointer of an inode, if a direct one is null.
LEMMA FirstDirect ==
  ASSUME NEW map, DOMAIN map = Place, files!HasNull(SubSeq(map, 1, Direct))
  PROVE  /\ files!FirstNull(map) \in 1 .. Direct /\ map[files!FirstNull(map)] = files!Null
         /\ \A k \in 1 .. files!FirstNull(map) - 1 : map[k] # files!Null
<1>1. PICK S : S = {i \in DOMAIN map : map[i] = files!Null} OBVIOUS
<1>2. Direct \in Nat \ {0} BY Geometry
<1>3. DOMAIN SubSeq(map, 1, Direct) = 1 .. Direct
      /\ \A k \in 1 .. Direct : SubSeq(map, 1, Direct)[k] = map[k]
  BY <1>2
<1>4. PICK h \in 1 .. Direct : map[h] = files!Null BY <1>3 DEF files!HasNull
<1>5. h \in S BY <1>1, <1>2, <1>4 DEF Place
<1>6. S \in SUBSET Nat /\ S # {} BY <1>1, <1>2, <1>5 DEF Place
<1>7. PICK m : m = files!Least(S) OBVIOUS
<1>8. m \in S /\ \A y \in S : m <= y BY <1>6, <1>7, LeastFirst
<1>9. m \in 1 .. Direct BY <1>1, <1>2, <1>5, <1>8 DEF Place
<1>10. \A k \in 1 .. m - 1 : k \in Place BY <1>2, <1>9 DEF Place
<1>11. \A k \in 1 .. m - 1 : k \notin S BY <1>8, <1>9
<1>12. files!FirstNull(map) = m BY <1>1, <1>7 DEF files!FirstNull
<1> QED BY <1>1, <1>8, <1>9, <1>10, <1>11, <1>12

\* The first level: a direct pointer.
LEMMA AddOne ==
  ASSUME NEW d, NEW O, NEW F, Held(d, O, F), NEW x \in F, NEW n \in O,
         NEW i \in 1 .. Direct, One(d, n, i) = files!Null,
         \A k \in 1 .. i - 1 : One(d, n, k) # files!Null
  PROVE  AddedTo(d, files!MapTo(Logged(d, n, x), n, i, x), O, F \ {x}, n, x)
<1>0. /\ Sound(d) /\ n \in files!Node /\ InLog(d, n) /\ x \in files!BlockNo /\ DOMAIN d.log = files!Node
      /\ i \in Place
  BY InHand, Geometry DEF Held
<1>1. PICK e : e = files!MapTo(d, n, i, x) OBVIOUS
<1>2. Sound(e) /\ MapSet(d, e, n, i, x) BY <1>0, <1>1, MapSets
<1>3. PICK f : f = files!MapTo(Logged(d, n, x), n, i, x) OBVIOUS
<1>4. Sound(f)
  <2>1. Sound(Logged(d, n, x)) BY <1>0, LoggedIs
  <2> QED BY <1>0, <1>3, <2>1, MapSets
<1>5. LogsTo(e, f, n, x)
  <2>1. {"used", "nodes", "inode", "ptrs", "dir", "log", "lost", "fault"} \subseteq DOMAIN d
    BY <1>0 DEF Sound, Counts, Fields
  <2> QED BY <1>1, <1>3, <2>1 DEF LogsTo, Logged, files!MapTo
<1>6. i = Len(d.log[n]) + 1 BY <1>0, EndsInOne
<1>7. Held(f, O, F \ {x}) BY <1>2, <1>4, <1>5, <1>6, PutOne
<1>8. Beside(d, e, n) /\ e.log = d.log BY <1>2, MapsBeside
<1>9. Beside(e, f, n) /\ f.log[n] = Append(d.log[n], x) BY <1>0, <1>5, <1>8, LogsBeside
<1> QED BY <1>3, <1>7, <1>8, <1>9, BesideTwice DEF AddedTo

\* The others: through the inode's indirect block of that level.
LEMMA AddTwo ==
  ASSUME NEW d, NEW O, NEW F, Held(d, O, F), NEW x \in F, NEW n \in O,
         \A k \in 1 .. Direct : One(d, n, k) # files!Null,
         NEW c, c = One(d, n, Direct + 1), files!Room1(d, c), NEW m, m = files!NextBlock(d)
  PROVE  Went(d, IF c # files!Null THEN files!Fill1(d, c, x)
                 ELSE IF m = files!Null THEN [disk |-> d, added |-> FALSE]
                 ELSE files!Fill1(files!MapTo(files!TakeBlock(d), n, Direct + 1, m), m, x), O, F, n, x)
<1>1. CASE c # files!Null
  <2>1. files!HasNull(d.ptrs[c]) BY <1>1 DEF files!Room1
  <2>2. Went(d, files!Fill1(d, c, x), O, F, n, x) BY <1>1, <2>1, FillTwo
  <2> QED BY <1>1, <2>2
<1>2. CASE c = files!Null /\ m = files!Null
  <2>1. Beside(d, d, n) BY DEF Beside
  <2> QED BY <1>2, <2>1, WentNot
<1>3. CASE c = files!Null /\ m # files!Null
  <2>1. PICK e : e = files!MapTo(files!TakeBlock(d), n, Direct + 1, m) OBVIOUS
  <2>2. LinkedTo(d, e, O, F, n, Direct + 1, m)
    <3>1. Direct + 1 \in Linkable BY DEF Linkable
    <3> QED BY <1>3, <2>1, <3>1, LinksTo
  <2>3. files!HasNull(e.ptrs[m])
    <3>1. 1 \in 1 .. Ptrs BY PtrsIs
    <3> QED BY <2>2, <3>1 DEF LinkedTo, files!HasNull, files!NoPtrs
  <2>4. \A k \in 1 .. Direct : One(e, n, k) # files!Null BY <2>2 DEF LinkedTo, SameSlots
  <2>5. Held(e, O, F) /\ m = One(e, n, Direct + 1) BY <2>2 DEF LinkedTo
  <2>6. Went(e, files!Fill1(e, m, x), O, F, n, x) BY <1>3, <2>3, <2>4, <2>5, FillTwo
  <2>7. Went(d, files!Fill1(e, m, x), O, F, n, x) BY <2>2, <2>6, WentOn DEF LinkedTo
  <2> QED BY <1>3, <2>1, <2>7
<1> QED BY <1>1, <1>2, <1>3

LEMMA AddThree ==
  ASSUME NEW d, NEW O, NEW F, Held(d, O, F), NEW x \in F, NEW n \in O,
         \A k \in Column : Two(d, n, Direct + 1, k) # files!Null,
         NEW c, c = One(d, n, Direct + 2),
         \E i, j \in Column : Three(d, n, Direct + 2, i, j) = files!Null,
         NEW m, m = files!NextBlock(d)
  PROVE  Went(d, IF c # files!Null THEN files!Fill2(d, c, x)
                 ELSE IF m = files!Null THEN [disk |-> d, added |-> FALSE]
                 ELSE files!Fill2(files!MapTo(files!TakeBlock(d), n, Direct + 2, m), m, x), O, F, n, x)
<1>1. CASE c # files!Null
  <2>1. Went(d, files!Fill2(d, c, x), O, F, n, x) BY <1>1, GrowTwo
  <2> QED BY <1>1, <2>1
<1>2. CASE c = files!Null /\ m = files!Null
  <2>1. Beside(d, d, n) BY DEF Beside
  <2> QED BY <1>2, <2>1, WentNot
<1>3. CASE c = files!Null /\ m # files!Null
  <2>1. PICK e : e = files!MapTo(files!TakeBlock(d), n, Direct + 2, m) OBVIOUS
  <2>2. LinkedTo(d, e, O, F, n, Direct + 2, m)
    <3>1. Direct + 2 \in Linkable BY DEF Linkable
    <3> QED BY <1>3, <2>1, <3>1, LinksTo
  <2>3. \E i, j \in Column : Three(e, n, Direct + 2, i, j) = files!Null
    <3>1. PICK i \in Column, j \in Column : Three(d, n, Direct + 2, i, j) = files!Null OBVIOUS
    <3>2. Three(e, n, Direct + 2, i, j) = files!Null BY <2>2, <3>1 DEF LinkedTo, SameSlots
    <3> QED BY <3>2
  <2>4. \A k \in Column : Two(e, n, Direct + 1, k) # files!Null BY <2>2 DEF LinkedTo, SameSlots
  <2>5. Held(e, O, F) /\ m = One(e, n, Direct + 2) BY <2>2 DEF LinkedTo
  <2>6. Went(e, files!Fill2(e, m, x), O, F, n, x) BY <1>3, <2>3, <2>4, <2>5, GrowTwo
  <2>7. Went(d, files!Fill2(e, m, x), O, F, n, x) BY <2>2, <2>6, WentOn DEF LinkedTo
  <2> QED BY <1>3, <2>1, <2>7
<1> QED BY <1>1, <1>2, <1>3

LEMMA AddFour ==
  ASSUME NEW d, NEW O, NEW F, Held(d, O, F), NEW x \in F, NEW n \in O,
         \A i, j \in Column : Three(d, n, Direct + 2, i, j) # files!Null,
         NEW c, c = One(d, n, Direct + 3),
         \E i, j, l \in Column : Four(d, n, Direct + 3, i, j, l) = files!Null,
         NEW m, m = files!NextBlock(d)
  PROVE  Went(d, IF c # files!Null THEN files!Fill3(d, c, x)
                 ELSE IF m = files!Null THEN [disk |-> d, added |-> FALSE]
                 ELSE files!Fill3(files!MapTo(files!TakeBlock(d), n, Direct + 3, m), m, x), O, F, n, x)
<1>1. CASE c # files!Null
  <2>1. Went(d, files!Fill3(d, c, x), O, F, n, x) BY <1>1, GrowFour
  <2> QED BY <1>1, <2>1
<1>2. CASE c = files!Null /\ m = files!Null
  <2>1. Beside(d, d, n) BY DEF Beside
  <2> QED BY <1>2, <2>1, WentNot
<1>3. CASE c = files!Null /\ m # files!Null
  <2>1. PICK e : e = files!MapTo(files!TakeBlock(d), n, Direct + 3, m) OBVIOUS
  <2>2. LinkedTo(d, e, O, F, n, Direct + 3, m)
    <3>1. Direct + 3 \in Linkable BY DEF Linkable
    <3> QED BY <1>3, <2>1, <3>1, LinksTo
  <2>3. \E i, j, l \in Column : Four(e, n, Direct + 3, i, j, l) = files!Null
    <3>1. PICK i \in Column, j \in Column, l \in Column :
            Four(d, n, Direct + 3, i, j, l) = files!Null
      OBVIOUS
    <3>2. Four(e, n, Direct + 3, i, j, l) = files!Null
      BY <2>2, <3>1 DEF LinkedTo, SameSlots, SameFour
    <3> QED BY <3>2
  <2>4. \A i, j \in Column : Three(e, n, Direct + 2, i, j) # files!Null
    BY <2>2 DEF LinkedTo, SameSlots
  <2>5. Held(e, O, F) /\ m = One(e, n, Direct + 3) BY <2>2 DEF LinkedTo
  <2>6. Went(e, files!Fill3(e, m, x), O, F, n, x) BY <1>3, <2>3, <2>4, <2>5, GrowFour
  <2>7. Went(d, files!Fill3(e, m, x), O, F, n, x) BY <2>2, <2>6, WentOn DEF LinkedTo
  <2> QED BY <1>3, <2>1, <2>7
<1> QED BY <1>1, <1>2, <1>3

LEMMA AddBlockAdds ==
  ASSUME NEW d, NEW O, NEW F, Held(d, O, F), NEW x \in F, NEW n \in O
  PROVE  Added(d, files!AddBlock(d, n, x), O, F, n, x)
<1>0. /\ Sound(d) /\ n \in files!Node /\ x \in files!BlockNo /\ DOMAIN d.log = files!Node
      /\ DOMAIN d.inode[n].map = Place
  BY InHand, InodeIs DEF Held, Place
<1>1. PICK map : map = d.inode[n].map OBVIOUS
<1>2. PICK m : m = files!NextBlock(d) OBVIOUS
<1>3. /\ map[Direct + 1] = One(d, n, Direct + 1) /\ map[Direct + 2] = One(d, n, Direct + 2)
      /\ map[Direct + 3] = One(d, n, Direct + 3)
  BY <1>1 DEF One
<1>4. /\ One(d, n, Direct + 1) \in files!BlockNo /\ One(d, n, Direct + 2) \in files!BlockNo
      /\ One(d, n, Direct + 3) \in files!BlockNo
  <2>1. Reached(d, O) BY ReachesBlocks DEF Held
  <2> QED BY <2>1, Geometry DEF Reached
<1>5. CASE files!HasNull(SubSeq(map, 1, Direct))
  <2>1. PICK i \in 1 .. Direct : /\ i = files!FirstNull(map) /\ map[i] = files!Null
                                 /\ \A k \in 1 .. i - 1 : map[k] # files!Null
    BY <1>0, <1>1, <1>5, FirstDirect
  <2>2. One(d, n, i) = files!Null /\ \A k \in 1 .. i - 1 : One(d, n, k) # files!Null
    BY <1>1, <2>1 DEF One
  <2>3. PICK e : e = files!MapTo(Logged(d, n, x), n, i, x) OBVIOUS
  <2>4. AddedTo(d, e, O, F \ {x}, n, x) BY <2>2, <2>3, AddOne
  <2>5. PICK r : r = [disk |-> e, added |-> TRUE] OBVIOUS
  <2>6. files!AddBlock(d, n, x) = r
    BY <1>1, <1>5, <2>1, <2>3, <2>5 DEF files!AddBlock, Logged
  <2>7. DOMAIN r = {"disk", "added"} /\ r.disk = e /\ r.added = TRUE BY <2>5
  <2>8. r.added /\ r.added \in BOOLEAN BY <2>7
  <2>9. Added(d, r, O, F, n, x) BY <2>4, <2>7, <2>8, Zenon DEF Added
  <2> QED BY <2>6, <2>9
<1>6. CASE ~files!HasNull(SubSeq(map, 1, Direct))
  <2>0. \A k \in 1 .. Direct : One(d, n, k) # files!Null
    <3>1. Direct \in Nat \ {0} BY Geometry
    <3>2. DOMAIN SubSeq(map, 1, Direct) = 1 .. Direct
          /\ \A k \in 1 .. Direct : SubSeq(map, 1, Direct)[k] = map[k]
      BY <3>1
    <3> QED BY <1>1, <1>6, <3>2 DEF files!HasNull, One
  <2>1. CASE files!Room1(d, map[Direct + 1])
    <3>1. PICK r : r = IF map[Direct + 1] # files!Null THEN files!Fill1(d, map[Direct + 1], x)
                       ELSE IF m = files!Null THEN [disk |-> d, added |-> FALSE]
                       ELSE files!Fill1(files!MapTo(files!TakeBlock(d), n, Direct + 1, m), m, x)
      OBVIOUS
    <3>2. files!AddBlock(d, n, x) = files!Noted(r, n, x)
      BY <1>1, <1>2, <1>6, <2>1, <3>1 DEF files!AddBlock, files!Through
    <3>3. Went(d, r, O, F, n, x) BY <1>2, <1>3, <2>0, <2>1, <3>1, AddTwo
    <3>4. Sound(r.disk) BY <3>3, WentSound
    <3> QED BY <1>0, <3>2, <3>3, <3>4, NotedAdds
  <2>2. CASE ~files!Room1(d, map[Direct + 1]) /\ files!Room2(d, map[Direct + 2])
    <3>0. \A k \in Column : Two(d, n, Direct + 1, k) # files!Null
      BY <1>0, <1>3, <1>4, <2>2, Rooms DEF Two
    <3>1. \E i, j \in Column : Three(d, n, Direct + 2, i, j) = files!Null
      BY <1>0, <1>3, <1>4, <2>2, Rooms DEF Two, Three
    <3>2. PICK r : r = IF map[Direct + 2] # files!Null THEN files!Fill2(d, map[Direct + 2], x)
                       ELSE IF m = files!Null THEN [disk |-> d, added |-> FALSE]
                       ELSE files!Fill2(files!MapTo(files!TakeBlock(d), n, Direct + 2, m), m, x)
      OBVIOUS
    <3>3. files!AddBlock(d, n, x) = files!Noted(r, n, x)
      BY <1>1, <1>2, <1>6, <2>2, <3>2 DEF files!AddBlock, files!Through
    <3>4. Went(d, r, O, F, n, x) BY <1>2, <1>3, <3>0, <3>1, <3>2, AddThree
    <3>5. Sound(r.disk) BY <3>4, WentSound
    <3> QED BY <1>0, <3>3, <3>4, <3>5, NotedAdds
  <2>3. CASE /\ ~files!Room1(d, map[Direct + 1]) /\ ~files!Room2(d, map[Direct + 2])
             /\ files!Room3(d, map[Direct + 3])
    <3>0. \A i, j \in Column : Three(d, n, Direct + 2, i, j) # files!Null
      BY <1>0, <1>3, <1>4, <2>3, Rooms DEF Two, Three
    <3>1. \E i, j, l \in Column : Four(d, n, Direct + 3, i, j, l) = files!Null
      BY <1>0, <1>3, <1>4, <2>3, Rooms DEF Two, Three, Four
    <3>2. PICK r : r = IF map[Direct + 3] # files!Null THEN files!Fill3(d, map[Direct + 3], x)
                       ELSE IF m = files!Null THEN [disk |-> d, added |-> FALSE]
                       ELSE files!Fill3(files!MapTo(files!TakeBlock(d), n, Direct + 3, m), m, x)
      OBVIOUS
    <3>3. files!AddBlock(d, n, x) = files!Noted(r, n, x)
      BY <1>1, <1>2, <1>6, <2>3, <3>2 DEF files!AddBlock, files!Through
    <3>4. Went(d, r, O, F, n, x) BY <1>2, <1>3, <3>0, <3>1, <3>2, AddFour
    <3>5. Sound(r.disk) BY <3>4, WentSound
    <3> QED BY <1>0, <3>3, <3>4, <3>5, NotedAdds
  <2>4. CASE /\ ~files!Room1(d, map[Direct + 1]) /\ ~files!Room2(d, map[Direct + 2])
             /\ ~files!Room3(d, map[Direct + 3])
    <3>1. PICK f : f = files!Faulty(d, "too large") OBVIOUS
    <3>2. PICK r : r = [disk |-> f, added |-> FALSE] OBVIOUS
    <3>3. files!AddBlock(d, n, x) = r
      BY <1>1, <1>6, <2>4, <3>1, <3>2 DEF files!AddBlock
    <3>4. f.fault # "none" BY <1>0, <3>1 DEF files!Faulty, Sound, Counts, Fields
    <3>5. DOMAIN r = {"disk", "added"} /\ r.disk = f /\ r.added = FALSE BY <3>2
    <3>6. ~r.added /\ r.added \in BOOLEAN BY <3>5
    <3>7. Added(d, r, O, F, n, x) BY <3>4, <3>5, <3>6, Zenon DEF Added
    <3> QED BY <3>3, <3>7
  <2> QED BY <2>1, <2>2, <2>3, <2>4
<1> QED BY <1>5, <1>6
=============================================================================
