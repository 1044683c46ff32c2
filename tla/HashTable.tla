------------------------------ MODULE HashTable ------------------------------
(***************************************************************************)
(* hash_table (src/Utils/detail/hash_table.hpp, hash_table_policy.cpp),    *)
(* the table under Utils::unordered_map.  All nodes are on one list that   *)
(* starts at beforeBegin; a bucket points to the node before the first of  *)
(* its nodes, which stand together.                                        *)
(*                                                                         *)
(* A node is its key.  Keys are hashed by Code, so some keys share a code  *)
(* and more of them share a bucket.  The largest load is 1, as by default: *)
(* the policy's function that sets another is declared and never defined.  *)
(* deleteNode is left out, as nothing calls it.                            *)
(***************************************************************************)
EXTENDS Integers, FiniteSets

CONSTANTS
  Entry,  \* the keys
  Codes,  \* the hash codes 0 .. Codes - 1
  Hint,   \* bucketHint of the constructor
  Asked   \* bound: the arguments of rehash and reserve

Head == -1   \* &beforeBegin
Nil  == -2
Code(k) == k % Codes

\* Assumed by the module that instantiates this one.
HashTableAssumption ==
  /\ Entry \subseteq Nat /\ IsFiniteSet(Entry) /\ Asked \subseteq Nat
  /\ Codes \in Nat \ {0} /\ Hint \in 0 .. 12

VARIABLES
  table,       \* next of every node, buckets, bucketCount
  elemCount,
  nextResize,  \* of the policy
  inserted,    \* history: the keys put in since the table was made or cleared
  failed       \* the call that met a failed ASSERT or a null pointer

vars == <<table, elemCount, nextResize, inserted, failed>>

TypeOK ==
  /\ table.next \in [Entry \cup {Head} -> Entry \cup {Nil}]
  /\ table.buckets \in [0 .. table.bucketCount - 1 -> Entry \cup {Head, Nil}]
  /\ elemCount \in Nat /\ nextResize \in Nat
  /\ inserted \subseteq Entry /\ failed \in {"none", "insertion", "rehash", "copy"}

-----------------------------------------------------------------------------
(* The policy.                                                             *)

firstPrimes == <<2, 2, 3, 5, 5, 7, 7, 11, 11, 11, 11, 13, 13>>
IsPrime(n) == \A d \in 2 .. n - 1 : n % d # 0
\* lower_bound of n + 1 among the primes from 13 on; the list's end is far off.
NextListed(n) == CHOOSE p \in 13 .. 2 * n : /\ p > n /\ IsPrime(p)
                                            /\ \A q \in n + 1 .. p - 1 : ~IsPrime(q)

NextBuckets(n) == IF n < 13 THEN firstPrimes[n + 1] ELSE NextListed(n)
\* What nextBuckets leaves in nextResize.
NextLimit(n) == IF n < 13 THEN firstPrimes[n + 1] + 1 ELSE NextListed(n)

\* needRehash: the short way out, and the decision with its request.
Below(inserting) == elemCount + inserting < nextResize
\* Faulty variant: the elements to come are not counted.
IgnoresNew(inserting) == ~Below(inserting) /\ elemCount > table.bucketCount
NeedRehash(inserting) ==
  ~Below(inserting) /\ elemCount + inserting >= table.bucketCount
Wanted(inserting) ==
  IF elemCount + inserting + 1 >= 2 * table.bucketCount
  THEN elemCount + inserting + 1 ELSE 2 * table.bucketCount
LimitAfter(inserting) ==
  IF Below(inserting) THEN nextResize
  ELSE IF NeedRehash(inserting) THEN NextLimit(Wanted(inserting)) ELSE table.bucketCount

-----------------------------------------------------------------------------
(* The list and the buckets.                                               *)

Bucket(t, k) == Code(k) % t.bucketCount
NoBuckets(n) == [b \in 0 .. n - 1 |-> Nil]
NoNodes == [n \in Entry \cup {Head} |-> Nil]

\* The nodes from p on, p first.  A list has at most Longest of them.
Longest == Cardinality(Entry)
After(t, p) == IF p = Nil THEN Nil ELSE t.next[p]
Walk(t, p) ==
  LET at[i \in 0 .. Longest + 1] == IF i = 0 THEN p ELSE After(t, at[i - 1])
  IN at

\* findBeforeNode: the nodes of the bucket are passed one by one.
FindNode(t, k) ==
  LET prev_p == t.buckets[Bucket(t, k)]
      p == Walk(t, prev_p)
  IN /\ prev_p # Nil
     /\ \E i \in 1 .. Longest :
          p[i] = k /\ \A j \in 2 .. i : Bucket(t, p[j]) = Bucket(t, k)

\* get: from the bucket's predecessor to the end of the list.
Get(t, k) == \E i \in 1 .. Longest : Walk(t, t.buckets[Bucket(t, k)])[i] = k

\* The end of getCreate and insertNode: the node goes behind its bucket's
\* predecessor, or to the front of the list, where it becomes the predecessor
\* of the node that was first.
Behind(t, k, prev) ==
  [t EXCEPT !.next = [@ EXCEPT ![k] = t.next[prev], ![prev] = k]]
\* Faulty variant: the node that was first keeps its bucket's predecessor.
NotMoved(t, k) == t.buckets
\* The buckets once k is in front of the node that was first.
Moved(t, k) ==
  IF t.next[Head] = Nil THEN t.buckets
  ELSE [t.buckets EXCEPT ![Bucket(t, t.next[Head])] = k]
InFront(t, k) ==
  [Behind(t, k, Head) EXCEPT !.buckets = [Moved(t, k) EXCEPT ![Bucket(t, k)] = Head]]
Linked(t, k) ==
  IF t.buckets[Bucket(t, k)] # Nil THEN Behind(t, k, t.buckets[Bucket(t, k)])
  ELSE InFront(t, k)

\* Faulty variant: the bucket at the front is taken for bucket 0 throughout.
Bucket0(t, ptr, beginBkt) ==
  IF t.next[ptr] = Nil THEN t.buckets ELSE [t.buckets EXCEPT ![0] = ptr]
\* _rehash takes the nodes of the old list one by one; beginBkt is the bucket
\* of the node that was in front before ptr.
Noted(t, ptr, beginBkt) ==
  IF t.next[ptr] = Nil THEN t.buckets ELSE [t.buckets EXCEPT ![beginBkt] = ptr]
Opened(t, ptr, beginBkt) ==
  [t EXCEPT !.buckets = [Noted(t, ptr, beginBkt) EXCEPT ![Bucket(t, ptr)] = Head]]
Relinked(r, ptr) ==
  LET t == r.table
      prev == t.buckets[Bucket(t, ptr)]
  IN IF ptr = Nil THEN r
     ELSE IF prev = Nil
     THEN [table |-> Opened(Behind(t, ptr, Head), ptr, r.beginBkt), beginBkt |-> Bucket(t, ptr)]
     ELSE [r EXCEPT !.table = Behind(t, ptr, prev)]
NoTable(bCount) == [next |-> NoNodes, buckets |-> NoBuckets(bCount), bucketCount |-> bCount]
Rehashed(t, bCount) ==
  LET ptr == Walk(t, Head)
      after[i \in 0 .. Longest] ==
        IF i = 0 THEN [table |-> NoTable(bCount), beginBkt |-> 0] ELSE Relinked(after[i - 1], ptr[i])
  IN after[Longest].table

\* The copy constructor: the same list, and buckets found along it.
Traced(t, prev, ptr) ==
  IF ptr = Nil THEN t
  ELSE IF t.buckets[Bucket(t, ptr)] # Nil THEN t
  ELSE [t EXCEPT !.buckets[Bucket(t, ptr)] = prev]
Copied(t) ==
  LET ptr == Walk(t, Head)
      after[i \in 0 .. Longest] ==
        IF i = 0 THEN [t EXCEPT !.buckets = NoBuckets(t.bucketCount)]
        ELSE Traced(after[i - 1], ptr[i - 1], ptr[i])
  IN after[Longest]

-----------------------------------------------------------------------------
Init ==
  /\ table = NoTable(NextBuckets(Hint))
  /\ elemCount = 0 /\ nextResize = NextLimit(Hint)
  /\ inserted = {} /\ failed = "none"

\* _rehash asserts that there is a first node.
Rehash(n) ==
  IF table.next[Head] = Nil THEN failed' = "rehash" /\ UNCHANGED table
  ELSE table' = Rehashed(table, n) /\ UNCHANGED failed

InsertNode(k) ==
  /\ nextResize' = LimitAfter(1)
  /\ IF NeedRehash(1) /\ table.next[Head] = Nil
     THEN failed' = "insertion" /\ UNCHANGED <<table, elemCount, inserted>>
     ELSE /\ table' = Linked(IF NeedRehash(1)
                            THEN Rehashed(table, NextBuckets(Wanted(1))) ELSE table, k)
          /\ elemCount' = elemCount + 1
          /\ inserted' = inserted \cup {k}
          /\ UNCHANGED failed

\* operator[](const key_type&): looks in the bucket.
GetCreate(k) == ~FindNode(table, k) /\ InsertNode(k)
\* operator[](key_type&&): looks to the end of the list.
GetInsert(k) == ~Get(table, k) /\ InsertNode(k)

RehashTo(n) ==
  /\ n > table.bucketCount
  /\ Rehash(n)
  /\ UNCHANGED <<elemCount, nextResize, inserted>>

Reserve(n) ==
  /\ n > elemCount
  /\ IF NeedRehash(n - elemCount) THEN Rehash(NextBuckets(Wanted(n - elemCount)))
     ELSE UNCHANGED <<table, failed>>
  /\ nextResize' = LimitAfter(n - elemCount)
  /\ UNCHANGED <<elemCount, inserted>>

\* A copy, or an assignment to another table, takes the place of the table; the
\* value of the first node is read without a look whether there is one.
Copy ==
  /\ IF table.next[Head] = Nil THEN failed' = "copy" /\ UNCHANGED table
     ELSE table' = Copied(table) /\ UNCHANGED failed
  /\ UNCHANGED <<elemCount, nextResize, inserted>>

Clear ==
  /\ table' = [table EXCEPT !.next = NoNodes, !.buckets = NoBuckets(table.bucketCount)]
  /\ elemCount' = 0 /\ inserted' = {}
  /\ UNCHANGED <<nextResize, failed>>

Next ==
  /\ failed = "none"
  /\ \/ \E k \in Entry : GetCreate(k) \/ GetInsert(k)
     \/ \E n \in Asked : RehashTo(n) \/ Reserve(n)
     \/ Copy
     \/ Clear

Spec == Init /\ [][Next]_vars

-----------------------------------------------------------------------------
\* Whatever was inserted, rehashed and copied in whatever order, both look-ups
\* find exactly the keys that were inserted, and an iterator meets each once
\* and stops (getCreate, insertNode, _rehash, the copy constructor).
TableIsSet ==
  /\ \A k \in Entry : FindNode(table, k) <=> (k \in inserted)
  /\ \A k \in Entry : Get(table, k) <=> (k \in inserted)
  /\ {Walk(table, Head)[i] : i \in 1 .. elemCount} = inserted
  /\ Walk(table, Head)[elemCount + 1] = Nil
  /\ elemCount = Cardinality(inserted)

\* The limit the policy remembers across rehash, reserve, clear and copies
\* never lets the table hold more elements than it has buckets (needRehash).
LoadBounded == elemCount <= table.bucketCount

\* Insertion never meets the assertion on an empty table: only rehash, reserve
\* and copies of an empty table do.
InsertionSafe == failed # "insertion"
=============================================================================
