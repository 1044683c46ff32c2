---------------------------- MODULE BlocksProofs ----------------------------
(***************************************************************************)
(* Whose blocks a volume has, for every geometry: no block has two owners, *)
(* none in use is lost but for those a failing call lets go of, and the    *)
(* walk along an inode's pointers finds its blocks in the order in which   *)
(* they were added.                                                        *)
(*                                                                         *)
(* Between two calls the volume is Full; within a call the disk it has in  *)
(* hand is Held, with the set of blocks that are in nobody's inode yet.    *)
(* FilesProofs shows that adding a block keeps a disk Held.  Here are the  *)
(* walks that find the blocks again, the loops that reserve and release,   *)
(* and the calls.                                                          *)
(***************************************************************************)
EXTENDS FilesProofs

-----------------------------------------------------------------------------
\* Finding the blocks of a file.

\* The slots of inode n have the elements of s, in order, and nothing else.
SlotsHave(d, n, s) ==
  /\ s \in Seq(Pointer \ {files!Null})
  /\ Len(s) <= Direct + Ptrs + Squared + Ptrs * Squared
  /\ \A r \in 1 .. Direct : One(d, n, r) = LogAt(s, r)
  /\ \A i \in Column : Two(d, n, Direct + 1, i) = LogAt(s, Direct + i)
  /\ \A i, j \in Column : Three(d, n, Direct + 2, i, j) = LogAt(s, Direct + Ptrs + Pos(i, j, Ptrs))
  /\ \A i, j, l \in Column :
       Four(d, n, Direct + 3, i, j, l) = LogAt(s, Direct + Ptrs + Squared + Pos3(i, j, l))

LEMMA LogSlotsHave ==
  ASSUME NEW d, NEW n, InLog(d, n)
  PROVE  SlotsHave(d, n, d.log[n])
<1>1. d.log[n] \in Seq(Pointer \ {files!Null})
  <2>1. PICK s \in Seq(files!BlockNo \ {files!Null}) : s = d.log[n] BY DEF InLog
  <2>2. files!BlockNo \ {files!Null} \subseteq Pointer \ {files!Null} BY DEF Pointer
  <2>3. s \in Seq(Pointer \ {files!Null}) BY <2>2
  <2> QED BY <2>1, <2>3
<1> QED BY <1>1 DEF InLog, SlotsHave

\* Parts of sequences.
LEMMA PartGrows ==
  ASSUME NEW T, NEW s \in Seq(T)
  PROVE  /\ SubSeq(s, 1, 0) = <<>>
         /\ \A k \in 1 .. Len(s) : Append(SubSeq(s, 1, k - 1), s[k]) = SubSeq(s, 1, k)
OBVIOUS

LEMMA PartIs ==
  ASSUME NEW T, NEW s \in Seq(T), NEW a \in Nat, NEW k \in Nat, a + k <= Len(s)
  PROVE  /\ SubSeq(s, a + 1, a + k) \in Seq(T)
         /\ Len(SubSeq(s, a + 1, a + k)) = k
         /\ \A h \in 1 .. k : SubSeq(s, a + 1, a + k)[h] = s[a + h]
<1>1. \A h \in 1 .. k : a + h \in 1 .. Len(s) OBVIOUS
<1>2. PICK N \in Nat : N = Len(s) BY LenProperties
<1>3. SubSeq(s, a + 1, a + k) \in Seq(T) OBVIOUS
<1>4. Len(SubSeq(s, a + 1, a + k)) = k OBVIOUS
<1>5. \A h \in 1 .. k : SubSeq(s, a + 1, a + k)[h] = s[a + h] OBVIOUS
<1> QED BY <1>3, <1>4, <1>5

LEMMA PartsJoin ==
  ASSUME NEW T, NEW s \in Seq(T), NEW a \in Nat, NEW b \in Nat, NEW c \in Nat,
         a <= b, b <= c, c <= Len(s)
  PROVE  SubSeq(s, a + 1, b) \o SubSeq(s, b + 1, c) = SubSeq(s, a + 1, c)
<1>1. PICK p : p = SubSeq(s, a + 1, b) OBVIOUS
<1>2. PICK q : q = SubSeq(s, b + 1, c) OBVIOUS
<1>3. PICK r : r = SubSeq(s, a + 1, c) OBVIOUS
<1>4. p \in Seq(T) /\ Len(p) = b - a /\ \A k \in 1 .. b - a : p[k] = s[a + k] BY <1>1
<1>5. q \in Seq(T) /\ Len(q) = c - b /\ \A k \in 1 .. c - b : q[k] = s[b + k] BY <1>2
<1>6. r \in Seq(T) /\ Len(r) = c - a /\ \A k \in 1 .. c - a : r[k] = s[a + k] BY <1>3
<1>7. PICK z : z = p \o q OBVIOUS
<1>8. z \in Seq(T) /\ Len(z) = c - a
      /\ \A k \in 1 .. c - a : z[k] = IF k <= b - a THEN p[k] ELSE q[k - (b - a)]
  <2>1. PICK m \in Nat, w \in Nat : m = b - a /\ w = c - b /\ m + w = c - a OBVIOUS
  <2>2. p \in Seq(T) /\ q \in Seq(T) /\ Len(p) = m /\ Len(q) = w BY <1>4, <1>5, <2>1
  <2>3. z \in Seq(T) BY <1>7, <2>2
  <2>4. Len(z) = m + w BY <1>7, <2>2, ConcatProperties
  <2>5. \A k \in 1 .. m + w : z[k] = IF k <= m THEN p[k] ELSE q[k - m]
    BY <1>7, <2>2, ConcatProperties
  <2> QED BY <2>1, <2>3, <2>4, <2>5
<1>9. \A k \in 1 .. c - a : z[k] = r[k]
  <2> TAKE k \in 1 .. c - a
  <2>1. CASE k <= b - a BY <1>4, <1>6, <1>8, <2>1
  <2>2. CASE ~(k <= b - a)
    <3>1. k - (b - a) \in 1 .. c - b BY <2>2
    <3>2. b + (k - (b - a)) = a + k OBVIOUS
    <3> QED BY <1>5, <1>6, <1>8, <2>2, <3>1, <3>2
  <2> QED BY <2>1, <2>2
<1>10. z = r BY <1>6, <1>8, <1>9, SeqEqual
<1> QED BY <1>1, <1>2, <1>3, <1>7, <1>10

\* Of pointers of which the first L are not null, those.
LEMMA NonNullIs ==
  ASSUME NEW s \in Seq(Pointer), NEW L \in 0 .. Len(s),
         \A k \in 1 .. L : s[k] # files!Null, \A k \in L + 1 .. Len(s) : s[k] = files!Null
  PROVE  files!NonNull(s) = SubSeq(s, 1, L)
<1>0. Len(s) \in Nat OBVIOUS
<1>1. PICK f : /\ f[0] = <<>>
               /\ \A k \in 1 .. Len(s) : f[k] = files!Kept(f[k - 1], s[k])
               /\ files!Each(<<>>, s, files!Kept) = f[Len(s)]
  BY <1>0, KeepingLoop
<1> DEFINE Part(k) == f[k] = SubSeq(s, 1, IF k <= L THEN k ELSE L)
           Bad == {k \in 0 .. Len(s) : ~Part(k)}
<1>2. Bad = {}
  <2> SUFFICES ASSUME Bad # {} PROVE FALSE OBVIOUS
  <2>1. PICK n \in Bad : \A m \in Bad : n <= m
    <3>1. Bad \in SUBSET Nat OBVIOUS
    <3> HIDE DEF Bad
    <3> QED BY <3>1, Smallest
  <2>2. n # 0
    <3>1. Part(0) BY <1>1, PartGrows
    <3> HIDE DEF Part
    <3> QED BY <2>1, <3>1
  <2>3. n \in 1 .. Len(s) /\ n - 1 \in 0 .. Len(s) BY <1>0, <2>1, <2>2
  <2>4. Part(n - 1)
    <3>1. n - 1 \notin Bad BY <2>1, <2>3
    <3> HIDE DEF Part
    <3> QED BY <2>3, <3>1
  <2>5. f[n] = files!Kept(f[n - 1], s[n]) BY <1>1, <2>3
  <2>6. Part(n)
    <3>1. CASE n <= L
      <4>1. f[n - 1] = SubSeq(s, 1, n - 1) BY <2>3, <2>4, <3>1
      <4>2. s[n] # files!Null BY <2>3, <3>1
      <4>3. f[n] = Append(SubSeq(s, 1, n - 1), s[n]) BY <2>5, <4>1, <4>2 DEF files!Kept
      <4>4. f[n] = SubSeq(s, 1, n) BY <2>3, <4>3, PartGrows
      <4> QED BY <3>1, <4>4
    <3>2. CASE ~(n <= L)
      <4>1. f[n - 1] = SubSeq(s, 1, L)
        <5>1. n - 1 <= L => n - 1 = L BY <2>3, <3>2
        <5> QED BY <2>4, <5>1
      <4>2. s[n] = files!Null BY <2>3, <3>2
      <4>3. f[n] = SubSeq(s, 1, L) BY <2>5, <4>1, <4>2 DEF files!Kept
      <4> QED BY <3>2, <4>3
    <3> QED BY <3>1, <3>2
  <2> HIDE DEF Part
  <2> QED BY <2>1, <2>6
<1>3. Part(Len(s))
  <2>1. Len(s) \in 0 .. Len(s) /\ Len(s) \notin Bad BY <1>0, <1>2
  <2> HIDE DEF Part
  <2> QED BY <2>1
<1>4. f[Len(s)] = SubSeq(s, 1, L)
  <2>1. Len(s) <= L => Len(s) = L BY <1>0
  <2> QED BY <1>3, <2>1
<1> QED BY <1>1, <1>4 DEF files!NonNull

\* A level of pointers, the first B of the blocks s being those of the levels before.
HasSlots(s, B, slots, width) ==
  /\ slots \in Seq(Pointer) /\ Len(slots) = width
  /\ \A k \in 1 .. width : slots[k] = LogAt(s, B + k)

\* How far a walk for C blocks from S on has come when it is before those.
Way(w, s, S, C, B) ==
  /\ DOMAIN w = {"blocks", "start", "count"} /\ w.start \in Nat /\ w.count \in Nat
  /\ \/ w.count = 0 /\ w.blocks = SubSeq(s, S + 1, S + C)
     \/ /\ w.count \in 1 .. C /\ S + C - w.count = B + w.start
        /\ w.blocks = SubSeq(s, S + 1, B + w.start)

LEMMA LevelGoes ==
  ASSUME NEW s \in Seq(Pointer \ {files!Null}), NEW S \in Nat, NEW C \in Nat, S + C <= Len(s),
         NEW B \in Nat, NEW width \in Nat, NEW slots, HasSlots(s, B, slots, width),
         NEW w, Way(w, s, S, C, B)
  PROVE  Way(files!Level(w, slots, width), s, S, C, B + width)
<1>1. PICK st \in Nat, c \in Nat : st = w.start /\ c = w.count BY DEF Way
<1>2. PICK N \in Nat : N = Len(s) BY LenProperties
<1>3. CASE c = 0
  <2>1. files!Level(w, slots, width) = w BY <1>1, <1>3 DEF files!Level
  <2>2. w.count = 0 /\ w.blocks = SubSeq(s, S + 1, S + C) BY <1>1, <1>3 DEF Way
  <2>3. DOMAIN w = {"blocks", "start", "count"} /\ w.start \in Nat /\ w.count \in Nat BY DEF Way
  <2>4. Way(w, s, S, C, B + width) BY <2>2, <2>3 DEF Way
  <2> QED BY <2>1, <2>4, SMTT(30)
<1>4. CASE c # 0 /\ st >= width
  <2>1. PICK x \in Nat : x = st - width BY <1>4
  <2>2. PICK v : v = [w EXCEPT !.start = x] OBVIOUS
  <2>3. files!Level(w, slots, width) = v BY <1>1, <1>4, <2>1, <2>2 DEF files!Level
  <2>4. v.start = x /\ v.count = c /\ v.blocks = w.blocks /\ DOMAIN v = {"blocks", "start", "count"}
    BY <1>1, <2>2 DEF Way
  <2>5. B + width + x = B + st BY <2>1
  <2> QED BY <1>1, <1>4, <2>3, <2>4, <2>5 DEF Way
<1>5. CASE c # 0 /\ st < width
  <2>1. c \in 1 .. C /\ S + C - c = B + st /\ w.blocks = SubSeq(s, S + 1, B + st)
    BY <1>1, <1>5 DEF Way
  <2>2. PICK q : q = SubSeq(slots, st + 1, Len(slots)) OBVIOUS
  <2>3. q \in Seq(Pointer) /\ Len(q) = width - st /\ \A k \in 1 .. width - st : q[k] = slots[st + k]
    BY <1>5, <2>2 DEF HasSlots
  <2>4. \A k \in 1 .. width - st : q[k] = LogAt(s, B + st + k)
    <3> TAKE k \in 1 .. width - st
    <3>1. st + k \in 1 .. width /\ B + (st + k) = B + st + k BY <1>5
    <3> QED BY <2>3, <3>1 DEF HasSlots
  <2>5. S + C <= N BY <1>2
  <2>6. PICK y1 \in Nat : y1 = width - st BY <1>5
  <2>7. PICK y2 \in Nat : y2 = N - (B + st) BY <2>5, <2>1
  <2>8. PICK L \in Nat : L = IF y1 < y2 THEN y1 ELSE y2 OBVIOUS
  <2>9. L <= y1 /\ L <= y2 BY <2>8
  <2>10. B + st + L <= N BY <2>7, <2>9
  <2>11. Len(q) = y1 BY <2>3, <2>6
  <2>12. L \in 0 .. Len(q) /\ B + st + L <= N BY <2>9, <2>10, <2>11
  <2>13. \A k \in 1 .. L : q[k] = s[B + st + k] /\ q[k] # files!Null
    <3> TAKE k \in 1 .. L
    <3>1. k \in 1 .. width - st /\ B + st + k \in 1 .. N BY <2>3, <2>12
    <3>2. s[B + st + k] # files!Null BY <1>2, <3>1
    <3> QED BY <1>2, <2>4, <3>1, <3>2 DEF LogAt
  <2>14. \A k \in L + 1 .. Len(q) : q[k] = files!Null
    <3> TAKE k \in L + 1 .. Len(q)
    <3>1. k \in 1 .. width - st /\ ~(B + st + k <= N) BY <2>3, <2>8, <2>6, <2>7
    <3> QED BY <1>2, <2>4, <3>1 DEF LogAt
  <2>15. PICK there : there = files!NonNull(q) OBVIOUS
  <2>16. there = SubSeq(q, 1, L) BY <2>3, <2>12, <2>13, <2>14, <2>15, NonNullIs
  <2>17. there \in Seq(Pointer) /\ Len(there) = L /\ \A k \in 1 .. L : there[k] = q[k]
    <3>1. 0 + L <= Len(q) BY <2>12
    <3>2. 0 + 1 = 1 /\ 0 + L = L /\ \A k \in 1 .. L : 0 + k = k OBVIOUS
    <3>3. 0 \in Nat OBVIOUS
    <3> QED BY <2>3, <2>16, <3>1, <3>2, <3>3, PartIs
  <2>18. PICK k \in Nat : k = IF Len(there) < c THEN Len(there) ELSE c BY <2>17
  <2>19. k <= L /\ k <= c /\ B + st + k <= N BY <2>1, <2>12, <2>17, <2>18, SMTT(30)
  <2>20. PICK found : found = SubSeq(there, 1, k) OBVIOUS
  <2>21. found \in Seq(Pointer) /\ Len(found) = k /\ \A h \in 1 .. k : found[h] = s[B + st + h]
    <3>1. found \in Seq(Pointer) /\ Len(found) = k /\ \A h \in 1 .. k : found[h] = there[h]
      <4>1. 0 + k <= Len(there) BY <2>17, <2>19
      <4>2. 0 + 1 = 1 /\ 0 + k = k /\ \A h \in 1 .. k : 0 + h = h OBVIOUS
      <4>3. 0 \in Nat OBVIOUS
      <4> QED BY <2>17, <2>20, <4>1, <4>2, <4>3, PartIs
    <3>2. \A h \in 1 .. k : h \in 1 .. L BY <2>19
    <3> QED BY <2>13, <2>17, <3>1, <3>2
  <2>22. found = SubSeq(s, (B + st) + 1, B + st + k)
    <3>1. PICK t : t = SubSeq(s, (B + st) + 1, B + st + k) OBVIOUS
    <3>2. t \in Seq(Pointer) /\ Len(t) = k /\ \A h \in 1 .. k : t[h] = s[B + st + h]
      <4>1. s \in Seq(Pointer) OBVIOUS
      <4>2. PICK a \in Nat : a = B + st OBVIOUS
      <4>3. a + k <= Len(s) BY <1>2, <2>19, <4>2
      <4> QED BY <3>1, <4>1, <4>2, <4>3, PartIs
    <3> QED BY <2>21, <3>1, <3>2, SeqEqual
  <2>23. PICK y : y = w.blocks \o found OBVIOUS
  <2>24. y = SubSeq(s, S + 1, B + st + k)
    <3>1. PICK b \in Nat : b = B + st OBVIOUS
    <3>2. PICK e \in Nat : e = B + st + k OBVIOUS
    <3>3. S <= b /\ b <= e /\ e <= Len(s) BY <1>2, <2>1, <2>19, <3>1, <3>2
    <3>4. SubSeq(s, S + 1, b) \o SubSeq(s, b + 1, e) = SubSeq(s, S + 1, e) BY <3>3, PartsJoin
    <3> QED BY <2>1, <2>22, <2>23, <3>1, <3>2, <3>4
  <2>25. PICK x \in Nat : x = c - k BY <2>19
  <2>26. PICK v : v = [blocks |-> y, start |-> 0, count |-> x] OBVIOUS
  <2>27. files!Level(w, slots, width) = v
    <3>1. ~(w.start >= width) /\ ~(w.count = 0) BY <1>1, <1>5
    <3> QED BY <1>1, <3>1, <2>2, <2>15, <2>18, <2>20, <2>21, <2>23, <2>25, <2>26 DEF files!Level
  <2>28. v.start = 0 /\ v.count = x /\ v.blocks = y /\ DOMAIN v = {"blocks", "start", "count"}
    BY <2>26
  <2>29. CASE x = 0
    <3>1. S + C = B + st + k BY <2>1, <2>25, <2>29
    <3> QED BY <2>24, <2>27, <2>28, <2>29, <3>1 DEF Way
  <2>30. CASE x # 0
    <3>1. k = L /\ L < c BY <2>17, <2>18, <2>25, <2>30
    <3>2. L = width - st
      <4>1. ~(y1 >= y2) BY <2>5, <2>1, <2>7, <2>8, <3>1
      <4> QED BY <2>8, <2>6, <4>1
    <3>3. x \in 1 .. C /\ S + C - x = B + width + 0 /\ B + st + k = B + width + 0
      BY <1>5, <2>1, <2>25, <2>30, <3>1, <3>2
    <3> QED BY <2>24, <2>27, <2>28, <3>3 DEF Way
  <2> QED BY <2>29, <2>30
<1> QED BY <1>3, <1>4, <1>5

\* The levels of an inode.
LEMMA LevelsHave ==
  ASSUME NEW d, Sound(d), NEW n \in files!Node, NEW s, SlotsHave(d, n, s),
         NEW map, map = d.inode[n].map
  PROVE  /\ HasSlots(s, 0, SubSeq(map, 1, Direct), Direct)
         /\ HasSlots(s, Direct, files!Slots1(d, map[Direct + 1]), Ptrs)
         /\ HasSlots(s, Direct + Ptrs, files!Slots2(d, map[Direct + 2]), Squared)
         /\ HasSlots(s, Direct + Ptrs + Squared, files!Slots3(d, map[Direct + 3]), Ptrs * Squared)
<1>1. /\ Direct \in Nat \ {0} /\ Ptrs \in Nat \ {0} /\ Squared \in Nat \ {0} BY Geometry
<1>2. map \in [1 .. Direct + 3 -> Pointer] /\ \A i \in Direct + 1 .. Direct + 3 : map[i] \in files!BlockNo
  BY InodeIs
<1>3. /\ map[Direct + 1] \in files!BlockNo /\ map[Direct + 2] \in files!BlockNo
      /\ map[Direct + 3] \in files!BlockNo
  BY <1>1, <1>2
<1>4. \A w \in Nat : [1 .. w -> files!BlockNo] \subseteq Seq(Pointer)
                     /\ \A f \in [1 .. w -> files!BlockNo] : Len(f) = w
  BY DEF Pointer
<1>5. HasSlots(s, 0, SubSeq(map, 1, Direct), Direct)
  <2>1. SubSeq(map, 1, Direct) \in Seq(Pointer) /\ Len(SubSeq(map, 1, Direct)) = Direct
        /\ \A k \in 1 .. Direct : SubSeq(map, 1, Direct)[k] = map[k]
    <3>1. map \in Seq(Pointer) /\ Len(map) = Direct + 3 BY <1>1, <1>2, SMTT(30)
    <3>2. 0 + Direct <= Len(map) BY <1>1, <3>1
    <3>3. 0 + 1 = 1 /\ 0 + Direct = Direct /\ \A k \in 1 .. Direct : 0 + k = k BY <1>1
    <3>4. 0 \in Nat /\ Direct \in Nat BY <1>1
    <3> QED BY <3>1, <3>2, <3>3, <3>4, PartIs
  <2>2. \A k \in 1 .. Direct : map[k] = LogAt(s, k) /\ 0 + k = k BY <1>1 DEF SlotsHave, One
  <2> QED BY <2>1, <2>2 DEF HasSlots
<1>6. HasSlots(s, Direct, files!Slots1(d, map[Direct + 1]), Ptrs)
  <2>1. PICK t : t = files!Slots1(d, map[Direct + 1]) OBVIOUS
  <2>2. t \in [1 .. Ptrs -> files!BlockNo]
        /\ \A i \in 1 .. Ptrs : t[i] = files!At(d, map[Direct + 1], i)
    BY <1>3, <2>1, Slots1Are
  <2>3. \A i \in 1 .. Ptrs : t[i] = LogAt(s, Direct + i)
    BY <2>2 DEF SlotsHave, Two, One, Column
  <2> QED BY <1>1, <1>4, <2>1, <2>2, <2>3 DEF HasSlots
<1>7. HasSlots(s, Direct + Ptrs, files!Slots2(d, map[Direct + 2]), Squared)
  <2>1. PICK t : t = files!Slots2(d, map[Direct + 2]) OBVIOUS
  <2>2. t \in [1 .. Squared -> files!BlockNo]
        /\ \A i, j \in 1 .. Ptrs :
             t[Pos(i, j, Ptrs)] = files!At(d, files!At(d, map[Direct + 2], i), j)
    BY <1>3, <2>1, Slots2Are
  <2>3. \A k \in 1 .. Squared : t[k] = LogAt(s, Direct + Ptrs + k)
    <3> TAKE k \in 1 .. Squared
    <3>1. PICK i \in 1 .. Ptrs, j \in 1 .. Ptrs : k = Pos(i, j, Ptrs)
      BY <1>1, RowIn DEF Squared
    <3>2. t[k] = Three(d, n, Direct + 2, i, j) BY <2>2, <3>1 DEF Three, Two, One
    <3> QED BY <3>1, <3>2 DEF SlotsHave, Column
  <2> QED BY <1>1, <1>4, <2>1, <2>2, <2>3 DEF HasSlots
<1>8. HasSlots(s, Direct + Ptrs + Squared, files!Slots3(d, map[Direct + 3]), Ptrs * Squared)
  <2>0. PICK Q \in Nat : Q = Ptrs * Squared BY Positions
  <2>1. PICK t : t = files!Slots3(d, map[Direct + 3]) OBVIOUS
  <2>2. t \in [1 .. Q -> files!BlockNo]
        /\ \A i, j, l \in 1 .. Ptrs :
             t[Pos3(i, j, l)] = files!At(d, files!At(d, files!At(d, map[Direct + 3], i), j), l)
    <3>1. PICK b \in files!BlockNo : b = map[Direct + 3] BY <1>3
    <3>2. t = files!Slots3(d, b) BY <2>1, <3>1
    <3>3. files!Slots3(d, b) \in [1 .. Ptrs * Squared -> files!BlockNo] BY Slots3Are
    <3>4. \A i, j, l \in 1 .. Ptrs :
            t[Pos3(i, j, l)] = files!At(d, files!At(d, files!At(d, b, i), j), l)
      <4>1. \A i, j, l \in 1 .. Ptrs :
              /\ Pos3(i, j, l) \in 1 .. Ptrs * Squared
              /\ files!Slots3(d, b)[Pos3(i, j, l)]
                 = files!At(d, files!At(d, files!At(d, b, i), j), l)
        BY Slots3Are
      <4> QED BY <3>2, <4>1
    <3>5. t \in [1 .. Q -> files!BlockNo] BY <2>0, <3>2, <3>3
    <3> QED BY <3>1, <3>4, <3>5
  <2>3. \A k \in 1 .. Q : t[k] = LogAt(s, Direct + Ptrs + Squared + k)
    <3> TAKE k \in 1 .. Q
    <3>1. PICK i \in 1 .. Ptrs, p \in 1 .. Squared : k = Pos(i, p, Squared)
      BY <1>1, <2>0, RowIn
    <3>2. PICK j \in 1 .. Ptrs, l \in 1 .. Ptrs : p = Pos(j, l, Ptrs)
      BY <1>1, RowIn DEF Squared
    <3>3. k = Pos3(i, j, l) BY <3>1, <3>2 DEF Pos3
    <3>4. t[k] = Four(d, n, Direct + 3, i, j, l) BY <2>2, <3>3 DEF Four, Three, Two, One
    <3> QED BY <3>3, <3>4 DEF SlotsHave, Column
  <2> QED BY <1>4, <2>0, <2>1, <2>2, <2>3 DEF HasSlots
<1> QED BY <1>5, <1>6, <1>7, <1>8

\* get_file_block_indexes returns a part of what was added.
LEMMA FileBlocksAre ==
  ASSUME NEW d, Sound(d), NEW n \in files!Node, NEW s, SlotsHave(d, n, s),
         NEW S \in Nat, NEW C \in Nat, S + C <= Len(s)
  PROVE  files!FileBlocks(d, n, S, C) = SubSeq(s, S + 1, S + C)
<1>1. PICK map : map = d.inode[n].map OBVIOUS
<1>2. /\ Direct \in Nat \ {0} /\ Ptrs \in Nat \ {0} /\ Squared \in Nat \ {0} BY Geometry
<1>3. PICK Q \in Nat : Q = Ptrs * Squared BY Positions
<1>4. Squared = Ptrs * Ptrs /\ Q = Ptrs * Ptrs * Ptrs
  <2>1. \A a \in Nat : a * (a * a) = a * a * a OBVIOUS
  <2> QED BY <1>2, <1>3, <2>1 DEF Squared
<1>5. s \in Seq(Pointer \ {files!Null}) BY DEF SlotsHave
<1>6. PICK w0 : w0 = [blocks |-> <<>>, start |-> S, count |-> C] OBVIOUS
<1>7. Way(w0, s, S, C, 0)
  <2>1. SubSeq(s, S + 1, S) = <<>> BY <1>5
  <2>2. C = 0 => SubSeq(s, S + 1, S + C) = <<>> BY <2>1
  <2>3. C # 0 => C \in 1 .. C /\ S + C - C = 0 + S /\ SubSeq(s, S + 1, 0 + S) = <<>> BY <2>1
  <2> QED BY <1>6, <2>2, <2>3 DEF Way
<1>8. PICK w1 : w1 = files!Level(w0, SubSeq(map, 1, Direct), Direct) OBVIOUS
<1>9. PICK w2 : w2 = files!Level(w1, files!Slots1(d, map[Direct + 1]), Ptrs) OBVIOUS
<1>10. PICK w3 : w3 = files!Level(w2, files!Slots2(d, map[Direct + 2]), Squared) OBVIOUS
<1>11. PICK w4 : w4 = files!Level(w3, files!Slots3(d, map[Direct + 3]), Q) OBVIOUS
<1>12. /\ HasSlots(s, 0, SubSeq(map, 1, Direct), Direct)
       /\ HasSlots(s, Direct, files!Slots1(d, map[Direct + 1]), Ptrs)
       /\ HasSlots(s, Direct + Ptrs, files!Slots2(d, map[Direct + 2]), Squared)
       /\ HasSlots(s, Direct + Ptrs + Squared, files!Slots3(d, map[Direct + 3]), Q)
  BY <1>1, <1>3, LevelsHave
<1>13. Way(w1, s, S, C, Direct)
  <2>1. 0 \in Nat /\ 0 + Direct = Direct BY <1>2
  <2>2. Way(w1, s, S, C, 0 + Direct) BY <1>2, <1>5, <1>7, <1>8, <1>12, <2>1, LevelGoes
  <2> QED BY <2>1, <2>2
<1>14. Way(w2, s, S, C, Direct + Ptrs) BY <1>2, <1>5, <1>9, <1>12, <1>13, LevelGoes
<1>15. Way(w3, s, S, C, Direct + Ptrs + Squared)
  BY <1>2, <1>5, <1>10, <1>12, <1>14, LevelGoes, SMTT(30)
<1>16. Way(w4, s, S, C, Direct + Ptrs + Squared + Q)
  BY <1>2, <1>3, <1>5, <1>11, <1>12, <1>15, LevelGoes, SMTT(30)
<1>17. files!FileBlocks(d, n, S, C) = w4.blocks
  BY <1>1, <1>4, <1>6, <1>8, <1>9, <1>10, <1>11 DEF files!FileBlocks
<1>18. CASE w4.count = 0 BY <1>16, <1>17, <1>18 DEF Way
<1>19. CASE w4.count # 0
  <2>1. w4.count \in 1 .. C /\ S + C - w4.count = Direct + Ptrs + Squared + Q + w4.start
        /\ w4.start \in Nat
    BY <1>16, <1>19 DEF Way
  <2>2. Len(s) <= Direct + Ptrs + Squared + Q /\ Len(s) \in Nat BY <1>3, <1>5 DEF SlotsHave
  <2> QED BY <1>2, <2>1, <2>2
<1> QED BY <1>18, <1>19

-----------------------------------------------------------------------------
\* Paths: the pointers r, i, j, l that lead from an inode to a block, 0 for those
\* that a shorter path has not.
Val(d, n, r, i, j, l) ==
  IF i = 0 THEN One(d, n, r)
  ELSE IF j = 0 THEN Two(d, n, r, i)
  ELSE IF l = 0 THEN Three(d, n, r, i, j)
  ELSE Four(d, n, r, i, j, l)

IsPath(r, i, j, l) ==
  /\ r \in Place /\ i \in 0 .. Ptrs /\ j \in 0 .. Ptrs /\ l \in 0 .. Ptrs
  /\ i = 0 => j = 0 /\ l = 0
  /\ j = 0 => l = 0

LEMMA PathIs ==
  ASSUME NEW d, NEW n, NEW r, NEW i, NEW j, NEW l, IsPath(r, i, j, l)
  PROVE  /\ i = 0 => j = 0 /\ l = 0 /\ Val(d, n, r, i, j, l) = One(d, n, r)
         /\ i # 0 /\ j = 0 => i \in Column /\ l = 0 /\ Val(d, n, r, i, j, l) = Two(d, n, r, i)
         /\ i # 0 /\ j # 0 /\ l = 0 =>
              i \in Column /\ j \in Column /\ Val(d, n, r, i, j, l) = Three(d, n, r, i, j)
         /\ i # 0 /\ j # 0 /\ l # 0 =>
              /\ i \in Column /\ j \in Column /\ l \in Column
              /\ Val(d, n, r, i, j, l) = Four(d, n, r, i, j, l)
<1>1. Ptrs \in Nat BY Geometry
<1>2. \A k \in 0 .. Ptrs : k # 0 => k \in Column BY <1>1 DEF Column
<1> QED BY <1>2 DEF Val, IsPath

\* Two fourth pointers to the same block are one.
MeetAtFour(d, n, m, r, s, i, k, j, h, l, g) ==
  Four(d, n, r, i, j, l) = Four(d, m, s, k, h, g) /\ Four(d, n, r, i, j, l) # files!Null =>
    n = m /\ r = s /\ i = k /\ j = h /\ l = g

LEMMA OneFourth ==
  ASSUME NEW d, NEW O, FourApart(d, O)
  PROVE  \A n, m \in O : \A r, s \in Place : \A i, k, j, h, l, g \in Column :
           MeetAtFour(d, n, m, r, s, i, k, j, h, l, g)
BY DEF FourApart, MeetAtFour

\* A block is at the end of one path only.
LEMMA OnePath ==
  ASSUME NEW d, NEW O, Unshared(d, O), Apart(d, O), NEW n \in O, NEW m \in O,
         NEW r, NEW i, NEW j, NEW l, IsPath(r, i, j, l),
         NEW s, NEW k, NEW h, NEW g, IsPath(s, k, h, g),
         Val(d, n, r, i, j, l) = Val(d, m, s, k, h, g), Val(d, n, r, i, j, l) # files!Null
  PROVE  n = m /\ r = s /\ i = k /\ j = h /\ l = g
<1>1. PICK y : y = Val(d, n, r, i, j, l) /\ y = Val(d, m, s, k, h, g) /\ y # files!Null OBVIOUS
<1>2. r \in Place /\ s \in Place BY DEF IsPath
<1>3. CASE i = 0
  <2>1. y = One(d, n, r) /\ i = 0 /\ j = 0 /\ l = 0 BY <1>1, <1>3, PathIs
  <2>2. CASE k = 0
    <3>1. y = One(d, m, s) /\ k = 0 /\ h = 0 /\ g = 0 BY <1>1, <2>2, PathIs
    <3>3. One(d, n, r) = One(d, m, s) /\ One(d, n, r) # files!Null BY <1>1, <2>1, <3>1
    <3>4. n = m /\ r = s BY <1>2, <2>1, <3>1, <3>3 DEF Unshared
    <3> QED BY <2>1, <3>1, <3>4
  <2>3. CASE k # 0 /\ h = 0
    <3>1. y = Two(d, m, s, k) /\ k \in Column /\ h = 0 /\ g = 0 BY <1>1, <2>3, PathIs
    <3> QED BY <1>1, <1>2, <2>1, <3>1 DEF Apart, OneOthers
  <2>4. CASE k # 0 /\ h # 0 /\ g = 0
    <3>1. y = Three(d, m, s, k, h) /\ k \in Column /\ h \in Column /\ g = 0 BY <1>1, <2>4, PathIs
    <3> QED BY <1>1, <1>2, <2>1, <3>1 DEF Apart, OneOthers
  <2>5. CASE k # 0 /\ h # 0 /\ g # 0
    <3>1. y = Four(d, m, s, k, h, g) /\ k \in Column /\ h \in Column /\ g \in Column BY <1>1, <2>5, PathIs
    <3> QED BY <1>1, <1>2, <2>1, <3>1 DEF Apart, OneOthers
  <2> QED BY <2>2, <2>3, <2>4, <2>5
<1>4. CASE i # 0 /\ j = 0
  <2>1. y = Two(d, n, r, i) /\ i \in Column /\ j = 0 /\ l = 0 BY <1>1, <1>4, PathIs
  <2>2. CASE k = 0
    <3>1. y = One(d, m, s) /\ k = 0 /\ h = 0 /\ g = 0 BY <1>1, <2>2, PathIs
    <3> QED BY <1>1, <1>2, <2>1, <3>1 DEF Apart, OneOthers
  <2>3. CASE k # 0 /\ h = 0
    <3>1. y = Two(d, m, s, k) /\ k \in Column /\ h = 0 /\ g = 0 BY <1>1, <2>3, PathIs
    <3>2. TwoApart(d, O) BY DEF Apart
    <3>3. Two(d, n, r, i) = Two(d, m, s, k) /\ Two(d, n, r, i) # files!Null BY <1>1, <2>1, <3>1
    <3>4. n = m /\ r = s /\ i = k BY <1>2, <2>1, <3>1, <3>2, <3>3 DEF TwoApart
    <3> QED BY <2>1, <3>1, <3>4
  <2>4. CASE k # 0 /\ h # 0 /\ g = 0
    <3>1. y = Three(d, m, s, k, h) /\ k \in Column /\ h \in Column /\ g = 0 BY <1>1, <2>4, PathIs
    <3> QED BY <1>1, <1>2, <2>1, <3>1 DEF Apart, TwoOthers
  <2>5. CASE k # 0 /\ h # 0 /\ g # 0
    <3>1. y = Four(d, m, s, k, h, g) /\ k \in Column /\ h \in Column /\ g \in Column BY <1>1, <2>5, PathIs
    <3> QED BY <1>1, <1>2, <2>1, <3>1 DEF Apart, TwoOthers
  <2> QED BY <2>2, <2>3, <2>4, <2>5
<1>5. CASE i # 0 /\ j # 0 /\ l = 0
  <2>1. y = Three(d, n, r, i, j) /\ i \in Column /\ j \in Column /\ l = 0 BY <1>1, <1>5, PathIs
  <2>2. CASE k = 0
    <3>1. y = One(d, m, s) /\ k = 0 /\ h = 0 /\ g = 0 BY <1>1, <2>2, PathIs
    <3> QED BY <1>1, <1>2, <2>1, <3>1 DEF Apart, OneOthers
  <2>3. CASE k # 0 /\ h = 0
    <3>1. y = Two(d, m, s, k) /\ k \in Column /\ h = 0 /\ g = 0 BY <1>1, <2>3, PathIs
    <3> QED BY <1>1, <1>2, <2>1, <3>1 DEF Apart, TwoOthers
  <2>4. CASE k # 0 /\ h # 0 /\ g = 0
    <3>1. y = Three(d, m, s, k, h) /\ k \in Column /\ h \in Column /\ g = 0 BY <1>1, <2>4, PathIs
    <3>2. ThreeApart(d, O) BY DEF Apart
    <3>3. Three(d, n, r, i, j) = Three(d, m, s, k, h) /\ Three(d, n, r, i, j) # files!Null BY <1>1, <2>1, <3>1
    <3>4. n = m /\ r = s /\ i = k /\ j = h BY <1>2, <2>1, <3>1, <3>2, <3>3 DEF ThreeApart
    <3> QED BY <2>1, <3>1, <3>4
  <2>5. CASE k # 0 /\ h # 0 /\ g # 0
    <3>1. y = Four(d, m, s, k, h, g) /\ k \in Column /\ h \in Column /\ g \in Column BY <1>1, <2>5, PathIs
    <3> QED BY <1>1, <1>2, <2>1, <3>1 DEF Apart, ThreeOthers
  <2> QED BY <2>2, <2>3, <2>4, <2>5
<1>6. CASE i # 0 /\ j # 0 /\ l # 0
  <2>1. y = Four(d, n, r, i, j, l) /\ i \in Column /\ j \in Column /\ l \in Column BY <1>1, <1>6, PathIs
  <2>2. CASE k = 0
    <3>1. y = One(d, m, s) /\ k = 0 /\ h = 0 /\ g = 0 BY <1>1, <2>2, PathIs
    <3> QED BY <1>1, <1>2, <2>1, <3>1 DEF Apart, OneOthers
  <2>3. CASE k # 0 /\ h = 0
    <3>1. y = Two(d, m, s, k) /\ k \in Column /\ h = 0 /\ g = 0 BY <1>1, <2>3, PathIs
    <3> QED BY <1>1, <1>2, <2>1, <3>1 DEF Apart, TwoOthers
  <2>4. CASE k # 0 /\ h # 0 /\ g = 0
    <3>1. y = Three(d, m, s, k, h) /\ k \in Column /\ h \in Column /\ g = 0 BY <1>1, <2>4, PathIs
    <3> QED BY <1>1, <1>2, <2>1, <3>1 DEF Apart, ThreeOthers
  <2>5. CASE k # 0 /\ h # 0 /\ g # 0
    <3>1. y = Four(d, m, s, k, h, g) /\ k \in Column /\ h \in Column /\ g \in Column BY <1>1, <2>5, PathIs
    <3>2. FourApart(d, O) BY DEF Apart
    <3>3. Four(d, n, r, i, j, l) = Four(d, m, s, k, h, g) /\ Four(d, n, r, i, j, l) # files!Null BY <1>1, <2>1, <3>1
    <3>4. n = m /\ r = s /\ i = k /\ j = h /\ l = g
      <4>1. \A x, z \in O : \A p, q \in Place : \A a, b, c, e, u, v \in Column :
              MeetAtFour(d, x, z, p, q, a, b, c, e, u, v)
        BY <3>2, OneFourth
      <4>2. MeetAtFour(d, n, m, r, s, i, k, j, h, l, g) BY <1>2, <2>1, <3>1, <4>1
      <4> QED BY <3>3, <4>2 DEF MeetAtFour
    <3> QED BY <2>1, <3>1, <3>4
  <2> QED BY <2>2, <2>3, <2>4, <2>5
<1> QED BY <1>3, <1>4, <1>5, <1>6

\* The paths to the blocks that were added, and those to the indirect blocks.
SlotPath(p, r, i, j, l) ==
  /\ IsPath(r, i, j, l)
  /\ \/ r \in 1 .. Direct /\ i = 0 /\ p = r
     \/ r = Direct + 1 /\ i # 0 /\ j = 0 /\ p = Direct + i
     \/ r = Direct + 2 /\ j # 0 /\ l = 0 /\ p = Direct + Ptrs + Pos(i, j, Ptrs)
     \/ r = Direct + 3 /\ l # 0 /\ p = Direct + Ptrs + Squared + Pos3(i, j, l)
BranchPath(r, i, j, l) ==
  /\ IsPath(r, i, j, l) /\ l = 0
  /\ \/ r = Direct + 1 /\ i = 0
     \/ r = Direct + 2 /\ j = 0
     \/ r = Direct + 3

LEMMA SlotOrBranch ==
  ASSUME NEW p, NEW r, NEW i, NEW j, NEW l, SlotPath(p, r, i, j, l)
  PROVE  /\ ~BranchPath(r, i, j, l)
         /\ \A q : SlotPath(q, r, i, j, l) => q = p
<1>1. Direct \in Nat BY Geometry
<1>2. i = 0 => j = 0 /\ l = 0 BY DEF SlotPath, IsPath
<1>3. j = 0 => l = 0 BY DEF SlotPath, IsPath
<1>4. r \in 1 .. Direct => r # Direct + 1 /\ r # Direct + 2 /\ r # Direct + 3 BY <1>1
<1>5. Direct + 1 # Direct + 2 /\ Direct + 1 # Direct + 3 /\ Direct + 2 # Direct + 3 BY <1>1
<1>6. \A q : SlotPath(q, r, i, j, l) => q = p BY <1>2, <1>3, <1>4, <1>5 DEF SlotPath
<1>7. ~BranchPath(r, i, j, l) BY <1>2, <1>3, <1>4, <1>5 DEF SlotPath, BranchPath
<1> QED BY <1>6, <1>7

LEMMA PathOfSlot ==
  ASSUME NEW d, NEW n, InLog(d, n), NEW p \in 1 .. Len(d.log[n])
  PROVE  /\ d.log[n][p] # files!Null
         /\ \E r, i, j, l : SlotPath(p, r, i, j, l) /\ Val(d, n, r, i, j, l) = d.log[n][p]
<1>1. PICK s \in Seq(files!BlockNo \ {files!Null}) : s = d.log[n] BY DEF InLog
<1>2. PICK N \in Nat : N = Len(s) BY LenProperties
<1>3. p \in 1 .. N /\ LogAt(s, p) = s[p] BY <1>1, <1>2 DEF LogAt
<1>4. s[p] # files!Null BY <1>1, <1>2, <1>3
<1>5. Direct \in Nat \ {0} /\ Ptrs \in Nat \ {0} /\ Squared \in Nat \ {0} BY Geometry
<1>6. PICK Q \in Nat : Q = Ptrs * Squared BY Positions
<1>7. N <= Direct + Ptrs + Squared + Q BY <1>1, <1>2, <1>6 DEF InLog
<1>8. 0 \in 0 .. Ptrs /\ \A k \in Column : k \in 0 .. Ptrs /\ k # 0 BY <1>5 DEF Column
<1>9. Direct + 1 \in Place /\ Direct + 2 \in Place /\ Direct + 3 \in Place
      /\ 1 .. Direct \subseteq Place
  BY Geometry
<1>10. \E r, i, j, l : SlotPath(p, r, i, j, l) /\ Val(d, n, r, i, j, l) = s[p]
  <2>1. CASE p <= Direct
    <3>1. p \in 1 .. Direct BY <1>3, <2>1
    <3>2. SlotPath(p, p, 0, 0, 0) BY <1>8, <1>9, <3>1 DEF SlotPath, IsPath
    <3>3. Val(d, n, p, 0, 0, 0) = One(d, n, p) BY DEF Val
    <3>4. One(d, n, p) = LogAt(s, p) BY <1>1, <3>1 DEF InLog
    <3> QED BY <1>3, <3>2, <3>3, <3>4
  <2>2. CASE p > Direct /\ p <= Direct + Ptrs
    <3>1. PICK i \in Column : p = Direct + i
      <4>1. p - Direct \in 1 .. Ptrs /\ p = Direct + (p - Direct) BY <1>3, <1>5, <2>2
      <4> QED BY <4>1 DEF Column
    <3>2. SlotPath(p, Direct + 1, i, 0, 0) BY <1>8, <1>9, <3>1 DEF SlotPath, IsPath
    <3>3. Val(d, n, Direct + 1, i, 0, 0) = Two(d, n, Direct + 1, i) BY <1>8 DEF Val
    <3>4. Two(d, n, Direct + 1, i) = LogAt(s, p) BY <1>1, <3>1 DEF InLog
    <3> QED BY <1>3, <3>2, <3>3, <3>4
  <2>3. CASE p > Direct + Ptrs /\ p <= Direct + Ptrs + Squared
    <3>1. PICK q \in 1 .. Squared : p = Direct + Ptrs + q
      <4>1. p - (Direct + Ptrs) \in 1 .. Squared /\ p = Direct + Ptrs + (p - (Direct + Ptrs))
        BY <1>3, <1>5, <2>3
      <4> QED BY <4>1
    <3>2. PICK i \in Column, j \in Column : q = Pos(i, j, Ptrs)
      BY <1>5, <3>1, RowIn DEF Squared, Column
    <3>3. SlotPath(p, Direct + 2, i, j, 0) BY <1>8, <1>9, <3>1, <3>2 DEF SlotPath, IsPath
    <3>4. Val(d, n, Direct + 2, i, j, 0) = Three(d, n, Direct + 2, i, j) BY <1>8 DEF Val
    <3>5. Three(d, n, Direct + 2, i, j) = LogAt(s, p) BY <1>1, <3>1, <3>2 DEF InLog
    <3> QED BY <1>3, <3>3, <3>4, <3>5
  <2>4. CASE p > Direct + Ptrs + Squared
    <3>1. PICK q \in 1 .. Q : p = Direct + Ptrs + Squared + q
      <4>1. p - (Direct + Ptrs + Squared) \in 1 .. Q
            /\ p = Direct + Ptrs + Squared + (p - (Direct + Ptrs + Squared))
        BY <1>3, <1>5, <1>7, <2>4
      <4> QED BY <4>1
    <3>2. PICK i \in Column, h \in 1 .. Squared : q = Pos(i, h, Squared)
      BY <1>5, <1>6, <3>1, RowIn DEF Column
    <3>3. PICK j \in Column, l \in Column : h = Pos(j, l, Ptrs)
      BY <1>5, <3>2, RowIn DEF Squared, Column
    <3>4. q = Pos3(i, j, l) BY <3>2, <3>3 DEF Pos3
    <3>5. SlotPath(p, Direct + 3, i, j, l) BY <1>8, <1>9, <3>1, <3>4 DEF SlotPath, IsPath
    <3>6. Val(d, n, Direct + 3, i, j, l) = Four(d, n, Direct + 3, i, j, l) BY <1>8 DEF Val
    <3>7. Four(d, n, Direct + 3, i, j, l) = LogAt(s, p) BY <1>1, <3>1, <3>4 DEF InLog
    <3> QED BY <1>3, <3>5, <3>6, <3>7
  <2> QED BY <1>3, <1>5, <2>1, <2>2, <2>3, <2>4
<1> QED BY <1>1, <1>4, <1>10

LEMMA PathOfBranch ==
  ASSUME NEW d, NEW n, NEW y, Branch(d, n, y)
  PROVE  /\ y # files!Null
         /\ \E r, i, j, l : BranchPath(r, i, j, l) /\ Val(d, n, r, i, j, l) = y
<1>1. Ptrs \in Nat \ {0} BY Geometry
<1>2. 0 \in 0 .. Ptrs /\ \A k \in Column : k \in 0 .. Ptrs /\ k # 0 BY <1>1 DEF Column
<1>3. Direct + 1 \in Place /\ Direct + 2 \in Place /\ Direct + 3 \in Place BY Geometry
<1>4. y # files!Null BY DEF Branch
<1>5. CASE \E r \in {Direct + 1, Direct + 2, Direct + 3} : y = One(d, n, r)
  <2>1. PICK r \in {Direct + 1, Direct + 2, Direct + 3} : y = One(d, n, r) BY <1>5
  <2>2. BranchPath(r, 0, 0, 0) BY <1>2, <1>3 DEF BranchPath, IsPath
  <2>3. Val(d, n, r, 0, 0, 0) = One(d, n, r) BY DEF Val
  <2> QED BY <1>4, <2>1, <2>2, <2>3
<1>6. CASE \E r \in {Direct + 2, Direct + 3} : \E i \in Column : y = Two(d, n, r, i)
  <2>1. PICK r \in {Direct + 2, Direct + 3}, i \in Column : y = Two(d, n, r, i) BY <1>6
  <2>2. BranchPath(r, i, 0, 0) BY <1>2, <1>3 DEF BranchPath, IsPath
  <2>3. Val(d, n, r, i, 0, 0) = Two(d, n, r, i) BY <1>2 DEF Val
  <2> QED BY <1>4, <2>1, <2>2, <2>3
<1>7. CASE \E i, j \in Column : y = Three(d, n, Direct + 3, i, j)
  <2>1. PICK i \in Column, j \in Column : y = Three(d, n, Direct + 3, i, j) BY <1>7
  <2>2. BranchPath(Direct + 3, i, j, 0) BY <1>2, <1>3 DEF BranchPath, IsPath
  <2>3. Val(d, n, Direct + 3, i, j, 0) = Three(d, n, Direct + 3, i, j) BY <1>2 DEF Val
  <2> QED BY <1>4, <2>1, <2>2, <2>3
<1> QED BY <1>5, <1>6, <1>7 DEF Branch

-----------------------------------------------------------------------------
\* What an inode owns is its own.

LEMMA HeldApart ==
  ASSUME NEW d, NEW O, NEW F, Held(d, O, F)
  PROVE  Unshared(d, O) /\ Reached(d, O) /\ Apart(d, O)
<1>1. Unshared(d, O) /\ Sound(d) /\ Fresh(d, O, F) BY DEF Held
<1>2. Reached(d, O) BY <1>1, ReachesBlocks
<1> QED BY <1>1, <1>2, AreApart

\* A path to a block the inode owns.
OwnPath(d, n, y, r, i, j, l) ==
  /\ Val(d, n, r, i, j, l) = y
  /\ BranchPath(r, i, j, l) \/ \E p \in 1 .. Len(d.log[n]) : SlotPath(p, r, i, j, l)

LEMMA OwnedIs ==
  ASSUME NEW d, Sound(d), NEW n \in files!Node, InLog(d, n), NEW y
  PROVE  y \in files!Owned(d, n) <=>
           Branch(d, n, y) \/ \E p \in 1 .. Len(d.log[n]) : y = d.log[n][p]
<1>1. y \in files!IndirectBlocks(d, n) <=> Branch(d, n, y) BY BranchIs
<1>2. PICK s \in Seq(files!BlockNo \ {files!Null}) : s = d.log[n] BY DEF InLog
<1>3. DOMAIN s = 1 .. Len(s) BY LenProperties
<1>4. y \in files!ToSet(s) <=> \E p \in 1 .. Len(s) : y = s[p] BY <1>3 DEF files!ToSet
<1> QED BY <1>1, <1>2, <1>4 DEF files!Owned

LEMMA OwnedPath ==
  ASSUME NEW d, NEW O, NEW F, Held(d, O, F), NEW n \in O, NEW y \in files!Owned(d, n)
  PROVE  y # files!Null /\ \E r, i, j, l : OwnPath(d, n, y, r, i, j, l)
<1>1. Sound(d) /\ n \in files!Node /\ InLog(d, n) BY DEF Held
<1>2. Branch(d, n, y) \/ \E p \in 1 .. Len(d.log[n]) : y = d.log[n][p] BY <1>1, OwnedIs
<1>3. CASE Branch(d, n, y)
  <2>1. y # files!Null BY <1>3, PathOfBranch
  <2>2. PICK r, i, j, l : BranchPath(r, i, j, l) /\ Val(d, n, r, i, j, l) = y
    BY <1>3, PathOfBranch
  <2>3. OwnPath(d, n, y, r, i, j, l) BY <2>2 DEF OwnPath
  <2> QED BY <2>1, <2>3
<1>4. CASE \E p \in 1 .. Len(d.log[n]) : y = d.log[n][p]
  <2>0. PICK p \in 1 .. Len(d.log[n]) : y = d.log[n][p] BY <1>4
  <2>1. y # files!Null BY <1>1, <2>0, PathOfSlot
  <2>2. PICK r, i, j, l : SlotPath(p, r, i, j, l) /\ Val(d, n, r, i, j, l) = y
    BY <1>1, <2>0, PathOfSlot
  <2>3. OwnPath(d, n, y, r, i, j, l) BY <2>2 DEF OwnPath
  <2> QED BY <2>1, <2>3
<1> QED BY <1>2, <1>3, <1>4

LEMMA OwnPathIs ==
  ASSUME NEW d, NEW n, NEW y, NEW r, NEW i, NEW j, NEW l, OwnPath(d, n, y, r, i, j, l)
  PROVE  IsPath(r, i, j, l) /\ Val(d, n, r, i, j, l) = y
BY DEF OwnPath, BranchPath, SlotPath

LEMMA OwnedOnce ==
  ASSUME NEW d, NEW O, NEW F, Held(d, O, F), NEW n \in O, NEW m \in O, NEW y,
         y \in files!Owned(d, n), y \in files!Owned(d, m)
  PROVE  n = m
<1>1. y # files!Null BY OwnedPath
<1>2. PICK r, i, j, l : OwnPath(d, n, y, r, i, j, l) BY OwnedPath
<1>3. PICK s, k, h, g : OwnPath(d, m, y, s, k, h, g) BY OwnedPath
<1>4. IsPath(r, i, j, l) /\ Val(d, n, r, i, j, l) = y BY <1>2, OwnPathIs
<1>5. IsPath(s, k, h, g) /\ Val(d, m, s, k, h, g) = y BY <1>3, OwnPathIs
<1>6. Unshared(d, O) /\ Apart(d, O) BY HeldApart
<1>7. Val(d, n, r, i, j, l) = Val(d, m, s, k, h, g) /\ Val(d, n, r, i, j, l) # files!Null
  BY <1>1, <1>4, <1>5
<1> QED BY <1>4, <1>5, <1>6, <1>7, OnePath

\* No block is added twice, and none is an indirect block too.
LEMMA LogOnce ==
  ASSUME NEW d, NEW O, NEW F, Held(d, O, F), NEW n \in O, NEW p \in 1 .. Len(d.log[n])
  PROVE  /\ \A q \in 1 .. Len(d.log[n]) : d.log[n][p] = d.log[n][q] => p = q
         /\ ~Branch(d, n, d.log[n][p])
<1>0. InLog(d, n) BY DEF Held
<1>1. PICK y : y = d.log[n][p] /\ y # files!Null BY <1>0, PathOfSlot
<1>2. PICK r, i, j, l : SlotPath(p, r, i, j, l) /\ Val(d, n, r, i, j, l) = y
  BY <1>0, <1>1, PathOfSlot
<1>3. IsPath(r, i, j, l) BY <1>2 DEF SlotPath
<1>4. Unshared(d, O) /\ Apart(d, O) BY HeldApart
<1>5. ASSUME NEW q \in 1 .. Len(d.log[n]), d.log[n][p] = d.log[n][q] PROVE p = q
  <2>1. PICK s, k, h, g : SlotPath(q, s, k, h, g) /\ Val(d, n, s, k, h, g) = y
    BY <1>0, <1>1, <1>5, PathOfSlot
  <2>2. IsPath(s, k, h, g) BY <2>1 DEF SlotPath
  <2>3. Val(d, n, r, i, j, l) = Val(d, n, s, k, h, g) /\ Val(d, n, r, i, j, l) # files!Null
    BY <1>1, <1>2, <2>1
  <2>4. r = s /\ i = k /\ j = h /\ l = g BY <1>3, <1>4, <2>2, <2>3, OnePath
  <2>5. SlotPath(q, r, i, j, l) BY <2>1, <2>4
  <2> QED BY <1>2, <2>5, SlotOrBranch
<1>6. ASSUME Branch(d, n, y) PROVE FALSE
  <2>1. PICK s, k, h, g : BranchPath(s, k, h, g) /\ Val(d, n, s, k, h, g) = y
    BY <1>6, PathOfBranch
  <2>2. IsPath(s, k, h, g) BY <2>1 DEF BranchPath
  <2>3. Val(d, n, r, i, j, l) = Val(d, n, s, k, h, g) /\ Val(d, n, r, i, j, l) # files!Null
    BY <1>1, <1>2, <2>1
  <2>4. r = s /\ i = k /\ j = h /\ l = g BY <1>3, <1>4, <2>2, <2>3, OnePath
  <2>5. BranchPath(r, i, j, l) BY <2>1, <2>4
  <2> QED BY <1>2, <2>5, SlotOrBranch
<1> QED BY <1>1, <1>5, <1>6

\* What an inode owns is in use and nothing else's.
LEMMA OwnedInUse ==
  ASSUME NEW d, NEW O, NEW F, Held(d, O, F), NEW n \in O, NEW y \in files!Owned(d, n)
  PROVE  y \in d.used \ (files!Formatted \cup d.lost \cup F) /\ y \in files!BlockNo
<1>0. Reached(d, O) BY HeldApart
<1>1. \A r \in Place :
        \/ One(d, n, r) = files!Null
        \/ One(d, n, r) \in d.used \ (files!Formatted \cup d.lost \cup F)
  BY DEF Held, Fresh
<1>2. ASSUME NEW b \in files!BlockNo, NEW i \in Column,
             b = files!Null \/ b \in d.used \ (files!Formatted \cup d.lost \cup F)
      PROVE  files!At(d, b, i) = files!Null
             \/ files!At(d, b, i) \in d.used \ (files!Formatted \cup d.lost \cup F)
  BY <1>2 DEF Held, Fresh, files!At
<1>3. ASSUME NEW r \in Place, NEW i \in Column
      PROVE  Two(d, n, r, i) = files!Null
             \/ Two(d, n, r, i) \in d.used \ (files!Formatted \cup d.lost \cup F)
  <2>1. One(d, n, r) \in files!BlockNo BY <1>0 DEF Reached
  <2> QED BY <1>1, <1>2, <2>1 DEF Two
<1>4. ASSUME NEW r \in Place, NEW i \in Column, NEW j \in Column
      PROVE  Three(d, n, r, i, j) = files!Null
             \/ Three(d, n, r, i, j) \in d.used \ (files!Formatted \cup d.lost \cup F)
  <2>1. Two(d, n, r, i) \in files!BlockNo BY <1>0 DEF Reached
  <2> QED BY <1>2, <1>3, <2>1 DEF Three
<1>5. ASSUME NEW r \in Place, NEW i \in Column, NEW j \in Column, NEW l \in Column
      PROVE  Four(d, n, r, i, j, l) = files!Null
             \/ Four(d, n, r, i, j, l) \in d.used \ (files!Formatted \cup d.lost \cup F)
  <2>1. Three(d, n, r, i, j) \in files!BlockNo BY <1>0 DEF Reached
  <2> QED BY <1>2, <1>4, <2>1 DEF Four
<1>6. y # files!Null BY OwnedPath
<1>7. PICK r, i, j, l : OwnPath(d, n, y, r, i, j, l) BY OwnedPath
<1>8. IsPath(r, i, j, l) /\ Val(d, n, r, i, j, l) = y BY <1>7, OwnPathIs
<1>9. r \in Place BY <1>8 DEF IsPath
<1>10. y \in d.used \ (files!Formatted \cup d.lost \cup F)
  <2>1. CASE i = 0 BY <1>1, <1>6, <1>8, <1>9, <2>1, PathIs
  <2>2. CASE i # 0 /\ j = 0
    <3>1. i \in Column /\ y = Two(d, n, r, i) BY <1>8, <2>2, PathIs
    <3> QED BY <1>3, <1>6, <1>9, <3>1
  <2>3. CASE i # 0 /\ j # 0 /\ l = 0
    <3>1. i \in Column /\ j \in Column /\ y = Three(d, n, r, i, j) BY <1>8, <2>3, PathIs
    <3> QED BY <1>4, <1>6, <1>9, <3>1
  <2>4. CASE i # 0 /\ j # 0 /\ l # 0
    <3>1. i \in Column /\ j \in Column /\ l \in Column /\ y = Four(d, n, r, i, j, l)
      BY <1>8, <2>4, PathIs
    <3> QED BY <1>5, <1>6, <1>9, <3>1
  <2> QED BY <2>1, <2>2, <2>3, <2>4
<1> QED BY <1>10 DEF Held, Sound, Counts

\* A block that points to one the inode owns is one of its indirect blocks.
LEMMA OwnedFrom ==
  ASSUME NEW d, NEW O, NEW F, Held(d, O, F), NEW n \in O, NEW b \in files!BlockNo,
         NEW i \in Column, d.ptrs[b][i] \in files!Owned(d, n)
  PROVE  Branch(d, n, b)
<1>0. Reached(d, O) /\ Unshared(d, O) BY HeldApart
<1>1. PICK y : y = d.ptrs[b][i] /\ y # files!Null BY OwnedPath
<1>2. PICK r, k, h, g : OwnPath(d, n, y, r, k, h, g) BY <1>1, OwnedPath
<1>3. IsPath(r, k, h, g) /\ Val(d, n, r, k, h, g) = y BY <1>2, OwnPathIs
<1>4. r \in Place BY <1>3 DEF IsPath
<1>5. ASSUME NEW c \in files!BlockNo, NEW x \in Column, y = files!At(d, c, x)
      PROVE  c = b /\ c # files!Null
  <2>1. c # files!Null /\ d.ptrs[c][x] = y BY <1>1, <1>5 DEF files!At
  <2> QED BY <1>0, <1>1, <2>1 DEF Unshared
<1>6. CASE k = 0
  <2>1. One(d, n, r) = y BY <1>3, <1>6, PathIs
  <2> QED BY <1>0, <1>1, <1>4, <2>1 DEF Unshared
<1>7. CASE k # 0 /\ h = 0
  <2>1. k \in Column /\ g = 0 /\ y = Two(d, n, r, k) BY <1>3, <1>7, PathIs
  <2>2. One(d, n, r) \in files!BlockNo BY <1>0, <1>4 DEF Reached
  <2>3. b = One(d, n, r) /\ b # files!Null BY <1>5, <2>1, <2>2 DEF Two
  <2>4. r \in {Direct + 1, Direct + 2, Direct + 3}
    BY <1>2, <1>7, <2>1 DEF OwnPath, SlotPath, BranchPath
  <2> QED BY <2>3, <2>4 DEF Branch
<1>8. CASE k # 0 /\ h # 0 /\ g = 0
  <2>1. k \in Column /\ h \in Column /\ y = Three(d, n, r, k, h) BY <1>3, <1>8, PathIs
  <2>2. Two(d, n, r, k) \in files!BlockNo BY <1>0, <1>4, <2>1 DEF Reached
  <2>3. b = Two(d, n, r, k) /\ b # files!Null BY <1>5, <2>1, <2>2 DEF Three
  <2>4. r \in {Direct + 2, Direct + 3}
    BY <1>2, <1>8 DEF OwnPath, SlotPath, BranchPath
  <2> QED BY <2>1, <2>3, <2>4 DEF Branch
<1>9. CASE k # 0 /\ h # 0 /\ g # 0
  <2>1. k \in Column /\ h \in Column /\ g \in Column /\ y = Four(d, n, r, k, h, g)
    BY <1>3, <1>9, PathIs
  <2>2. Three(d, n, r, k, h) \in files!BlockNo BY <1>0, <1>4, <2>1 DEF Reached
  <2>3. b = Three(d, n, r, k, h) /\ b # files!Null BY <1>5, <2>1, <2>2 DEF Four
  <2>4. r = Direct + 3
    BY <1>2, <1>9 DEF OwnPath, SlotPath, BranchPath
  <2> QED BY <2>1, <2>3, <2>4 DEF Branch
<1> QED BY <1>6, <1>7, <1>8, <1>9

-----------------------------------------------------------------------------
\* Inodes come and go.

\* Inode n is released: its blocks S are free, any other one is lost.
Dropped(d, e, O, n, S) ==
  /\ Sound(e) /\ DOMAIN e.log = files!Node
  /\ e.used = d.used \ S /\ e.lost = d.lost \cup (files!Owned(d, n) \ S)
  /\ \A b \in files!BlockNo : /\ b \in S => \A i \in Column : e.ptrs[b][i] = files!Null
                              /\ b \notin S => e.ptrs[b] = d.ptrs[b]
  /\ \A m \in O : m # n => e.inode[m].map = d.inode[m].map /\ e.log[m] = d.log[m]

LEMMA DropHeld ==
  ASSUME NEW d, NEW O, Held(d, O, {}), NEW n \in O, NEW S, S \subseteq files!Owned(d, n),
         S = {} \/ \A b : Branch(d, n, b) => b \in S,
         NEW e, Dropped(d, e, O, n, S)
  PROVE  Held(e, O \ {n}, {})
<1>1. PICK W : W = files!Owned(d, n) OBVIOUS
<1>2. S \subseteq W /\ e.lost = d.lost \cup (W \ S) /\ e.used = d.used \ S BY <1>1 DEF Dropped
<1>3. W \subseteq d.used \ (files!Formatted \cup d.lost) /\ W \subseteq files!BlockNo
  BY <1>1, OwnedInUse
<1>4. Sound(d) /\ O \subseteq files!Node /\ Unshared(d, O) /\ Fresh(d, O, {}) /\ Stock(d, {})
      /\ Cover(d, O, {})
  BY DEF Held
<1>5. ASSUME NEW m \in O, m # n
      PROVE  SamePlaces(d, e, m) /\ InLog(e, m) /\ files!Owned(e, m) = files!Owned(d, m)
  <2>1. ASSUME NEW b, Branch(d, m, b) PROVE e.ptrs[b] = d.ptrs[b]
    <3>1. b \in files!BlockNo BY <2>1, BranchInUse
    <3>2. b \in files!Owned(d, m) BY <1>4, <2>1, OwnedIs DEF Held
    <3>3. b \notin W BY <1>1, <1>5, <3>2, OwnedOnce
    <3> QED BY <1>2, <3>1, <3>3 DEF Dropped
  <2>2. e.inode[m].map = d.inode[m].map /\ e.log[m] = d.log[m] BY <1>5 DEF Dropped
  <2>3. SamePlaces(d, e, m) BY <2>1, <2>2, PlacesStay
  <2>4. Sound(e) /\ m \in files!Node /\ InLog(d, m) BY <1>4 DEF Dropped, Held
  <2> QED BY <1>4, <2>2, <2>3, <2>4, SameInLog, SameOwned
<1>6. \A b \in files!BlockNo : \A i \in Column :
        e.ptrs[b][i] = d.ptrs[b][i] \/ e.ptrs[b][i] = files!Null
  BY DEF Dropped
<1>7. PICK P : P = O \ {n} OBVIOUS
<1>8. Unshared(e, P)
  <2>1. \A m \in P : SameOne(d, e, m) BY <1>5, <1>7 DEF SamePlaces
  <2>2. P \in SUBSET O BY <1>7
  <2> QED BY <1>4, <1>6, <2>1, <2>2, FewerUnshared
<1>9. Fresh(e, P, {})
  <2>1. ASSUME NEW m \in P, NEW r \in Place
        PROVE  \/ One(e, m, r) = files!Null
               \/ One(e, m, r) \in e.used \ (files!Formatted \cup e.lost \cup {})
    <3>1. m \in O /\ m # n BY <1>7
    <3>2. One(e, m, r) = One(d, m, r) BY <1>5, <3>1 DEF SamePlaces, SameOne
    <3>3. CASE One(d, m, r) = files!Null BY <3>2, <3>3
    <3>4. CASE One(d, m, r) # files!Null
      <4>1. One(d, m, r) \in d.used \ (files!Formatted \cup d.lost)
        BY <1>4, <3>1, <3>4 DEF Fresh
      <4>2. One(d, m, r) \notin W
        <5> SUFFICES ASSUME One(d, m, r) \in W PROVE FALSE OBVIOUS
        <5>1. PICK s, k, h, g : OwnPath(d, n, One(d, m, r), s, k, h, g) BY <1>1, OwnedPath
        <5>2. IsPath(s, k, h, g) /\ Val(d, n, s, k, h, g) = One(d, m, r) BY <5>1, OwnPathIs
        <5>3. IsPath(r, 0, 0, 0) /\ Val(d, m, r, 0, 0, 0) = One(d, m, r)
          <6>1. 0 \in 0 .. Ptrs BY Geometry
          <6> QED BY <6>1 DEF IsPath, Val
        <5>4. Unshared(d, O) /\ Apart(d, O) BY HeldApart
        <5>5. Val(d, m, r, 0, 0, 0) = Val(d, n, s, k, h, g) /\ Val(d, m, r, 0, 0, 0) # files!Null
          BY <3>4, <5>2, <5>3
        <5> QED BY <3>1, <5>2, <5>3, <5>4, <5>5, OnePath
      <4> QED BY <1>2, <3>2, <4>1, <4>2
    <3> QED BY <3>3, <3>4
  <2>2. ASSUME NEW b \in files!BlockNo, NEW i \in Column
        PROVE  \/ e.ptrs[b][i] = files!Null
               \/ /\ e.ptrs[b][i] \in e.used \ (files!Formatted \cup {})
                  /\ b \notin e.lost => e.ptrs[b][i] \notin e.lost
    <3>1. CASE b \in S BY <3>1 DEF Dropped
    <3>2. CASE b \notin S
      <4>1. e.ptrs[b][i] = d.ptrs[b][i] BY <3>2 DEF Dropped
      <4>2. CASE d.ptrs[b][i] = files!Null BY <4>1, <4>2
      <4>3. CASE d.ptrs[b][i] \in W
        <5>1. Branch(d, n, b) BY <1>1, <4>3, OwnedFrom
        <5>2. b \in W BY <1>1, <1>4, <5>1, OwnedIs DEF Held
        <5>3. S = {} BY <3>2, <5>1
        <5>4. b \in e.lost BY <1>2, <5>2, <5>3
        <5>5. d.ptrs[b][i] \in e.used \ files!Formatted BY <1>2, <1>3, <4>3, <5>3
        <5> QED BY <4>1, <5>4, <5>5
      <4>4. CASE d.ptrs[b][i] # files!Null /\ d.ptrs[b][i] \notin W
        <5>1. d.ptrs[b][i] \in d.used \ files!Formatted
              /\ (b \notin d.lost => d.ptrs[b][i] \notin d.lost)
          BY <1>4, <4>4 DEF Fresh
        <5> QED BY <1>2, <4>1, <4>4, <5>1
      <4> QED BY <4>2, <4>3, <4>4
    <3> QED BY <3>1, <3>2
  <2> QED BY <2>1, <2>2 DEF Fresh
<1>10. Stock(e, {}) BY <1>2, <1>3, <1>4 DEF Stock
<1>11. Cover(e, P, {})
  <2> SUFFICES ASSUME NEW b \in e.used
               PROVE  b \in files!Formatted \cup e.lost \/ \E m \in P : b \in files!Owned(e, m)
    BY DEF Cover
  <2>1. b \in files!Formatted \cup d.lost \/ \E m \in O : b \in files!Owned(d, m)
    BY <1>2, <1>4 DEF Cover
  <2>2. CASE b \in files!Formatted \cup d.lost BY <1>2, <2>2
  <2>3. CASE \E m \in O : b \in files!Owned(d, m)
    <3>1. PICK m \in O : b \in files!Owned(d, m) BY <2>3
    <3>2. CASE m = n BY SMTT(30), <1>1, <1>2, <3>1, <3>2
    <3>3. CASE m # n BY <1>5, <1>7, <3>1, <3>3
    <3> QED BY <3>2, <3>3
  <2> QED BY <2>1, <2>2, <2>3
<1>12. \A m \in P : InLog(e, m) BY <1>5, <1>7
<1>13. P \subseteq files!Node /\ Sound(e) /\ DOMAIN e.log = files!Node BY <1>4, <1>7 DEF Dropped
<1> QED BY <1>7, <1>8, <1>9, <1>10, <1>11, <1>12, <1>13 DEF Held

\* Only what the inodes of O own and what they have in common matters.
Like(d, e, O) ==
  /\ Sound(e) /\ DOMAIN e.log = files!Node
  /\ e.used = d.used /\ e.lost = d.lost /\ e.ptrs = d.ptrs
  /\ \A m \in O : e.inode[m].map = d.inode[m].map /\ e.log[m] = d.log[m]

LEMMA LikeHeld ==
  ASSUME NEW d, NEW O, NEW F, Held(d, O, F), NEW e, Like(d, e, O)
  PROVE  Held(e, O, F)
<1>1. Sound(d) /\ O \subseteq files!Node /\ Unshared(d, O) /\ Fresh(d, O, F) /\ Stock(d, F)
      /\ Cover(d, O, F)
  BY DEF Held
<1>2. /\ Sound(e) /\ DOMAIN e.log = files!Node
      /\ e.used = d.used /\ e.lost = d.lost /\ e.ptrs = d.ptrs
  BY DEF Like
<1>3. ASSUME NEW m \in O
      PROVE  SamePlaces(d, e, m) /\ InLog(e, m) /\ files!Owned(e, m) = files!Owned(d, m)
  <2>1. e.inode[m].map = d.inode[m].map /\ e.log[m] = d.log[m] BY DEF Like
  <2>2. SamePlaces(d, e, m) BY <1>2, <2>1, PlacesStay
  <2>3. m \in files!Node /\ InLog(d, m) BY <1>1 DEF Held
  <2> QED BY <1>1, <1>2, <2>1, <2>2, <2>3, SameInLog, SameOwned
<1>4. \A m \in O : \A r \in Place : One(e, m, r) = One(d, m, r) BY <1>3 DEF SamePlaces, SameOne
<1>5. Unshared(e, O) BY <1>1, <1>2, <1>4 DEF Unshared
<1>6. Fresh(e, O, F) BY <1>1, <1>2, <1>4 DEF Fresh
<1>7. Stock(e, F) BY <1>1, <1>2 DEF Stock
<1>8. Cover(e, O, F) BY <1>1, <1>2, <1>3 DEF Cover
<1> QED BY <1>1, <1>2, <1>3, <1>5, <1>6, <1>7, <1>8 DEF Held

\* A new inode owns nothing.
Empty(d, n) == d.log[n] = <<>> /\ \A r \in Place : One(d, n, r) = files!Null

LEMMA EmptyPlaces ==
  ASSUME NEW d, NEW n, \A r \in Direct + 1 .. Direct + 3 : One(d, n, r) = files!Null
  PROVE  /\ \A y : ~Branch(d, n, y)
         /\ \A i \in Column : Two(d, n, Direct + 1, i) = files!Null
         /\ \A i, j \in Column : Three(d, n, Direct + 2, i, j) = files!Null
         /\ \A i, j, l \in Column : Four(d, n, Direct + 3, i, j, l) = files!Null
<1>1. One(d, n, Direct + 1) = files!Null /\ One(d, n, Direct + 2) = files!Null
      /\ One(d, n, Direct + 3) = files!Null
  <2>1. Direct \in Nat BY Geometry
  <2>2. Direct + 1 \in Direct + 1 .. Direct + 3 /\ Direct + 2 \in Direct + 1 .. Direct + 3
        /\ Direct + 3 \in Direct + 1 .. Direct + 3
    BY <2>1
  <2> QED BY <2>2
<1>2. \A r \in {Direct + 1, Direct + 2, Direct + 3} : \A i \in Column : Two(d, n, r, i) = files!Null
  BY <1>1 DEF Two, files!At
<1>3. \A r \in {Direct + 2, Direct + 3} : \A i, j \in Column : Three(d, n, r, i, j) = files!Null
  BY <1>2 DEF Three, files!At
<1>4. \A i, j, l \in Column : Four(d, n, Direct + 3, i, j, l) = files!Null
  BY <1>3 DEF Four, files!At
<1>5. \A y : ~Branch(d, n, y) BY <1>1, <1>2, <1>3 DEF Branch
<1> QED BY <1>2, <1>3, <1>4, <1>5

LEMMA EmptyJoins ==
  ASSUME NEW d, NEW O, NEW F, Held(d, O, F), NEW n \in files!Node, n \notin O, Empty(d, n)
  PROVE  Held(d, O \cup {n}, F)
<1>1. Sound(d) /\ O \subseteq files!Node /\ DOMAIN d.log = files!Node /\ Unshared(d, O)
      /\ Fresh(d, O, F) /\ Stock(d, F) /\ Cover(d, O, F) /\ \A m \in O : InLog(d, m)
  BY DEF Held
<1>2. \A r \in Place : One(d, n, r) = files!Null BY DEF Empty
<1>3. PICK P : P = O \cup {n} OBVIOUS
<1>4. Unshared(d, P)
  <2>1. \A m, k \in P : \A r, s \in Place :
          One(d, m, r) = One(d, k, s) /\ One(d, m, r) # files!Null => m = k /\ r = s
    BY <1>1, <1>2, <1>3 DEF Unshared
  <2>2. \A m \in P : \A r \in Place : \A b \in files!BlockNo : \A i \in Column :
          One(d, m, r) = d.ptrs[b][i] => One(d, m, r) = files!Null
    BY <1>1, <1>2, <1>3 DEF Unshared
  <2>3. \A b, c \in files!BlockNo : \A i, j \in Column :
          d.ptrs[b][i] = d.ptrs[c][j] /\ d.ptrs[b][i] # files!Null => b = c /\ i = j
    BY <1>1 DEF Unshared
  <2> QED BY <2>1, <2>2, <2>3 DEF Unshared
<1>5. Fresh(d, P, F)
  <2>1. \A m \in P : \A r \in Place :
          \/ One(d, m, r) = files!Null
          \/ One(d, m, r) \in d.used \ (files!Formatted \cup d.lost \cup F)
    BY <1>1, <1>2, <1>3 DEF Fresh
  <2> QED BY <1>1, <2>1 DEF Fresh
<1>6. Cover(d, P, F) BY <1>1, <1>3 DEF Cover
<1>7. InLog(d, n)
  <2>1. PICK s : s = <<>> OBVIOUS
  <2>2. s \in Seq(files!BlockNo \ {files!Null}) /\ Len(s) = 0 BY <2>1
  <2>3. \A p \in Nat \ {0} : LogAt(s, p) = files!Null BY <2>2 DEF LogAt
  <2>4. Direct \in Nat \ {0} /\ Ptrs \in Nat \ {0} /\ Squared \in Nat \ {0} BY Geometry
  <2>5. PICK Q \in Nat : Q = Ptrs * Squared BY Positions
  <2>6. 0 <= Direct + Ptrs + Squared + Q BY <2>4, <2>5
  <2>7. \A r \in Direct + 1 .. Direct + 3 : One(d, n, r) = files!Null
    <3>1. Direct + 1 .. Direct + 3 \subseteq Place BY <2>4 DEF Place
    <3> QED BY <1>2, <3>1
  <2>8. \A i \in Column : Two(d, n, Direct + 1, i) = files!Null BY <2>7, EmptyPlaces
  <2>9. \A i, j \in Column : Three(d, n, Direct + 2, i, j) = files!Null BY <2>7, EmptyPlaces
  <2>10. \A i, j, l \in Column : Four(d, n, Direct + 3, i, j, l) = files!Null
    BY <2>7, EmptyPlaces
  <2>11. \A r \in 1 .. Direct : One(d, n, r) = LogAt(s, r) BY <1>2, <2>3, Geometry
  <2>12. \A i \in Column : Two(d, n, Direct + 1, i) = LogAt(s, Direct + i)
    <3>1. \A i \in Column : Direct + i \in Nat \ {0} BY <2>4 DEF Column
    <3> QED BY <2>3, <2>8, <3>1
  <2>13. \A i, j \in Column :
           Three(d, n, Direct + 2, i, j) = LogAt(s, Direct + Ptrs + Pos(i, j, Ptrs))
    <3>1. \A q \in 1 .. Squared : Direct + Ptrs + q \in Nat \ {0} BY <2>4
    <3>2. \A i, j \in Column : Pos(i, j, Ptrs) \in 1 .. Squared BY Positions
    <3> QED BY <2>3, <2>9, <3>1, <3>2
  <2>14. \A i, j, l \in Column :
           Four(d, n, Direct + 3, i, j, l) = LogAt(s, Direct + Ptrs + Squared + Pos3(i, j, l))
    <3>1. \A q \in 1 .. Q : Direct + Ptrs + Squared + q \in Nat \ {0} BY <2>4, <2>5
    <3>2. \A i, j, l \in Column : Pos3(i, j, l) \in 1 .. Q BY <2>5, Positions
    <3> QED BY <2>3, <2>10, <3>1, <3>2
  <2>15. d.log[n] = s BY <2>1 DEF Empty
  <2> QED BY <2>2, <2>5, <2>6, <2>11, <2>12, <2>13, <2>14, <2>15 DEF InLog
<1>8. P \subseteq files!Node /\ \A m \in P : InLog(d, m) BY <1>1, <1>3, <1>7
<1> QED BY <1>1, <1>3, <1>4, <1>5, <1>6, <1>8 DEF Held

-----------------------------------------------------------------------------
\* The loops over blocks, while nothing has failed an assertion.

LEMMA FaultOf ==
  ASSUME NEW d, Sound(d), NEW w
  PROVE  files!Faulty(d, w).fault = w
BY DEF Sound, Counts, Fields, files!Faulty

\* The first block of a group is one of Format's.
LEMMA NotFirst ==
  ASSUME NEW b \in files!BlockNo, b \notin files!Formatted
  PROVE  files!GroupOf(b - 1) = files!GroupOf(b)
<1>1. PICK g \in files!Group : g = files!GroupOf(b) BY GroupOfBlock
<1>2. PICK u \in Nat \ {0} : u = BlocksPerGroup BY SizesHold DEF Sizes
<1>3. PICK B \in Int : B = g * BlocksPerGroup BY <1>2 DEF files!Group
<1>4. b \in Nat /\ b \in B .. B + u - 1 BY <1>1, <1>2, <1>3, GroupOfBlock
<1>5. b # B
  <2> SUFFICES ASSUME b = B PROVE FALSE OBVIOUS
  <2>1. CASE g = 0
    <3>1. B = 0 BY <1>2, <1>3, <2>1
    <3>2. 0 \in 0 .. Fixed - 1 BY SizesHold DEF Sizes
    <3> QED BY <3>1, <3>2 DEF files!Formatted
  <2>2. CASE g # 0
    <3>1. 0 \in 0 .. GroupFixed - 1 BY SizesHold DEF Sizes
    <3>2. b = g * BlocksPerGroup + 0 BY <1>3, <1>4
    <3>3. b \in {g * BlocksPerGroup + i : i \in 0 .. GroupFixed - 1} BY <3>1, <3>2
    <3> QED BY <2>2, <3>3 DEF files!Formatted
  <2> QED BY <2>1, <2>2
<1>6. PICK i \in Int : i = b - 1 - B BY <1>4
<1>7. i \in 0 .. BlocksPerGroup - 1 BY <1>2, <1>4, <1>5, <1>6
<1>8. files!GroupOf(g * BlocksPerGroup + i) = g BY <1>7, InGroup
<1>9. g * BlocksPerGroup + i = b - 1 BY <1>3, <1>4, <1>6
<1> QED BY <1>1, <1>8, <1>9, SMTT(30)

\* release_block of a block that nobody's pointer reaches.
LEMMA ReleaseHeld ==
  ASSUME NEW d, NEW O, NEW F, Held(d, O, F), NEW b \in F, d.fault = "none"
  PROVE  \/ files!ReleaseBlock(d, b).fault # "none"
         \/ files!ReleaseBlock(d, b) = files!GiveBlock(d, b)
<1>1. Sound(d) BY DEF Held
<1>2. b \in files!BlockNo /\ b \in d.used /\ b \notin files!Formatted BY InHand
<1>3. files!GroupOf(b - 1) = files!GroupOf(b) BY <1>2, NotFirst
<1>4. files!Releasable(d, b) BY <1>2, <1>3 DEF files!Releasable
<1>5. files!Faulty(d, "group").fault = "group" /\ files!Faulty(d, "bitset").fault = "bitset"
  BY <1>1, FaultOf
<1>6. CASE files!GroupOf(b - 1) >= Groups BY <1>5, <1>6 DEF files!ReleaseBlock
<1>7. CASE ~(files!GroupOf(b - 1) >= Groups) /\ b >= BlocksPerGroup
  BY <1>3, <1>5, <1>7 DEF files!ReleaseBlock
<1>8. CASE ~(files!GroupOf(b - 1) >= Groups) /\ ~(b >= BlocksPerGroup)
  BY <1>3, <1>4, <1>8 DEF files!ReleaseBlock
<1> QED BY <1>6, <1>7, <1>8

\* release_block of a block that is free.
LEMMA ReleaseFree ==
  ASSUME NEW d, Sound(d), NEW b, b \notin d.used, d.fault = "none"
  PROVE  \/ files!ReleaseBlock(d, b).fault # "none"
         \/ files!ReleaseBlock(d, b) = d
<1>1. ~files!Releasable(d, b) BY DEF files!Releasable
<1>2. files!Faulty(d, "group").fault = "group" /\ files!Faulty(d, "bitset").fault = "bitset"
  BY FaultOf
<1> QED BY <1>1, <1>2 DEF files!ReleaseBlock

LEMMA ReleaseFaulty ==
  ASSUME NEW d, d.fault # "none", NEW b
  PROVE  files!ReleaseBlock(d, b) = d
BY DEF files!ReleaseBlock

\* The first k elements of a sequence, and those after them.
Before(s, k) == {s[j] : j \in 1 .. k}
After(s, k) == {s[j] : j \in k + 1 .. Len(s)}

LEMMA BeforeAfter ==
  ASSUME NEW s, Len(s) \in Nat, DOMAIN s = 1 .. Len(s)
  PROVE  /\ Before(s, 0) = {} /\ After(s, 0) = Elements(s)
         /\ Before(s, Len(s)) = Elements(s) /\ After(s, Len(s)) = {}
         /\ \A k \in 1 .. Len(s) : /\ Before(s, k) = Before(s, k - 1) \cup {s[k]}
                                   /\ After(s, k - 1) = After(s, k) \cup {s[k]}
                                   /\ Distinct(s) => After(s, k) = After(s, k - 1) \ {s[k]}
<1>1. PICK N \in Nat : N = Len(s) OBVIOUS
<1>2. Before(s, 0) = {} /\ After(s, N) = {} BY <1>1 DEF Before, After
<1>3. After(s, 0) = Elements(s) /\ Before(s, N) = Elements(s)
  <2>1. 0 + 1 = 1 OBVIOUS
  <2> QED BY <1>1, <2>1 DEF Before, After, Elements
<1>4. ASSUME NEW k \in 1 .. N PROVE Before(s, k) = Before(s, k - 1) \cup {s[k]}
  <2>1. 1 .. k = (1 .. k - 1) \cup {k} BY <1>1
  <2> QED BY <2>1 DEF Before
<1>5. ASSUME NEW k \in 1 .. N PROVE After(s, k - 1) = After(s, k) \cup {s[k]}
  <2>1. (k - 1) + 1 .. N = (k + 1 .. N) \cup {k} BY <1>1
  <2> QED BY <1>1, <2>1 DEF After
<1>6. ASSUME NEW k \in 1 .. N, Distinct(s) PROVE After(s, k) = After(s, k - 1) \ {s[k]}
  <2>1. s[k] \notin After(s, k)
    <3> SUFFICES ASSUME NEW j \in k + 1 .. N, s[k] = s[j] PROVE FALSE BY <1>1 DEF After
    <3>1. k \in DOMAIN s /\ j \in DOMAIN s /\ k # j BY <1>1
    <3> QED BY <1>6, <3>1 DEF Distinct
  <2> QED BY <1>5, <2>1
<1> QED BY <1>1, <1>2, <1>3, <1>4, <1>5, <1>6, SMTT(30)

LEMMA ElementsAppend ==
  ASSUME NEW T, NEW s \in Seq(T), NEW x \in T
  PROVE  /\ Elements(Append(s, x)) = Elements(s) \cup {x}
         /\ Distinct(s) /\ x \notin Elements(s) => Distinct(Append(s, x))
         /\ Append(s, x) \in Seq(T) /\ Len(Append(s, x)) = Len(s) + 1
<1>1. PICK t : t = Append(s, x) OBVIOUS
<1>2. PICK N \in Nat : N = Len(s) /\ DOMAIN s = 1 .. N BY LenProperties
<1>3. t \in Seq(T) /\ Len(t) = N + 1 /\ t[N + 1] = x /\ \A q \in 1 .. N : t[q] = s[q]
  BY <1>1, <1>2
<1>4. DOMAIN t = 1 .. N + 1 BY <1>3
<1>5. 1 .. N + 1 = (1 .. N) \cup {N + 1} BY <1>2
<1>6. Elements(t) = Elements(s) \cup {x} BY <1>2, <1>3, <1>4, <1>5 DEF Elements
<1>7. ASSUME Distinct(s), x \notin Elements(s) PROVE Distinct(t)
  <2> SUFFICES ASSUME NEW i \in DOMAIN t, NEW j \in DOMAIN t, t[i] = t[j] PROVE i = j
    BY DEF Distinct
  <2>1. \A q \in 1 .. N : s[q] # x BY <1>2, <1>7 DEF Elements
  <2>2. (i \in 1 .. N \/ i = N + 1) /\ (j \in 1 .. N \/ j = N + 1) BY <1>4, <1>5
  <2> QED BY <1>2, <1>3, <1>7, <2>1, <2>2 DEF Distinct
<1> QED BY <1>1, <1>2, <1>3, <1>6, <1>7

LEMMA KinTwice ==
  ASSUME NEW d, NEW e, NEW f, Kin(d, e), Kin(e, f)
  PROVE  Kin(d, f)
BY DEF Kin

\* expand_to, revert: the blocks that were not added are free again.
Reverted(d, e, O, G) ==
  \/ e.fault # "none"
  \/ Held(e, O, G) /\ Kin(d, e) /\ e.fault = "none" /\ d.fault = "none"

LEMMA RevertHeld ==
  ASSUME NEW d, NEW O, NEW s \in Seq(files!BlockNo),
         d.fault # "none" \/ Held(d, O, Elements(s))
  PROVE  Reverted(d, files!Revert(d, s), O, {})
<1>0. PICK N \in Nat : N = Len(s) /\ DOMAIN s = 1 .. N BY LenProperties
<1>1. PICK f : /\ f[0] = d
               /\ \A k \in 1 .. N : f[k] = files!ReleaseBlock(f[k - 1], s[k])
               /\ files!Revert(d, s) = f[N]
  BY <1>0, RevertLoop
<1>2. PICK F : F = Elements(s) OBVIOUS
<1> DEFINE Part(k) == /\ Reverted(d, f[k], O, F \ Before(s, k))
                      /\ f[k].fault = "none" => Before(s, k) \cap f[k].used = {}
           Bad == {k \in 0 .. N : ~Part(k)}
<1>3. Bad = {}
  <2> SUFFICES ASSUME Bad # {} PROVE FALSE OBVIOUS
  <2>1. PICK n \in Bad : \A m \in Bad : n <= m
    <3>1. Bad \in SUBSET Nat OBVIOUS
    <3> HIDE DEF Bad
    <3> QED BY <3>1, Smallest
  <2>2. n # 0
    <3>1. Before(s, 0) = {} BY DEF Before
    <3>2. F \ Before(s, 0) = Elements(s) BY <1>2, <3>1
    <3>3. Reverted(d, f[0], O, F \ Before(s, 0)) BY <1>1, <3>2 DEF Reverted, Kin
    <3>4. Part(0) BY <3>1, <3>3
    <3> HIDE DEF Part
    <3> QED BY <2>1, <3>4
  <2>3. n \in 1 .. N /\ n - 1 \in 0 .. N BY <1>0, <2>1, <2>2
  <2>4. Part(n - 1)
    <3> HIDE DEF Part
    <3>1. n - 1 \notin Bad
      <4> HIDE DEF Bad
      <4> QED BY <2>1, <2>3
    <3> QED BY <2>3, <3>1
  <2>5. PICK e : e = f[n - 1] OBVIOUS
  <2>6. PICK b : b = s[n] OBVIOUS
  <2>7. f[n] = files!ReleaseBlock(e, b) BY <1>1, <2>3, <2>5, <2>6
  <2>8. Before(s, n) = Before(s, n - 1) \cup {b} BY <1>0, <2>3, <2>6, BeforeAfter
  <2>9. PICK G : G = F \ Before(s, n - 1) OBVIOUS
  <2>10. G \ {b} = F \ Before(s, n) BY <2>8, <2>9
  <2>11. CASE e.fault # "none"
    <3>1. f[n].fault # "none" BY <2>7, <2>11, ReleaseFaulty
    <3>2. Part(n) BY <3>1 DEF Reverted
    <3> HIDE DEF Part
    <3> QED BY <2>1, <3>2
  <2>12. CASE e.fault = "none"
    <3>1. /\ Held(e, O, G) /\ Kin(d, e) /\ d.fault = "none"
          /\ Before(s, n - 1) \cap e.used = {}
      BY <2>4, <2>5, <2>9, <2>12 DEF Reverted
    <3>2. Sound(e) BY <3>1 DEF Held
    <3>3. CASE f[n].fault # "none"
      <4>1. Part(n) BY <3>3 DEF Reverted
      <4> HIDE DEF Part
      <4> QED BY <2>1, <4>1
    <3>4. CASE f[n].fault = "none" /\ b \in G
      <4>1. f[n] = files!GiveBlock(e, b) BY <2>7, <2>12, <3>1, <3>4, ReleaseHeld
      <4>2. Held(f[n], O, G \ {b}) BY <3>1, <3>4, <4>1, GiveHeld
      <4>3. Gave(e, f[n], b) BY <3>2, <4>1, GiveFields
      <4>4. Kin(d, f[n]) BY <3>1, <4>3, KinTwice DEF Gave
      <4>5. f[n].used = e.used \ {b} BY <4>3 DEF Gave
      <4>6. Before(s, n) \cap f[n].used = {} BY <2>8, <3>1, <4>5
      <4>7. Part(n) BY <2>10, <3>1, <3>4, <4>2, <4>4, <4>6 DEF Reverted
      <4> HIDE DEF Part
      <4> QED BY <2>1, <4>7
    <3>5. CASE f[n].fault = "none" /\ b \notin G
      <4>1. b \in F BY <1>0, <1>2, <2>3, <2>6 DEF Elements
      <4>2. b \in Before(s, n - 1) BY <2>9, <3>5, <4>1
      <4>3. b \notin e.used BY <3>1, <4>2
      <4>4. f[n] = e BY <2>7, <2>12, <3>2, <3>5, <4>3, ReleaseFree
      <4>5. G \ {b} = G /\ Before(s, n) = Before(s, n - 1) BY <2>8, <3>5, <4>2
      <4>6. Reverted(d, f[n], O, F \ Before(s, n)) BY <2>10, <2>12, <3>1, <4>4, <4>5 DEF Reverted
      <4>7. Part(n) BY <3>1, <4>4, <4>5, <4>6
      <4> HIDE DEF Part
      <4> QED BY <2>1, <4>7
    <3> QED BY <3>3, <3>4, <3>5
  <2> QED BY <2>11, <2>12
<1>4. Part(N)
  <2> HIDE DEF Part
  <2>1. N \in 0 .. N BY <1>0
  <2> QED BY <1>3, <2>1
<1>5. F \ Before(s, N) = {}
  <2>1. Before(s, N) = F BY <1>0, <1>2, BeforeAfter
  <2> QED BY <2>1
<1> QED BY <1>1, <1>4, <1>5

-----------------------------------------------------------------------------
\* Reserving blocks and adding them.

Stored(d, r, O, k) ==
  /\ DOMAIN r = {"disk", "blocks", "short"}
  /\ Held(r.disk, O, Elements(r.blocks)) /\ Kin(d, r.disk) /\ r.disk.fault = d.fault
  /\ r.blocks \in Seq(files!BlockNo) /\ Distinct(r.blocks)
  /\ ~r.short => Len(r.blocks) = k

LEMMA OneMoreStores ==
  ASSUME NEW d, NEW r, NEW O, NEW k \in Nat \ {0}, Stored(d, r, O, k - 1), NEW i
  PROVE  Stored(d, files!OneMore(r, i), O, k)
<1>1. PICK e : e = r.disk OBVIOUS
<1>2. PICK q : q = r.blocks OBVIOUS
<1>3. PICK m : m = files!NextBlock(e) OBVIOUS
<1>4. /\ Held(e, O, Elements(q)) /\ Kin(d, e) /\ e.fault = d.fault
      /\ q \in Seq(files!BlockNo) /\ Distinct(q) /\ DOMAIN r = {"disk", "blocks", "short"}
      /\ ~r.short => Len(q) = k - 1
  BY <1>1, <1>2 DEF Stored
<1>5. CASE r.short
  <2>1. files!OneMore(r, i) = r BY <1>5 DEF files!OneMore
  <2> QED BY <1>5, <2>1 DEF Stored
<1>6. CASE ~r.short /\ m = files!Null
  <2>1. PICK v : v = [r EXCEPT !.short = TRUE] OBVIOUS
  <2>2. files!OneMore(r, i) = v BY <1>1, <1>3, <1>6, <2>1 DEF files!OneMore
  <2>3. v.short /\ v.disk = e /\ v.blocks = q /\ DOMAIN v = {"disk", "blocks", "short"}
    BY <1>1, <1>2, <1>4, <2>1
  <2> QED BY <1>4, <2>2, <2>3 DEF Stored
<1>7. CASE ~r.short /\ m # files!Null
  <2>1. PICK f : f = files!TakeBlock(e) OBVIOUS
  <2>2. PICK p : p = Append(q, m) OBVIOUS
  <2>3. PICK v : v = [disk |-> f, blocks |-> p, short |-> FALSE] OBVIOUS
  <2>4. files!OneMore(r, i) = v BY <1>1, <1>2, <1>3, <1>7, <2>1, <2>2, <2>3 DEF files!OneMore
  <2>5. v.disk = f /\ v.blocks = p /\ DOMAIN v = {"disk", "blocks", "short"} BY <2>3
  <2>6. Held(f, O, Elements(q) \cup {m}) /\ m \in files!BlockNo \ e.used
    BY <1>3, <1>4, <1>7, <2>1, TakeHeld
  <2>7. m \notin Elements(q) BY <1>4, <2>6 DEF Held, Stock
  <2>8. /\ Elements(p) = Elements(q) \cup {m} /\ Distinct(p) /\ p \in Seq(files!BlockNo)
        /\ Len(p) = Len(q) + 1
    BY <1>4, <2>2, <2>6, <2>7, ElementsAppend
  <2>9. Sound(e) BY <1>4 DEF Held
  <2>10. Took(e, f, m) BY <1>3, <2>1, <2>9, TakeFields
  <2>11. Kin(d, f) /\ f.fault = d.fault BY <1>4, <2>10, KinTwice DEF Took
  <2>12. Len(p) = k BY <1>4, <1>7, <2>8
  <2> QED BY <2>4, <2>5, <2>6, <2>8, <2>11, <2>12 DEF Stored
<1> QED BY <1>5, <1>6, <1>7

LEMMA ReserveStores ==
  ASSUME NEW d, NEW O, Held(d, O, {}), NEW c \in Nat
  PROVE  Stored(d, files!Reserve(d, c), O, c)
<1>1. PICK r : r = [disk |-> d, blocks |-> <<>>, short |-> FALSE] OBVIOUS
<1>2. PICK s : s = [i \in 1 .. c |-> i] OBVIOUS
<1>3. Len(s) = c
  <2>1. s \in Seq(Nat) BY <1>2
  <2> QED BY <1>2, <2>1
<1>4. PICK f : /\ f[0] = r
               /\ \A k \in 1 .. c : f[k] = files!OneMore(f[k - 1], s[k])
               /\ files!Each(r, s, files!OneMore) = f[c]
  <2>1. Len(s) \in Nat BY <1>3
  <2>2. PICK f : /\ f[0] = r
                 /\ \A k \in 1 .. Len(s) : f[k] = files!OneMore(f[k - 1], s[k])
                 /\ files!Each(r, s, files!OneMore) = f[Len(s)]
    BY <2>1, ReservingLoop
  <2>3. /\ f[0] = r
        /\ \A k \in 1 .. c : f[k] = files!OneMore(f[k - 1], s[k])
        /\ files!Each(r, s, files!OneMore) = f[c]
    BY <1>3, <2>2
  <2> QED BY <2>3
<1>5. Stored(d, r, O, 0)
  <2>1. PICK q : q = <<>> OBVIOUS
  <2>2. q \in Seq(files!BlockNo) /\ Len(q) = 0 /\ DOMAIN q = {} BY <2>1
  <2>3. Elements(q) = {} /\ Distinct(q) BY <2>2 DEF Elements, Distinct
  <2>4. r.disk = d /\ r.blocks = q /\ DOMAIN r = {"disk", "blocks", "short"} BY <1>1, <2>1
  <2> QED BY <2>2, <2>3, <2>4 DEF Stored, Kin
<1> DEFINE Part(k) == Stored(d, f[k], O, k)
           Bad == {k \in 0 .. c : ~Part(k)}
<1>6. Bad = {}
  <2> SUFFICES ASSUME Bad # {} PROVE FALSE OBVIOUS
  <2>1. PICK n \in Bad : \A m \in Bad : n <= m
    <3>1. Bad \in SUBSET Nat OBVIOUS
    <3> HIDE DEF Bad
    <3> QED BY <3>1, Smallest
  <2>2. n # 0
    <3>1. Part(0) BY <1>4, <1>5
    <3> HIDE DEF Part
    <3> QED BY <2>1, <3>1
  <2>3. n \in 1 .. c /\ n - 1 \in 0 .. c BY <2>1, <2>2
  <2>4. Part(n - 1)
    <3> HIDE DEF Part
    <3>1. n - 1 \notin Bad
      <4> HIDE DEF Bad
      <4> QED BY <2>1, <2>3
    <3> QED BY <2>3, <3>1
  <2>5. f[n] = files!OneMore(f[n - 1], s[n]) BY <1>4, <2>3
  <2>6. n \in Nat \ {0} BY <2>3
  <2>7. Part(n) BY <2>4, <2>5, <2>6, OneMoreStores
  <2> HIDE DEF Part
  <2> QED BY <2>1, <2>7
<1>7. Part(c)
  <2> HIDE DEF Part
  <2>1. c \in 0 .. c OBVIOUS
  <2> QED BY <1>6, <2>1
<1>8. files!Reserve(d, c) = files!Each(r, s, files!OneMore) BY <1>1, <1>2 DEF files!Reserve
<1> QED BY <1>4, <1>7, <1>8

\* Of the inodes, only n has changed, and not its type.
Aside(d, e, n) ==
  /\ e.nodes = d.nodes /\ e.inode[n].type = d.inode[n].type
  /\ \A m \in files!Node : m # n => e.inode[m] = d.inode[m] /\ e.log[m] = d.log[m]

LEMMA AsideTwice ==
  ASSUME NEW d, NEW e, NEW f, NEW n, Aside(d, e, n), Aside(e, f, n)
  PROVE  Aside(d, f, n)
BY DEF Aside

LEMMA KinAside ==
  ASSUME NEW d, NEW e, Kin(d, e), NEW n
  PROVE  Aside(d, e, n)
BY DEF Kin, Aside

LEMMA BesideAside ==
  ASSUME NEW d, NEW e, NEW n \in files!Node, Beside(d, e, n)
  PROVE  Aside(d, e, n) /\ e.fault = d.fault /\ e.inode[n].size = d.inode[n].size
BY DEF Beside, Aside

\* Another size.
Sized(d, e, n, x) ==
  /\ Aside(d, e, n) /\ e.fault = d.fault /\ e.log = d.log
  /\ e.inode[n].size = x /\ e.inode[n].map = d.inode[n].map

LEMMA SizedHeld ==
  ASSUME NEW d, NEW O, NEW F, Held(d, O, F), NEW n \in files!Node, NEW x \in Nat
  PROVE  LET e == [d EXCEPT !.inode[n].size = x] IN Held(e, O, F) /\ Sized(d, e, n, x)
<1>1. PICK e : e = [d EXCEPT !.inode[n].size = x] OBVIOUS
<1>2. Sound(d) /\ DOMAIN d.log = files!Node /\ O \subseteq files!Node BY DEF Held
<1>3. Sound(e) BY <1>1, <1>2, SizedKeeps
<1>4. DOMAIN d = Fields /\ DOMAIN d.inode = files!Node BY <1>2 DEF Sound, Counts, Typed
<1>5. /\ e.used = d.used /\ e.lost = d.lost /\ e.ptrs = d.ptrs /\ e.log = d.log
      /\ e.fault = d.fault /\ e.nodes = d.nodes
      /\ e.inode = [d.inode EXCEPT ![n].size = x]
  BY <1>1, <1>4 DEF Fields
<1>6. \A m \in files!Node : m # n => e.inode[m] = d.inode[m] BY <1>4, <1>5
<1>7. DOMAIN d.inode[n] = {"type", "links", "size", "map"} BY <1>2, InodeIs
<1>8. e.inode[n].size = x /\ e.inode[n].map = d.inode[n].map /\ e.inode[n].type = d.inode[n].type
  BY <1>4, <1>5, <1>7
<1>9. \A m \in O : e.inode[m].map = d.inode[m].map /\ e.log[m] = d.log[m]
  BY <1>2, <1>5, <1>6, <1>8
<1>10. Like(d, e, O) BY <1>2, <1>3, <1>5, <1>9 DEF Like
<1>11. Held(e, O, F) BY <1>10, LikeHeld
<1>12. Sized(d, e, n, x) BY <1>5, <1>6, <1>8 DEF Sized, Aside
<1> QED BY <1>1, <1>11, <1>12

LEMMA LogLength ==
  ASSUME NEW d, NEW O, NEW F, Held(d, O, F), NEW n \in O
  PROVE  /\ d.log[n] \in Seq(files!BlockNo) /\ Len(d.log[n]) \in Nat
         /\ \A x \in files!BlockNo : Len(Append(d.log[n], x)) = Len(d.log[n]) + 1
<1>1. PICK s \in Seq(files!BlockNo \ {files!Null}) : s = d.log[n] BY DEF Held, InLog
<1>2. s \in Seq(files!BlockNo) BY <1>1
<1>3. Len(s) \in Nat /\ \A x \in files!BlockNo : Len(Append(s, x)) = Len(s) + 1
  BY <1>2, LenProperties
<1> QED BY <1>1, <1>2, <1>3

\* expand_to, after k of the blocks s, of which an inode with the blocks of d got
\* some or all.
Grown(d, r, O, n, s, k) ==
  /\ DOMAIN r = {"disk", "rest"} /\ r.rest \in Seq(files!BlockNo)
  /\ \/ r.disk.fault # "none" /\ r.rest # <<>>
     \/ /\ r.disk.fault = "none"
        /\ Held(r.disk, O, Elements(r.rest) \cup After(s, k)) /\ Aside(d, r.disk, n)
        /\ r.disk.inode[n].size = Len(r.disk.log[n]) * BlockSize
        /\ r.rest = <<>> => Len(r.disk.log[n]) = Len(d.log[n]) + k

LEMMA AddNextGrows ==
  ASSUME NEW d, NEW r, NEW O, NEW n \in O, NEW s \in Seq(files!BlockNo), Distinct(s),
         NEW k \in 1 .. Len(s), Grown(d, r, O, n, s, k - 1), Len(d.log[n]) \in Nat
  PROVE  Grown(d, files!AddNext(r, n, s[k]), O, n, s, k)
<1>0. PICK N \in Nat : N = Len(s) /\ DOMAIN s = 1 .. N BY LenProperties
<1>1. PICK b \in files!BlockNo : b = s[k] OBVIOUS
<1>2. PICK e : e = r.disk OBVIOUS
<1>3. PICK q : q = r.rest OBVIOUS
<1>4. After(s, k - 1) = After(s, k) \cup {b} /\ After(s, k) = After(s, k - 1) \ {b}
  BY <1>0, <1>1, BeforeAfter
<1>5. DOMAIN r = {"disk", "rest"} /\ q \in Seq(files!BlockNo) BY <1>3 DEF Grown
<1>6. CASE q # <<>>
  <2>1. PICK p : p = Append(q, b) OBVIOUS
  <2>2. PICK v : v = [r EXCEPT !.rest = p] OBVIOUS
  <2>3. files!AddNext(r, n, b) = v BY <1>3, <1>6, <2>1, <2>2 DEF files!AddNext
  <2>4. v.disk = e /\ v.rest = p /\ DOMAIN v = {"disk", "rest"} BY <1>2, <1>5, <2>2
  <2>5. Elements(p) = Elements(q) \cup {b} /\ p \in Seq(files!BlockNo) /\ Len(p) = Len(q) + 1
    BY <1>5, <2>1, ElementsAppend
  <2>6. p # <<>>
    <3>1. Len(q) \in Nat BY <1>5, LenProperties
    <3>2. Len(p) # 0 BY <2>5, <3>1
    <3> QED BY <3>2
  <2>7. Elements(p) \cup After(s, k) = Elements(q) \cup After(s, k - 1) BY <1>4, <2>5
  <2>8. CASE e.fault # "none" BY <1>1, <2>3, <2>4, <2>5, <2>6, <2>8 DEF Grown
  <2>9. CASE e.fault = "none"
    <3>1. /\ Held(e, O, Elements(q) \cup After(s, k - 1)) /\ Aside(d, e, n)
          /\ e.inode[n].size = Len(e.log[n]) * BlockSize
      BY <1>2, <1>3, <2>9 DEF Grown
    <3>2. Held(e, O, Elements(p) \cup After(s, k)) BY <2>7, <3>1
    <3> QED BY <1>1, <2>3, <2>4, <2>5, <2>6, <2>9, <3>1, <3>2 DEF Grown
  <2> QED BY <2>8, <2>9
<1>7. CASE q = <<>>
  <2>1. PICK F : F = After(s, k - 1) OBVIOUS
  <2>2. Elements(q) = {}
    <3>1. DOMAIN q = {} BY <1>7
    <3> QED BY <3>1 DEF Elements
  <2>3. Elements(q) \cup After(s, k - 1) = F BY <2>1, <2>2
  <2>4. /\ e.fault = "none" /\ Held(e, O, F) /\ Aside(d, e, n)
        /\ e.inode[n].size = Len(e.log[n]) * BlockSize
        /\ Len(e.log[n]) = Len(d.log[n]) + (k - 1)
    BY <1>2, <1>3, <1>7, <2>3 DEF Grown
  <2>5. b \in F /\ F \ {b} = After(s, k) BY <1>4, <2>1
  <2>6. n \in files!Node BY <2>4 DEF Held
  <2>7. PICK a : a = files!AddBlock(e, n, b) OBVIOUS
  <2>8. Added(e, a, O, F, n, b) BY <2>4, <2>5, <2>7, AddBlockAdds
  <2>9. PICK g : g = a.disk OBVIOUS
  <2>10. files!AddNext(r, n, b) = files!Longer(a, n, b)
    BY <1>2, <1>3, <1>7, <2>7 DEF files!AddNext
  <2>11. CASE a.added
    <3>1. AddedTo(e, g, O, F \ {b}, n, b) BY <2>8, <2>9, <2>11 DEF Added
    <3>2. Held(g, O, After(s, k)) /\ Beside(e, g, n) /\ g.log[n] = Append(e.log[n], b)
      BY <2>5, <3>1 DEF AddedTo
    <3>3. Aside(d, g, n) /\ g.fault = "none" /\ g.inode[n].size = e.inode[n].size
      BY <2>4, <2>6, <3>2, BesideAside, AsideTwice
    <3>4. PICK L \in Nat : L = Len(e.log[n]) BY <2>4, LogLength
    <3>5. Len(g.log[n]) = L + 1 BY <2>4, <3>2, <3>4, LogLength
    <3>6. PICK u \in Nat : u = BlockSize BY SizesHold DEF Sizes
    <3>7. PICK x \in Nat : x = L * u /\ x + u = (L + 1) * u
      <4>1. \A y, v \in Nat : y * v \in Nat /\ y * v + v = (y + 1) * v OBVIOUS
      <4>2. L * u \in Nat /\ L * u + u = (L + 1) * u BY <3>4, <3>6, <4>1
      <4> HIDE <4>1
      <4>3. PICK x : x = L * u OBVIOUS
      <4> QED BY <4>2, <4>3
    <3>8. g.inode[n].size + BlockSize = x + u BY <2>4, <3>3, <3>4, <3>6, <3>7
    <3>9. PICK h : h = [g EXCEPT !.inode[n].size = x + u] OBVIOUS
    <3>10. files!Longer(a, n, b) = [disk |-> h, rest |-> <<>>]
      <4>1. [g EXCEPT !.inode[n].size = @ + BlockSize] = h BY <3>8, <3>9
      <4> QED BY <2>9, <2>11, <4>1 DEF files!Longer
    <3>11. x + u \in Nat BY <3>6, <3>7
    <3>12. Held(h, O, After(s, k)) /\ Sized(g, h, n, x + u) BY <2>6, <3>2, <3>9, <3>11, SizedHeld
    <3>13. Aside(d, h, n) /\ h.fault = "none" /\ h.log = g.log /\ h.inode[n].size = x + u
      BY <3>3, <3>12, AsideTwice DEF Sized
    <3>14. PICK v : v = [disk |-> h, rest |-> <<>>] OBVIOUS
    <3>15. v.disk = h /\ v.rest = <<>> /\ v.rest = q /\ DOMAIN v = {"disk", "rest"}
      BY <1>7, <3>14
    <3>16. h.inode[n].size = Len(h.log[n]) * BlockSize BY <3>5, <3>6, <3>7, <3>13
    <3>17. Len(h.log[n]) = Len(d.log[n]) + k BY <2>4, <3>4, <3>5, <3>13
    <3>18. Elements(q) \cup After(s, k) = After(s, k) BY <2>2
    <3>19. Grown(d, v, O, n, s, k)
      BY <1>5, <3>12, <3>13, <3>15, <3>16, <3>17, <3>18 DEF Grown
    <3> QED BY <1>1, <2>10, <3>10, <3>14, <3>19
  <2>12. CASE ~a.added
    <3>1. PICK p : p = <<b>> OBVIOUS
    <3>2. p \in Seq(files!BlockNo) /\ Len(p) = 1 /\ p[1] = b BY <3>1
    <3>3. Elements(p) = {b} /\ p # <<>>
      <4>1. DOMAIN p = {1} BY <3>1
      <4>2. Elements(p) = {b} BY <3>2, <4>1 DEF Elements
      <4>3. p # <<>>
        <5> SUFFICES ASSUME p = <<>> PROVE FALSE OBVIOUS
        <5>1. Len(p) = 0 OBVIOUS
        <5> QED BY <3>2, <5>1
      <4> QED BY <4>2, <4>3
    <3>4. PICK v : v = [disk |-> g, rest |-> p] OBVIOUS
    <3>5. files!Longer(a, n, b) = v BY <2>9, <2>12, <3>1, <3>4 DEF files!Longer
    <3>6. v.disk = g /\ v.rest = p /\ DOMAIN v = {"disk", "rest"} BY <3>4
    <3>7. CASE g.fault # "none" BY <1>1, <2>10, <3>2, <3>3, <3>5, <3>6, <3>7 DEF Grown
    <3>8. CASE g.fault = "none"
      <4>1. NotAdded(e, g, O, F, n) BY <2>8, <2>9, <2>12, <3>8 DEF Added
      <4>2. Held(g, O, F) /\ Beside(e, g, n) /\ g.log = e.log BY <4>1 DEF NotAdded
      <4>3. Aside(d, g, n) /\ g.inode[n].size = e.inode[n].size
        BY <2>4, <2>6, <4>2, BesideAside, AsideTwice
      <4>4. Elements(p) \cup After(s, k) = F BY <1>4, <2>1, <3>3
      <4>5. g.inode[n].size = Len(g.log[n]) * BlockSize BY <2>4, <4>2, <4>3
      <4> QED BY <1>1, <2>10, <3>2, <3>3, <3>5, <3>6, <3>8, <4>2, <4>3, <4>4, <4>5 DEF Grown
    <3> QED BY <3>7, <3>8
  <2> QED BY <2>11, <2>12
<1> QED BY <1>6, <1>7

LEMMA AddAllGrows ==
  ASSUME NEW d, NEW O, NEW n \in O, NEW s \in Seq(files!BlockNo), Distinct(s),
         Held(d, O, Elements(s)), d.fault = "none",
         d.inode[n].size = Len(d.log[n]) * BlockSize
  PROVE  Grown(d, files!AddAll(d, n, s), O, n, s, Len(s))
<1>0. PICK N \in Nat : N = Len(s) /\ DOMAIN s = 1 .. N BY LenProperties
<1>1. PICK r : r = [disk |-> d, rest |-> <<>>] OBVIOUS
<1>2. Len(d.log[n]) \in Nat BY LogLength
<1>3. Grown(d, r, O, n, s, 0)
  <2>1. PICK q : q = <<>> OBVIOUS
  <2>2. q \in Seq(files!BlockNo) /\ DOMAIN q = {} BY <2>1
  <2>3. Elements(q) = {} BY <2>2 DEF Elements
  <2>4. After(s, 0) = Elements(s) BY <1>0, BeforeAfter
  <2>5. Elements(q) \cup After(s, 0) = Elements(s) BY <2>3, <2>4
  <2>6. r.disk = d /\ r.rest = q /\ DOMAIN r = {"disk", "rest"} BY <1>1, <2>1
  <2>7. Aside(d, d, n) BY DEF Aside
  <2>8. Len(d.log[n]) = Len(d.log[n]) + 0 BY <1>2
  <2> QED BY <2>2, <2>5, <2>6, <2>7, <2>8 DEF Grown
<1>4. PICK f : /\ f[0] = r
               /\ \A k \in 1 .. N : f[k] = files!AddNext(f[k - 1], n, s[k])
               /\ AddEach(r, s, n) = f[N]
  BY <1>0, AddingLoop
<1> DEFINE Part(k) == Grown(d, f[k], O, n, s, k)
           Bad == {k \in 0 .. N : ~Part(k)}
<1>5. Bad = {}
  <2> SUFFICES ASSUME Bad # {} PROVE FALSE OBVIOUS
  <2>1. PICK k \in Bad : \A m \in Bad : k <= m
    <3>1. Bad \in SUBSET Nat OBVIOUS
    <3> HIDE DEF Bad
    <3> QED BY <3>1, Smallest
  <2>2. k # 0
    <3>1. Part(0) BY <1>3, <1>4
    <3> HIDE DEF Part
    <3> QED BY <2>1, <3>1
  <2>3. k \in 1 .. N /\ k - 1 \in 0 .. N BY <1>0, <2>1, <2>2
  <2>4. Part(k - 1)
    <3> HIDE DEF Part
    <3>1. k - 1 \notin Bad
      <4> HIDE DEF Bad
      <4> QED BY <2>1, <2>3
    <3> QED BY <2>3, <3>1
  <2>5. f[k] = files!AddNext(f[k - 1], n, s[k]) BY <1>4, <2>3
  <2>6. k \in 1 .. Len(s) BY <1>0, <2>3
  <2>7. Part(k) BY <1>2, <2>4, <2>5, <2>6, AddNextGrows
  <2> HIDE DEF Part
  <2> QED BY <2>1, <2>7
<1>6. Part(N)
  <2> HIDE DEF Part
  <2>1. N \in 0 .. N BY <1>0
  <2> QED BY <1>5, <2>1
<1>7. files!AddAll(d, n, s) = AddEach(r, s, n) BY <1>1 DEF files!AddAll, AddEach
<1> QED BY <1>0, <1>4, <1>6, <1>7

-----------------------------------------------------------------------------
\* The blocks of a link: write_blocks_to_node, after k of them.
Tied(d, r, O, n, k) ==
  /\ DOMAIN r = {"disk", "added"}
  /\ r.added => r.disk.fault = "none"
  /\ r.disk.fault = "none" =>
       /\ Held(r.disk, O, {}) /\ Aside(d, r.disk, n)
       /\ r.disk.inode[n].size = d.inode[n].size
       /\ r.added => Len(r.disk.log[n]) = Len(d.log[n]) + k

LEMMA ReleasedHeld ==
  ASSUME NEW d, NEW O, NEW b, d.fault # "none" \/ Held(d, O, {b}),
         NEW e, e = files!ReleaseBlock(d, b), e.fault = "none"
  PROVE  Held(e, O, {}) /\ Kin(d, e)
<1>1. CASE d.fault # "none" BY <1>1, ReleaseFaulty
<1>2. CASE d.fault = "none"
  <2>1. PICK F : F = {b} OBVIOUS
  <2>2. Held(d, O, F) /\ b \in F BY <1>2, <2>1
  <2>3. e = files!GiveBlock(d, b) BY <1>2, <2>2, ReleaseHeld
  <2>4. Held(e, O, F \ {b}) BY <2>2, <2>3, GiveHeld
  <2>5. F \ {b} = {} BY <2>1
  <2>6. Sound(d) BY <2>2 DEF Held
  <2>7. Kin(d, e)
    <3>1. Gave(d, e, b) BY <2>3, <2>6, GiveFields
    <3> QED BY <3>1 DEF Gave
  <2> QED BY <2>4, <2>5, <2>7
<1> QED BY <1>1, <1>2

LEMMA LinkNextTies ==
  ASSUME NEW d, NEW r, NEW O, NEW n \in O, NEW k \in Nat \ {0}, Tied(d, r, O, n, k - 1),
         Len(d.log[n]) \in Nat
  PROVE  Tied(d, files!LinkNext(r, n), O, n, k)
<1>1. PICK e : e = r.disk OBVIOUS
<1>2. PICK m : m = files!NextBlock(e) OBVIOUS
<1>3. CASE ~r.added
  <2>1. files!LinkNext(r, n) = r BY <1>3 DEF files!LinkNext
  <2> QED BY <1>3, <2>1 DEF Tied
<1>4. ASSUME r.added
      PROVE  /\ e.fault = "none" /\ Held(e, O, {}) /\ Aside(d, e, n)
             /\ e.inode[n].size = d.inode[n].size
             /\ Len(e.log[n]) = Len(d.log[n]) + (k - 1)
             /\ DOMAIN r = {"disk", "added"} /\ n \in files!Node
  <2>1. e.fault = "none" BY <1>1, <1>4 DEF Tied
  <2>2. Held(e, O, {}) BY <1>1, <2>1 DEF Tied
  <2>3. n \in files!Node BY <2>2 DEF Held
  <2> QED BY <1>1, <1>4, <2>1, <2>3 DEF Tied
<1>5. CASE r.added /\ m = files!Null
  <2>1. PICK v : v = [r EXCEPT !.added = FALSE] OBVIOUS
  <2>2. files!LinkNext(r, n) = v BY <1>1, <1>2, <1>5, <2>1 DEF files!LinkNext
  <2>3. v.disk = e /\ ~v.added /\ DOMAIN v = {"disk", "added"} BY <1>1, <1>4, <1>5, <2>1
  <2> QED BY <1>4, <1>5, <2>2, <2>3 DEF Tied
<1>6. CASE r.added /\ m # files!Null
  <2>1. PICK f : f = files!TakeBlock(e) OBVIOUS
  <2>2. PICK F : F = {m} OBVIOUS
  <2>3. Held(f, O, F) /\ m \in F
    <3>1. Held(e, O, {}) BY <1>4, <1>6
    <3>2. Held(f, O, {} \cup {m}) BY <1>2, <1>6, <2>1, <3>1, TakeHeld
    <3>3. {} \cup {m} = F BY <2>2
    <3> QED BY <2>2, <3>2, <3>3
  <2>4. Kin(e, f) /\ f.fault = "none"
    <3>1. Sound(e) BY <1>4, <1>6 DEF Held
    <3>2. Took(e, f, m) BY <1>2, <2>1, <3>1, TakeFields
    <3> QED BY <1>4, <1>6, <3>2 DEF Took
  <2>5. PICK a : a = files!AddBlock(f, n, m) OBVIOUS
  <2>6. Added(f, a, O, F, n, m) BY <2>3, <2>5, AddBlockAdds
  <2>7. PICK g : g = a.disk OBVIOUS
  <2>8. files!LinkNext(r, n) = files!Linked(a, m)
    BY <1>1, <1>2, <1>6, <2>1, <2>5 DEF files!LinkNext
  <2>9. Aside(d, f, n) /\ f.inode[n].size = d.inode[n].size /\ f.log = e.log
    BY <1>4, <1>6, <2>4, KinAside, AsideTwice DEF Kin
  <2>10. CASE a.added
    <3>1. files!LinkNext(r, n) = a BY <2>8, <2>10 DEF files!Linked
    <3>2. F \ {m} = {} BY <2>2
    <3>3. AddedTo(f, g, O, {}, n, m) BY <2>6, <2>7, <2>10, <3>2 DEF Added
    <3>4. Held(g, O, {}) /\ Beside(f, g, n) /\ g.log[n] = Append(f.log[n], m)
      BY <3>3 DEF AddedTo
    <3>5. Aside(d, g, n) /\ g.fault = "none" /\ g.inode[n].size = d.inode[n].size
      BY <1>4, <1>6, <2>4, <2>9, <3>4, BesideAside, AsideTwice
    <3>6. m \in files!BlockNo BY <2>3 DEF Held, Stock, Sound, Counts
    <3>7. Len(g.log[n]) = Len(f.log[n]) + 1 BY <2>3, <3>4, <3>6, LogLength
    <3>8. Len(f.log[n]) \in Nat BY <2>3, LogLength
    <3>9. Len(g.log[n]) = Len(d.log[n]) + k
      <4>1. PICK x \in Nat : x = Len(d.log[n]) OBVIOUS
      <4>2. PICK y : y = Len(f.log[n]) /\ y = x + (k - 1) BY <1>4, <1>6, <2>9, <4>1
      <4>3. y + 1 = x + k BY <4>1, <4>2
      <4> QED BY <3>7, <4>1, <4>2, <4>3
    <3>10. DOMAIN a = {"disk", "added"} BY <2>6 DEF Added
    <3>11. Tied(d, a, O, n, k) BY <2>7, <3>4, <3>5, <3>9, <3>10 DEF Tied
    <3> QED BY <3>1, <3>11
  <2>11. CASE ~a.added
    <3>1. PICK h : h = files!ReleaseBlock(g, m) OBVIOUS
    <3>2. PICK v : v = [disk |-> h, added |-> FALSE] OBVIOUS
    <3>3. files!LinkNext(r, n) = v BY <2>7, <2>8, <2>11, <3>1, <3>2 DEF files!Linked
    <3>4. v.disk = h /\ ~v.added /\ DOMAIN v = {"disk", "added"} BY <3>2
    <3>5. CASE h.fault # "none" BY <3>3, <3>4, <3>5 DEF Tied
    <3>6. CASE h.fault = "none"
      <4>1. g.fault = "none" BY <3>1, <3>6, ReleaseFaulty
      <4>2. NotAdded(f, g, O, F, n) BY <2>6, <2>7, <2>11, <4>1 DEF Added
      <4>3. Held(g, O, {m}) /\ Beside(f, g, n) BY <2>2, <4>2 DEF NotAdded
      <4>4. Held(h, O, {}) /\ Kin(g, h) BY <3>1, <3>6, <4>3, ReleasedHeld
      <4>5. Aside(f, g, n) /\ g.inode[n].size = f.inode[n].size BY <1>4, <1>6, <4>3, BesideAside
      <4>6. Aside(g, h, n) /\ h.inode = g.inode BY <4>4, KinAside DEF Kin
      <4>7. Aside(d, h, n) BY <2>9, <4>5, <4>6, AsideTwice
      <4>8. h.inode[n].size = d.inode[n].size BY <2>9, <4>5, <4>6
      <4>9. Tied(d, v, O, n, k) BY <3>4, <3>6, <4>4, <4>7, <4>8 DEF Tied
      <4> QED BY <3>3, <4>9
    <3> QED BY <3>5, <3>6
  <2> QED BY <2>10, <2>11
<1> QED BY <1>3, <1>5, <1>6

LEMMA LinkBlocksTies ==
  ASSUME NEW d, NEW O, NEW n \in O, Held(d, O, {}), d.fault = "none", NEW c \in Nat
  PROVE  Tied(d, files!LinkBlocks(d, n, c), O, n, c)
<1>1. PICK r : r = [disk |-> d, added |-> TRUE] OBVIOUS
<1>2. PICK s : s = [i \in 1 .. c |-> i] OBVIOUS
<1>3. Len(s) = c
  <2>1. s \in Seq(Nat) BY <1>2
  <2> QED BY <1>2, <2>1
<1>4. PICK f : /\ f[0] = r
               /\ \A k \in 1 .. c : f[k] = files!LinkNext(f[k - 1], n)
               /\ LinkEach(r, s, n) = f[c]
  <2>1. Len(s) \in Nat BY <1>3
  <2>2. PICK f : /\ f[0] = r
                 /\ \A k \in 1 .. Len(s) : f[k] = files!LinkNext(f[k - 1], n)
                 /\ LinkEach(r, s, n) = f[Len(s)]
    BY <2>1, LinkingLoop
  <2>3. /\ f[0] = r
        /\ \A k \in 1 .. c : f[k] = files!LinkNext(f[k - 1], n)
        /\ LinkEach(r, s, n) = f[c]
    BY <1>3, <2>2
  <2> QED BY <2>3
<1>5. Len(d.log[n]) \in Nat BY LogLength
<1>6. Tied(d, r, O, n, 0)
  <2>1. r.disk = d /\ r.added /\ DOMAIN r = {"disk", "added"} BY <1>1
  <2>2. Aside(d, d, n) BY DEF Aside
  <2>3. Len(d.log[n]) = Len(d.log[n]) + 0 BY <1>5
  <2> QED BY <2>1, <2>2, <2>3 DEF Tied
<1> DEFINE Part(k) == Tied(d, f[k], O, n, k)
           Bad == {k \in 0 .. c : ~Part(k)}
<1>7. Bad = {}
  <2> SUFFICES ASSUME Bad # {} PROVE FALSE OBVIOUS
  <2>1. PICK k \in Bad : \A m \in Bad : k <= m
    <3>1. Bad \in SUBSET Nat OBVIOUS
    <3> HIDE DEF Bad
    <3> QED BY <3>1, Smallest
  <2>2. k # 0
    <3>1. Part(0) BY <1>4, <1>6
    <3> HIDE DEF Part
    <3> QED BY <2>1, <3>1
  <2>3. k \in 1 .. c /\ k - 1 \in 0 .. c BY <2>1, <2>2
  <2>4. Part(k - 1)
    <3> HIDE DEF Part
    <3>1. k - 1 \notin Bad
      <4> HIDE DEF Bad
      <4> QED BY <2>1, <2>3
    <3> QED BY <2>3, <3>1
  <2>5. f[k] = files!LinkNext(f[k - 1], n) BY <1>4, <2>3
  <2>6. k \in Nat \ {0} BY <2>3
  <2>7. Part(k) BY <1>5, <2>4, <2>5, <2>6, LinkNextTies
  <2> HIDE DEF Part
  <2> QED BY <2>1, <2>7
<1>8. Part(c)
  <2> HIDE DEF Part
  <2>1. c \in 0 .. c OBVIOUS
  <2> QED BY <1>7, <2>1
<1>9. files!LinkBlocks(d, n, c) = LinkEach(r, s, n) BY <1>1, <1>2 DEF files!LinkBlocks, LinkEach
<1> QED BY <1>4, <1>8, <1>9

\* release_reserved_blocks: if no assertion failed, the blocks S were in use and
\* are free.
Freed(d, e, S) == e.fault = "none" =>
  /\ d.fault = "none" /\ Sound(e) /\ Kin(d, e) /\ S \subseteq d.used /\ e.used = d.used \ S
  /\ \A c \in files!BlockNo : e.ptrs[c] = IF c \in S THEN files!NoPtrs ELSE d.ptrs[c]

LEMMA ReleasedFrees ==
  ASSUME NEW d, Sound(d), NEW e, Sound(e), NEW S, Freed(d, e, S), NEW b
  PROVE  Freed(d, files!Released(e, b), S \cup {b})
<1>1. PICK f : f = files!ReleaseBlock(e, b) OBVIOUS
<1>2. PICK v : v = files!Released(e, b) OBVIOUS
<1>3. SUFFICES ASSUME v.fault = "none" PROVE Freed(d, v, S \cup {b}) BY <1>2 DEF Freed
<1>4. f # e
  <2> SUFFICES ASSUME f = e PROVE FALSE BY SMTT(30)
  <2>1. v = files!Faulty(e, "not implemented") BY <1>1, <1>2 DEF files!Released
  <2>2. v.fault = "not implemented" BY <2>1, FaultOf
  <2> QED BY <1>3, <2>2
<1>5. v = f BY <1>1, <1>2, <1>4 DEF files!Released
<1>6. e.fault = "none" BY <1>1, <1>4, ReleaseFaulty
<1>7. f = files!GiveBlock(e, b) /\ b \in e.used
  <2>1. files!Faulty(e, "group").fault # "none" /\ files!Faulty(e, "bitset").fault # "none"
    BY FaultOf
  <2> QED BY <1>1, <1>3, <1>4, <1>5, <1>6, <2>1 DEF files!ReleaseBlock, files!Releasable
<1>8. Gave(e, v, b) /\ Sound(v) BY <1>5, <1>7, GiveFields, GiveBlockKeeps
<1>9. b \in files!BlockNo BY <1>7 DEF Sound, Counts
<1>10. Clear(e, v, b) BY <1>8, <1>9, ClearedPointers DEF Gave
<1>11. /\ d.fault = "none" /\ Kin(d, e) /\ S \subseteq d.used /\ e.used = d.used \ S
       /\ \A c \in files!BlockNo : e.ptrs[c] = IF c \in S THEN files!NoPtrs ELSE d.ptrs[c]
  BY <1>6 DEF Freed
<1>12. Kin(d, v) BY <1>8, <1>11, KinTwice DEF Gave
<1>13. S \cup {b} \subseteq d.used /\ v.used = d.used \ (S \cup {b}) BY <1>7, <1>8, <1>11 DEF Gave
<1>14. ASSUME NEW c \in files!BlockNo
       PROVE  v.ptrs[c] = IF c \in S \cup {b} THEN files!NoPtrs ELSE d.ptrs[c]
  <2>1. CASE c = b BY <1>10, <2>1 DEF Clear
  <2>2. CASE c # b
    <3>1. v.ptrs[c] = e.ptrs[c] BY <1>10, <2>2 DEF Clear
    <3> QED BY <1>11, <2>2, <3>1
  <2> QED BY <2>1, <2>2
<1> QED BY <1>8, <1>11, <1>12, <1>13, <1>14 DEF Freed

LEMMA ReleaseAllFrees ==
  ASSUME NEW d, Sound(d), NEW s, Len(s) \in Nat, DOMAIN s = 1 .. Len(s)
  PROVE  Freed(d, files!ReleaseAll(d, s), Elements(s))
<1>0. PICK N \in Nat : N = Len(s) /\ DOMAIN s = 1 .. N OBVIOUS
<1>1. PICK f : /\ f[0] = d
               /\ \A k \in 1 .. N : f[k] = files!Released(f[k - 1], s[k])
               /\ files!ReleaseAll(d, s) = f[N]
  BY <1>0, ReleaseAllLoop, SMTT(30)
<1> DEFINE Part(k) == Sound(f[k]) /\ Freed(d, f[k], Before(s, k))
           Bad == {k \in 0 .. N : ~Part(k)}
<1>2. Bad = {}
  <2> SUFFICES ASSUME Bad # {} PROVE FALSE OBVIOUS
  <2>1. PICK k \in Bad : \A m \in Bad : k <= m
    <3>1. Bad \in SUBSET Nat OBVIOUS
    <3> HIDE DEF Bad
    <3> QED BY <3>1, Smallest
  <2>2. k # 0
    <3>1. Before(s, 0) = {} BY <1>0, BeforeAfter
    <3>2. Freed(d, d, {}) BY DEF Freed, Kin
    <3>3. Part(0) BY <1>1, <3>1, <3>2
    <3> HIDE DEF Part
    <3> QED BY <2>1, <3>3
  <2>3. k \in 1 .. N /\ k - 1 \in 0 .. N BY <1>0, <2>1, <2>2
  <2>4. Part(k - 1)
    <3> HIDE DEF Part
    <3>1. k - 1 \notin Bad
      <4> HIDE DEF Bad
      <4> QED BY <2>1, <2>3
    <3> QED BY <2>3, <3>1
  <2>5. f[k] = files!Released(f[k - 1], s[k]) BY <1>1, <2>3
  <2>6. Sound(f[k]) BY <2>4, <2>5, ReleaseBlockKeeps, FaultyKeeps DEF files!Released
  <2>7. Before(s, k) = Before(s, k - 1) \cup {s[k]} BY <1>0, <2>3, BeforeAfter
  <2>8. Freed(d, f[k], Before(s, k)) BY <2>4, <2>5, <2>7, ReleasedFrees
  <2>9. Part(k) BY <2>6, <2>8
  <2> HIDE DEF Part
  <2> QED BY <2>1, <2>9
<1>3. Part(N)
  <2> HIDE DEF Part
  <2>1. N \in 0 .. N BY <1>0
  <2> QED BY <1>2, <2>1
<1>4. Before(s, N) = Elements(s) BY <1>0, BeforeAfter
<1> QED BY <1>1, <1>3, <1>4, SMTT(30)

-----------------------------------------------------------------------------
\* How many blocks a size needs.
LEMMA Quotients ==
  ASSUME NEW u \in Nat \ {0}
  PROVE  /\ \A k \in Nat : \A y \in 0 .. u - 1 : (k * u + y) \div u = k /\ k * u \in Nat
         /\ \A a \in Nat : a \div u \in Nat /\ \E y \in 0 .. u - 1 : a = (a \div u) * u + y
<1>1. \A k \in Nat : \A y \in 0 .. u - 1 : (k * u + y) \div u = k /\ k * u \in Nat OBVIOUS
<1>2. \A a \in Nat : /\ a \div u \in Nat /\ a % u \in 0 .. u - 1 /\ a = (a \div u) * u + (a % u)
  OBVIOUS
<1> QED BY <1>1, <1>2

LEMMA BlocksInIs ==
  ASSUME NEW x \in Nat, NEW k \in Nat, k * BlockSize - BlockSize < x, x <= k * BlockSize
  PROVE  files!BlocksIn(x) = k
<1>1. PICK u \in Nat \ {0} : u = BlockSize BY SizesHold DEF Sizes
<1>2. PICK q \in Nat : q = k * u BY <1>1, Quotients
<1>3. q - u < x /\ x <= q BY <1>1, <1>2
<1>4. PICK y \in 0 .. u - 1 : x + u - 1 = q + y
  <2>1. (x + u - 1) - q \in 0 .. u - 1 BY <1>3
  <2> QED BY <2>1
<1>5. (q + y) \div u = k BY <1>2, Quotients
<1>6. files!RoundUp(x, u) = q BY <1>2, <1>4, <1>5 DEF files!RoundUp
<1>7. q \div u = k
  <2>1. 0 \in 0 .. u - 1 OBVIOUS
  <2>2. (q + 0) \div u = k BY <1>2, <2>1, Quotients
  <2> QED BY <2>2
<1> QED BY <1>1, <1>6, <1>7 DEF files!BlocksIn

LEMMA BlocksInBounds ==
  ASSUME NEW x \in Nat, NEW k, k = files!BlocksIn(x)
  PROVE  k \in Nat /\ k * BlockSize \in Nat /\ k * BlockSize - BlockSize < x /\ x <= k * BlockSize
<1>1. PICK u \in Nat \ {0} : u = BlockSize BY SizesHold DEF Sizes
<1>2. PICK h \in Nat, y \in 0 .. u - 1 : x + u - 1 = h * u + y
  <2>1. PICK a \in Nat : a = x + u - 1 OBVIOUS
  <2>2. a \div u \in Nat /\ \E y \in 0 .. u - 1 : a = (a \div u) * u + y BY Quotients
  <2> QED BY <2>1, <2>2
<1>3. PICK q \in Nat : q = h * u BY <1>2, Quotients
<1>4. q - u < x /\ x <= q BY <1>2, <1>3
<1>5. h * BlockSize - BlockSize < x /\ x <= h * BlockSize BY <1>1, <1>3, <1>4
<1>6. k = h BY <1>2, <1>5, BlocksInIs
<1> QED BY <1>1, <1>3, <1>5, <1>6

\* No more than fit, nor fewer.
LEMMA BlocksInMore ==
  ASSUME NEW x \in Nat, NEW y \in Nat, x <= y
  PROVE  files!BlocksIn(x) <= files!BlocksIn(y)
<1>1. PICK u \in Nat \ {0} : u = BlockSize BY SizesHold DEF Sizes
<1>2. PICK k \in Nat : k = files!BlocksIn(x) /\ k * u - u < x BY <1>1, BlocksInBounds
<1>3. PICK h \in Nat : h = files!BlocksIn(y) /\ y <= h * u BY <1>1, BlocksInBounds
<1>4. SUFFICES ASSUME h < k PROVE FALSE BY <1>2, <1>3
<1>5. h * u + u <= k * u
  <2>1. \A a, b \in Nat : a <= b => a * u <= b * u OBVIOUS
  <2>2. (h + 1) * u <= k * u BY <1>4, <2>1
  <2>3. (h + 1) * u = h * u + u OBVIOUS
  <2> QED BY <2>2, <2>3
<1>6. PICK p \in Nat, q \in Nat : p = h * u /\ q = k * u BY Quotients
<1> QED BY <1>2, <1>3, <1>5, <1>6

LEMMA BlocksInFull ==
  ASSUME NEW k \in Nat
  PROVE  k * BlockSize \in Nat /\ files!BlocksIn(k * BlockSize) = k
<1>1. PICK u \in Nat \ {0} : u = BlockSize BY SizesHold DEF Sizes
<1>2. PICK q \in Nat : q = k * u BY Quotients
<1>3. k * BlockSize - BlockSize < q /\ q <= k * BlockSize BY <1>1, <1>2
<1>4. files!BlocksIn(q) = k BY <1>3, BlocksInIs
<1> QED BY <1>1, <1>2, <1>4

LEMMA BlocksInLonger ==
  ASSUME NEW x \in Nat
  PROVE  files!BlocksIn(x + BlockSize) = files!BlocksIn(x) + 1
<1>1. PICK u \in Nat \ {0} : u = BlockSize BY SizesHold DEF Sizes
<1>2. PICK k \in Nat : k = files!BlocksIn(x) /\ k * u - u < x /\ x <= k * u
  BY <1>1, BlocksInBounds
<1>3. (k + 1) * u = k * u + u OBVIOUS
<1>4. PICK q \in Nat : q = k * u BY Quotients
<1>5. PICK y \in Nat : y = x + u OBVIOUS
<1>6. (k + 1) * u - u < y /\ y <= (k + 1) * u BY <1>2, <1>3, <1>4, <1>5
<1>7. files!BlocksIn(y) = k + 1
  <2>1. k + 1 \in Nat OBVIOUS
  <2> QED BY <1>1, <1>6, <2>1, BlocksInIs
<1> QED BY <1>1, <1>2, <1>5, <1>7

\* The blocks of a link are enough for its target.
LEMMA TargetFits ==
  ASSUME NEW x \in Nat
  PROVE  x \div BlockSize + 1 \in Nat /\ files!BlocksIn(x) <= x \div BlockSize + 1
<1>1. PICK u \in Nat \ {0} : u = BlockSize BY SizesHold DEF Sizes
<1>2. PICK h \in Nat, y \in 0 .. u - 1 : h = x \div u /\ x = h * u + y BY Quotients
<1>3. PICK q \in Nat : q = h * u BY Quotients
<1>4. (h + 1) * u = q + u BY <1>3
<1>5. PICK z \in Nat : z = (h + 1) * BlockSize BY <1>1, <1>4
<1>6. files!BlocksIn(z) = h + 1
  <2>1. h + 1 \in Nat OBVIOUS
  <2> QED BY <1>5, <2>1, BlocksInFull
<1>7. x <= z BY <1>1, <1>2, <1>3, <1>4, <1>5
<1> QED BY <1>1, <1>2, <1>6, <1>7, BlocksInMore

-----------------------------------------------------------------------------
\* What an inode holds has to do with what it is.
First(n) == n \in 1 .. Reserved
Owner(d, n) ==
  /\ n \in d.nodes \ (1 .. Reserved) \/ n = files!Root
  /\ \/ d.inode[n].type \in {"dir", "file"}
     \/ d.inode[n].type = "link" /\ d.inode[n].size > Inline

\* Characters or numbers are kept in place of the pointers.
Short(d, n) ==
  /\ d.log[n] = <<>>
  /\ \E word \in TargetWord : d.inode[n].map = [files!NoMap EXCEPT ![1] = word]
  /\ d.inode[n].type \in {"link", "device"}
  /\ d.inode[n].type = "link" => d.inode[n].size \in 1 .. Inline

\* An inode of O has the blocks its size needs.
Sufficient(d, n) ==
  /\ n \in d.nodes
  /\ d.inode[n].type \in {"dir", "file", "link"}
  /\ d.inode[n].type # "link" => Len(d.log[n]) = files!BlockCount(d, n)
  /\ files!BlockCount(d, n) <= Len(d.log[n])

Fit(d, O, n) ==
  /\ n \in O <=> Owner(d, n)
  /\ n \in O => Sufficient(d, n)
  /\ First(n) => n \in d.nodes
  /\ First(n) /\ n \notin O =>
       /\ d.inode[n].type = "none" /\ d.inode[n].size = 0 /\ d.inode[n].map = files!NoMap
       /\ d.log[n] = <<>>
  /\ n \in d.nodes /\ ~First(n) /\ n \notin O => Short(d, n)

LEMMA FitSame ==
  ASSUME NEW d, NEW e, NEW O, NEW P, NEW n, Fit(d, O, n), n \in O <=> n \in P,
         n \in d.nodes <=> n \in e.nodes, e.log[n] = d.log[n],
         e.inode[n].type = d.inode[n].type, e.inode[n].size = d.inode[n].size,
         e.inode[n].map = d.inode[n].map
  PROVE  Fit(e, P, n)
<1>1. Owner(d, n) <=> Owner(e, n) BY DEF Owner
<1>2. files!BlockCount(d, n) = files!BlockCount(e, n) BY DEF files!BlockCount
<1>3. Sufficient(d, n) => Sufficient(e, n) BY <1>2 DEF Sufficient
<1>4. Short(d, n) => Short(e, n) BY DEF Short
<1> QED BY <1>1, <1>3, <1>4 DEF Fit

LEMMA FitIn ==
  ASSUME NEW d, NEW O, NEW n \in O, Owner(d, n), Sufficient(d, n)
  PROVE  Fit(d, O, n)
<1>1. n \in d.nodes BY DEF Sufficient
<1> QED BY <1>1 DEF Fit

\* All of a disk, but for the inodes X.
Full(d, O, X) == Held(d, O, {}) /\ \A n \in files!Node \ X : Fit(d, O, n)

\* The other inodes are as they were.
LEMMA FullAside ==
  ASSUME NEW d, NEW O, NEW X, Full(d, O, X), NEW e, NEW n, Held(e, O, {}), Aside(d, e, n)
  PROVE  Full(e, O, X \cup {n})
<1>1. ASSUME NEW m \in files!Node \ (X \cup {n}) PROVE Fit(e, O, m)
  <2>1. Fit(d, O, m) BY DEF Full
  <2>2. e.inode[m] = d.inode[m] /\ e.log[m] = d.log[m] /\ e.nodes = d.nodes BY DEF Aside
  <2> QED BY <2>1, <2>2, FitSame
<1> QED BY <1>1 DEF Full

LEMMA FullFit ==
  ASSUME NEW d, NEW O, NEW X, NEW n, Full(d, O, X \cup {n}), Fit(d, O, n)
  PROVE  Full(d, O, X)
<1>1. ASSUME NEW m \in files!Node \ X PROVE Fit(d, O, m)
  <2>1. m = n \/ m \in files!Node \ (X \cup {n}) OBVIOUS
  <2> QED BY <2>1 DEF Full
<1> QED BY <1>1 DEF Full

-----------------------------------------------------------------------------
\* The calls of a call.

\* Entries of directories say nothing about who owns what.
LEMMA DirHeld ==
  ASSUME NEW d, NEW O, NEW F, Held(d, O, F), NEW b, NEW es
  PROVE  LET e == [d EXCEPT !.dir[b] = es] IN Held(e, O, F) /\ Kin(d, e) /\ e.fault = d.fault
<1>1. PICK e : e = [d EXCEPT !.dir[b] = es] OBVIOUS
<1>2. Sound(d) /\ DOMAIN d.log = files!Node BY DEF Held
<1>3. Sound(e) BY <1>1, <1>2, DirKeeps
<1>4. DOMAIN d = Fields BY <1>2 DEF Sound, Counts
<1>5. /\ e.used = d.used /\ e.lost = d.lost /\ e.ptrs = d.ptrs /\ e.log = d.log
      /\ e.fault = d.fault /\ e.nodes = d.nodes /\ e.inode = d.inode
  BY <1>1, <1>4 DEF Fields
<1>6. Like(d, e, O) BY <1>2, <1>3, <1>5 DEF Like
<1>7. Held(e, O, F) /\ Kin(d, e) BY <1>5, <1>6, LikeHeld DEF Kin
<1> QED BY <1>1, <1>5, <1>7

LEMMA DirFull ==
  ASSUME NEW d, NEW O, NEW X, Full(d, O, X), NEW b, NEW es
  PROVE  LET e == [d EXCEPT !.dir[b] = es]
         IN Full(e, O, X) /\ Kin(d, e) /\ e.fault = d.fault
<1>1. PICK e : e = [d EXCEPT !.dir[b] = es] OBVIOUS
<1>2. Held(e, O, {}) /\ Kin(d, e) /\ e.fault = d.fault BY <1>1, DirHeld DEF Full
<1>3. ASSUME NEW m \in files!Node \ X PROVE Fit(e, O, m)
  <2>1. Fit(d, O, m) BY DEF Full
  <2>2. e.inode = d.inode /\ e.log = d.log /\ e.nodes = d.nodes BY <1>2 DEF Kin
  <2> QED BY <2>1, <2>2, FitSame
<1> QED BY <1>1, <1>2, <1>3 DEF Full

\* add_child_inode: a directory has one block more, or something failed.
Named(d, e, O, X, p) == e.fault = "none" => Full(e, O, X) /\ Aside(d, e, p)

LEMMA NewBlockNames ==
  ASSUME NEW d, NEW O, NEW X, Full(d, O, X), NEW p \in O, p \notin X,
         d.inode[p].type = "dir", NEW a, NEW e, NEW g, g = a.disk, a.added,
         Held(g, O, {}), Aside(d, g, p), g.inode[p].size = d.inode[p].size,
         Len(g.log[p]) = Len(d.log[p]) + 1, NEW b, NEW n, NEW len,
         e = files!FirstEntry(a, b, p, n, len).disk
  PROVE  Named(d, e, O, X, p)
<1>0. PICK z \in Nat : z = d.inode[p].size /\ p \in files!Node
  <2>1. Sound(d) /\ p \in files!Node BY DEF Full, Held
  <2> QED BY <2>1, InodeIs
<1>1. CASE files!BlockCount(g, p) >= Direct
  <2>1. PICK f : f = files!Faulty(g, "not implemented") OBVIOUS
  <2>2. e = f BY <1>1, <2>1 DEF files!FirstEntry
  <2>3. Sound(g) BY DEF Held
  <2>4. f.fault = "not implemented" BY <2>1, <2>3, FaultOf
  <2>5. f.fault # "none" BY <2>4
  <2> QED BY <2>2, <2>5 DEF Named
<1>2. CASE ~(files!BlockCount(g, p) >= Direct)
  <2>1. PICK es : es = <<[files!Hole(BlockSize) EXCEPT !.node = n, !.len = len]>> OBVIOUS
  <2>2. PICK f : f = [g EXCEPT !.inode[p].size = z + BlockSize] OBVIOUS
  <2>3. PICK h : h = [f EXCEPT !.dir[b] = es] OBVIOUS
  <2>4. h = [g EXCEPT !.inode[p].size = @ + BlockSize, !.dir[b] = es]
    <3>1. f = [g EXCEPT !.inode[p].size = @ + BlockSize] BY <1>0, <2>2
    <3>2. DOMAIN g = Fields BY DEF Held, Sound, Counts
    <3> QED BY <2>3, <3>1, <3>2 DEF Fields
  <2>5. e = h BY <1>2, <2>1, <2>4 DEF files!FirstEntry
  <2>6. z + BlockSize \in Nat BY <1>0, SizesHold DEF Sizes
  <2>7. Held(f, O, {}) /\ Sized(g, f, p, z + BlockSize) BY <1>0, <2>2, <2>6, SizedHeld
  <2>8. Aside(d, f, p) /\ f.log = g.log /\ f.inode[p].size = z + BlockSize
    BY <2>7, AsideTwice DEF Sized
  <2>9. Full(f, O, X \cup {p}) BY <2>7, <2>8, FullAside
  <2>10. Fit(f, O, p)
    <3>1. Fit(d, O, p) BY <1>0 DEF Full
    <3>2. f.inode[p].type = "dir" /\ f.nodes = d.nodes BY <2>8 DEF Aside
    <3>3. Owner(d, p) /\ Sufficient(d, p) BY <3>1 DEF Fit
    <3>4. Owner(f, p) BY <3>2, <3>3 DEF Owner
    <3>5. files!BlockCount(f, p) = files!BlockCount(d, p) + 1
      BY <1>0, <2>8, BlocksInLonger DEF files!BlockCount
    <3>6. Len(d.log[p]) = files!BlockCount(d, p) BY <3>3 DEF Sufficient
    <3>7. Len(f.log[p]) = files!BlockCount(f, p) BY <2>8, <3>5, <3>6
    <3>8. files!BlockCount(f, p) \in Nat BY <1>0, <2>6, <2>8, RoundedUp DEF files!BlockCount
    <3>9. Sufficient(f, p) BY <3>2, <3>3, <3>7, <3>8 DEF Sufficient
    <3> QED BY <3>4, <3>9, FitIn
  <2>11. Full(f, O, X) BY <2>9, <2>10, FullFit
  <2>12. Full(h, O, X) /\ Kin(f, h) BY <2>3, <2>11, DirFull
  <2>13. Aside(d, h, p) BY <2>8, <2>12, KinAside, AsideTwice
  <2> QED BY <2>5, <2>12, <2>13 DEF Named
<1> QED BY <1>1, <1>2

LEMMA KinFull ==
  ASSUME NEW d, NEW O, NEW X, Full(d, O, X), NEW e, Kin(d, e), Held(e, O, {})
  PROVE  Full(e, O, X)
<1>1. ASSUME NEW m \in files!Node \ X PROVE Fit(e, O, m)
  <2>1. Fit(d, O, m) BY DEF Full
  <2>2. e.inode = d.inode /\ e.log = d.log /\ e.nodes = d.nodes BY DEF Kin
  <2> QED BY <2>1, <2>2, FitSame
<1> QED BY <1>1 DEF Full

LEMMA AddChildBlockNames ==
  ASSUME NEW d, NEW O, NEW X, Full(d, O, X), d.fault = "none", NEW p \in O, p \notin X,
         d.inode[p].type = "dir", NEW n, NEW len
  PROVE  Named(d, files!AddChildBlock(d, p, n, len).disk, O, X, p)
<1>1. PICK b : b = files!NextBlock(d) OBVIOUS
<1>2. PICK v : v = files!AddChildBlock(d, p, n, len) OBVIOUS
<1>3. Held(d, O, {}) /\ Sound(d) /\ p \in files!Node BY DEF Full, Held
<1>4. CASE b = files!Null
  <2>1. v.disk = files!Faulty(d, "null block") BY <1>1, <1>2, <1>4 DEF files!AddChildBlock
  <2>2. v.disk.fault = "null block" BY <1>3, <2>1, FaultOf
  <2>3. v.disk.fault # "none" BY <2>2
  <2> QED BY <1>2, <2>3 DEF Named
<1>5. CASE b # files!Null /\ files!GroupOf(b) # 0
  <2>1. v.disk = files!Faulty(d, "block index") BY <1>1, <1>2, <1>5 DEF files!AddChildBlock
  <2>2. v.disk.fault = "block index" BY <1>3, <2>1, FaultOf
  <2>3. v.disk.fault # "none" BY <2>2
  <2> QED BY <1>2, <2>3 DEF Named
<1>6. CASE b # files!Null /\ files!GroupOf(b) = 0
  <2>1. PICK f : f = files!TakeBlock(d) OBVIOUS
  <2>2. PICK F : F = {b} OBVIOUS
  <2>3. Held(f, O, F) /\ b \in F
    <3>1. Held(f, O, {} \cup {b}) BY <1>1, <1>3, <1>6, <2>1, TakeHeld
    <3>2. {} \cup {b} = F BY <2>2
    <3> QED BY <2>2, <3>1, <3>2
  <2>4. Kin(d, f) /\ f.fault = "none"
    <3>1. Took(d, f, b) BY <1>1, <1>3, <2>1, TakeFields
    <3> QED BY <3>1 DEF Took
  <2>5. PICK a : a = files!AddBlock(f, p, b) OBVIOUS
  <2>6. Added(f, a, O, F, p, b) BY <2>3, <2>5, AddBlockAdds
  <2>7. PICK g : g = a.disk OBVIOUS
  <2>8. PICK e : e = files!FirstEntry(a, b, p, n, len).disk OBVIOUS
  <2>9. v.disk = e BY <1>1, <1>2, <1>6, <2>1, <2>5, <2>8 DEF files!AddChildBlock
  <2>10. CASE a.added
    <3>1. F \ {b} = {} BY <2>2
    <3>2. AddedTo(f, g, O, {}, p, b) BY <2>6, <2>7, <2>10, <3>1 DEF Added
    <3>3. Held(g, O, {}) /\ Beside(f, g, p) /\ g.log[p] = Append(f.log[p], b)
      BY <3>2 DEF AddedTo
    <3>4. Aside(f, g, p) /\ g.inode[p].size = f.inode[p].size BY <1>3, <3>3, BesideAside
    <3>5. Aside(d, f, p) /\ f.inode = d.inode /\ f.log = d.log BY <2>4, KinAside DEF Kin
    <3>6. Aside(d, g, p) /\ g.inode[p].size = d.inode[p].size BY <3>4, <3>5, AsideTwice
    <3>7. b \in files!BlockNo BY <2>3 DEF Held, Stock, Sound, Counts
    <3>8. Len(g.log[p]) = Len(d.log[p]) + 1
      <4>1. Len(g.log[p]) = Len(f.log[p]) + 1 BY <2>3, <3>3, <3>7, LogLength
      <4> QED BY <3>5, <4>1
    <3>9. Named(d, e, O, X, p) BY <2>7, <2>8, <2>10, <3>3, <3>6, <3>8, NewBlockNames
    <3> QED BY <1>2, <2>9, <3>9
  <2>11. CASE ~a.added
    <3>1. e = files!ReleaseBlock(g, b) BY <2>7, <2>8, <2>11 DEF files!FirstEntry
    <3>2. CASE e.fault # "none" BY <1>2, <2>9, <3>2 DEF Named
    <3>3. CASE e.fault = "none"
      <4>1. g.fault = "none" BY <3>1, <3>3, ReleaseFaulty
      <4>2. NotAdded(f, g, O, F, p) BY <2>6, <2>7, <2>11, <4>1 DEF Added
      <4>3. Held(g, O, {b}) /\ Beside(f, g, p) /\ g.log = f.log BY <2>2, <4>2 DEF NotAdded
      <4>4. Held(e, O, {}) /\ Kin(g, e) BY <3>1, <3>3, <4>3, ReleasedHeld
      <4>5. Aside(f, g, p) /\ g.inode[p].size = f.inode[p].size BY <1>3, <4>3, BesideAside
      <4>6. Aside(d, f, p) /\ f.inode = d.inode /\ f.log = d.log BY <2>4, KinAside DEF Kin
      <4>7. Aside(g, e, p) /\ e.inode = g.inode /\ e.log = g.log BY <4>4, KinAside DEF Kin
      <4>8. Aside(d, e, p) BY <4>5, <4>6, <4>7, AsideTwice
      <4>9. Full(e, O, X \cup {p}) BY <4>4, <4>8, FullAside
      <4>10. Fit(e, O, p)
        <5>1. Fit(d, O, p) BY <1>3 DEF Full
        <5>2. e.nodes = d.nodes /\ e.inode[p].type = d.inode[p].type BY <4>8 DEF Aside
        <5>3. e.inode[p].size = d.inode[p].size /\ e.log[p] = d.log[p] BY <4>3, <4>5, <4>6, <4>7
        <5>4. Owner(e, p) /\ Sufficient(e, p)
          BY <5>1, <5>2, <5>3 DEF Fit, Owner, Sufficient, files!BlockCount
        <5> QED BY <5>4, FitIn
      <4>11. Full(e, O, X) BY <4>9, <4>10, FullFit
      <4> QED BY <1>2, <2>9, <4>8, <4>11 DEF Named
    <3> QED BY <3>2, <3>3
  <2> QED BY <2>10, <2>11
<1> QED BY <1>4, <1>5, <1>6

LEMMA AddChildNames ==
  ASSUME NEW d, NEW O, NEW X, Full(d, O, X), d.fault = "none", NEW p \in O, p \notin X,
         d.inode[p].type = "dir", NEW n, NEW len
  PROVE  Named(d, files!AddChild(d, p, n, len).disk, O, X, p)
<1>0. Sound(d) BY DEF Full, Held
<1>1. PICK bs : bs = files!DirBlocks(d, p) OBVIOUS
<1>2. PICK with : with = {i \in DOMAIN bs : files!Places(d.dir[bs[i]], len) # {}} OBVIOUS
<1>3. PICK b : b = bs[files!Least(with)] OBVIOUS
<1>4. CASE ~files!Markable(p)
  <2>1. PICK e : e = files!Faulty(d, "modified_map") OBVIOUS
  <2>2. files!AddChild(d, p, n, len) = [disk |-> e, added |-> TRUE]
    BY <1>4, <2>1 DEF files!AddChild
  <2>3. e.fault = "modified_map" BY <1>0, <2>1, FaultOf
  <2>4. e.fault # "none" BY <2>3
  <2> QED BY <2>2, <2>4 DEF Named
<1>5. CASE files!Markable(p) /\ with # {}
  <2>1. PICK es : es = files!Placed(d.dir[b], files!Least(files!Places(d.dir[b], len)), n, len) OBVIOUS
  <2>2. PICK e : e = [d EXCEPT !.dir[b] = es] OBVIOUS
  <2>3. e = [d EXCEPT !.dir[b] = files!Placed(@, files!Least(files!Places(@, len)), n, len)] BY <2>1, <2>2
  <2>4. files!AddChild(d, p, n, len) = [disk |-> e, added |-> TRUE]
    BY <1>1, <1>2, <1>3, <1>5, <2>3 DEF files!AddChild
  <2>5. Full(e, O, X) /\ Kin(d, e) BY <2>2, DirFull
  <2>6. Aside(d, e, p) BY <2>5, KinAside
  <2> QED BY <2>4, <2>5, <2>6 DEF Named
<1>6. CASE files!Markable(p) /\ with = {}
  <2>1. files!AddChild(d, p, n, len) = files!AddChildBlock(d, p, n, len)
    BY <1>1, <1>2, <1>6 DEF files!AddChild
  <2> QED BY <2>1, AddChildBlockNames
<1> QED BY <1>4, <1>5, <1>6

-----------------------------------------------------------------------------
\* Inodes are reserved and released.
Around(d, e, n) ==
  \A m \in files!Node : m # n =>
    (m \in e.nodes <=> m \in d.nodes) /\ e.inode[m] = d.inode[m] /\ e.log[m] = d.log[m]

\* The others fit as they did.
LEMMA AroundFits ==
  ASSUME NEW d, NEW O, NEW X, Full(d, O, X), NEW e, NEW n, Around(d, e, n),
         NEW P, \A m \in files!Node : m # n => (m \in O <=> m \in P),
         Held(e, P, {}), n \in X \/ Fit(e, P, n)
  PROVE  Full(e, P, X)
<1>1. ASSUME NEW m \in files!Node \ X PROVE Fit(e, P, m)
  <2>1. CASE m = n BY <2>1
  <2>2. CASE m # n
    <3>1. Fit(d, O, m) BY DEF Full
    <3>2. /\ m \in e.nodes <=> m \in d.nodes
          /\ e.inode[m] = d.inode[m] /\ e.log[m] = d.log[m]
      BY <2>2 DEF Around
    <3>3. m \in O <=> m \in P BY <2>2
    <3> QED BY <3>1, <3>2, <3>3, FitSame
  <2> QED BY <2>1, <2>2
<1> QED BY <1>1 DEF Full

\* The inode is free, what else changes being up to the caller.
GaveNode(d, e, n) ==
  /\ Around(d, e, n) /\ n \notin e.nodes /\ e.log[n] = <<>> /\ e.inode[n].size = 0
  /\ e.inode[n].map = files!NoMap
  /\ DOMAIN e.log = files!Node /\ e.used = d.used /\ e.ptrs = d.ptrs /\ e.fault = d.fault

LEMMA GiveNodeGives ==
  ASSUME NEW d, Sound(d), DOMAIN d.log = files!Node, NEW n \in d.nodes, NEW S
  PROVE  LET e == [files!GiveNode(d, n) EXCEPT !.lost = S]
         IN GaveNode(d, e, n) /\ e.lost = S /\ Sound(e)
<1>1. PICK new : new = [files!Blank EXCEPT !.links = d.inode[n].links] OBVIOUS
<1>2. new.size = 0 /\ new.map = files!NoMap BY <1>1 DEF files!Blank
<1>3. PICK f : f = files!GiveNode(d, n) OBVIOUS
<1>4. f = [d EXCEPT !.nodes = @ \ {n}, !.freeNodes[files!NodeGroup(n)] = @ + 1,
                    !.log[n] = <<>>, !.inode[n] = new]
  BY <1>1, <1>3 DEF files!GiveNode
<1>5. PICK e : e = [f EXCEPT !.lost = S] OBVIOUS
<1>6. Sound(f) /\ Sound(e) BY <1>3, <1>5, GiveNodeKeeps, LostKeeps
<1>7. DOMAIN d = Fields /\ DOMAIN d.inode = files!Node /\ n \in files!Node
  BY DEF Sound, Counts, Typed
<1>8. /\ f.nodes = d.nodes \ {n} /\ f.log = [d.log EXCEPT ![n] = <<>>]
      /\ f.inode = [d.inode EXCEPT ![n] = new]
      /\ f.used = d.used /\ f.ptrs = d.ptrs /\ f.fault = d.fault /\ DOMAIN f = Fields
  BY <1>4, <1>7 DEF Fields
<1>9. /\ e.nodes = f.nodes /\ e.log = f.log /\ e.inode = f.inode
      /\ e.used = d.used /\ e.ptrs = d.ptrs /\ e.fault = d.fault /\ e.lost = S
  BY <1>5, <1>8 DEF Fields
<1>10. /\ e.log[n] = <<>> /\ e.inode[n] = new /\ n \notin e.nodes /\ DOMAIN e.log = files!Node
       /\ \A m \in files!Node : m # n =>
            e.log[m] = d.log[m] /\ e.inode[m] = d.inode[m] /\ (m \in e.nodes <=> m \in d.nodes)
  BY <1>7, <1>8, <1>9
<1>11. GaveNode(d, e, n) BY <1>2, <1>9, <1>10 DEF GaveNode, Around
<1> QED BY <1>3, <1>5, <1>6, <1>9, <1>11

LEMMA GiveNodeFaults ==
  ASSUME NEW d, Sound(d), NEW n, d.fault # "none" \/ n \notin d.nodes, NEW S
  PROVE  [files!GiveNode(d, n) EXCEPT !.lost = S].fault # "none"
<1>1. PICK f : f = files!GiveNode(d, n) OBVIOUS
<1>2. DOMAIN d = Fields BY DEF Sound, Counts
<1>3. CASE n \notin d.nodes
  <2>1. f = files!Faulty(d, "node_usage") BY <1>1, <1>3 DEF files!GiveNode
  <2>2. f.fault = "node_usage" BY <2>1, FaultOf
  <2>3. Sound(f) BY <2>1, FaultyKeeps
  <2>4. DOMAIN f = Fields BY <2>3 DEF Sound, Counts
  <2>5. PICK e : e = [f EXCEPT !.lost = S] OBVIOUS
  <2>6. e.fault = f.fault BY <2>4, <2>5 DEF Fields
  <2>7. e.fault # "none" BY <2>2, <2>6
  <2> QED BY <1>1, <2>5, <2>7
<1>4. CASE n \in d.nodes /\ d.fault # "none"
  <2>1. PICK new : new = [files!Blank EXCEPT !.links = d.inode[n].links] OBVIOUS
  <2>2. f = [d EXCEPT !.nodes = @ \ {n}, !.freeNodes[files!NodeGroup(n)] = @ + 1,
                      !.log[n] = <<>>, !.inode[n] = new]
    BY <1>1, <1>4, <2>1 DEF files!GiveNode
  <2>3. f.fault = d.fault /\ DOMAIN f = Fields BY <1>2, <2>2 DEF Fields
  <2>4. PICK e : e = [f EXCEPT !.lost = S] OBVIOUS
  <2>5. e.fault = f.fault BY <2>3, <2>4 DEF Fields
  <2> QED BY <1>1, <1>4, <2>3, <2>4, <2>5
<1> QED BY <1>3, <1>4

\* An inode that is not one of O owns nothing.
LEMMA ShortOwnsNothing ==
  ASSUME NEW d, Sound(d), NEW n \in files!Node, Short(d, n)
  PROVE  files!Owned(d, n) = {}
<1>1. ASSUME NEW r \in Direct + 1 .. Direct + 3 PROVE One(d, n, r) = files!Null
  <2>1. PICK top \in Nat : top = Direct + 3 /\ r \in 1 .. top /\ r # 1
    BY SizesHold DEF Sizes
  <2>2. files!NoMap = [i \in 1 .. top |-> files!Null] BY <2>1 DEF files!NoMap
  <2>3. PICK word \in TargetWord : d.inode[n].map = [files!NoMap EXCEPT ![1] = word] BY DEF Short
  <2>4. d.inode[n].map[r] = files!Null BY <2>1, <2>2, <2>3
  <2> QED BY <2>4 DEF One
<1>2. \A y : ~Branch(d, n, y) BY <1>1, EmptyPlaces
<1>3. files!IndirectBlocks(d, n) = {} BY <1>2, BranchIs
<1>4. files!ToSet(d.log[n]) = {}
  <2>1. PICK s : s = d.log[n] OBVIOUS
  <2>2. s = <<>> BY <2>1 DEF Short
  <2>3. DOMAIN s = {} BY <2>2
  <2>4. files!ToSet(s) = {} BY <2>3 DEF files!ToSet
  <2> QED BY <2>1, <2>4
<1> QED BY <1>3, <1>4 DEF files!Owned

\* A free inode fits.
LEMMA FreeFits ==
  ASSUME NEW e, NEW O, NEW n, n \notin O, n \notin e.nodes, ~First(n)
  PROVE  Fit(e, O, n)
<1>1. n # files!Root BY SizesHold DEF First, files!Root, Sizes
<1>2. ~Owner(e, n) BY <1>1 DEF Owner
<1> QED BY <1>2 DEF Fit

\* A creation that fails.
LEMMA AbandonFull ==
  ASSUME NEW d, NEW O, NEW n \in files!Node, Full(d, O, {n}), ~First(n), n \in O \/ Fit(d, O, n),
         NEW e, e = files!Abandon(d, n), e.fault = "none"
  PROVE  Full(e, O \ {n}, {})
<1>1. Held(d, O, {}) /\ Sound(d) /\ DOMAIN d.log = files!Node BY DEF Full, Held
<1>2. PICK S : S = files!GiveNode(d, n).lost \cup files!Owned(d, n) OBVIOUS
<1>3. e = [files!GiveNode(d, n) EXCEPT !.lost = S] BY <1>2 DEF files!Abandon
<1>4. n \in d.nodes /\ d.fault = "none" BY <1>1, <1>3, GiveNodeFaults
<1>5. GaveNode(d, e, n) /\ e.lost = S /\ Sound(e) BY <1>1, <1>3, <1>4, GiveNodeGives
<1>6. S = d.lost \cup files!Owned(d, n)
  <2>1. PICK new : new = [files!Blank EXCEPT !.links = d.inode[n].links] OBVIOUS
  <2>2. PICK f : f = files!GiveNode(d, n) OBVIOUS
  <2>3. f = [d EXCEPT !.nodes = @ \ {n}, !.freeNodes[files!NodeGroup(n)] = @ + 1,
                      !.log[n] = <<>>, !.inode[n] = new]
    BY <1>4, <2>1, <2>2 DEF files!GiveNode
  <2>4. f.lost = d.lost BY <1>1, <2>3 DEF Sound, Counts, Fields
  <2> QED BY <1>2, <2>2, <2>4
<1>7. Held(e, O \ {n}, {})
  <2>1. CASE n \in O
    <3>1. PICK T : T = {} OBVIOUS
    <3>2. Dropped(d, e, O, n, T)
      <4>1. e.used = d.used \ T /\ e.lost = d.lost \cup (files!Owned(d, n) \ T)
        BY <1>5, <1>6, <3>1 DEF GaveNode
      <4>2. \A m \in O : m # n => e.inode[m].map = d.inode[m].map /\ e.log[m] = d.log[m]
        BY <1>1, <1>5 DEF GaveNode, Around, Held
      <4>3. \A b \in files!BlockNo : b \notin T /\ e.ptrs[b] = d.ptrs[b]
        BY <1>5, <3>1 DEF GaveNode
      <4> QED BY <1>5, <4>1, <4>2, <4>3 DEF Dropped, GaveNode
    <3>3. T \subseteq files!Owned(d, n) BY <3>1
    <3> QED BY <1>1, <2>1, <3>1, <3>2, <3>3, DropHeld
  <2>2. CASE n \notin O
    <3>1. Short(d, n) BY <1>4, <2>2 DEF Fit
    <3>2. files!Owned(d, n) = {} BY <1>1, <3>1, ShortOwnsNothing
    <3>3. e.lost = d.lost BY <1>5, <1>6, <3>2
    <3>4. \A m \in O : e.inode[m].map = d.inode[m].map /\ e.log[m] = d.log[m]
      BY <1>1, <1>5, <2>2 DEF GaveNode, Around, Held
    <3>5. Like(d, e, O) BY <1>5, <3>3, <3>4 DEF Like, GaveNode
    <3>6. Held(e, O, {}) BY <1>1, <3>5, LikeHeld
    <3>7. O \ {n} = O BY <2>2
    <3> QED BY <3>6, <3>7
  <2> QED BY <2>1, <2>2
<1>8. Fit(e, O \ {n}, n) BY <1>5, FreeFits DEF GaveNode
<1>9. \A m \in files!Node : m # n => (m \in O <=> m \in O \ {n}) OBVIOUS
<1>10. Around(d, e, n) BY <1>5 DEF GaveNode
<1>11. PICK P : P = O \ {n} OBVIOUS
<1>12. Full(e, P, {n})
  <2>1. n \in {n} OBVIOUS
  <2> QED BY <1>7, <1>9, <1>10, <1>11, <2>1, AroundFits
<1>13. Full(e, P, {})
  <2>1. Full(e, P, {} \cup {n})
    <3>1. {} \cup {n} = {n} OBVIOUS
    <3> QED BY <1>12, <3>1
  <2> QED BY <1>8, <1>11, <2>1, FullFit
<1> QED BY <1>11, <1>13

\* What a call leaves.
Done(e) == e.fault = "none" => \E P : Full(e, P, {})

\* A name for a new inode, or none.
LEMMA EnterDone ==
  ASSUME NEW d, NEW O, Full(d, O, {}), NEW n \in files!Node, ~First(n), NEW p \in O,
         d.inode[p].type = "dir", NEW len
  PROVE  Done(files!Enter(d, p, n, len))
<1>1. CASE d.fault # "none" BY <1>1 DEF files!Enter, Done
<1>2. CASE d.fault = "none"
  <2>1. PICK a : a = files!AddChild(d, p, n, len) OBVIOUS
  <2>2. PICK f : f = a.disk OBVIOUS
  <2>3. PICK X : X = {} OBVIOUS
  <2>4. Named(d, f, O, X, p) BY <1>2, <2>1, <2>2, <2>3, AddChildNames
  <2>5. PICK e : e = files!Enter(d, p, n, len) OBVIOUS
  <2>6. CASE a.added \/ f.fault # "none"
    <3>1. e = f BY <1>2, <2>1, <2>2, <2>5, <2>6 DEF files!Enter, files!Entered
    <3> QED BY <2>3, <2>4, <2>5, <3>1 DEF Named, Done
  <2>7. CASE ~a.added /\ f.fault = "none"
    <3>1. e = files!Abandon(f, n) BY <1>2, <2>1, <2>2, <2>5, <2>7 DEF files!Enter, files!Entered
    <3>2. Full(f, O, {}) BY <2>3, <2>4, <2>7 DEF Named
    <3>3. Full(f, O, {n}) /\ Fit(f, O, n) BY <3>2 DEF Full
    <3>4. e.fault = "none" => Full(e, O \ {n}, {}) BY <3>1, <3>3, AbandonFull
    <3> QED BY <2>5, <3>4 DEF Done
  <2> QED BY <2>6, <2>7
<1> QED BY <1>1, <1>2

\* An inode is reserved.
TookNode(d, e, n, type) ==
  /\ Around(d, e, n) /\ n \in e.nodes /\ e.log[n] = <<>>
  /\ e.inode[n].type = type /\ e.inode[n].size = 0 /\ e.inode[n].map = files!NoMap
  /\ DOMAIN e.log = files!Node /\ e.used = d.used /\ e.ptrs = d.ptrs /\ e.lost = d.lost
  /\ e.fault = d.fault

LEMMA TakeNodeTakes ==
  ASSUME NEW d, Sound(d), DOMAIN d.log = files!Node, NEW n \in files!FreeNodes(d), NEW type,
         NEW e, e = files!TakeNode(d, n, type), e.fault = "none"
  PROVE  TookNode(d, e, n, type)
<1>0. ~(files!NodeGroup(n) > 0)
  <2> SUFFICES ASSUME files!NodeGroup(n) > 0 PROVE FALSE OBVIOUS
  <2>1. e = files!Faulty(d, "modified_map") BY DEF files!TakeNode
  <2>2. e.fault = "modified_map" BY <2>1, FaultOf
  <2> QED BY <2>2
<1>1. PICK new : new = [files!Blank EXCEPT !.type = type,
                          !.links = IF type = "dir" THEN 1 ELSE d.inode[n].links]
  OBVIOUS
<1>2. new.size = 0 /\ new.map = files!NoMap /\ new.type = type BY <1>1 DEF files!Blank
<1>3. e = [d EXCEPT !.nodes = @ \cup {n}, !.freeNodes[files!NodeGroup(n)] = @ - 1,
                    !.log[n] = <<>>, !.inode[n] = new]
  BY <1>0, <1>1 DEF files!TakeNode
<1>4. DOMAIN d = Fields /\ DOMAIN d.inode = files!Node /\ n \in files!Node
  BY DEF Sound, Counts, Typed, files!FreeNodes
<1>5. /\ e.nodes = d.nodes \cup {n} /\ e.log = [d.log EXCEPT ![n] = <<>>]
      /\ e.inode = [d.inode EXCEPT ![n] = new]
      /\ e.used = d.used /\ e.ptrs = d.ptrs /\ e.lost = d.lost /\ e.fault = d.fault
  BY <1>3, <1>4 DEF Fields
<1>6. /\ e.log[n] = <<>> /\ e.inode[n] = new /\ n \in e.nodes /\ DOMAIN e.log = files!Node
      /\ \A m \in files!Node : m # n =>
           e.log[m] = d.log[m] /\ e.inode[m] = d.inode[m] /\ (m \in e.nodes <=> m \in d.nodes)
  BY <1>4, <1>5
<1> QED BY <1>2, <1>5, <1>6 DEF TookNode, Around

\* A new inode is nobody's and owns nothing.
Reserves(d, e, n, type) ==
  n \in files!FreeNodes(d) /\ e = files!TakeNode(d, n, type) /\ e.fault = "none"

Newly(d, e, O, n, type) ==
  /\ TookNode(d, e, n, type) /\ n \notin O /\ ~First(n) /\ n \in files!Node
  /\ Held(e, O, {}) /\ Held(e, O \cup {n}, {}) /\ Sound(e)
  /\ \A p \in O : p # n /\ e.inode[p] = d.inode[p]

LEMMA NewInode ==
  ASSUME NEW d, NEW O, Full(d, O, {}), NEW n, NEW type, NEW e, Reserves(d, e, n, type)
  PROVE  Newly(d, e, O, n, type)
<1>1. Held(d, O, {}) /\ Sound(d) /\ DOMAIN d.log = files!Node /\ O \subseteq files!Node
  BY DEF Full, Held
<1>2. n \in files!FreeNodes(d) /\ e = files!TakeNode(d, n, type) /\ e.fault = "none"
  BY DEF Reserves
<1>3. TookNode(d, e, n, type) BY <1>2, <1>1, TakeNodeTakes
<1>4. n \in files!Node /\ n \notin d.nodes BY <1>2 DEF files!FreeNodes
<1>5. Fit(d, O, n) BY <1>4 DEF Full
<1>6. n \notin O BY <1>4, <1>5 DEF Fit, Sufficient
<1>7. Sound(e) BY <1>2, <1>1, TakeNodeKeeps
<1>8. \A p \in O : p # n /\ e.inode[p] = d.inode[p] /\ e.log[p] = d.log[p]
  BY <1>1, <1>3, <1>6 DEF TookNode, Around
<1>9. Like(d, e, O) BY <1>3, <1>7, <1>8 DEF Like, TookNode
<1>10. Held(e, O, {}) BY <1>1, <1>9, LikeHeld
<1>11. Empty(e, n)
  <2>1. \A r \in Place : files!NoMap[r] = files!Null BY DEF files!NoMap, Place
  <2> QED BY <1>3, <2>1 DEF Empty, TookNode, One
<1>12. Held(e, O \cup {n}, {}) BY <1>4, <1>6, <1>10, <1>11, EmptyJoins
<1>13. ~First(n) BY <1>4, <1>5 DEF Fit
<1> QED BY <1>3, <1>4, <1>6, <1>7, <1>8, <1>10, <1>12, <1>13 DEF Newly

-----------------------------------------------------------------------------
\* The calls.

LEMMA DirOwns ==
  ASSUME NEW O, Full(volume, O, {}), NEW p \in files!Node, files!IsDir(p)
  PROVE  p \in O /\ volume.inode[p].type = "dir"
<1>1. Fit(volume, O, p) BY DEF Full
<1>2. p \in volume.nodes /\ volume.inode[p].type = "dir" BY DEF files!IsDir
<1>3. volume.inode[p].type \notin {"none", "link", "device"} BY <1>2
<1>4. CASE First(p) BY <1>1, <1>2, <1>3, <1>4 DEF Fit
<1>5. CASE ~First(p) BY <1>1, <1>2, <1>3, <1>5 DEF Fit, Short
<1> QED BY <1>2, <1>4, <1>5

LEMMA FaultDone ==
  ASSUME NEW d, Sound(d), NEW w, w # "none"
  PROVE  Done(files!Faulty(d, w))
<1>1. files!Faulty(d, w).fault # "none" BY FaultOf
<1> QED BY <1>1 DEF Done

LEMMA CreateDone ==
  ASSUME NEW O, Full(volume, O, {}), NEW p \in files!Node, NEW type \in {"dir", "file"}, NEW len,
         files!Create(p, type, len)
  PROVE  Done(volume')
<1>1. PICK n : n = files!Least(files!FreeNodes(volume)) OBVIOUS
<1>2. n \in files!FreeNodes(volume) BY <1>1, FirstFreeNode DEF files!Create
<1>3. PICK e : e = files!TakeNode(volume, n, type) OBVIOUS
<1>4. volume' = files!Enter(e, p, n, len) BY <1>1, <1>3 DEF files!Create
<1>5. p \in O /\ volume.inode[p].type = "dir" BY DirOwns DEF files!Create
<1>6. CASE e.fault # "none"
  <2>1. volume' = e BY <1>4, <1>6 DEF files!Enter
  <2> QED BY <1>6, <2>1 DEF Done
<1>7. CASE e.fault = "none"
  <2>1. /\ TookNode(volume, e, n, type) /\ n \notin O /\ ~First(n) /\ n \in files!Node
        /\ Held(e, O \cup {n}, {}) /\ Sound(e)
        /\ \A q \in O : q # n /\ e.inode[q] = volume.inode[q]
    <3>1. Reserves(volume, e, n, type) BY <1>2, <1>3, <1>7 DEF Reserves
    <3>2. Newly(volume, e, O, n, type) BY <3>1, NewInode
    <3> QED BY <3>2 DEF Newly
  <2>2. PICK P : P = O \cup {n} OBVIOUS
  <2>3. Fit(e, P, n)
    <3>1. n \in P BY <2>2
    <3>2. n \in e.nodes /\ e.inode[n].type \in {"dir", "file"} /\ e.inode[n].size = 0
          /\ e.log[n] = <<>>
      BY <2>1 DEF TookNode
    <3>3. Owner(e, n) BY <2>1, <3>2 DEF Owner, First
    <3>4. files!BlockCount(e, n) = 0
      <4>1. 0 * BlockSize = 0 BY SizesHold DEF Sizes
      <4>2. 0 \in Nat OBVIOUS
      <4>3. files!BlocksIn(0) = 0 BY <4>1, <4>2, BlocksInFull
      <4> QED BY <3>2, <4>3 DEF files!BlockCount
    <3>5. Len(e.log[n]) = 0 BY <3>2
    <3>6. Sufficient(e, n) BY <3>2, <3>4, <3>5 DEF Sufficient
    <3> QED BY <3>1, <3>3, <3>6, FitIn
  <2>4. Around(volume, e, n) BY <2>1 DEF TookNode
  <2>5. \A m \in files!Node : m # n => (m \in O <=> m \in P) BY <2>2
  <2>6. Held(e, P, {}) BY <2>1, <2>2
  <2>7. PICK X : X = {} OBVIOUS
  <2>8. Full(volume, O, X) BY <2>7
  <2>9. Full(e, P, X) BY <2>3, <2>4, <2>5, <2>6, <2>8, AroundFits
  <2>10. p \in P /\ e.inode[p].type = "dir" BY <1>5, <2>1, <2>2
  <2>11. Full(e, P, {}) BY <2>7, <2>9
  <2> QED BY <1>4, <2>1, <2>10, <2>11, EnterDone
<1> QED BY <1>6, <1>7

\* In place of the pointers are characters or numbers.
Shortened(e, f, n, word, x) ==
  word \in TargetWord /\ f = [files!MapTo(e, n, 1, word) EXCEPT !.inode[n].size = x]

LEMMA ShortFits ==
  ASSUME NEW d, NEW O, Full(d, O, {}), NEW n, NEW type, NEW e, Reserves(d, e, n, type),
         type \in {"link", "device"}, NEW x \in Nat, type = "link" => x \in 1 .. Inline,
         NEW f, NEW word, Shortened(e, f, n, word, x)
  PROVE  Full(f, O, {}) /\ f.fault = "none" /\ \A p \in O : f.inode[p] = d.inode[p]
<1>1. /\ TookNode(d, e, n, type) /\ n \notin O /\ ~First(n) /\ n \in files!Node
      /\ Held(e, O, {}) /\ Sound(e)
      /\ \A q \in O : q # n /\ e.inode[q] = d.inode[q]
  <2>1. Newly(d, e, O, n, type) BY NewInode
  <2> QED BY <2>1 DEF Newly
<1>2. PICK m : m = files!MapTo(e, n, 1, word) OBVIOUS
<1>3. Sound(m) BY <1>1, <1>2, ShortKeeps DEF Shortened
<1>4. f = [m EXCEPT !.inode[n].size = x] BY <1>2 DEF Shortened
<1>5. Sound(f) BY <1>4, <1>1, <1>3, SizedKeeps
<1>6. DOMAIN e = Fields /\ DOMAIN e.inode = files!Node /\ DOMAIN m = Fields
      /\ DOMAIN m.inode = files!Node
  BY <1>1, <1>3 DEF Sound, Counts, Typed
<1>7. PICK old : old = e.inode[n] OBVIOUS
<1>8. DOMAIN old = {"type", "links", "size", "map"} BY <1>1, <1>7, InodeIs
<1>9. PICK new : new = [old EXCEPT !.map[1] = word] OBVIOUS
<1>10. PICK newer : newer = [new EXCEPT !.size = x] OBVIOUS
<1>11. /\ m.inode = [e.inode EXCEPT ![n] = new] /\ m.log = e.log /\ m.nodes = e.nodes
       /\ m.used = e.used /\ m.lost = e.lost /\ m.ptrs = e.ptrs /\ m.fault = e.fault
  BY <1>2, <1>6, <1>7, <1>9 DEF files!MapTo, Fields
<1>12. m.inode[n] = new BY <1>1, <1>6, <1>11
<1>13. /\ f.inode = [m.inode EXCEPT ![n] = newer] /\ f.log = e.log /\ f.nodes = e.nodes
       /\ f.used = e.used /\ f.lost = e.lost /\ f.ptrs = e.ptrs /\ f.fault = e.fault
  BY <1>4, <1>6, <1>10, <1>11, <1>12 DEF Fields
<1>14. f.inode[n] = newer /\ \A q \in files!Node : q # n => f.inode[q] = e.inode[q]
  BY <1>1, <1>6, <1>11, <1>13
<1>15. /\ newer.type = old.type /\ newer.size = x /\ newer.map = [old.map EXCEPT ![1] = word]
  BY <1>8, <1>9, <1>10
<1>16. /\ n \in e.nodes /\ e.log[n] = <<>> /\ old.type = type /\ old.map = files!NoMap
       /\ Around(d, e, n)
  BY <1>1, <1>7 DEF TookNode
<1>17. Short(f, n)
  <2>1. word \in TargetWord BY DEF Shortened
  <2> QED BY <1>13, <1>14, <1>15, <1>16, <2>1 DEF Short
<1>18. ~Owner(f, n)
  <2>1. Inline \in Nat BY FilesAssumption, SizesHold DEF files!Ext2Assumption, Sizes
  <2>2. f.inode[n].type = type /\ f.inode[n].size = x BY <1>14, <1>15, <1>16
  <2>3. type \notin {"dir", "file"} OBVIOUS
  <2>4. type = "link" => ~(x > Inline) BY <2>1
  <2> QED BY <2>2, <2>3, <2>4 DEF Owner
<1>19. Fit(f, O, n) BY <1>1, <1>13, <1>16, <1>17, <1>18 DEF Fit
<1>20. O \subseteq files!Node /\ DOMAIN e.log = files!Node BY <1>1 DEF Held
<1>21. \A q \in O : f.inode[q] = e.inode[q] /\ f.log[q] = e.log[q]
  BY <1>1, <1>13, <1>14, <1>20
<1>22. Like(e, f, O) BY <1>5, <1>13, <1>20, <1>21 DEF Like
<1>23. Held(f, O, {}) BY <1>1, <1>22, LikeHeld
<1>24. Around(d, f, n) BY <1>13, <1>14, <1>16 DEF Around
<1>25. f.fault = "none" BY <1>13 DEF Reserves
<1>26. PICK X : X = {} OBVIOUS
<1>27. Full(d, O, X) BY <1>26
<1>28. \A q \in files!Node : q # n => (q \in O <=> q \in O) OBVIOUS
<1>29. Full(f, O, X) BY <1>19, <1>23, <1>24, <1>27, <1>28, AroundFits
<1> QED BY <1>1, <1>21, <1>26, <1>25, <1>29

LEMMA CreateDeviceDone ==
  ASSUME NEW O, Full(volume, O, {}), NEW p \in files!Node, NEW len, NEW word \in TargetWord,
         files!CreateDevice(p, len, word)
  PROVE  Done(volume')
<1>0. Sound(volume) BY DEF Full, Held
<1>1. PICK n : n = files!Least(files!FreeNodes(volume)) OBVIOUS
<1>2. CASE ~\E m \in files!FreeNodes(volume) : files!NodeGroup(m) = 0
  <2>1. volume' = files!Faulty(volume, "no inode") BY <1>2 DEF files!CreateDevice
  <2> QED BY <1>0, <2>1, FaultDone
<1>3. CASE \E m \in files!FreeNodes(volume) : files!NodeGroup(m) = 0
  <2>1. n \in files!FreeNodes(volume) BY <1>1, <1>3, FirstFreeNode
  <2>2. PICK e : e = files!TakeNode(volume, n, "device") OBVIOUS
  <2>3. PICK f : f = files!MapTo(e, n, 1, word) OBVIOUS
  <2>4. volume' = files!Enter(f, p, n, len) BY <1>1, <1>3, <2>2, <2>3 DEF files!CreateDevice
  <2>5. p \in O /\ volume.inode[p].type = "dir" BY DirOwns DEF files!CreateDevice
  <2>6. Sound(e) BY <1>0, <2>1, <2>2, TakeNodeKeeps
  <2>7. DOMAIN e = Fields /\ DOMAIN e.inode = files!Node BY <2>6 DEF Sound, Counts, Typed
  <2>8. CASE e.fault # "none"
    <3>1. f.fault = e.fault BY <2>3, <2>7 DEF files!MapTo, Fields
    <3>2. volume' = f BY <2>4, <2>8, <3>1 DEF files!Enter
    <3> QED BY <2>8, <3>1, <3>2 DEF Done
  <2>9. CASE e.fault = "none"
    <3>1. PICK type : type = "device" OBVIOUS
    <3>2. Reserves(volume, e, n, type) BY <2>1, <2>2, <2>9, <3>1 DEF Reserves
    <3>3. TookNode(volume, e, n, type) /\ ~First(n) /\ n \in files!Node
      <4>1. Newly(volume, e, O, n, type) BY <3>2, NewInode
      <4> QED BY <4>1 DEF Newly
    <3>4. [f EXCEPT !.inode[n].size = 0] = f
      <4>1. PICK old : old = e.inode[n] OBVIOUS
      <4>2. DOMAIN old = {"type", "links", "size", "map"} /\ old.size = 0
        BY <2>6, <3>3, <4>1, InodeIs DEF TookNode
      <4>3. PICK new : new = [old EXCEPT !.map[1] = word] OBVIOUS
      <4>4. DOMAIN new = {"type", "links", "size", "map"} /\ new.size = 0 BY <4>2, <4>3
      <4>5. [new EXCEPT !.size = 0] = new BY <4>3, <4>4
      <4>6. f.inode = [e.inode EXCEPT ![n] = new] /\ f = [e EXCEPT !.inode = f.inode]
        BY <2>3, <2>7, <4>1, <4>3 DEF files!MapTo, Fields
      <4>7. f.inode[n] = new BY <2>7, <3>3, <4>6
      <4>8. [f.inode EXCEPT ![n] = new] = f.inode BY <4>6
      <4>9. [f EXCEPT !.inode = f.inode] = f BY <4>6
      <4> QED BY <4>5, <4>7, <4>8, <4>9
    <3>5. 0 \in Nat OBVIOUS
    <3>6. Full(f, O, {}) /\ \A q \in O : f.inode[q] = volume.inode[q]
      <4>1. Shortened(e, f, n, word, 0) BY <2>3, <3>4 DEF Shortened
      <4>2. type \in {"link", "device"} /\ type # "link" BY <3>1
      <4> QED BY <3>5, <3>2, <4>1, <4>2, ShortFits
    <3> QED BY <2>4, <2>5, <3>3, <3>6, EnterDone
  <2> QED BY <2>8, <2>9
<1> QED BY <1>2, <1>3

LEMMA AbandonFaults ==
  ASSUME NEW d, NEW n, Sound(d), d.fault # "none"
  PROVE  files!Abandon(d, n).fault # "none"
<1>1. PICK S : S = files!GiveNode(d, n).lost \cup files!Owned(d, n) OBVIOUS
<1>2. files!Abandon(d, n) = [files!GiveNode(d, n) EXCEPT !.lost = S] BY <1>1 DEF files!Abandon
<1> QED BY <1>2, GiveNodeFaults

\* A link with its target in blocks of its own.
LEMMA LongLinkDone ==
  ASSUME NEW d, NEW O, Full(d, O, {}), NEW n, NEW e, Reserves(d, e, n, "link"),
         NEW p \in O, d.inode[p].type = "dir", NEW len, NEW target \in Nat, ~(target <= Inline),
         NEW w, w = files!LinkBlocks(e, n, target \div BlockSize + 1),
         NEW f, f = [w.disk EXCEPT !.inode[n].size = target]
  PROVE  Done(IF w.added THEN files!Enter(f, p, n, len) ELSE files!Abandon(w.disk, n))
<1>1. /\ TookNode(d, e, n, "link") /\ n \notin O /\ ~First(n) /\ n \in files!Node
      /\ Held(e, O \cup {n}, {}) /\ Sound(e)
      /\ \A q \in O : q # n /\ e.inode[q] = d.inode[q]
  <2>1. PICK type : type = "link" OBVIOUS
  <2>2. Newly(d, e, O, n, type) BY <2>1, NewInode
  <2> QED BY <2>1, <2>2 DEF Newly
<1>2. PICK P : P = O \cup {n} OBVIOUS
<1>3. PICK c \in Nat : c = target \div BlockSize + 1 /\ files!BlocksIn(target) <= c
  BY TargetFits
<1>4. n \in P /\ Held(e, P, {}) /\ e.fault = "none" BY <1>1, <1>2 DEF Reserves
<1>5. Tied(e, w, P, n, c) BY <1>3, <1>4, LinkBlocksTies
<1>6. PICK g : g = w.disk OBVIOUS
<1>7. Sound(g)
  <2>1. c \in Int OBVIOUS
  <2>2. Result(w) BY <1>1, <1>3, <2>1, LinkBlocksKeeps
  <2> QED BY <1>6, <2>2 DEF Result
<1>8. ASSUME g.fault = "none"
      PROVE  Held(g, P, {}) /\ Aside(e, g, n) /\ Full(g, P, {n})
  <2>1. Held(g, P, {}) /\ Aside(e, g, n) BY <1>5, <1>6, <1>8 DEF Tied
  <2>2. Around(d, g, n)
    <3>1. Around(d, e, n) BY <1>1 DEF TookNode
    <3> QED BY <2>1, <3>1 DEF Around, Aside
  <2>3. \A m \in files!Node : m # n => (m \in O <=> m \in P) BY <1>2
  <2>4. PICK X : X = {n} OBVIOUS
  <2>5. Full(d, O, X) /\ n \in X BY <2>4 DEF Full
  <2>6. Full(g, P, X) BY <2>1, <2>2, <2>3, <2>5, AroundFits
  <2> QED BY <2>1, <2>4, <2>6
<1>9. CASE w.added
  <2>1. g.fault = "none" BY <1>5, <1>6, <1>9 DEF Tied
  <2>2. Held(g, P, {}) /\ Aside(e, g, n) /\ Full(g, P, {n}) BY <1>8, <2>1
  <2>3. Held(f, P, {}) /\ Sized(g, f, n, target) BY <1>1, <1>6, <2>2, SizedHeld, SMTT(30)
  <2>4. Aside(g, f, n) /\ f.log = g.log /\ f.inode[n].size = target BY <2>3 DEF Sized
  <2>5. Full(f, P, {n})
    <3>1. PICK X : X = {n} OBVIOUS
    <3>2. Full(g, P, X) BY <2>2, <3>1
    <3>3. Full(f, P, X \cup {n}) BY <2>3, <2>4, <3>2, FullAside
    <3>4. X \cup {n} = {n} BY <3>1
    <3> QED BY <3>3, <3>4
  <2>6. Fit(f, P, n)
    <3>1. f.inode[n].type = "link" /\ n \in f.nodes
      <4>1. e.inode[n].type = "link" /\ n \in e.nodes BY <1>1 DEF TookNode
      <4> QED BY <2>2, <2>4, <4>1 DEF Aside
    <3>2. Len(f.log[n]) = c
      <4>1. e.log[n] = <<>> BY <1>1 DEF TookNode
      <4>2. Len(e.log[n]) = 0 BY <4>1
      <4>3. Len(g.log[n]) = Len(e.log[n]) + c BY <1>5, <1>6, <1>9, <2>1 DEF Tied
      <4> QED BY <1>3, <2>4, <4>2, <4>3
    <3>3. files!BlockCount(f, n) <= Len(f.log[n]) BY <1>3, <2>4, <3>2 DEF files!BlockCount
    <3>4. Sufficient(f, n) BY <3>1, <3>3 DEF Sufficient
    <3>5. target > Inline
      <4>1. Inline \in Nat BY FilesAssumption, SizesHold DEF files!Ext2Assumption, Sizes
      <4> QED BY <4>1
    <3>6. Owner(f, n) BY <1>1, <2>4, <3>1, <3>5 DEF Owner, First
    <3> QED BY <1>4, <3>4, <3>6, FitIn
  <2>7. Full(f, P, {})
    <3>1. PICK X : X = {} OBVIOUS
    <3>2. X \cup {n} = {n} BY <3>1
    <3>3. Full(f, P, X \cup {n}) BY <2>5, <3>2
    <3>4. Full(f, P, X) BY <2>6, <3>3, FullFit
    <3> QED BY <3>1, <3>4
  <2>8. p \in P /\ f.inode[p].type = "dir"
    <3>1. p # n /\ e.inode[p] = d.inode[p] BY <1>1
    <3>2. p \in files!Node BY <1>2, <1>4 DEF Held
    <3>3. f.inode[p] = d.inode[p] BY <2>2, <2>4, <3>1, <3>2 DEF Aside
    <3> QED BY <1>2, <3>3
  <2>9. Done(files!Enter(f, p, n, len)) BY <1>1, <2>7, <2>8, EnterDone
  <2> QED BY <1>9, <2>9
<1>10. CASE ~w.added
  <2>1. PICK a : a = files!Abandon(g, n) OBVIOUS
  <2>2. CASE g.fault # "none"
    <3>1. a.fault # "none" BY <1>7, <2>1, <2>2, AbandonFaults
    <3> QED BY <1>6, <1>10, <2>1, <3>1 DEF Done
  <2>3. CASE g.fault = "none"
    <3>1. Full(g, P, {n}) BY <1>8, <2>3
    <3>2. a.fault = "none" => Full(a, P \ {n}, {}) BY <1>1, <1>4, <2>1, <3>1, AbandonFull
    <3> QED BY <1>6, <1>10, <2>1, <3>2 DEF Done
  <2> QED BY <2>2, <2>3
<1> QED BY <1>9, <1>10

LEMMA CreateLinkDone ==
  ASSUME NEW O, Full(volume, O, {}), NEW p \in files!Node, NEW len, NEW target \in TargetLen,
         NEW word \in TargetWord, files!CreateLink(p, len, target, word)
  PROVE  Done(volume')
<1>1. PICK n : n = files!Least(files!FreeNodes(volume)) OBVIOUS
<1>2. n \in files!FreeNodes(volume) BY <1>1, FirstFreeNode DEF files!CreateLink
<1>3. PICK d : d = files!TakeNode(volume, n, "link") OBVIOUS
<1>4. target \in Nat \ {0} BY FilesAssumption DEF files!Ext2Assumption
<1>5. p \in O /\ volume.inode[p].type = "dir" BY DirOwns DEF files!CreateLink
<1>6. CASE d.fault # "none"
  <2>1. volume' = d BY <1>1, <1>3, <1>6 DEF files!CreateLink
  <2> QED BY <1>6, <2>1 DEF Done
<1>7. PICK type : type = "link" OBVIOUS
<1>8. d.fault = "none" => Reserves(volume, d, n, type) BY <1>2, <1>3, <1>7 DEF Reserves
<1>9. CASE d.fault = "none" /\ target <= Inline
  <2>1. PICK m : m = files!MapTo(d, n, 1, word) OBVIOUS
  <2>2. PICK f : f = [m EXCEPT !.inode[n].size = target] OBVIOUS
  <2>3. volume' = files!Enter(f, p, n, len)
    BY <1>1, <1>3, <1>9, <2>1, <2>2 DEF files!CreateLink
  <2>4. Shortened(d, f, n, word, target) BY <2>1, <2>2 DEF Shortened
  <2>5. type \in {"link", "device"} /\ target \in Nat /\ target \in 1 .. Inline
    <3>1. Inline \in Nat BY FilesAssumption, SizesHold DEF files!Ext2Assumption, Sizes
    <3> QED BY <1>4, <1>7, <1>9, <3>1
  <2>6. Full(f, O, {}) /\ \A q \in O : f.inode[q] = volume.inode[q]
    BY <1>8, <1>9, <2>4, <2>5, ShortFits
  <2>7. ~First(n) /\ n \in files!Node
    <3>1. Newly(volume, d, O, n, type) BY <1>8, <1>9, NewInode
    <3> QED BY <3>1 DEF Newly
  <2> QED BY <1>5, <2>3, <2>6, <2>7, EnterDone
<1>10. CASE d.fault = "none" /\ ~(target <= Inline)
  <2>1. PICK w : w = files!LinkBlocks(d, n, target \div BlockSize + 1) OBVIOUS
  <2>2. PICK f : f = [w.disk EXCEPT !.inode[n].size = target] OBVIOUS
  <2>3. volume' = IF w.added THEN files!Enter(f, p, n, len) ELSE files!Abandon(w.disk, n)
    BY <1>1, <1>3, <1>10, <2>1, <2>2 DEF files!CreateLink
  <2>4. Reserves(volume, d, n, "link") BY <1>7, <1>8, <1>10
  <2> QED BY <1>4, <1>5, <1>10, <2>1, <2>2, <2>3, <2>4, LongLinkDone
<1> QED BY <1>6, <1>9, <1>10

\* expand_to: what the file ends up with.
LEMMA ExpandDone ==
  ASSUME NEW d, NEW O, Full(d, O, {}), d.fault = "none", NEW n \in O, d.inode[n].type = "file",
         NEW end \in Nat, end > d.inode[n].size
  PROVE  Done(files!Expand(d, n, end))
<1>1. Held(d, O, {}) /\ Sound(d) /\ n \in files!Node BY DEF Full, Held
<1>2. Fit(d, O, n) BY <1>1 DEF Full
<1>3. PICK have \in Nat : /\ have = files!BlockCount(d, n) /\ have * BlockSize \in Nat
                          /\ Len(d.log[n]) = have
  <2>1. d.inode[n].size \in Nat BY <1>1, InodeIs
  <2>2. Len(d.log[n]) = files!BlockCount(d, n) BY <1>2 DEF Fit, Sufficient
  <2> QED BY <2>1, <2>2, RoundedUp DEF files!BlockCount
<1>4. PICK e : e = files!Expand(d, n, end) OBVIOUS
\* What is left to show is that the file has the blocks its size needs.
<1>5. ASSUME NEW f, Held(f, O, {}), Aside(d, f, n),
             Len(f.log[n]) = files!BlocksIn(f.inode[n].size)
      PROVE  Full(f, O, {})
  <2>1. PICK X : X = {} OBVIOUS
  <2>2. Full(f, O, X \cup {n}) BY <1>5, <2>1, FullAside
  <2>3. f.inode[n].type = "file" /\ f.nodes = d.nodes BY <1>5 DEF Aside
  <2>4. Owner(f, n)
    <3>1. Owner(d, n) BY <1>2 DEF Fit
    <3> QED BY <2>3, <3>1 DEF Owner
  <2>5. Sufficient(f, n)
    <3>1. n \in d.nodes BY <1>2 DEF Fit, Sufficient
    <3>2. f.inode[n].size \in Nat
      <4>1. Sound(f) BY <1>5 DEF Held
      <4> QED BY <1>1, <4>1, InodeIs
    <3>3. files!BlockCount(f, n) \in Nat BY <3>2, RoundedUp DEF files!BlockCount
    <3>4. Len(f.log[n]) = files!BlockCount(f, n) BY <1>5 DEF files!BlockCount
    <3> QED BY <2>3, <3>1, <3>3, <3>4 DEF Sufficient
  <2>6. Fit(f, O, n) BY <2>4, <2>5, FitIn
  <2>7. Full(f, O, X) BY <2>2, <2>6, FullFit
  <2> QED BY <2>1, <2>7
<1>6. CASE end <= have * BlockSize
  <2>1. PICK f : f = [d EXCEPT !.inode[n].size = end] OBVIOUS
  <2>2. e = f BY <1>3, <1>4, <1>6, <2>1 DEF files!Expand
  <2>3. Held(f, O, {}) /\ Sized(d, f, n, end) BY <1>1, <2>1, SizedHeld
  <2>4. files!BlocksIn(end) = have
    <3>1. PICK z \in Nat : z = d.inode[n].size BY <1>1, InodeIs
    <3>2. files!BlocksIn(z) = have BY <1>3, <3>1 DEF files!BlockCount
    <3>3. files!BlocksIn(z) <= files!BlocksIn(end) BY <3>1, BlocksInMore
    <3>4. PICK q \in Nat : q = have * BlockSize BY <1>3
    <3>5. files!BlocksIn(end) <= files!BlocksIn(q) BY <1>6, <3>4, BlocksInMore
    <3>6. files!BlocksIn(q) = have BY <3>4, BlocksInFull
    <3>7. files!BlocksIn(end) \in Nat BY RoundedUp
    <3> QED BY <3>2, <3>3, <3>5, <3>6, <3>7
  <2>5. Len(f.log[n]) = files!BlocksIn(f.inode[n].size) BY <1>3, <2>3, <2>4 DEF Sized
  <2>6. Full(f, O, {}) BY <1>5, <2>3, <2>5 DEF Sized
  <2> QED BY <1>4, <2>2, <2>6 DEF Done
<1>7. CASE ~(end <= have * BlockSize)
  <2>1. PICK full : full = [d EXCEPT !.inode[n].size = have * BlockSize] OBVIOUS
  <2>2. Held(full, O, {}) /\ Sized(d, full, n, have * BlockSize) BY <1>1, <1>3, <2>1, SizedHeld
  <2>3. PICK c \in Nat : c = files!BlocksIn(end) - have /\ have + c = files!BlocksIn(end)
    <3>1. PICK z \in Nat : z = d.inode[n].size BY <1>1, InodeIs
    <3>2. files!BlocksIn(z) = have BY <1>3, <3>1 DEF files!BlockCount
    <3>3. files!BlocksIn(z) <= files!BlocksIn(end) BY <3>1, BlocksInMore
    <3>4. files!BlocksIn(end) \in Nat BY RoundedUp
    <3> QED BY <3>2, <3>3, <3>4
  <2>4. PICK r : r = files!Reserve(full, c) OBVIOUS
  <2>5. Stored(full, r, O, c) BY <2>2, <2>4, ReserveStores
  <2>6. e = files!Extended(r, n, end) BY <1>3, <1>4, <1>7, <2>1, <2>3, <2>4 DEF files!Expand
  <2>7. PICK g : g = r.disk OBVIOUS
  <2>8. PICK s : s = r.blocks OBVIOUS
  <2>9. /\ Held(g, O, Elements(s)) /\ Kin(full, g) /\ g.fault = full.fault
        /\ s \in Seq(files!BlockNo) /\ Distinct(s)
        /\ (~r.short => Len(s) = c)
    BY <2>5, <2>7, <2>8 DEF Stored
  <2>10. /\ Aside(d, g, n) /\ g.fault = "none" /\ g.inode[n].size = have * BlockSize
         /\ g.log[n] = d.log[n]
    <3>1. Aside(d, full, n) /\ full.fault = "none" /\ full.log = d.log
          /\ full.inode[n].size = have * BlockSize
      BY <2>2 DEF Sized
    <3>2. Aside(full, g, n) BY <2>9, KinAside
    <3> QED BY <2>9, <3>1, <3>2, AsideTwice DEF Kin
  <2>11. CASE r.short
    <3>1. e = files!Revert(g, s) BY <2>6, <2>7, <2>8, <2>11 DEF files!Extended
    <3>2. Reverted(g, e, O, {}) BY <2>9, <3>1, RevertHeld
    <3>3. CASE e.fault # "none" BY <1>4, <3>3 DEF Done
    <3>4. CASE e.fault = "none"
      <4>1. Held(e, O, {}) /\ Kin(g, e) BY <3>2, <3>4 DEF Reverted
      <4>2. Aside(d, e, n) /\ e.inode = g.inode /\ e.log = g.log
        BY <2>10, <4>1, KinAside, AsideTwice DEF Kin
      <4>3. Len(e.log[n]) = files!BlocksIn(e.inode[n].size)
        BY <1>3, <2>10, <4>2, BlocksInFull
      <4> QED BY <1>4, <1>5, <4>1, <4>2, <4>3 DEF Done
    <3> QED BY <3>3, <3>4
  <2>12. CASE ~r.short
    <3>1. PICK a : a = files!AddAll(g, n, s) OBVIOUS
    <3>2. e = files!Ended(a, n, end) BY <2>6, <2>7, <2>8, <2>12, <3>1 DEF files!Extended
    <3>3. g.inode[n].size = Len(g.log[n]) * BlockSize BY <1>3, <2>10
    <3>4. Grown(g, a, O, n, s, Len(s)) BY <2>9, <2>10, <3>1, <3>3, AddAllGrows
    <3>5. PICK h : h = a.disk OBVIOUS
    <3>6. PICK q : q = a.rest OBVIOUS
    <3>7. After(s, Len(s)) = {}
      <4>1. PICK N \in Nat : N = Len(s) /\ DOMAIN s = 1 .. N BY <2>9, LenProperties
      <4> QED BY <4>1, BeforeAfter
    <3>8. /\ q \in Seq(files!BlockNo)
          /\ \/ h.fault # "none" /\ q # <<>>
             \/ /\ h.fault = "none" /\ Held(h, O, Elements(q)) /\ Aside(g, h, n)
                /\ h.inode[n].size = Len(h.log[n]) * BlockSize
                /\ q = <<>> => Len(h.log[n]) = Len(g.log[n]) + Len(s)
      <4>1. Elements(q) \cup After(s, Len(s)) = Elements(q) BY <3>7
      <4> QED BY <3>4, <3>5, <3>6, <4>1 DEF Grown
    <3>9. CASE q # <<>>
      <4>1. e = files!Revert(h, q) BY <3>2, <3>5, <3>6, <3>9 DEF files!Ended
      <4>2. Reverted(h, e, O, {})
        <5>1. h.fault # "none" \/ Held(h, O, Elements(q)) BY <3>8
        <5> QED BY <3>8, <4>1, <5>1, RevertHeld
      <4>3. CASE e.fault # "none" BY <1>4, <4>3 DEF Done
      <4>4. CASE e.fault = "none"
        <5>1. Held(e, O, {}) /\ Kin(h, e) /\ h.fault = "none" BY <4>2, <4>4 DEF Reverted
        <5>2. Aside(d, e, n) /\ e.inode = h.inode /\ e.log = h.log
          BY <2>10, <3>8, <5>1, KinAside, AsideTwice DEF Kin
        <5>3. Len(h.log[n]) \in Nat BY <3>8, <5>1, LogLength
        <5>4. Len(e.log[n]) = files!BlocksIn(e.inode[n].size)
          BY <3>8, <5>1, <5>2, <5>3, BlocksInFull
        <5> QED BY <1>4, <1>5, <5>1, <5>2, <5>4 DEF Done
      <4> QED BY <4>3, <4>4
    <3>10. CASE q = <<>>
      <4>1. e = [h EXCEPT !.inode[n].size = end] BY <3>2, <3>5, <3>6, <3>10 DEF files!Ended
      <4>2. h.fault = "none" /\ Held(h, O, {}) /\ Aside(g, h, n)
            /\ Len(h.log[n]) = Len(g.log[n]) + Len(s)
        <5>1. Elements(q) = {}
          <6>1. DOMAIN q = {} BY <3>10
          <6> QED BY <6>1 DEF Elements
        <5> QED BY <3>8, <3>10, <5>1
      <4>3. Held(e, O, {}) /\ Sized(h, e, n, end) BY <1>1, <4>1, <4>2, SizedHeld
      <4>4. Aside(d, e, n) /\ e.log = h.log /\ e.inode[n].size = end
        BY <2>10, <4>2, <4>3, AsideTwice DEF Sized
      <4>5. Len(e.log[n]) = files!BlocksIn(end)
        <5>1. Len(g.log[n]) = have /\ Len(s) = c BY <1>3, <2>9, <2>10, <2>12
        <5> QED BY <2>3, <4>2, <4>4, <5>1
      <4> QED BY <1>4, <1>5, <4>3, <4>4, <4>5 DEF Done
    <3> QED BY <3>9, <3>10
  <2> QED BY <2>11, <2>12
<1> QED BY <1>6, <1>7

LEMMA WriteDone ==
  ASSUME NEW O, Full(volume, O, {}), NEW n \in files!Node, NEW end \in WriteEnd,
         files!Write(n, end)
  PROVE  Done(volume')
<1>1. end \in Nat BY FilesAssumption DEF files!Ext2Assumption
<1>2. /\ volume.fault = "none" /\ n \in volume.nodes /\ volume.inode[n].type = "file"
      /\ end > volume.inode[n].size /\ volume' = files!Expand(volume, n, end)
  BY DEF files!Write, files!Ok
<1>3. n \in O
  <2>1. Fit(volume, O, n) BY DEF Full
  <2>2. volume.inode[n].type \notin {"none", "link", "device"} BY <1>2
  <2>3. CASE First(n) BY <1>2, <2>1, <2>2, <2>3 DEF Fit
  <2>4. CASE ~First(n) BY <1>2, <2>1, <2>2, <2>4 DEF Fit, Short
  <2> QED BY <2>3, <2>4
<1> QED BY <1>1, <1>2, <1>3, ExpandDone

-----------------------------------------------------------------------------
\* Releasing an inode.

LEMMA ListsAll ==
  ASSUME NEW S, S \subseteq files!BlockNo
  PROVE  /\ files!SetToSeq(S) \in Seq(Pointer)
         /\ Elements(files!SetToSeq(S)) = S
<1>1. IsFiniteSet(S) BY BlocksFinite, FS_Subset
<1>2. PICK c \in Nat : c = Cardinality(S) /\ ExistsBijection(1 .. c, S)
  BY <1>1, FS_CardinalityType
<1>3. PICK f \in [1 .. c -> S] : files!IsInjective(f)
  BY <1>2 DEF ExistsBijection, Bijection, Injection, IsInjective, files!IsInjective
<1>4. PICK g : g = files!SetToSeq(S) OBVIOUS
<1>5. g \in [1 .. c -> S] /\ files!IsInjective(g) BY <1>2, <1>3, <1>4, SameSize DEF files!SetToSeq
<1>6. g \in Injection(1 .. c, S) BY <1>5 DEF Injection, IsInjective, files!IsInjective
<1>7. IsFiniteSet(1 .. c) /\ Cardinality(1 .. c) = c
  <2>1. 1 \in Int /\ c \in Int OBVIOUS
  <2>2. IsFiniteSet(1 .. c) /\ Cardinality(1 .. c) = IF 1 > c THEN 0 ELSE c - 1 + 1
    BY <2>1, FS_Interval
  <2> QED BY <2>2
<1>8. g \in Surjection(1 .. c, S) BY <1>1, <1>2, <1>6, <1>7, FS_Injection
<1>9. \A y \in S : \E i \in 1 .. c : g[i] = y BY <1>8 DEF Surjection
<1>10. Elements(g) = S BY <1>5, <1>9 DEF Elements
<1>11. g \in Seq(Pointer) BY <1>4, ListedOnce DEF Pointers
<1> QED BY <1>4, <1>10, <1>11

\* What is released with an inode: its first blocks and its indirect ones.
Listed(s, c, T) == {s[p] : p \in 1 .. c} \cup T

LEMMA BlocksOfAre ==
  ASSUME NEW d, Sound(d), NEW n \in files!Node, NEW s, SlotsHave(d, n, s),
         NEW c, c = files!BlockCount(d, n), c <= Len(s),
         NEW T, T = files!IndirectBlocks(d, n), NEW bs, bs = files!BlocksOf(d, n)
  PROVE  /\ bs \in Seq(Pointer) /\ Len(bs) \in Nat /\ DOMAIN bs = 1 .. Len(bs)
         /\ Elements(bs) = Listed(s, c, T)
         /\ files!ToSet(bs) = Listed(s, c, T)
<1>1. c \in Nat /\ s \in Seq(Pointer) /\ Len(s) \in Nat
  <2>1. c \in Nat BY InodeIs, RoundedUp DEF files!BlockCount
  <2>2. s \in Seq(Pointer)
    <3>1. Seq(Pointer \ {files!Null}) \subseteq Seq(Pointer) OBVIOUS
    <3> QED BY <3>1 DEF SlotsHave
  <2> QED BY <2>1, <2>2, LenProperties
<1>2. PICK f : f = files!FileBlocks(d, n, 0, c) OBVIOUS
<1>3. f = SubSeq(s, 0 + 1, 0 + c)
  <2>1. 0 \in Nat /\ 0 + c <= Len(s) BY <1>1
  <2> QED BY <1>1, <1>2, <2>1, FileBlocksAre
<1>4. f \in Seq(Pointer) /\ Len(f) = c /\ \A h \in 1 .. c : f[h] = s[h]
  <2>1. 0 \in Nat /\ 0 + c <= Len(s) BY <1>1
  <2>2. /\ SubSeq(s, 0 + 1, 0 + c) \in Seq(Pointer) /\ Len(SubSeq(s, 0 + 1, 0 + c)) = c
        /\ \A h \in 1 .. c : SubSeq(s, 0 + 1, 0 + c)[h] = s[0 + h]
    BY <1>1, <2>1, PartIs
  <2>3. \A h \in 1 .. c : 0 + h = h BY <1>1
  <2> QED BY <1>3, <2>2, <2>3
<1>5. PICK g : g = files!SetToSeq(T) OBVIOUS
<1>6. g \in Seq(Pointer) /\ Elements(g) = T BY <1>5, IndirectAreBlocks, ListsAll
<1>7. PICK k \in Nat : k = Len(g) /\ DOMAIN g = 1 .. k BY <1>6, LenProperties
<1>8. bs = f \o g BY <1>2, <1>5 DEF files!BlocksOf
<1>9. /\ bs \in Seq(Pointer) /\ Len(bs) = c + k
      /\ \A i \in 1 .. c + k : bs[i] = IF i <= c THEN f[i] ELSE g[i - c]
  BY <1>4, <1>6, <1>7, <1>8, ConcatProperties
<1>10. DOMAIN bs = 1 .. c + k BY <1>9, LenProperties
<1>11. ASSUME NEW i \in 1 .. c + k PROVE bs[i] \in Listed(s, c, T)
  <2>1. CASE i <= c
    <3>1. i \in 1 .. c BY <1>1, <1>7, <2>1
    <3>2. bs[i] = s[i] BY <1>4, <1>9, <2>1, <3>1
    <3> QED BY <3>1, <3>2 DEF Listed
  <2>2. CASE ~(i <= c)
    <3>1. i - c \in 1 .. k BY <1>1, <1>7, <2>2
    <3>2. bs[i] = g[i - c] BY <1>9, <2>2
    <3>3. g[i - c] \in T BY <1>6, <1>7, <3>1 DEF Elements
    <3> QED BY <3>2, <3>3 DEF Listed
  <2> QED BY <2>1, <2>2
<1>12. ASSUME NEW y \in Listed(s, c, T) PROVE \E i \in 1 .. c + k : bs[i] = y
  <2>1. CASE \E p \in 1 .. c : y = s[p]
    <3>1. PICK p \in 1 .. c : y = s[p] BY <2>1
    <3>2. p \in 1 .. c + k /\ p <= c BY <1>1, <1>7
    <3>3. bs[p] = s[p] BY <1>4, <1>9, <3>2
    <3> QED BY <3>1, <3>2, <3>3
  <2>2. CASE y \in T
    <3>1. PICK j \in 1 .. k : y = g[j] BY <1>6, <1>7, <2>2 DEF Elements
    <3>2. PICK C \in Nat : C = c BY <1>1
    <3>3. PICK i \in Nat : i = C + j BY <3>2
    <3>4. i \in 1 .. C + k /\ ~(i <= C) /\ i - C = j BY <3>2, <3>3
    <3>5. bs[i] = g[i - C] BY <1>9, <3>2, <3>4
    <3> QED BY <3>1, <3>2, <3>4, <3>5
  <2> QED BY <2>1, <2>2 DEF Listed
<1>13. Elements(bs) = {bs[i] : i \in 1 .. c + k} BY <1>10 DEF Elements
<1>14. Elements(bs) = Listed(s, c, T) BY <1>11, <1>12, <1>13
<1>15. files!ToSet(bs) = {bs[i] : i \in 1 .. c + k} BY <1>10 DEF files!ToSet
<1>16. files!ToSet(bs) = Listed(s, c, T) BY <1>11, <1>12, <1>15
<1> QED BY <1>1, <1>7, <1>9, <1>10, <1>14, <1>16

LEMMA NothingListed ==
  ASSUME NEW bs, bs \in Seq(Pointer), Elements(bs) = {}
  PROVE  bs = <<>>
<1>1. PICK k \in Nat : k = Len(bs) /\ DOMAIN bs = 1 .. k BY LenProperties
<1>2. k = 0
  <2>1. \A i \in 1 .. k : bs[i] \in Elements(bs) BY <1>1 DEF Elements
  <2> QED BY <2>1
<1> QED BY <1>1, <1>2

\* The slots beyond the first of an inode that has no pointer but in the first.
LEMMA FirstSlot ==
  ASSUME NEW d, NEW n, NEW s, s \in Seq(Pointer \ {files!Null}), Len(s) <= 1,
         \A r \in Place : One(d, n, r) = LogAt(s, r)
  PROVE  SlotsHave(d, n, s) /\ \A y : ~Branch(d, n, y)
<1>1. PICK w \in Nat : w = Len(s) /\ w <= 1 BY LenProperties
<1>2. PICK D \in Nat \ {0} : D = Direct BY Geometry
<1>3. PICK P \in Nat \ {0} : P = Ptrs BY Geometry
<1>4. PICK Q \in Nat \ {0} : Q = Squared BY Geometry
<1>5. \A p \in Nat : p > 1 => LogAt(s, p) = files!Null BY <1>1 DEF LogAt
<1>6. \A r \in Direct + 1 .. Direct + 3 : r \in Place /\ r \in Nat /\ r > 1 BY <1>2 DEF Place
<1>7. \A r \in Direct + 1 .. Direct + 3 : One(d, n, r) = files!Null BY <1>5, <1>6
<1>8. /\ \A y : ~Branch(d, n, y)
      /\ \A i \in Column : Two(d, n, Direct + 1, i) = files!Null
      /\ \A i, j \in Column : Three(d, n, Direct + 2, i, j) = files!Null
      /\ \A i, j, l \in Column : Four(d, n, Direct + 3, i, j, l) = files!Null
  BY <1>7, EmptyPlaces
<1>9. ASSUME NEW i \in Column PROVE LogAt(s, Direct + i) = files!Null
  <2>1. D + i \in Nat /\ D + i > 1 BY <1>3 DEF Column
  <2> QED BY <1>2, <1>5, <2>1
<1>10. ASSUME NEW i \in Column, NEW j \in Column
       PROVE  LogAt(s, Direct + Ptrs + Pos(i, j, Ptrs)) = files!Null
  <2>0. Pos(i, j, Ptrs) \in 1 .. Squared BY Positions
  <2>1. PICK p \in Nat : p = Pos(i, j, Ptrs) BY <1>4, <2>0
  <2>2. D + P + p \in Nat /\ D + P + p > 1 OBVIOUS
  <2> QED BY <1>2, <1>3, <1>5, <2>1, <2>2
<1>11. ASSUME NEW i \in Column, NEW j \in Column, NEW l \in Column
       PROVE  LogAt(s, Direct + Ptrs + Squared + Pos3(i, j, l)) = files!Null
  <2>0. Pos3(i, j, l) \in 1 .. Ptrs * Squared /\ Ptrs * Squared \in Nat BY Positions
  <2>1. PICK p \in Nat : p = Pos3(i, j, l) BY <2>0
  <2>2. D + P + Q + p \in Nat /\ D + P + Q + p > 1 OBVIOUS
  <2> QED BY <1>2, <1>3, <1>4, <1>5, <2>1, <2>2
<1>12. Len(s) <= Direct + Ptrs + Squared + Ptrs * Squared
  <2>1. PICK z \in Nat : z = P * Q BY <1>3, <1>4
  <2>2. w <= D + P + Q + z BY <1>1
  <2> QED BY <1>1, <1>2, <1>3, <1>4, <2>1, <2>2
<1>13. \A r \in 1 .. Direct : One(d, n, r) = LogAt(s, r) BY Geometry
<1> QED BY <1>8, <1>9, <1>10, <1>11, <1>12, <1>13 DEF SlotsHave

\* Only the hard links of inode n changed.
Unlinked(d, e, n) ==
  /\ Sound(e) /\ Aside(d, e, n) /\ e.log = d.log /\ e.used = d.used /\ e.lost = d.lost
  /\ e.ptrs = d.ptrs /\ e.fault = d.fault
  /\ e.inode[n].size = d.inode[n].size /\ e.inode[n].map = d.inode[n].map

LEMMA FewerLinksUnlinks ==
  ASSUME NEW d, Sound(d), NEW n \in files!Node, NEW links
  PROVE  Unlinked(d, [d EXCEPT !.inode[n].links = links], n)
<1>1. PICK old : old = d.inode[n] OBVIOUS
<1>2. PICK new : new = [old EXCEPT !.links = links] OBVIOUS
<1>3. /\ DOMAIN old = {"type", "links", "size", "map"} /\ old.size \in Nat
      /\ old.map \in [1 .. Direct + 3 -> Pointer]
      /\ \A i \in Direct + 1 .. Direct + 3 : old.map[i] \in files!BlockNo
  BY <1>1, InodeIs
<1>4. /\ DOMAIN new = {"type", "links", "size", "map"} /\ new.size = old.size
      /\ new.map = old.map /\ new.type = old.type
  BY <1>2, <1>3
<1>5. PICK e : e = [d EXCEPT !.inode[n].links = links] OBVIOUS
<1>6. /\ Untouched(d, e) /\ e.ptrs = d.ptrs /\ e.log = d.log /\ e.lost = d.lost
      /\ e.fault = d.fault /\ e.inode = [d.inode EXCEPT ![n] = new]
  BY <1>1, <1>2, <1>5 DEF Sound, Counts, Fields, Untouched
<1>7. Sound(e) BY <1>3, <1>4, <1>6, InodeKeeps
<1>8. e.inode[n] = new /\ \A m \in files!Node : m # n => e.inode[m] = d.inode[m]
  BY <1>6 DEF Sound, Typed
<1>9. e.nodes = d.nodes /\ e.used = d.used BY <1>6 DEF Untouched
<1>10. Aside(d, e, n) BY <1>1, <1>4, <1>6, <1>8, <1>9 DEF Aside
<1> QED BY <1>1, <1>4, <1>5, <1>6, <1>7, <1>8, <1>9, <1>10 DEF Unlinked

LEMMA UnlinkedFull ==
  ASSUME NEW d, NEW O, Full(d, O, {}), NEW n \in files!Node, NEW e, Unlinked(d, e, n)
  PROVE  Full(e, O, {})
<1>1. Held(d, O, {}) /\ O \subseteq files!Node /\ DOMAIN d.log = files!Node BY DEF Full, Held
<1>2. \A m \in O : e.inode[m].map = d.inode[m].map /\ e.log[m] = d.log[m]
  BY <1>1 DEF Unlinked, Aside
<1>3. Like(d, e, O) BY <1>1, <1>2 DEF Like, Unlinked
<1>4. Held(e, O, {}) BY <1>1, <1>3, LikeHeld
<1>5. Fit(d, O, n) BY DEF Full
<1>6. /\ n \in O <=> n \in O
      /\ n \in d.nodes <=> n \in e.nodes
      /\ e.log[n] = d.log[n] /\ e.inode[n].type = d.inode[n].type
      /\ e.inode[n].size = d.inode[n].size /\ e.inode[n].map = d.inode[n].map
  BY DEF Unlinked, Aside
<1>7. Fit(e, O, n) BY <1>5, <1>6, FitSame
<1>8. Around(d, e, n) BY DEF Unlinked, Aside, Around
<1>9. PICK X : X = {} OBVIOUS
<1>10. Full(d, O, X) BY <1>9
<1>11. \A m \in files!Node : m # n => (m \in O <=> m \in O) OBVIOUS
<1>12. Full(e, O, X) BY <1>4, <1>7, <1>8, <1>10, <1>11, AroundFits
<1> QED BY <1>9, <1>12

LEMMA GiveNodeLost ==
  ASSUME NEW d, Sound(d), NEW n \in d.nodes
  PROVE  files!GiveNode(d, n).lost = d.lost
<1>1. PICK new : new = [files!Blank EXCEPT !.links = d.inode[n].links] OBVIOUS
<1>2. PICK f : f = files!GiveNode(d, n) OBVIOUS
<1>3. f = [d EXCEPT !.nodes = @ \ {n}, !.freeNodes[files!NodeGroup(n)] = @ + 1,
                    !.log[n] = <<>>, !.inode[n] = new]
  BY <1>1, <1>2 DEF files!GiveNode
<1>4. f.lost = d.lost BY <1>3 DEF Sound, Counts, Fields
<1> QED BY <1>2, <1>4

\* What an inode that owns blocks gives back, and what a link leaves behind.
LEMMA GivesBack ==
  ASSUME NEW d, NEW O, Full(d, O, {}), NEW n \in O, n # files!Root,
         NEW bs, bs = files!BlocksOf(d, n),
         NEW f, f = files!ReleaseAll(d, bs), f.fault = "none",
         NEW L, L = (IF d.inode[n].type = "link" THEN files!ToSet(d.log[n]) \ files!ToSet(bs) ELSE {}),
         NEW M, M = files!GiveNode(f, n).lost \cup L,
         NEW e, e = [files!GiveNode(f, n) EXCEPT !.lost = M]
  PROVE  Full(e, O \ {n}, {})
<1>1. /\ Held(d, O, {}) /\ Sound(d) /\ DOMAIN d.log = files!Node /\ O \subseteq files!Node
      /\ InLog(d, n)
  BY DEF Full, Held
<1>2. n \in files!Node BY <1>1
<1>3. Fit(d, O, n) BY <1>2 DEF Full
<1>4. Sufficient(d, n) /\ Owner(d, n) BY <1>3 DEF Fit
<1>5. ~First(n) BY <1>4 DEF Owner, First
<1>6. PICK s : s = d.log[n] OBVIOUS
<1>7. PICK c : c = files!BlockCount(d, n) OBVIOUS
<1>8. PICK T : T = files!IndirectBlocks(d, n) OBVIOUS
<1>9. SlotsHave(d, n, s) BY <1>1, <1>6, LogSlotsHave
<1>10. c <= Len(s) BY <1>4, <1>6, <1>7 DEF Sufficient
<1>11. /\ Len(bs) \in Nat /\ DOMAIN bs = 1 .. Len(bs)
       /\ Elements(bs) = Listed(s, c, T) /\ files!ToSet(bs) = Listed(s, c, T)
  BY <1>1, <1>2, <1>7, <1>8, <1>9, <1>10, BlocksOfAre
<1>12. PICK S : S = Listed(s, c, T) OBVIOUS
<1>13. Freed(d, f, S) BY <1>1, <1>11, <1>12, ReleaseAllFrees
<1>14. /\ Sound(f) /\ Kin(d, f) /\ f.used = d.used \ S
       /\ \A b \in files!BlockNo : f.ptrs[b] = IF b \in S THEN files!NoPtrs ELSE d.ptrs[b]
  BY <1>13 DEF Freed
<1>15. n \in f.nodes BY <1>4, <1>14 DEF Sufficient, Kin
<1>16. f.inode = d.inode /\ f.nodes = d.nodes /\ f.log = d.log /\ f.lost = d.lost
  BY <1>14 DEF Kin
<1>17. GaveNode(f, e, n) /\ e.lost = M /\ Sound(e) BY <1>1, <1>14, <1>15, <1>16, GiveNodeGives
<1>18. PICK w \in Nat : w = Len(s) /\ DOMAIN s = 1 .. w /\ c \in Nat
  <2>1. s \in Seq(files!BlockNo) /\ Len(s) \in Nat BY <1>1, <1>6, LogLength
  <2>2. c \in Nat BY <1>1, <1>2, <1>7, InodeIs, RoundedUp DEF files!BlockCount
  <2> QED BY <2>1, <2>2, LenProperties
<1>19. files!Owned(d, n) = files!ToSet(s) \cup T BY <1>6, <1>8 DEF files!Owned
<1>20. files!ToSet(s) = {s[p] : p \in 1 .. w} BY <1>18 DEF files!ToSet
<1>21. S \subseteq files!Owned(d, n)
  <2>1. \A p \in 1 .. c : p \in 1 .. w BY <1>10, <1>18
  <2> QED BY <1>12, <1>19, <1>20, <2>1 DEF Listed
<1>22. \A b : Branch(d, n, b) => b \in S BY <1>1, <1>2, <1>8, <1>12, BranchIs DEF Listed
<1>23. L = files!Owned(d, n) \ S
  <2>1. files!Owned(d, n) \ S = files!ToSet(s) \ S BY <1>12, <1>19 DEF Listed
  <2>2. CASE d.inode[n].type = "link" BY <1>6, <1>11, <1>12, <2>1, <2>2
  <2>3. CASE d.inode[n].type # "link"
    <3>1. Len(s) = c BY <1>4, <1>6, <1>7, <2>3 DEF Sufficient
    <3>2. files!ToSet(s) \subseteq S BY <1>12, <1>18, <1>20, <3>1 DEF Listed
    <3> QED BY <2>1, <2>3, <3>2
  <2> QED BY <2>2, <2>3
<1>24. M = d.lost \cup (files!Owned(d, n) \ S) BY <1>14, <1>15, <1>16, <1>23, GiveNodeLost
<1>25. Dropped(d, e, O, n, S)
  <2>1. e.used = d.used \ S /\ e.ptrs = f.ptrs /\ DOMAIN e.log = files!Node
    BY <1>14, <1>17 DEF GaveNode
  <2>2. ASSUME NEW b \in files!BlockNo
        PROVE  /\ b \in S => \A i \in Column : e.ptrs[b][i] = files!Null
               /\ b \notin S => e.ptrs[b] = d.ptrs[b]
    <3>1. CASE b \in S
      <4>1. e.ptrs[b] = files!NoPtrs BY <1>14, <2>1, <3>1
      <4> QED BY <3>1, <4>1 DEF files!NoPtrs, Column
    <3>2. CASE b \notin S BY <1>14, <2>1, <3>2
    <3> QED BY <3>1, <3>2
  <2>3. \A m \in O : m # n => e.inode[m].map = d.inode[m].map /\ e.log[m] = d.log[m]
    BY <1>1, <1>16, <1>17 DEF GaveNode, Around
  <2> QED BY <1>17, <1>24, <2>1, <2>2, <2>3 DEF Dropped
<1>26. PICK P : P = O \ {n} OBVIOUS
<1>27. Held(e, P, {}) BY <1>1, <1>21, <1>22, <1>25, <1>26, DropHeld
<1>28. Fit(e, P, n)
  <2>1. n \notin P /\ n \notin e.nodes BY <1>17, <1>26 DEF GaveNode
  <2> QED BY <1>5, <2>1, FreeFits
<1>29. Around(d, e, n) BY <1>16, <1>17 DEF GaveNode, Around
<1>30. \A m \in files!Node : m # n => (m \in O <=> m \in P) BY <1>26
<1>31. PICK X : X = {} OBVIOUS
<1>32. Full(d, O, X) BY <1>31
<1>33. Full(e, P, X) BY <1>27, <1>28, <1>29, <1>30, <1>32, AroundFits
<1> QED BY <1>26, <1>31, <1>33

\* An inode that owns no blocks can be released only if it has the characters of
\* a link in place of its pointers.
LEMMA NothingToRelease ==
  ASSUME NEW d, NEW O, Full(d, O, {}), NEW n \in files!Node, n \notin O,
         d.inode[n].type # "device",
         NEW bs, bs = files!BlocksOf(d, n), bs # <<>>,
         NEW f, f = files!ReleaseAll(d, bs), f.fault = "none"
  PROVE  n \notin f.nodes \/ files!IsShort(d, n)
<1>1. Sound(d) /\ Fit(d, O, n) BY DEF Full, Held
<1>2. bs \in Seq(Pointer) /\ Len(bs) \in Nat /\ DOMAIN bs = 1 .. Len(bs)
  BY <1>1, BlocksOfPointers, LenProperties
<1>3. Freed(d, f, Elements(bs)) BY <1>1, <1>2, ReleaseAllFrees
<1>4. f.nodes = d.nodes /\ Elements(bs) \subseteq d.used BY <1>3 DEF Freed, Kin
<1>5. SUFFICES ASSUME n \in d.nodes PROVE files!IsShort(d, n) BY <1>4
<1>6. PICK T : T = files!IndirectBlocks(d, n) OBVIOUS
<1>7. PICK c : c = files!BlockCount(d, n) OBVIOUS
<1>8. PICK x \in Nat : x = d.inode[n].size BY <1>1, InodeIs
<1>9. c = files!BlocksIn(x) BY <1>7, <1>8 DEF files!BlockCount
<1>10. PICK map : map = d.inode[n].map /\ \A r : One(d, n, r) = map[r] BY DEF One
<1>11. PICK top \in Nat : top = Direct + 3 /\ Place = 1 .. top /\ 1 \in 1 .. top
  BY Geometry DEF Place
<1>12. files!NoMap = [i \in 1 .. top |-> files!Null] BY <1>11 DEF files!NoMap
<1>13. CASE First(n)
  <2>1. x = 0 /\ map = files!NoMap BY <1>1, <1>8, <1>10, <1>13 DEF Fit
  <2>2. PICK Q : Q = Pointer \ {files!Null} OBVIOUS
  <2>3. PICK s : s = <<>> OBVIOUS
  <2>4. s \in Seq(Pointer \ {files!Null}) /\ Len(s) = 0 /\ Len(s) <= 1
    <3>1. s \in Seq(Q) /\ Len(s) = 0 BY <2>3
    <3> QED BY <2>2, <3>1
  <2>5. \A r \in Place : One(d, n, r) = LogAt(s, r)
    BY <1>10, <1>11, <1>12, <2>1, <2>4 DEF LogAt
  <2>6. SlotsHave(d, n, s) /\ \A y : ~Branch(d, n, y) BY <2>4, <2>5, FirstSlot
  <2>7. T = {} BY <1>1, <1>6, <2>6, BranchIs
  <2>8. c = 0
    <3>1. 0 * BlockSize = 0 /\ 0 \in Nat BY SizesHold DEF Sizes
    <3>2. files!BlocksIn(0) = 0 BY <3>1, BlocksInFull
    <3> QED BY <1>9, <2>1, <3>2
  <2>9. Elements(bs) = Listed(s, c, T)
    <3>1. c <= Len(s) BY <2>4, <2>8
    <3> QED BY <1>1, <1>6, <1>7, <2>6, <3>1, BlocksOfAre
  <2>10. Elements(bs) = {} BY <2>7, <2>8, <2>9 DEF Listed
  <2> QED BY <1>2, <2>10, NothingListed
<1>14. CASE ~First(n)
  <2>1. Short(d, n) BY <1>1, <1>5, <1>14 DEF Fit
  <2>2. d.inode[n].type = "link" /\ d.inode[n].size \in 1 .. Inline BY <2>1 DEF Short
  <2>3. Inline \in Nat BY FilesAssumption, SizesHold DEF files!Ext2Assumption, Sizes
  <2>4. d.inode[n].size <= Inline BY <2>2, <2>3
  <2> QED BY <2>2, <2>4 DEF files!IsShort
<1> QED BY <1>13, <1>14

\* The blocks of an inode do not depend on its hard links.
LEMMA UnlinkedBlocks ==
  ASSUME NEW d, NEW e, NEW n, Unlinked(d, e, n)
  PROVE  files!BlocksOf(e, n) = files!BlocksOf(d, n)
<1>1. /\ e.ptrs = d.ptrs /\ e.inode[n].map = d.inode[n].map
      /\ e.inode[n].size = d.inode[n].size
  BY DEF Unlinked
<1>2. \A b, i : files!At(e, b, i) = files!At(d, b, i) BY <1>1 DEF files!At
<1>3. \A b : files!Slots1(e, b) = files!Slots1(d, b) BY <1>2 DEF files!Slots1
<1>4. \A b : files!Slots2(e, b) = files!Slots2(d, b) BY <1>2, <1>3 DEF files!Slots2, files!Rows
<1>5. \A b : files!Slots3(e, b) = files!Slots3(d, b) BY <1>2, <1>4 DEF files!Slots3, files!Rows
<1>6. PICK c : c = files!BlockCount(e, n) /\ c = files!BlockCount(d, n)
  BY <1>1 DEF files!BlockCount
<1>7. files!FileBlocks(e, n, 0, c) = files!FileBlocks(d, n, 0, c)
  BY <1>1, <1>3, <1>4, <1>5 DEF files!FileBlocks
<1>8. \A S : files!Pointed(e, S) = files!Pointed(d, S) BY <1>1 DEF files!Pointed
<1>9. files!IndirectBlocks(e, n) = files!IndirectBlocks(d, n)
  BY <1>1, <1>8 DEF files!IndirectBlocks
<1> QED BY <1>6, <1>7, <1>9 DEF files!BlocksOf

LEMMA ReleaseNodeDone ==
  ASSUME NEW d, NEW O, Full(d, O, {}), d.fault = "none", NEW n \in files!Node, n # files!Root,
         d.inode[n].type # "device"
  PROVE  Done(files!ReleaseNode(d, n))
<1>0. Sound(d) BY DEF Full, Held
<1>1. PICK links : links = files!FewerLinks(d.inode[n].links) OBVIOUS
<1>2. PICK dec : dec = [d EXCEPT !.inode[n].links = links] OBVIOUS
<1>3. Unlinked(d, dec, n) BY <1>0, <1>2, FewerLinksUnlinks
<1>4. Full(dec, O, {}) BY <1>3, UnlinkedFull
<1>5. PICK bs : bs = files!BlocksOf(dec, n) /\ bs = files!BlocksOf(d, n) BY <1>3, UnlinkedBlocks
<1>6. PICK f : f = files!ReleaseAll(dec, bs) OBVIOUS
<1>7. dec.inode[n].type = d.inode[n].type /\ dec.log = d.log BY <1>3 DEF Unlinked, Aside
<1>8. PICK L : L = IF dec.inode[n].type = "link" THEN files!ToSet(dec.log[n]) \ files!ToSet(bs) ELSE {}
  OBVIOUS
<1>9. PICK M : M = files!GiveNode(f, n).lost \cup L OBVIOUS
<1>10. PICK e, g : e = [files!GiveNode(f, n) EXCEPT !.lost = M] /\ g = files!GiveNode(f, n)
  OBVIOUS
<1>11. files!ReleaseNode(d, n) =
         IF links > 0 THEN dec
         ELSE IF bs = <<>> THEN files!Faulty(d, "release_node")
         ELSE IF f.fault # "none" THEN f
         ELSE IF files!IsShort(d, n) THEN files!Faulty(g, "stray block")
         ELSE e
  BY <1>1, <1>2, <1>5, <1>6, <1>7, <1>8, <1>9, <1>10 DEF files!ReleaseNode
<1>12. Done(dec) BY <1>4 DEF Done
<1>13. Done(files!Faulty(d, "release_node"))
  <2>1. PICK w : w = "release_node" OBVIOUS
  <2>2. w # "none" BY <2>1
  <2>3. Done(files!Faulty(d, w)) BY <1>0, <2>2, FaultDone
  <2> QED BY <2>1, <2>3
<1>14. f.fault # "none" => Done(f) BY DEF Done
<1>15. Sound(f) /\ Sound(files!GiveNode(f, n))
  <2>1. Sound(dec) BY <1>4 DEF Full, Held
  <2>2. Len(bs) \in Nat BY <1>5, <2>1, BlocksOfPointers
  <2>3. Sound(f) BY <1>6, <2>1, <2>2, ReleaseAllKeeps
  <2> QED BY <2>3, GiveNodeKeeps
<1>16. Done(files!Faulty(g, "stray block"))
  <2>1. PICK w : w = "stray block" OBVIOUS
  <2>2. w # "none" BY <2>1
  <2>3. Done(files!Faulty(g, w)) BY <1>10, <1>15, <2>2, FaultDone
  <2> QED BY <2>1, <2>3
<1>17. ASSUME bs # <<>>, f.fault = "none", ~files!IsShort(d, n) PROVE Done(e)
  <2>1. CASE n \in O
    <3>1. Full(e, O \ {n}, {}) BY <1>4, <1>5, <1>6, <1>8, <1>9, <1>10, <1>17, <2>1, GivesBack
    <3> QED BY <3>1 DEF Done
  <2>2. CASE n \notin O
    <3>1. n \notin f.nodes
      <4>1. dec.inode[n].type # "device" BY <1>7
      <4>2. ~files!IsShort(dec, n)
        <5>1. dec.inode[n].size = d.inode[n].size BY <1>3 DEF Unlinked
        <5> QED BY <1>7, <1>17, <5>1 DEF files!IsShort
      <4> QED BY <1>4, <1>5, <1>6, <1>17, <2>2, <4>1, <4>2, NothingToRelease
    <3>2. e.fault # "none" BY <1>10, <1>15, <3>1, GiveNodeFaults
    <3> QED BY <3>2 DEF Done
  <2> QED BY <2>1, <2>2
<1> QED BY <1>11, <1>12, <1>13, <1>14, <1>16, <1>17

LEMMA RemoveNodeDone ==
  ASSUME NEW O, Full(volume, O, {}), NEW p \in files!Node, NEW n \in files!Node,
         files!RemoveNode(p, n)
  PROVE  Done(volume')
<1>0. Sound(volume) /\ volume.fault = "none" BY DEF Full, Held, files!RemoveNode, files!Ok
<1>1. CASE volume.inode[n].type = "device"
  <2>1. volume' = files!Faulty(volume, "no node") BY <1>1 DEF files!RemoveNode
  <2> QED BY <1>0, <2>1, FaultDone
<1>2. CASE volume.inode[n].type # "device"
  <2>1. PICK at : at = CHOOSE x \in files!EntryAt(volume, p, n) : TRUE OBVIOUS
  <2>2. PICK d : d = files!ClearEntry(volume, at[1], at[2]) OBVIOUS
  <2>3. volume' = files!ReleaseNode(d, n) BY <1>2, <2>1, <2>2 DEF files!RemoveNode
  <2>4. PICK es : es = [volume.dir[at[1]] EXCEPT ![at[2]] = files!Hole(@.size)] OBVIOUS
  <2>5. d = [volume EXCEPT !.dir[at[1]] = es] BY <2>2, <2>4 DEF files!ClearEntry
  <2>6. PICK X : X = {} OBVIOUS
  <2>7. Full(volume, O, X) BY <2>6
  <2>8. Full(d, O, X) /\ Kin(volume, d) /\ d.fault = volume.fault BY <2>5, <2>7, DirFull
  <2>9. Full(d, O, {}) BY <2>6, <2>8
  <2>10. d.fault = "none" /\ d.inode[n].type # "device" BY <1>0, <1>2, <2>8 DEF Kin
  <2>11. n # files!Root BY DEF files!RemoveNode, files!Children
  <2> QED BY <2>3, <2>9, <2>10, <2>11, ReleaseNodeDone
<1> QED BY <1>1, <1>2

-----------------------------------------------------------------------------
\* What Format leaves.

LEMMA RootsBlock == Fixed \in files!BlockNo /\ Fixed # files!Null /\ Fixed \notin files!Formatted
<1>1. PICK B \in Nat \ {0} : B = BlocksPerGroup /\ Fixed \in 2 .. B - 1 /\ GroupFixed \in 1 .. B - 1
  BY SizesHold DEF Sizes
<1>2. Fixed \in files!BlockNo
  <2>1. 0 * BlocksPerGroup + Fixed = Fixed /\ Fixed \in 0 .. BlocksPerGroup - 1 /\ Fixed \in Int
    BY <1>1
  <2>2. 0 \in files!Group BY SizesHold DEF files!Group, Sizes
  <2> QED BY <2>1, <2>2, InGroup
<1>3. ASSUME NEW g \in files!Group \ {0}, NEW i \in 0 .. GroupFixed - 1
      PROVE  g * BlocksPerGroup + i # Fixed
  <2>1. PICK h \in Nat : h = g - 1 /\ g = h + 1 BY SizesHold DEF files!Group, Sizes
  <2>2. PICK z \in Nat : z = h * B OBVIOUS
  <2>3. g * B = z + B BY <2>1, <2>2
  <2> QED BY <1>1, <2>3
<1>4. Fixed \notin 0 .. Fixed - 1 /\ Fixed # files!Null BY <1>1 DEF files!Null
<1> QED BY <1>2, <1>3, <1>4 DEF files!Formatted

LEMMA InitFull ==
  ASSUME files!Init
  PROVE  Full(volume, {files!Root}, {})
<1>1. PICK d : d = volume OBVIOUS
<1>2. Sound(d) BY <1>1, InitSound
<1>3. /\ d.used = files!Formatted \cup {Fixed} /\ d.nodes = 1 .. Reserved /\ d.lost = {}
      /\ d.log = [n \in files!Node |-> IF n = files!Root THEN <<Fixed>> ELSE <<>>]
      /\ d.ptrs = [b \in files!BlockNo |-> files!NoPtrs]
      /\ d.inode = [n \in files!Node |-> IF n = files!Root
                      THEN [type |-> "dir", links |-> 0, size |-> BlockSize,
                            map |-> [files!NoMap EXCEPT ![1] = Fixed]]
                      ELSE files!Blank]
  BY <1>1 DEF files!Init
<1>4. First(files!Root) /\ 1 .. Reserved \subseteq files!Node
  <2>1. First(files!Root) BY SizesHold DEF First, files!Root, Sizes
  <2> QED BY <1>2, <1>3, <2>1 DEF Sound, Counts
<1>5. PICK root \in files!Node : root = files!Root /\ First(root) BY <1>4 DEF First
<1>6. PICK s : s = <<Fixed>> OBVIOUS
<1>7. PICK Q : Q = files!BlockNo \ {files!Null} OBVIOUS
<1>8. /\ s \in Seq(files!BlockNo \ {files!Null}) /\ s \in Seq(Pointer \ {files!Null})
      /\ Len(s) = 1 /\ Len(s) <= 1 /\ s[1] = Fixed /\ DOMAIN s = {1}
  <2>1. Fixed \in Q BY <1>7, RootsBlock
  <2>2. s \in Seq(Q) /\ Len(s) = 1 /\ s[1] = Fixed /\ DOMAIN s = {1} BY <1>6, <2>1
  <2>3. s \in Seq(Pointer \ {files!Null})
    <3>1. PICK R : R = Pointer \ {files!Null} OBVIOUS
    <3>2. Q \subseteq R BY <1>7, <3>1 DEF Pointer
    <3>3. s \in Seq(R) BY <2>2, <3>2
    <3> QED BY <3>1, <3>3
  <2> QED BY <1>7, <2>2, <2>3
<1>9. d.log[root] = s BY <1>3, <1>5, <1>6
<1>10. PICK top \in Nat : top = Direct + 3 /\ Place = 1 .. top /\ 1 \in 1 .. top
  BY Geometry DEF Place
<1>11. \A r \in Place : One(d, root, r) = IF r = 1 THEN Fixed ELSE files!Null
  <2>1. files!NoMap = [i \in 1 .. top |-> files!Null] BY <1>10 DEF files!NoMap
  <2>2. d.inode[root].map = [files!NoMap EXCEPT ![1] = Fixed] BY <1>3, <1>5
  <2> QED BY <1>10, <2>1, <2>2 DEF One
<1>12. \A b \in files!BlockNo : \A i \in Column : d.ptrs[b][i] = files!Null
  BY <1>3 DEF files!NoPtrs, Column
<1>13. PICK O : O = {root} OBVIOUS
<1>14. InLog(d, root)
  <2>1. \A r \in 1 .. top : LogAt(s, r) = IF r = 1 THEN Fixed ELSE files!Null
    BY <1>8 DEF LogAt
  <2>2. \A r \in Place : One(d, root, r) = LogAt(s, r) BY <1>10, <1>11, <2>1
  <2>3. SlotsHave(d, root, s) BY <1>8, <2>2, FirstSlot
  <2> QED BY <1>8, <1>9, <2>3 DEF SlotsHave, InLog
<1>15. Unshared(d, O)
  <2>1. \A n, m \in O : \A r, t \in Place :
          One(d, n, r) = One(d, m, t) /\ One(d, n, r) # files!Null => n = m /\ r = t
    BY <1>11, <1>13
  <2> QED BY <1>12, <2>1 DEF Unshared
<1>16. Fresh(d, O, {}) BY <1>3, <1>11, <1>12, <1>13, RootsBlock DEF Fresh
<1>17. Stock(d, {}) BY <1>3 DEF Stock
<1>18. Cover(d, O, {})
  <2>1. Fixed \in files!Owned(d, root)
    <3>1. Fixed \in files!ToSet(s) BY <1>8 DEF files!ToSet
    <3> QED BY <1>9, <3>1 DEF files!Owned
  <2> QED BY <1>3, <1>13, <2>1 DEF Cover
<1>19. Held(d, O, {})
  <2>1. DOMAIN d.log = files!Node BY <1>3
  <2> QED BY <1>2, <1>13, <1>14, <1>15, <1>16, <1>17, <1>18, <2>1 DEF Held
<1>20. ASSUME NEW n \in files!Node PROVE Fit(d, O, n)
  <2>1. CASE n = root
    <3>1. n \in d.nodes /\ d.inode[n].type = "dir" /\ d.inode[n].size = BlockSize
      BY <1>3, <1>5, <2>1 DEF First
    <3>2. files!BlockCount(d, n) = 1
      <4>1. 1 * BlockSize = BlockSize /\ 1 \in Nat BY SizesHold DEF Sizes
      <4>2. files!BlocksIn(BlockSize) = 1 BY <4>1, BlocksInFull
      <4> QED BY <3>1, <4>2 DEF files!BlockCount
    <3>3. Len(d.log[n]) = 1 BY <1>8, <1>9, <2>1
    <3>4. Sufficient(d, n) BY <3>1, <3>2, <3>3 DEF Sufficient
    <3>5. Owner(d, n) BY <1>5, <2>1, <3>1 DEF Owner
    <3>6. n \in O BY <1>13, <2>1
    <3> QED BY <3>4, <3>5, <3>6, FitIn
  <2>2. CASE n # root
    <3>1. n \notin O BY <1>13, <2>2
    <3>2. d.inode[n] = [type |-> "none", links |-> 0, size |-> 0, map |-> files!NoMap]
      BY <1>3, <1>5, <2>2 DEF files!Blank
    <3>3. d.log[n] = <<>> BY <1>3, <1>5, <2>2
    <3>4. ~Owner(d, n) BY <1>5, <2>2, <3>2 DEF Owner
    <3>5. First(n) <=> n \in d.nodes BY <1>3 DEF First
    <3> QED BY <3>1, <3>2, <3>3, <3>4, <3>5 DEF Fit
  <2> QED BY <2>1, <2>2
<1>21. Full(d, O, {}) BY <1>19, <1>20 DEF Full
<1> QED BY <1>1, <1>5, <1>13, <1>21

-----------------------------------------------------------------------------
\* What follows.

LEMMA NextDone ==
  ASSUME Sound(volume), Done(volume), [files!Next]_(files!vars)
  PROVE  Done(volume')
<1>1. ASSUME files!Ok PROVE \E O : Full(volume, O, {}) BY <1>1 DEF Done, files!Ok
<1>2. ASSUME NEW p \in files!Node, NEW n \in files!Node, files!RemoveNode(p, n)
      PROVE  Done(volume')
  <2>1. PICK O : Full(volume, O, {}) BY <1>1, <1>2 DEF files!RemoveNode
  <2> QED BY <1>2, <2>1, RemoveNodeDone
<1>3. ASSUME NEW n \in files!Node, NEW end \in WriteEnd, files!Write(n, end)
      PROVE  Done(volume')
  <2>1. PICK O : Full(volume, O, {}) BY <1>1, <1>3 DEF files!Write
  <2> QED BY <1>3, <2>1, WriteDone
<1>4. ASSUME NEW p \in files!Node, NEW type \in {"dir", "file"}, NEW len \in NameLen,
             files!Create(p, type, len)
      PROVE  Done(volume')
  <2>1. PICK O : Full(volume, O, {}) BY <1>1, <1>4 DEF files!Create
  <2> QED BY <1>4, <2>1, CreateDone
<1>5. ASSUME NEW p \in files!Node, NEW len \in NameLen, NEW word \in TargetWord,
             files!CreateDevice(p, len, word)
      PROVE  Done(volume')
  <2>1. PICK O : Full(volume, O, {}) BY <1>1, <1>5 DEF files!CreateDevice
  <2> QED BY <1>5, <2>1, CreateDeviceDone
<1>6. ASSUME NEW p \in files!Node, NEW len \in NameLen, NEW target \in TargetLen,
             NEW word \in TargetWord, files!CreateLink(p, len, target, word)
      PROVE  Done(volume')
  <2>1. PICK O : Full(volume, O, {}) BY <1>1, <1>6 DEF files!CreateLink
  <2> QED BY <1>6, <2>1, CreateLinkDone
<1>7. CASE UNCHANGED files!vars
  <2>1. volume' = volume BY <1>7 DEF files!vars
  <2> QED BY <2>1
<1> QED BY <1>2, <1>3, <1>4, <1>5, <1>6, <1>7 DEF files!Next

LEMMA OwnersAre ==
  ASSUME NEW O, Full(volume, O, {})
  PROVE  O = files!Owners
<1>1. O \subseteq files!Node /\ volume.nodes \subseteq files!Node /\ files!Root \in files!Node
  <2>1. O \subseteq files!Node /\ volume.nodes \subseteq files!Node
    BY DEF Full, Held, Sound, Counts
  <2>2. files!Root \in files!Node
    <3>1. 0 * NodesPerGroup + files!Root = files!Root /\ files!Root \in 1 .. NodesPerGroup
          /\ files!Root \in Int /\ 0 \in files!Group
      BY SizesHold DEF Sizes, files!Root, files!Group
    <3> QED BY <3>1, InGroup
  <2> QED BY <2>1, <2>2
<1>2. \A n \in files!Node : n \in O <=> Owner(volume, n) BY DEF Full, Fit
<1>3. \A n : n \in files!Owners <=> Owner(volume, n) BY DEF files!Owners, Owner
<1>4. \A n \in files!Owners : n \in files!Node BY <1>1 DEF files!Owners
<1> QED BY <1>1, <1>2, <1>3, <1>4

LEMMA DoneOwns == Done(volume) => files!BlocksOwned
<1>1. SUFFICES ASSUME volume.fault = "none", NEW O, Full(volume, O, {})
               PROVE  files!BlocksOwned
  BY DEF Done, files!BlocksOwned, files!Ok
<1>2. O = files!Owners BY <1>1, OwnersAre
<1>3. PICK d : d = volume OBVIOUS
<1>4. PICK F : F = {} OBVIOUS
<1>5. Held(d, O, F) /\ Sound(d) /\ Stock(d, F) /\ Cover(d, O, F) /\ O \subseteq files!Node
      /\ \A n \in O : InLog(d, n)
  BY <1>1, <1>3, <1>4 DEF Full, Held
<1>6. \A n \in O : \A y \in files!Owned(d, n) : y \in d.used \ (files!Formatted \cup d.lost \cup F)
  BY <1>5, OwnedInUse
<1>7. d.used = files!Formatted \cup d.lost \cup UNION {files!Owned(d, n) : n \in O}
  BY <1>4, <1>5, <1>6 DEF Stock, Cover
<1>8. ASSUME NEW n \in O
      PROVE  /\ (files!Formatted \cup d.lost) \cap files!Owned(d, n) = {}
             /\ files!IsInjective(d.log[n])
             /\ files!ToSet(d.log[n]) \cap files!IndirectBlocks(d, n) = {}
  <2>1. (files!Formatted \cup d.lost) \cap files!Owned(d, n) = {} BY <1>6
  <2>2. PICK s : s = d.log[n] OBVIOUS
  <2>3. DOMAIN s = 1 .. Len(s)
    <3>1. s \in Seq(files!BlockNo) BY <1>5, <2>2, LogLength
    <3> QED BY <3>1, LenProperties
  <2>4. \A p, q \in 1 .. Len(s) : s[p] = s[q] => p = q BY <1>5, <2>2, LogOnce
  <2>5. files!IsInjective(s) BY <2>3, <2>4 DEF files!IsInjective
  <2>6. \A p \in 1 .. Len(s) : s[p] \notin files!IndirectBlocks(d, n)
    BY <1>5, <2>2, LogOnce, BranchIs
  <2>7. files!ToSet(s) \cap files!IndirectBlocks(d, n) = {} BY <2>3, <2>6 DEF files!ToSet
  <2> QED BY <2>1, <2>2, <2>5, <2>7
<1>9. ASSUME NEW n \in O, NEW m \in O, n # m
      PROVE  files!Owned(d, n) \cap files!Owned(d, m) = {}
  BY <1>5, <1>9, OwnedOnce
<1> QED BY <1>2, <1>3, <1>7, <1>8, <1>9 DEF files!BlocksOwned

LEMMA DoneOrders == Done(volume) => files!BlocksInOrder
<1>1. SUFFICES ASSUME volume.fault = "none", NEW O, Full(volume, O, {})
               PROVE  files!BlocksInOrder
  BY DEF Done, files!BlocksInOrder, files!Ok
<1>2. O = files!Owners BY <1>1, OwnersAre
<1>3. SUFFICES
        ASSUME NEW n \in O
        PROVE  /\ volume.inode[n].type # "link" => Len(volume.log[n]) = files!BlockCount(volume, n)
               /\ \A start \in 0 .. Len(volume.log[n]), count \in 0 .. Len(volume.log[n]) :
                    start + count <= Len(volume.log[n]) =>
                      files!FileBlocks(volume, n, start, count)
                        = SubSeq(volume.log[n], start + 1, start + count)
  BY <1>2 DEF files!BlocksInOrder
<1>4. PICK d : d = volume OBVIOUS
<1>5. Sound(d) /\ n \in files!Node /\ InLog(d, n) BY <1>1, <1>3, <1>4 DEF Full, Held
<1>6. PICK s : s = d.log[n] OBVIOUS
<1>7. SlotsHave(d, n, s) BY <1>5, <1>6, LogSlotsHave
<1>8. d.inode[n].type # "link" => Len(s) = files!BlockCount(d, n)
  <2>1. Fit(d, O, n) BY <1>1, <1>4, <1>5 DEF Full
  <2> QED BY <1>6, <2>1 DEF Fit, Sufficient
<1>9. ASSUME NEW start \in 0 .. Len(s), NEW count \in 0 .. Len(s), start + count <= Len(s)
      PROVE  files!FileBlocks(d, n, start, count) = SubSeq(s, start + 1, start + count)
  <2>1. start \in Nat /\ count \in Nat OBVIOUS
  <2> QED BY <1>5, <1>7, <1>9, <2>1, FileBlocksAre
<1> QED BY <1>4, <1>6, <1>8, <1>9

LEMMA DoneAlways == FilesSpec => [](Sound(volume) /\ Done(volume))
<1>1. FilesInit => Sound(volume) /\ Done(volume)
  BY InitSound, InitFull DEF FilesInit, Done
<1>2. (Sound(volume) /\ Done(volume)) /\ [FilesNext]_<<part, files_vars>>
        => (Sound(volume) /\ Done(volume))'
  <2> SUFFICES ASSUME Sound(volume), Done(volume), [FilesNext]_<<part, files_vars>>
               PROVE  Sound(volume') /\ Done(volume')
    OBVIOUS
  <2> QED BY StepOfOne, NextSound, NextDone
<1> QED BY <1>1, <1>2, PTL DEF FilesSpec

\* On a disk of any geometry, after any calls, those included that run out of
\* blocks or inodes half way: every block whose bit is set was set by Format,
\* belongs to one place of one inode or was left behind by a link, so no block of
\* a file or directory is lost and none is handed out twice.  That ends where a
\* short link is removed whose characters are the number of a block in use, which
\* becomes free whosever it is.
THEOREM BlocksOwnedAlways == FilesSpec => []BlocksOwned
<1>1. Done(volume) => BlocksOwned BY DoneOwns DEF BlocksOwned
<1> QED BY <1>1, DoneAlways, PTL

\* Through direct pointers and three levels of indirect blocks of any width,
\* block i of a file is the i-th that was added to it wherever a walk begins, and
\* a file has exactly the blocks its size needs, until a short link's characters
\* are released as the number of a block in use.
THEOREM BlocksInOrderAlways == FilesSpec => []BlocksInOrder
<1>1. Done(volume) => BlocksInOrder BY DoneOrders DEF BlocksInOrder
<1> QED BY <1>1, DoneAlways, PTL
=============================================================================
