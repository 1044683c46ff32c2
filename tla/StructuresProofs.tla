-------------------------- MODULE StructuresProofs --------------------------
(***************************************************************************)
(* Proofs about two of the structures: the block cache (BlockCache) and    *)
(* the table of unordered maps (MCTables).                                 *)
(***************************************************************************)
EXTENDS BlockCache, MCTables, FiniteSetTheorems, SequenceTheorems,
        WellFoundedInduction, TLAPS

(***************************************************************************)
(* The block cache.  A block holds what was last written to it             *)
(* because (Registered) the map of weak pointers knows every object, so    *)
(* that no block has two; because (Marks) an object that differs from the  *)
(* disk is marked, on itself or in the group; and because (Counted) the    *)
(* object dies with the last of its strong pointers and is saved then.     *)
(***************************************************************************)

Holders(o) == {w \in Owner : own[w] = o}

\* The first stages of ~EXT2 still find blocks through cached_blocks.
Open == phase \in {"mounted", "write_back", "nodes"}

Registered == \A o \in Object : Live(o) =>
  /\ obj[o].block \in Block
  /\ Open => cached_blocks[obj[o].block] = o

OneObject == \A o, p \in Object :
  Live(o) /\ Live(p) /\ obj[o].block = obj[p].block => o = p

WeakSound == \A b \in Block : cached_blocks[b] # Nothing =>
  /\ Live(cached_blocks[b]) => obj[cached_blocks[b]].block = b
  /\ \A c \in Block : cached_blocks[c] = cached_blocks[b] => c = b

Marks == \A o \in Object : Live(o) =>
  /\ obj[o].data = written[obj[o].block]
  /\ obj[o].data # disk[obj[o].block] => Saves(o)

Kept == \A b \in Block : disk[b] = written[b] \/ \E o \in Object : Live(o) /\ obj[o].block = b

MarkedFirst == \A h \in Handle :
  phase = "mounted" /\ pc[h] = "held" /\ write[h] => obj[own[h]].block \in modified_map

Gone == phase = "unmounted" => \A w \in Owner : own[w] = Nothing

Inv == TypeOK /\ Counted /\ Registered /\ OneObject /\ WeakSound /\ Marks /\ Kept /\ MarkedFirst /\ Gone

-----------------------------------------------------------------------------
LEMMA OwnersFinite == IsFiniteSet(Owner) /\ \A o : Cardinality(Holders(o)) \in Nat
<1>1. IsFiniteSet(Slot)
  BY FS_Interval, CacheAssumption DEF Slot
<1>2. IsFiniteSet(Owner)
  BY <1>1, FS_Union, CacheAssumption DEF Owner
<1>3. ASSUME NEW o PROVE Cardinality(Holders(o)) \in Nat
  BY <1>2, FS_Subset, FS_CardinalityType DEF Holders
<1> QED BY <1>2, <1>3

\* Setting one pointer changes two counts by one, or none.
LEMMA HoldersChange ==
  ASSUME NEW w \in Owner, NEW p, NEW o \in Object,
         own \in [Owner -> Object \cup {Nothing}], own' = [own EXCEPT ![w] = p]
  PROVE  Cardinality(Holders(o)') = Cardinality(Holders(o)) + Same(o, p) - Same(o, own[w])
<1> DEFINE H == Holders(o)
<1>1. IsFiniteSet(H) /\ Cardinality(H) \in Nat
  BY OwnersFinite, FS_Subset DEF Holders
<1>2. CASE o = p /\ o = own[w]
  <2>1. Holders(o)' = H
    BY <1>2 DEF Holders
  <2> QED BY <1>1, <1>2, <2>1 DEF Same
<1>3. CASE o = p /\ o # own[w]
  <2>1. Holders(o)' = H \cup {w} /\ w \notin H
    BY <1>3 DEF Holders
  <2> QED BY <1>1, <1>3, <2>1, FS_AddElement DEF Same
<1>4. CASE o # p /\ o = own[w]
  <2>1. Holders(o)' = H \ {w} /\ w \in H
    BY <1>4 DEF Holders
  <2>2. Cardinality(H \ {w}) = Cardinality(H) - 1
    BY <1>1, <2>1, FS_RemoveElement
  <2>3. Same(o, p) = 0 /\ Same(o, own[w]) = 1
    BY <1>4 DEF Same
  <2> QED BY <1>1, <2>1, <2>2, <2>3
<1>5. CASE o # p /\ o # own[w]
  <2>1. Holders(o)' = H
    BY <1>5 DEF Holders
  <2> QED BY <1>1, <1>5, <2>1 DEF Same
<1> QED BY <1>2, <1>3, <1>4, <1>5

\* An object is live while something points at it; the last pointer is alone.
LEMMA LiveHeld ==
  ASSUME TypeOK, Counted
  PROVE  /\ \A w \in Owner : own[w] # Nothing => own[w] \in Object /\ Live(own[w])
         /\ \A o \in Object : Live(o) => \E w \in Owner : own[w] = o
         /\ \A o \in Object : ~Live(o) => obj[o].usecount = 0
         /\ \A v, w \in Owner : own[v] = own[w] /\ own[w] # Nothing /\ IsLast(own[w]) => v = w
         /\ \A o \in Object : Free(o) => /\ ~Live(o)
                                         /\ \A b \in Block : cached_blocks[b] # o
                                         /\ \A w \in Owner : own[w] # o
<1>0. \A o \in Object : obj[o].usecount = Cardinality(Holders(o)) /\ IsFiniteSet(Holders(o))
  BY OwnersFinite, FS_Subset DEF Counted, Holders
<1>1. ASSUME NEW w \in Owner, own[w] # Nothing PROVE own[w] \in Object /\ Live(own[w])
  <2>1. own[w] \in Object
    BY <1>1 DEF TypeOK
  <2>2. w \in Holders(own[w])
    BY DEF Holders
  <2>3. Cardinality(Holders(own[w])) # 0
    BY <1>0, <2>1, <2>2, FS_EmptySet
  <2> QED BY <1>0, <2>1, <2>3, OwnersFinite DEF Live
<1>2. ASSUME NEW o \in Object, Live(o) PROVE \E w \in Owner : own[w] = o
  <2>1. Holders(o) # {}
    BY <1>0, <1>2, FS_EmptySet DEF Live
  <2> QED BY <2>1 DEF Holders
<1>3. ASSUME NEW o \in Object, ~Live(o) PROVE obj[o].usecount = 0
  BY <1>0, <1>3, OwnersFinite DEF Live
<1>4. ASSUME NEW v \in Owner, NEW w \in Owner, own[v] = own[w], own[w] # Nothing, IsLast(own[w])
      PROVE  v = w
  <2>1. Cardinality(Holders(own[w])) = 1
    BY <1>0, <1>1, <1>4 DEF IsLast
  <2>2. PICK x : Holders(own[w]) = {x}
    BY <1>0, <1>1, <1>4, <2>1, FS_Singleton
  <2> QED BY <1>4, <2>2 DEF Holders
<1>5. ASSUME NEW o \in Object, Free(o)
      PROVE  ~Live(o) /\ (\A b \in Block : cached_blocks[b] # o) /\ \A w \in Owner : own[w] # o
  <2>1. obj[o].usecount \in Nat /\ obj[o].refcount = 0
        /\ obj[o].refcount = obj[o].usecount + (IF \E b \in Block : cached_blocks[b] = o THEN 1 ELSE 0)
    BY <1>5 DEF TypeOK, Counted, Free
  <2>2. (IF \E b \in Block : cached_blocks[b] = o THEN 1 ELSE 0) = 0 /\ obj[o].usecount = 0
    BY <2>1 DEF Same
  <2> QED BY <2>2, <1>1, CacheAssumption DEF Same, Live
<1> QED BY <1>1, <1>2, <1>3, <1>4, <1>5

-----------------------------------------------------------------------------
(* One strong pointer is set: the ring stores a block, a handle lets go.   *)

\* obj is a function to records.
Shaped == obj = [o \in Object |->
  [block |-> obj[o].block, data |-> obj[o].data, modified |-> obj[o].modified,
   usecount |-> obj[o].usecount, refcount |-> obj[o].refcount]]

Last(w, p) == own[w] # Nothing /\ own[w] # p /\ IsLast(own[w])

\* What Assign does to the counts and to the objects.
LEMMA AssignObjects ==
  ASSUME NEW w \in Owner, NEW p, TypeOK, Assign(w, p)
  PROVE  /\ Shaped'
         /\ \A o \in Object :
              /\ obj'[o].usecount = obj[o].usecount + Same(o, p) - Same(o, own[w])
              /\ obj'[o].refcount = obj[o].refcount + Same(o, p) - Same(o, own[w])
              /\ ~(Last(w, p) /\ o = own[w]) => /\ obj'[o].block = obj[o].block
                                                /\ obj'[o].data = obj[o].data
                                                /\ obj'[o].modified = obj[o].modified
              /\ Last(w, p) /\ o = own[w] => /\ obj'[o].block = Nothing /\ obj'[o].data = Nothing
                                             /\ obj'[o].modified = FALSE
<1> DEFINE C(n, o) == n + Same(o, p) - Same(o, own[w])
<1>1. obj' = [o \in Object |->
          [(IF Last(w, p) /\ o = own[w] THEN [Dead EXCEPT !.refcount = obj[o].refcount, !.usecount = 1] ELSE obj[o])
             EXCEPT !.usecount = C(@, o), !.refcount = C(@, o)]]
  BY DEF Assign, Last
<1>2. ASSUME NEW o \in Object, Last(w, p), o = own[w]
      PROVE  obj'[o] = [block |-> Nothing, data |-> Nothing, modified |-> FALSE,
                        usecount |-> C(1, o), refcount |-> C(obj[o].refcount, o)]
  BY <1>1, <1>2 DEF Dead
<1>3. ASSUME NEW o \in Object, ~(Last(w, p) /\ o = own[w])
      PROVE  obj'[o] = [block |-> obj[o].block, data |-> obj[o].data, modified |-> obj[o].modified,
                        usecount |-> C(obj[o].usecount, o), refcount |-> C(obj[o].refcount, o)]
  <2>1. obj'[o] = [obj[o] EXCEPT !.usecount = C(@, o), !.refcount = C(@, o)]
    BY <1>1, <1>3
  <2>2. obj[o] \in [block : Block \cup {Nothing}, data : Value \cup {Nothing}, modified : BOOLEAN,
                    usecount : Nat, refcount : Nat]
    BY DEF TypeOK
  <2> HIDE DEF C
  <2> QED BY <2>1, <2>2
<1>4. Last(w, p) => obj[own[w]].usecount = 1
  BY DEF Last, IsLast
<1>5. obj' = [o \in Object |-> obj'[o]]
  BY <1>1
<1>6. ASSUME NEW o \in Object
      PROVE  /\ obj'[o].usecount = obj[o].usecount + Same(o, p) - Same(o, own[w])
             /\ obj'[o].refcount = obj[o].refcount + Same(o, p) - Same(o, own[w])
             /\ obj'[o] = [block |-> obj'[o].block, data |-> obj'[o].data, modified |-> obj'[o].modified,
                           usecount |-> obj'[o].usecount, refcount |-> obj'[o].refcount]
             /\ ~(Last(w, p) /\ o = own[w]) => /\ obj'[o].block = obj[o].block
                                               /\ obj'[o].data = obj[o].data
                                               /\ obj'[o].modified = obj[o].modified
             /\ Last(w, p) /\ o = own[w] => /\ obj'[o].block = Nothing /\ obj'[o].data = Nothing
                                            /\ obj'[o].modified = FALSE
  <2>1. CASE Last(w, p) /\ o = own[w]
    <3>1. obj'[o] = [block |-> Nothing, data |-> Nothing, modified |-> FALSE,
                     usecount |-> C(1, o), refcount |-> C(obj[o].refcount, o)]
      BY <1>2, <2>1
    <3>2. obj[o].usecount = 1
      BY <1>4, <2>1
    <3> QED BY <3>1, <3>2, <2>1
  <2>2. CASE ~(Last(w, p) /\ o = own[w])
    <3>1. obj'[o] = [block |-> obj[o].block, data |-> obj[o].data, modified |-> obj[o].modified,
                     usecount |-> C(obj[o].usecount, o), refcount |-> C(obj[o].refcount, o)]
      BY <1>3, <2>2
    <3> QED BY <3>1, <2>2
  <2> QED BY <2>1, <2>2
<1> QED BY <1>5, <1>6 DEF Shaped

LEMMA AssignKeeps ==
  ASSUME Inv, NEW w \in Owner, NEW p \in Object \cup {Nothing}, p # Nothing => Live(p),
         Assign(w, p), UNCHANGED <<phase, cached_blocks, written>>
  PROVE  /\ disk' \in [Block -> Value] /\ obj' \in [Object -> [block : Block \cup {Nothing},
                data : Value \cup {Nothing}, modified : BOOLEAN, usecount : Nat, refcount : Nat]]
         /\ modified_map' \subseteq Block /\ own' \in [Owner -> Object \cup {Nothing}]
         /\ Counted' /\ Registered' /\ OneObject' /\ WeakSound' /\ Marks' /\ Kept'
         /\ \A v \in Owner \ {w} : own[v] # Nothing /\ obj[own[v]].block \in modified_map
              => obj'[own'[v]].block \in modified_map'
<1> DEFINE old == own[w]
           Died(o) == Last(w, p) /\ o = old
           saves == Last(w, p) /\ Saves(old)
<1>0. TypeOK /\ Counted /\ Registered /\ OneObject /\ WeakSound /\ Marks /\ Kept
  BY DEF Inv
<1>1. \A o \in Object :
        /\ obj'[o].usecount = obj[o].usecount + Same(o, p) - Same(o, old)
        /\ obj'[o].refcount = obj[o].refcount + Same(o, p) - Same(o, old)
        /\ ~Died(o) => obj'[o].block = obj[o].block /\ obj'[o].data = obj[o].data
                       /\ obj'[o].modified = obj[o].modified
        /\ Died(o) => obj'[o].block = Nothing /\ obj'[o].data = Nothing /\ obj'[o].modified = FALSE
  <2>1. TypeOK /\ Assign(w, p)
    BY <1>0
  <2>2. ASSUME NEW o \in Object
        PROVE /\ obj'[o].usecount = obj[o].usecount + Same(o, p) - Same(o, own[w])
              /\ obj'[o].refcount = obj[o].refcount + Same(o, p) - Same(o, own[w])
              /\ ~(Last(w, p) /\ o = own[w]) => /\ obj'[o].block = obj[o].block
                                                /\ obj'[o].data = obj[o].data
                                                /\ obj'[o].modified = obj[o].modified
              /\ Last(w, p) /\ o = own[w] => /\ obj'[o].block = Nothing /\ obj'[o].data = Nothing
                                             /\ obj'[o].modified = FALSE
    BY <2>1, AssignObjects
  <2> QED BY <2>2
<1>2. own' = [own EXCEPT ![w] = p]
      /\ disk' = (IF saves THEN [disk EXCEPT ![obj[old].block] = obj[old].data] ELSE disk)
      /\ modified_map' = (IF saves THEN modified_map \ {obj[old].block} ELSE modified_map)
  BY DEF Assign, Last
<1>3. own' \in [Owner -> Object \cup {Nothing}]
  BY <1>0, <1>2 DEF TypeOK
<1>4. \A o \in Object : obj[o].usecount \in Nat /\ obj[o].refcount \in Nat
                          /\ (Live(o) \/ obj[o].usecount = 0)
  BY <1>0, LiveHeld DEF TypeOK
<1>5. old # Nothing => old \in Object /\ Live(old) /\ obj[old].block \in Block
  BY <1>0, LiveHeld DEF Registered
<1>6. \A o \in Object : Same(o, p) \in {0, 1} /\ Same(o, old) \in {0, 1}
                          /\ (Same(o, p) = 1 <=> o = p) /\ (Same(o, old) = 1 <=> o = old)
  BY DEF Same
<1>7. Counted'
  <2>1. ASSUME NEW o \in Object PROVE obj'[o].usecount = Cardinality({v \in Owner : own'[v] = o})
    <3>1. Cardinality(Holders(o)') = Cardinality(Holders(o)) + Same(o, p) - Same(o, old)
      <4>1. own \in [Owner -> Object \cup {Nothing}]
        BY <1>0 DEF TypeOK
      <4>2. own' = [own EXCEPT ![w] = p]
        BY <1>2
      <4> QED BY <2>1, <4>1, <4>2, HoldersChange
    <3>2. obj[o].usecount = Cardinality(Holders(o))
      BY <1>0 DEF Counted, Holders
    <3> QED BY <1>1, <3>1, <3>2 DEF Holders
  <2>2. ASSUME NEW o \in Object
        PROVE  obj'[o].refcount = obj'[o].usecount + (IF \E b \in Block : cached_blocks'[b] = o THEN 1 ELSE 0)
    <3> DEFINE k == (IF \E b \in Block : cached_blocks[b] = o THEN 1 ELSE 0)
    <3>1. obj[o].refcount = obj[o].usecount + k /\ k \in {0, 1}
      BY <1>0 DEF Counted, Same
    <3>2. k = (IF \E b \in Block : cached_blocks'[b] = o THEN 1 ELSE 0)
      OBVIOUS
    <3>3. /\ obj'[o].usecount = obj[o].usecount + Same(o, p) - Same(o, old)
          /\ obj'[o].refcount = obj[o].refcount + Same(o, p) - Same(o, old)
      BY <1>1
    <3>4. obj[o].usecount \in Nat /\ Same(o, p) \in Nat /\ Same(o, old) \in Nat
      BY <1>4, <1>6
    <3> HIDE DEF k
    <3> QED BY <3>1, <3>2, <3>3, <3>4
  <2> QED BY <2>1, <2>2 DEF Counted
<1>8. \A o \in Object : obj'[o].usecount \in Nat /\ obj'[o].refcount \in Nat
  <2> SUFFICES ASSUME NEW o \in Object PROVE obj'[o].usecount \in Nat /\ obj'[o].refcount \in Nat
    OBVIOUS
  <2>0. /\ obj'[o].usecount = obj[o].usecount + Same(o, p) - Same(o, old)
        /\ obj[o].usecount \in Nat /\ Same(o, p) \in Nat /\ Same(o, old) \in {0, 1}
    BY <1>1, <1>4, <1>6
  <2>1. obj'[o].usecount \in Nat
    <3>1. Same(o, old) = 1 => obj[o].usecount > 0
      BY <1>5, <1>6, CacheAssumption DEF Live
    <3> QED BY <2>0, <3>1
  <2>2. (IF \E b \in Block : cached_blocks'[b] = o THEN 1 ELSE 0) \in {0, 1}
    BY DEF Same
  <2>3. obj'[o].refcount = obj'[o].usecount + (IF \E b \in Block : cached_blocks'[b] = o THEN 1 ELSE 0)
    BY <1>7 DEF Counted
  <2> QED BY <2>1, <2>2, <2>3
<1>9. ASSUME NEW o \in Object PROVE Live(o)' <=> Live(o) /\ ~Died(o)
  <2>1. obj'[o].usecount = obj[o].usecount + Same(o, p) - Same(o, old)
    BY <1>1
  <2>2. Last(w, p) /\ o = old => obj[o].usecount = 1 /\ o # p
    BY DEF Last, IsLast
  <2>3. o = old /\ o # p /\ ~Last(w, p) => obj[o].usecount # 1 /\ Live(o)
    BY <1>5, CacheAssumption DEF Last, IsLast
  <2>4. o = p => Live(o)
    BY CacheAssumption
  <2> QED BY <1>4, <1>6, <2>1, <2>2, <2>3, <2>4 DEF Live
<1>10. obj' \in [Object -> [block : Block \cup {Nothing},
                data : Value \cup {Nothing}, modified : BOOLEAN, usecount : Nat, refcount : Nat]]
  <2>1. \A o \in Object :
          /\ obj'[o].block \in Block \cup {Nothing} /\ obj'[o].data \in Value \cup {Nothing}
          /\ obj'[o].modified \in BOOLEAN
    BY <1>0, <1>1 DEF TypeOK
  <2>2. \A o \in Object : obj'[o] \in [block : Block \cup {Nothing},
                data : Value \cup {Nothing}, modified : BOOLEAN, usecount : Nat, refcount : Nat]
    <3>1. Shaped'
      BY <1>0, AssignObjects
    <3> SUFFICES ASSUME NEW o \in Object
                 PROVE  obj'[o] \in [block : Block \cup {Nothing}, data : Value \cup {Nothing},
                                     modified : BOOLEAN, usecount : Nat, refcount : Nat]
      OBVIOUS
    <3> DEFINE b == obj'[o].block   d == obj'[o].data   m == obj'[o].modified
               u == obj'[o].usecount   r == obj'[o].refcount
    <3>2. obj'[o] = [block |-> b, data |-> d, modified |-> m, usecount |-> u, refcount |-> r]
      BY <3>1 DEF Shaped
    <3>3. b \in Block \cup {Nothing} /\ d \in Value \cup {Nothing} /\ m \in BOOLEAN /\ u \in Nat /\ r \in Nat
      BY <2>1, <1>8
    <3> HIDE DEF b, d, m, u, r
    <3> QED BY <3>2, <3>3
  <2>3. obj' = [o \in Object |-> obj'[o]]
    <3>1. Shaped'
      BY <1>0, AssignObjects
    <3> QED BY <3>1 DEF Shaped
  <2> QED BY <2>2, <2>3
<1>11. Registered'
  BY <1>0, <1>1, <1>9 DEF Registered, Open
<1>12. OneObject'
  BY <1>0, <1>1, <1>9 DEF OneObject
<1>13. WeakSound'
  <2>1. \A b \in Block : cached_blocks[b] # Nothing => cached_blocks[b] \in Object
    BY <1>0 DEF TypeOK
  <2> QED BY <1>0, <1>1, <1>9, <2>1 DEF WeakSound
<1>14. saves => /\ old \in Object /\ Live(old) /\ obj[old].block \in Block
                /\ obj[old].data = written[obj[old].block]
                /\ \A o \in Object : Live(o)' => obj[o].block # obj[old].block
  BY <1>0, <1>5, <1>9 DEF Last, Marks, OneObject
<1>15. disk' \in [Block -> Value] /\ modified_map' \subseteq Block
  BY <1>0, <1>2, <1>14 DEF TypeOK
<1>16. \A o \in Object : Live(o)' => disk'[obj[o].block] = disk[obj[o].block]
                                    /\ (Saves(o) => Saves(o)')
  BY <1>0, <1>1, <1>2, <1>9, <1>14 DEF Saves, TypeOK
<1>17. Marks'
  BY <1>0, <1>1, <1>9, <1>16 DEF Marks
<1>18. Kept'
  <2> SUFFICES ASSUME NEW b \in Block
               PROVE  disk'[b] = written[b] \/ \E o \in Object : Live(o)' /\ obj'[o].block = b
    BY DEF Kept
  <2>1. CASE saves /\ b = obj[old].block
    BY <1>0, <1>2, <1>14, <2>1 DEF TypeOK
  <2>2. CASE Last(w, p) /\ ~Saves(old) /\ b = obj[old].block
    <3>1. old \in Object /\ Live(old)
      BY <1>5, <2>2 DEF Last
    <3> QED BY <1>0, <1>2, <2>2, <3>1 DEF Marks
  <2>3. CASE ~(Last(w, p) /\ b = obj[old].block)
    <3>1. disk'[b] = disk[b]
      BY <1>0, <1>2, <2>3 DEF TypeOK
    <3>2. \A o \in Object : Live(o) /\ obj[o].block = b => Live(o)' /\ obj'[o].block = b
      BY <1>1, <1>9, <2>3
    <3> QED BY <1>0, <3>1, <3>2 DEF Kept
  <2> QED BY <2>1, <2>2, <2>3
<1>19. ASSUME NEW v \in Owner \ {w}, own[v] # Nothing, obj[own[v]].block \in modified_map
       PROVE  obj'[own'[v]].block \in modified_map'
  <2>1. own'[v] = own[v] /\ own[v] \in Object /\ Live(own[v])
    BY <1>0, <1>2, <1>19, LiveHeld DEF TypeOK
  <2>2. ~Died(own[v])
    BY <1>0, <1>19, LiveHeld DEF Last
  <2>3. saves => obj[own[v]].block # obj[old].block
    BY <1>9, <1>14, <2>1, <2>2
  <2> QED BY <1>1, <1>2, <1>19, <2>1, <2>2, <2>3
<1> QED BY <1>3, <1>7, <1>10, <1>11, <1>12, <1>13, <1>15, <1>17, <1>18, <1>19

-----------------------------------------------------------------------------
(* One lemma for each action.                                              *)

Control == [block : Block \cup {Nothing}, data : Value \cup {Nothing}, modified : BOOLEAN,
            usecount : Nat, refcount : Nat]

LEMMA FindKeeps ==
  ASSUME NEW h \in Handle, NEW b \in Block, NEW w \in BOOLEAN, Inv, Lookup(h, b, w), Find(h, b)
  PROVE  Inv'
<1> DEFINE o == cached_blocks[b]
<1>0. TypeOK /\ Counted /\ Registered /\ OneObject /\ WeakSound /\ Marks /\ Kept /\ MarkedFirst /\ Gone
  BY DEF Inv
<1>1. /\ o \in Object /\ Live(o)
      /\ own[h] = Nothing /\ h \in Owner /\ phase # "unmounted"
      /\ own' = [own EXCEPT ![h] = o]
      /\ obj' = [obj EXCEPT ![o].usecount = @ + 1, ![o].refcount = @ + 1]
      /\ cached_blocks' = cached_blocks
      /\ pc' = [pc EXCEPT ![h] = "caching"] /\ write' = [write EXCEPT ![h] = w]
      /\ UNCHANGED <<phase, disk, modified_map, index, written>>
  BY <1>0 DEF Lookup, Find, Expired, TypeOK, Owner
<1>2. \A q \in Object : /\ obj'[q].block = obj[q].block /\ obj'[q].data = obj[q].data
                         /\ obj'[q].modified = obj[q].modified
                         /\ obj'[q].usecount = obj[q].usecount + Same(q, o)
                         /\ obj'[q].refcount = obj[q].refcount + Same(q, o)
                         /\ (Live(q)' <=> Live(q)) /\ (Saves(q)' <=> Saves(q))
  BY <1>0, <1>1 DEF TypeOK, Live, Same, Saves
<1>3. TypeOK'
  <2>1. own' \in [Owner -> Object \cup {Nothing}] /\ \A g \in Handle : own'[g] = Nothing <=> pc'[g] = "idle"
    BY <1>0, <1>1, CacheAssumption DEF TypeOK, Owner
  <2>2. obj' \in [Object -> Control]
    <3>1. obj \in [Object -> Control]
      BY <1>0 DEF TypeOK, Control
    <3>2. [obj[o] EXCEPT !.usecount = @ + 1, !.refcount = @ + 1] \in Control
      BY <1>1, <3>1 DEF Control
    <3>3. obj' = [obj EXCEPT ![o] = [obj[o] EXCEPT !.usecount = @ + 1, !.refcount = @ + 1]]
      BY <1>1, <3>1 DEF Control
    <3> QED BY <1>1, <3>1, <3>2, <3>3
  <2> QED BY <1>0, <1>1, <2>1, <2>2 DEF TypeOK, Step, Control
<1>4. Counted'
  <2> SUFFICES ASSUME NEW q \in Object
               PROVE  /\ obj'[q].usecount = Cardinality(Holders(q)')
                      /\ obj'[q].refcount = obj'[q].usecount + (IF \E c \in Block : cached_blocks'[c] = q THEN 1 ELSE 0)
    BY DEF Counted, Holders
  <2>1. Cardinality(Holders(q)') = Cardinality(Holders(q)) + Same(q, o) - Same(q, own[h])
    BY <1>0, <1>1, HoldersChange DEF TypeOK
  <2>2. Same(q, own[h]) = 0
    BY <1>1, CacheAssumption DEF Same
  <2>3. obj[q].usecount = Cardinality(Holders(q))
    BY <1>0 DEF Counted, Holders
  <2>4. obj[q].usecount \in Nat /\ Same(q, o) \in Nat
    BY <1>0 DEF TypeOK, Same
  <2>5. obj[q].refcount = obj[q].usecount + (IF \E c \in Block : cached_blocks'[c] = q THEN 1 ELSE 0)
    BY <1>0, <1>1 DEF Counted
  <2>6. obj'[q].usecount = obj[q].usecount + Same(q, o) /\ obj'[q].refcount = obj[q].refcount + Same(q, o)
    BY <1>2
  <2> QED BY <2>1, <2>2, <2>3, <2>4, <2>5, <2>6
<1>5. Registered' /\ OneObject' /\ Marks' /\ Kept'
  <2>1. Registered'
    BY <1>0, <1>1, <1>2 DEF Registered, Open
  <2>2. OneObject'
    BY <1>0, <1>2 DEF OneObject
  <2>3. Marks'
    BY <1>0, <1>1, <1>2 DEF Marks
  <2>4. Kept'
    <3> SUFFICES ASSUME NEW c \in Block
                 PROVE  disk'[c] = written'[c] \/ \E q \in Object : Live(q)' /\ obj'[q].block = c
      BY DEF Kept
    <3>1. CASE disk[c] = written[c]
      BY <1>1, <3>1
    <3>2. CASE \E q \in Object : Live(q) /\ obj[q].block = c
      BY <1>2, <3>2
    <3> QED BY <1>0, <3>1, <3>2 DEF Kept
  <2> QED BY <2>1, <2>2, <2>3, <2>4
<1>6. WeakSound'
  BY <1>0, <1>1, <1>2 DEF WeakSound, TypeOK
<1>7. MarkedFirst'
  BY <1>0, <1>1, <1>2 DEF MarkedFirst, TypeOK, Owner
<1>8. Gone'
  BY <1>1 DEF Gone
<1> QED BY <1>3, <1>4, <1>5, <1>6, <1>7, <1>8 DEF Inv

LEMMA ReadKeeps ==
  ASSUME NEW h \in Handle, NEW b \in Block, NEW w \in BOOLEAN, Inv, Lookup(h, b, w), Read(h, b)
  PROVE  Inv'
<1> DEFINE old == cached_blocks[b]
<1>0. TypeOK /\ Counted /\ Registered /\ OneObject /\ WeakSound /\ Marks /\ Kept /\ MarkedFirst /\ Gone
  BY DEF Inv
<1>1. PICK o \in Object :
      /\ Free(o)
      /\ own[h] = Nothing /\ h \in Owner /\ Open
      /\ own' = [own EXCEPT ![h] = o]
      /\ obj' = [q \in Object |->
          IF q = o THEN [block |-> b, data |-> disk[b], modified |-> FALSE, usecount |-> 1, refcount |-> 2]
          ELSE [obj[q] EXCEPT !.refcount = IF q = old THEN @ - 1 ELSE @]]
      /\ cached_blocks' = [cached_blocks EXCEPT ![b] = o]
      /\ pc' = [pc EXCEPT ![h] = "caching"] /\ write' = [write EXCEPT ![h] = w]
      /\ UNCHANGED <<phase, disk, modified_map, index, written>>
  BY <1>0 DEF Lookup, Read, TypeOK, Owner, Open, WeakRelease
<1>2. ~Live(o) /\ (\A c \in Block : cached_blocks[c] # o) /\ obj[o].usecount = 0 /\ obj[o].refcount = 0
  BY <1>0, <1>1, LiveHeld DEF Free
<1>3. old # Nothing => old \in Object /\ ~Live(old) /\ old # o
  BY <1>0, <1>2 DEF Read, Expired, TypeOK
<1>4. /\ obj'[o] = [block |-> b, data |-> disk[b], modified |-> FALSE, usecount |-> 1, refcount |-> 2]
      /\ \A q \in Object \ {o} : /\ obj'[q].block = obj[q].block /\ obj'[q].data = obj[q].data
                                 /\ obj'[q].modified = obj[q].modified
                                 /\ obj'[q].usecount = obj[q].usecount
                                 /\ obj'[q].refcount = (IF q = old THEN obj[q].refcount - 1 ELSE obj[q].refcount)
                                 /\ (Live(q)' <=> Live(q)) /\ (Saves(q)' <=> Saves(q))
  BY <1>0, <1>1 DEF TypeOK, Live, Saves
<1>5. Live(o)' /\ disk[b] = written[b] /\ disk[b] \in Value /\ \A q \in Object : Live(q) => obj[q].block # b
  <2>1. \A q \in Object : Live(q) => obj[q].block # b
    BY <1>0, <1>1, <1>3, CacheAssumption DEF Registered
  <2>2. disk[b] = written[b] /\ disk[b] \in Value
    BY <1>0, <2>1 DEF Kept, TypeOK
  <2>3. obj'[o].usecount = 1
    BY <1>4
  <2>4. Live(o)'
    BY <2>3 DEF Live
  <2> QED BY <2>1, <2>2, <2>4
<1>6. Counted'
  <2> SUFFICES ASSUME NEW q \in Object
               PROVE  /\ obj'[q].usecount = Cardinality(Holders(q)')
                      /\ obj'[q].refcount = obj'[q].usecount + (IF \E c \in Block : cached_blocks'[c] = q THEN 1 ELSE 0)
    BY DEF Counted, Holders
  <2>1. Cardinality(Holders(q)') = Cardinality(Holders(q)) + Same(q, o) - Same(q, own[h])
    BY <1>0, <1>1, HoldersChange DEF TypeOK
  <2>2. Same(q, own[h]) = 0
    BY <1>1, CacheAssumption DEF Same
  <2>3. obj[q].usecount = Cardinality(Holders(q)) /\ obj[q].usecount \in Nat /\ obj[q].refcount \in Nat
    BY <1>0 DEF Counted, Holders, TypeOK
  <2>4. CASE q = o
    <3>1. cached_blocks'[b] = o
      BY <1>0, <1>1 DEF TypeOK
    <3> QED BY <1>2, <1>4, <2>1, <2>2, <2>3, <2>4, <3>1 DEF Same
  <2>5. CASE q # o /\ q = old
    <3>1. \A c \in Block : cached_blocks'[c] # q
      BY <1>0, <1>1, <1>3, <2>5, CacheAssumption DEF WeakSound, TypeOK
    <3>2. obj[q].refcount = obj[q].usecount + 1
      BY <1>0, <2>5 DEF Counted
    <3> QED BY <1>4, <2>1, <2>2, <2>3, <2>5, <3>1, <3>2 DEF Same
  <2>6. CASE q # o /\ q # old
    <3>1. (\E c \in Block : cached_blocks'[c] = q) <=> \E c \in Block : cached_blocks[c] = q
      BY <1>0, <1>1, <2>6 DEF TypeOK
    <3>2. obj[q].refcount = obj[q].usecount + (IF \E c \in Block : cached_blocks'[c] = q THEN 1 ELSE 0)
      BY <1>0, <3>1 DEF Counted
    <3>3. obj'[q].usecount = obj[q].usecount /\ obj'[q].refcount = obj[q].refcount
      BY <1>4, <2>6
    <3> QED BY <2>1, <2>2, <2>3, <2>6, <3>2, <3>3 DEF Same
  <2> QED BY <2>4, <2>5, <2>6
<1>7. TypeOK'
  <2>1. own' \in [Owner -> Object \cup {Nothing}] /\ \A g \in Handle : own'[g] = Nothing <=> pc'[g] = "idle"
    BY <1>0, <1>1, CacheAssumption DEF TypeOK, Owner
  <2>2. old # Nothing => obj[old].refcount - 1 \in Nat
    <3> SUFFICES ASSUME old # Nothing PROVE obj[old].refcount - 1 \in Nat
      OBVIOUS
    <3>1. obj[old].refcount = obj[old].usecount + 1
      BY <1>0, <1>3 DEF Counted
    <3>2. obj[old].usecount \in Nat
      BY <1>0, <1>3 DEF TypeOK
    <3> QED BY <3>1, <3>2
  <2>3. obj' \in [Object -> Control]
    <3>1. obj \in [Object -> Control]
      BY <1>0 DEF TypeOK, Control
    <3> SUFFICES ASSUME NEW q \in Object PROVE obj'[q] \in Control
      BY <1>1
    <3>2. CASE q = o
      <4>1. obj'[q] = [block |-> b, data |-> disk[b], modified |-> FALSE, usecount |-> 1, refcount |-> 2]
        BY <1>4, <3>2
      <4>2. disk[b] \in Value
        BY <1>5
      <4> QED BY <4>1, <4>2 DEF Control
    <3>3. CASE q # o
      <4>1. obj'[q] = [obj[q] EXCEPT !.refcount = IF q = old THEN obj[q].refcount - 1 ELSE obj[q].refcount]
        BY <1>1, <3>3
      <4>2. (IF q = old THEN obj[q].refcount - 1 ELSE obj[q].refcount) \in Nat
        BY <1>3, <2>2, <3>1, CacheAssumption DEF Control
      <4> QED BY <3>1, <4>1, <4>2 DEF Control
    <3> QED BY <3>2, <3>3
  <2> QED BY <1>0, <1>1, <2>1, <2>3 DEF TypeOK, Step, Control
<1>8. Registered'
  <2> SUFFICES ASSUME NEW q \in Object, Live(q)'
               PROVE  obj'[q].block \in Block /\ (Open' => cached_blocks'[obj'[q].block] = q)
    BY DEF Registered
  <2>1. \A c \in Block : cached_blocks'[c] = IF c = b THEN o ELSE cached_blocks[c]
    BY <1>0, <1>1 DEF TypeOK
  <2>2. CASE q = o
    BY <1>4, <2>1, <2>2
  <2>3. CASE q # o
    <3>1. Live(q) /\ obj'[q].block = obj[q].block /\ obj[q].block # b
      BY <1>4, <1>5, <2>3
    <3>2. obj[q].block \in Block /\ cached_blocks[obj[q].block] = q
      BY <1>0, <1>1, <3>1 DEF Registered
    <3> QED BY <2>1, <3>1, <3>2
  <2> QED BY <2>2, <2>3
<1>9. OneObject'
  BY <1>0, <1>4, <1>5 DEF OneObject
<1>10. WeakSound'
  <2> SUFFICES ASSUME NEW c \in Block, cached_blocks'[c] # Nothing
               PROVE  /\ obj'[cached_blocks'[c]].usecount > 0 => obj'[cached_blocks'[c]].block = c
                      /\ \A e \in Block : cached_blocks'[e] = cached_blocks'[c] => e = c
    BY DEF WeakSound, Live
  <2>1. \A e \in Block : cached_blocks'[e] = IF e = b THEN o ELSE cached_blocks[e]
    BY <1>0, <1>1 DEF TypeOK
  <2>2. CASE c = b
    BY <1>2, <1>4, <2>1, <2>2
  <2>3. CASE c # b
    <3>1. cached_blocks'[c] = cached_blocks[c] /\ cached_blocks[c] \in Object \ {o}
      BY <1>0, <1>2, <2>1, <2>3 DEF TypeOK
    <3>2. Live(cached_blocks[c]) => obj[cached_blocks[c]].block = c
      BY <1>0, <3>1, CacheAssumption DEF WeakSound
    <3>3. obj'[cached_blocks[c]].usecount > 0 => Live(cached_blocks[c])
      BY <1>4, <3>1 DEF Live
    <3>4. obj'[cached_blocks[c]].block = obj[cached_blocks[c]].block
      BY <1>4, <3>1
    <3>5. \A e \in Block : cached_blocks'[e] = cached_blocks[c] => e = c
      BY <1>0, <1>2, <2>1, <3>1, CacheAssumption DEF WeakSound
    <3> QED BY <3>1, <3>2, <3>3, <3>4, <3>5
  <2> QED BY <2>2, <2>3
<1>11. Marks'
  BY <1>0, <1>1, <1>4, <1>5 DEF Marks
<1>12. Kept'
  BY <1>0, <1>1, <1>2, <1>4, <1>5 DEF Kept
<1>13. MarkedFirst'
  <2>1. \A g \in Handle : own[g] # o
    BY <1>0, <1>1, LiveHeld DEF Owner
  <2> QED BY <1>0, <1>1, <1>4, <2>1 DEF MarkedFirst, TypeOK, Owner
<1>14. Gone'
  BY <1>1 DEF Gone, Open
<1> QED BY <1>6, <1>7, <1>8, <1>9, <1>10, <1>11, <1>12, <1>13, <1>14 DEF Inv

LEMMA CacheKeeps ==
  ASSUME NEW h \in Handle, Inv, Cache(h)
  PROVE  Inv'
<1>0. TypeOK /\ MarkedFirst /\ Gone /\ Counted
  BY DEF Inv
<1>1. /\ own[h] \in Object /\ Live(own[h])
      /\ index \in Owner /\ index \in Slot /\ index \notin Handle
  BY <1>0, LiveHeld, CacheAssumption DEF Cache, TypeOK, Owner
<1>2. /\ Assign(index, own[h]) /\ UNCHANGED <<phase, cached_blocks, write, written>>
      /\ pc[h] = "caching" /\ pc' = [pc EXCEPT ![h] = IF write[h] THEN "marking" ELSE "held"]
      /\ index' = Wrapped(index + 1) /\ own' = [own EXCEPT ![index] = own[h]]
  BY DEF Cache, Assign
<1>3. /\ disk' \in [Block -> Value] /\ obj' \in [Object -> [block : Block \cup {Nothing},
             data : Value \cup {Nothing}, modified : BOOLEAN, usecount : Nat, refcount : Nat]]
      /\ modified_map' \subseteq Block /\ own' \in [Owner -> Object \cup {Nothing}]
      /\ Counted' /\ Registered' /\ OneObject' /\ WeakSound' /\ Marks' /\ Kept'
      /\ \A v \in Owner \ {index} : own[v] # Nothing /\ obj[own[v]].block \in modified_map
           => obj'[own'[v]].block \in modified_map'
  BY <1>1, <1>2, AssignKeeps
<1>4. index' \in Slot
  BY <1>0, <1>2, CacheAssumption DEF TypeOK, Slot, Wrapped
<1>5. TypeOK'
  <2>1. \A g \in Handle : own'[g] = own[g]
    BY <1>0, <1>1, <1>2 DEF TypeOK, Owner
  <2>2. pc' \in [Handle -> Step] /\ \A g \in Handle : own'[g] = Nothing <=> pc'[g] = "idle"
    BY <1>0, <1>2, <2>1 DEF TypeOK, Step
  <2> QED BY <1>0, <1>2, <1>3, <1>4, <2>2 DEF TypeOK
<1>6. MarkedFirst'
  <2> SUFFICES ASSUME NEW g \in Handle, phase = "mounted", pc'[g] = "held", write[g]
               PROVE  obj'[own'[g]].block \in modified_map'
    BY <1>2 DEF MarkedFirst
  <2>1. pc[g] = "held" /\ own[g] # Nothing /\ g \in Owner \ {index}
    BY <1>0, <1>1, <1>2 DEF TypeOK, Owner
  <2> QED BY <1>0, <1>3, <2>1 DEF MarkedFirst
<1>7. Gone'
  BY <1>0, <1>1, <1>2, CacheAssumption DEF Gone, Owner
<1> QED BY <1>3, <1>5, <1>6, <1>7 DEF Inv

LEMMA DropKeeps ==
  ASSUME NEW h \in Handle, Inv, Drop(h)
  PROVE  Inv'
<1>0. TypeOK /\ MarkedFirst /\ Gone
  BY DEF Inv
<1>1. h \in Owner
  BY DEF Owner
<1>2. /\ Assign(h, Nothing) /\ UNCHANGED <<phase, cached_blocks, index, written>> /\ phase # "unmounted"
      /\ pc' = [pc EXCEPT ![h] = "idle"] /\ write' = [write EXCEPT ![h] = FALSE]
      /\ own' = [own EXCEPT ![h] = Nothing]
  BY DEF Drop, Assign
<1>3. /\ disk' \in [Block -> Value] /\ obj' \in [Object -> [block : Block \cup {Nothing},
             data : Value \cup {Nothing}, modified : BOOLEAN, usecount : Nat, refcount : Nat]]
      /\ modified_map' \subseteq Block /\ own' \in [Owner -> Object \cup {Nothing}]
      /\ Counted' /\ Registered' /\ OneObject' /\ WeakSound' /\ Marks' /\ Kept'
      /\ \A v \in Owner \ {h} : own[v] # Nothing /\ obj[own[v]].block \in modified_map
           => obj'[own'[v]].block \in modified_map'
  BY <1>1, <1>2, AssignKeeps
<1>4. TypeOK'
  <2>1. pc' \in [Handle -> Step] /\ \A g \in Handle : own'[g] = Nothing <=> pc'[g] = "idle"
    BY <1>0, <1>1, <1>2 DEF TypeOK, Step, Owner
  <2> QED BY <1>0, <1>2, <1>3, <2>1 DEF TypeOK
<1>5. MarkedFirst'
  <2> SUFFICES ASSUME NEW g \in Handle, phase = "mounted", pc'[g] = "held", write'[g]
               PROVE  obj'[own'[g]].block \in modified_map'
    BY <1>2 DEF MarkedFirst
  <2>1. pc[g] = "held" /\ write[g] /\ own[g] # Nothing /\ g \in Owner \ {h}
    BY <1>0, <1>2 DEF TypeOK, Owner
  <2> QED BY <1>0, <1>3, <2>1 DEF MarkedFirst
<1>6. Gone'
  BY <1>2 DEF Gone
<1> QED BY <1>3, <1>4, <1>5, <1>6 DEF Inv

LEMMA ResetKeeps ==
  ASSUME NEW i \in Slot, Inv, Reset(i)
  PROVE  Inv'
<1>0. TypeOK
  BY DEF Inv
<1>1. i \in Owner /\ i \notin Handle
  BY CacheAssumption DEF Owner
<1>2. /\ Assign(i, Nothing) /\ UNCHANGED <<phase, cached_blocks, index, pc, write, written>> /\ phase = "groups"
      /\ own' = [own EXCEPT ![i] = Nothing]
  BY DEF Reset, Assign
<1>3. /\ disk' \in [Block -> Value] /\ obj' \in [Object -> [block : Block \cup {Nothing},
             data : Value \cup {Nothing}, modified : BOOLEAN, usecount : Nat, refcount : Nat]]
      /\ modified_map' \subseteq Block /\ own' \in [Owner -> Object \cup {Nothing}]
      /\ Counted' /\ Registered' /\ OneObject' /\ WeakSound' /\ Marks' /\ Kept'
  BY <1>1, <1>2, AssignKeeps
<1>4. TypeOK'
  <2>1. \A g \in Handle : own'[g] = own[g]
    BY <1>0, <1>1, <1>2 DEF TypeOK, Owner
  <2> QED BY <1>0, <1>2, <1>3, <2>1 DEF TypeOK
<1>5. MarkedFirst' /\ Gone'
  BY <1>2 DEF MarkedFirst, Gone
<1> QED BY <1>3, <1>4, <1>5 DEF Inv

\* These change no object.
LEMMA MarkKeeps ==
  ASSUME NEW h \in Handle, Inv, Mark(h)
  PROVE  Inv'
<1>0. TypeOK /\ Counted /\ Registered /\ OneObject /\ WeakSound /\ Marks /\ Kept /\ MarkedFirst /\ Gone
  BY DEF Inv
<1>1. /\ pc[h] = "marking" /\ modified_map' = modified_map \cup {obj[own[h]].block}
      /\ pc' = [pc EXCEPT ![h] = "held"]
      /\ UNCHANGED <<phase, disk, obj, cached_blocks, own, index, write, written>>
  BY DEF Mark
<1>2. obj[own[h]].block \in Block
  BY <1>0, <1>1, LiveHeld DEF TypeOK, Owner, Registered
<1>3. TypeOK'
  BY <1>0, <1>1, <1>2 DEF TypeOK, Step
<1>4. Counted' /\ Registered' /\ OneObject' /\ WeakSound' /\ Kept' /\ Gone'
  BY <1>0, <1>1 DEF Counted, Registered, OneObject, WeakSound, Kept, Gone, Open, Live
<1>5. Marks'
  BY <1>0, <1>1 DEF Marks, Saves, Live
<1>6. MarkedFirst'
  BY <1>0, <1>1 DEF MarkedFirst, TypeOK
<1> QED BY <1>3, <1>4, <1>5, <1>6 DEF Inv

LEMMA StageKeeps ==
  ASSUME Inv, Unmount \/ WrittenBack \/ Unmounted
  PROVE  Inv'
<1>0. TypeOK /\ Counted /\ Registered /\ OneObject /\ WeakSound /\ Marks /\ Kept /\ MarkedFirst /\ Gone
  BY DEF Inv
<1>1. /\ UNCHANGED <<disk, obj, cached_blocks, modified_map, own, index, pc, write, written>>
      /\ phase' \in {"write_back", "nodes", "unmounted"} /\ (Open' => Open)
      /\ phase' = "unmounted" => \A w \in Owner : own[w] = Nothing
  BY DEF Unmount, WrittenBack, Unmounted, Open
<1>2. TypeOK' /\ Gone' /\ MarkedFirst'
  BY <1>0, <1>1 DEF TypeOK, Gone, MarkedFirst, Phase
<1>3. Registered'
  BY <1>0, <1>1 DEF Registered, Live
<1>4. Counted' /\ OneObject' /\ WeakSound' /\ Marks' /\ Kept'
  <2>1. Counted' /\ OneObject'
    BY <1>0, <1>1 DEF Counted, OneObject, Live
  <2>2. WeakSound'
    BY <1>0, <1>1 DEF WeakSound, Live
  <2>3. Marks'
    BY <1>0, <1>1 DEF Marks, Live, Saves
  <2>4. Kept'
    BY <1>0, <1>1 DEF Kept, Live
  <2> QED BY <2>1, <2>2, <2>3, <2>4
<1> QED BY <1>2, <1>3, <1>4 DEF Inv

LEMMA MountKeeps ==
  ASSUME Inv, Mount
  PROVE  Inv'
<1>0. TypeOK /\ Counted /\ Registered /\ OneObject /\ WeakSound /\ Marks /\ Kept /\ MarkedFirst /\ Gone
  BY DEF Inv
<1>1. /\ phase = "unmounted" /\ phase' = "mounted" /\ modified_map' = {} /\ index' = 0
      /\ UNCHANGED <<disk, obj, cached_blocks, own, pc, write, written>>
  BY DEF Mount
<1>2. \A o \in Object : ~Live(o)
  BY <1>0, <1>1, LiveHeld, CacheAssumption DEF Gone
<1>3. \A h \in Handle : pc[h] = "idle"
  BY <1>0, <1>1 DEF Gone, TypeOK, Owner
<1>4. TypeOK'
  BY <1>0, <1>1, CacheAssumption DEF TypeOK, Phase, Slot
<1>5. Registered' /\ OneObject' /\ Marks'
  BY <1>1, <1>2 DEF Registered, OneObject, Marks, Live
<1>6. Counted' /\ WeakSound' /\ Kept'
  <2>1. Counted'
    BY <1>0, <1>1 DEF Counted
  <2>2. WeakSound'
    BY <1>0, <1>1 DEF WeakSound, Live
  <2>3. Kept'
    BY <1>0, <1>1 DEF Kept, Live
  <2> QED BY <2>1, <2>2, <2>3
<1>7. MarkedFirst' /\ Gone'
  BY <1>1, <1>3 DEF MarkedFirst, Gone
<1> QED BY <1>4, <1>5, <1>6, <1>7 DEF Inv

LEMMA WriteKeeps ==
  ASSUME NEW h \in Handle, NEW v \in Value, Inv, Write(h, v)
  PROVE  Inv'
<1>0. TypeOK /\ Counted /\ Registered /\ OneObject /\ WeakSound /\ Marks /\ Kept /\ MarkedFirst /\ Gone
  BY DEF Inv
<1>a. PICK o : o = own[h]
  OBVIOUS
<1>b. PICK b : b = obj[o].block
  OBVIOUS
<1>1. PICK flag \in BOOLEAN, map \in BOOLEAN :
      /\ flag \/ map \/ write[h]
      /\ obj' = [obj EXCEPT ![o].data = v, ![o].modified = @ \/ flag]
      /\ modified_map' = IF map THEN modified_map \cup {b} ELSE modified_map
  BY <1>a, <1>b DEF Write
<1>2. /\ phase = "mounted" /\ pc[h] = "held"
      /\ written' = [written EXCEPT ![b] = v]
      /\ UNCHANGED <<phase, disk, cached_blocks, own, index, pc, write>>
  BY <1>a, <1>b DEF Write
<1>3. o \in Object /\ Live(o) /\ b \in Block
  BY <1>0, <1>2, <1>a, <1>b, LiveHeld DEF TypeOK, Owner, Registered
<1>4. \A q \in Object : /\ obj'[q].block = obj[q].block /\ obj'[q].usecount = obj[q].usecount
                         /\ obj'[q].refcount = obj[q].refcount /\ (Live(q)' <=> Live(q))
  BY <1>0, <1>1, <1>3 DEF TypeOK, Live
<1>c. \A q \in Object : q # o => /\ obj'[q].data = obj[q].data /\ obj'[q].modified = obj[q].modified
  BY <1>0, <1>1, <1>3 DEF TypeOK
<1>d. obj'[o].data = v /\ (flag => obj'[o].modified) /\ (obj[o].modified => obj'[o].modified)
  BY <1>0, <1>1, <1>3 DEF TypeOK
<1>5. TypeOK'
  <2>1. obj' \in [Object -> Control]
    <3>1. obj \in [Object -> Control]
      BY <1>0 DEF TypeOK, Control
    <3>2. [obj[o] EXCEPT !.data = v, !.modified = @ \/ flag] \in Control
      BY <1>3, <3>1 DEF Control
    <3>3. obj' = [obj EXCEPT ![o] = [obj[o] EXCEPT !.data = v, !.modified = @ \/ flag]]
      BY <1>1, <1>3, <3>1 DEF Control
    <3> QED BY <1>3, <3>1, <3>2, <3>3
  <2> QED BY <1>0, <1>1, <1>2, <1>3, <2>1 DEF TypeOK, Control
<1>6. Counted'
  BY <1>0, <1>2, <1>4 DEF Counted
<1>7. Registered'
  BY <1>0, <1>2, <1>4 DEF Registered, Open
<1>8. OneObject'
  BY <1>0, <1>4 DEF OneObject
<1>9. WeakSound'
  <2>1. \A c \in Block : cached_blocks[c] # Nothing => cached_blocks[c] \in Object
    BY <1>0 DEF TypeOK
  <2> QED BY <1>0, <1>2, <1>4, <2>1 DEF WeakSound
<1>10. b \in modified_map' \/ obj'[o].modified
  <2>1. write[h] => b \in modified_map
    BY <1>0, <1>2, <1>a, <1>b DEF MarkedFirst
  <2> QED BY <1>1, <1>d, <2>1
<1>11. Marks'
  <2> SUFFICES ASSUME NEW q \in Object, Live(q)'
               PROVE  /\ obj'[q].data = written'[obj'[q].block]
                      /\ obj'[q].data # disk[obj'[q].block] => Saves(q)'
    BY <1>2 DEF Marks
  <2>0. obj'[q].block = obj[q].block /\ Live(q)
    BY <1>4
  <2>1. CASE q = o
    <3>1. written'[b] = v
      BY <1>0, <1>2, <1>3 DEF TypeOK
    <3> QED BY <1>b, <1>d, <1>10, <2>0, <2>1, <3>1 DEF Saves
  <2>2. CASE q # o
    <3>1. obj[q].block # b /\ obj[q].block \in Block
      BY <1>0, <1>3, <1>b, <2>0, <2>2 DEF OneObject, Registered
    <3>2. written'[obj[q].block] = written[obj[q].block]
      BY <1>0, <1>2, <3>1 DEF TypeOK
    <3>3. modified_map \subseteq modified_map'
      BY <1>1
    <3>4. obj'[q].data = obj[q].data /\ obj'[q].modified = obj[q].modified
      BY <1>c, <2>2
    <3>5. Saves(q) => Saves(q)'
      BY <2>0, <3>3, <3>4 DEF Saves
    <3>6. obj[q].data = written[obj[q].block] /\ (obj[q].data # disk[obj[q].block] => Saves(q))
      BY <1>0, <2>0 DEF Marks
    <3> QED BY <2>0, <3>2, <3>4, <3>5, <3>6
  <2> QED BY <2>1, <2>2
<1>12. Kept'
  <2> SUFFICES ASSUME NEW c \in Block
               PROVE  disk[c] = written'[c] \/ \E q \in Object : Live(q)' /\ obj'[q].block = c
    BY <1>2 DEF Kept
  <2>1. CASE c = b
    <3>1. o \in Object /\ Live(o)' /\ obj'[o].block = c
      BY <1>3, <1>4, <1>b, <2>1
    <3> QED BY <3>1
  <2>2. CASE c # b
    <3>1. written'[c] = written[c]
      BY <1>0, <1>2, <2>2 DEF TypeOK
    <3>2. \A q \in Object : Live(q) /\ obj[q].block = c => Live(q)' /\ obj'[q].block = c
      BY <1>4
    <3> QED BY <1>0, <3>1, <3>2 DEF Kept
  <2> QED BY <2>1, <2>2
<1>13. MarkedFirst'
  <2> SUFFICES ASSUME NEW g \in Handle, pc[g] = "held", write[g]
               PROVE  obj'[own[g]].block \in modified_map'
    BY <1>2 DEF MarkedFirst
  <2>1. obj[own[g]].block \in modified_map
    BY <1>0, <1>2 DEF MarkedFirst
  <2>2. own[g] \in Object
    BY <1>0, LiveHeld DEF TypeOK, Owner
  <2>3. obj'[own[g]].block = obj[own[g]].block
    BY <1>4, <2>2
  <2> QED BY <1>1, <2>1, <2>3
<1>14. Gone'
  BY <1>2 DEF Gone
<1> QED BY <1>5, <1>6, <1>7, <1>8, <1>9, <1>11, <1>12, <1>13, <1>14 DEF Inv

LEMMA CommitKeeps ==
  ASSUME Inv, Commit
  PROVE  Inv'
<1>0. TypeOK /\ Counted /\ Registered /\ OneObject /\ WeakSound /\ Marks /\ Kept
  BY DEF Inv
<1>1. PICK o : o = own[Unmounter]
  OBVIOUS
<1>2. PICK b : b = obj[o].block
  OBVIOUS
<1>3. /\ phase = "write_back" /\ pc[Unmounter] = "held" /\ Unmounter \in Owner
      /\ disk' = [disk EXCEPT ![b] = obj[o].data]
      /\ modified_map' = modified_map \ {b}
      /\ obj' = [obj EXCEPT ![o].modified = FALSE, ![o].usecount = @ - 1, ![o].refcount = @ - 1]
      /\ own' = [own EXCEPT ![Unmounter] = Nothing]
      /\ pc' = [pc EXCEPT ![Unmounter] = "idle"]
      /\ UNCHANGED <<phase, cached_blocks, index, write, written>>
  BY <1>1, <1>2, CacheAssumption DEF Commit, Owner
<1>4. o \in Object /\ Live(o) /\ b \in Block /\ obj[o].data = written[b] /\ obj[o].data \in Value
  <2>1. o \in Object /\ Live(o) /\ b \in Block
    BY <1>0, <1>1, <1>2, <1>3, LiveHeld, CacheAssumption DEF TypeOK, Registered
  <2> QED BY <1>0, <1>2, <2>1 DEF Marks, TypeOK
<1>5. \A q \in Object : /\ obj'[q].block = obj[q].block /\ obj'[q].data = obj[q].data
                         /\ obj'[q].usecount = obj[q].usecount - Same(q, o)
                         /\ obj'[q].refcount = obj[q].refcount - Same(q, o)
  <2>1. \A q \in Object : obj[q].usecount \in Nat /\ obj[q].refcount \in Nat
    BY <1>0 DEF TypeOK
  <2> QED BY <1>0, <1>3, <1>4, <2>1 DEF TypeOK, Same
<1>a. \A q \in Object : q # o => obj'[q] = obj[q]
  BY <1>0, <1>3, <1>4 DEF TypeOK
<1>6. obj[o].usecount - 1 \in Nat /\ obj[o].refcount - 1 \in Nat
  <2>1. obj[o].usecount \in Nat /\ obj[o].usecount > 0
    BY <1>0, <1>4 DEF TypeOK, Live
  <2>2. obj[o].refcount = obj[o].usecount + (IF \E c \in Block : cached_blocks[c] = o THEN 1 ELSE 0)
    BY <1>0, <1>4 DEF Counted
  <2> QED BY <2>1, <2>2
<1>7. \A q \in Object : (Live(q)' => Live(q)) /\ (q # o => (Live(q)' <=> Live(q)))
  BY <1>4, <1>a DEF Live
<1>8. TypeOK'
  <2>1. own' \in [Owner -> Object \cup {Nothing}] /\ \A g \in Handle : own'[g] = Nothing <=> pc'[g] = "idle"
    BY <1>0, <1>3, CacheAssumption DEF TypeOK, Owner
  <2>2. obj' \in [Object -> Control]
    <3>1. obj \in [Object -> Control]
      BY <1>0 DEF TypeOK, Control
    <3>2. [obj[o] EXCEPT !.modified = FALSE, !.usecount = @ - 1, !.refcount = @ - 1] \in Control
      BY <1>4, <1>6, <3>1 DEF Control
    <3>3. obj' = [obj EXCEPT ![o] = [obj[o] EXCEPT !.modified = FALSE, !.usecount = @ - 1, !.refcount = @ - 1]]
      BY <1>3, <1>4, <3>1 DEF Control
    <3> QED BY <1>4, <3>1, <3>2, <3>3
  <2>3. disk' \in [Block -> Value] /\ pc' \in [Handle -> Step]
    BY <1>0, <1>3, <1>4 DEF TypeOK, Step
  <2> QED BY <1>0, <1>3, <2>1, <2>2, <2>3 DEF TypeOK, Control
<1>9. Counted'
  <2> SUFFICES ASSUME NEW q \in Object
               PROVE  /\ obj'[q].usecount = Cardinality(Holders(q)')
                      /\ obj'[q].refcount = obj'[q].usecount + (IF \E c \in Block : cached_blocks'[c] = q THEN 1 ELSE 0)
    BY DEF Counted, Holders
  <2>1. Cardinality(Holders(q)') = Cardinality(Holders(q)) + Same(q, Nothing) - Same(q, own[Unmounter])
    BY <1>0, <1>3, HoldersChange DEF TypeOK
  <2>2. Same(q, Nothing) = 0 /\ Same(q, o) \in {0, 1}
    BY CacheAssumption DEF Same
  <2>3. obj[q].usecount = Cardinality(Holders(q)) /\ obj[q].usecount \in Nat
        /\ obj[q].refcount = obj[q].usecount + (IF \E c \in Block : cached_blocks'[c] = q THEN 1 ELSE 0)
    BY <1>0, <1>3 DEF Counted, Holders, TypeOK
  <2>4. obj'[q].usecount = obj[q].usecount - Same(q, o) /\ obj'[q].refcount = obj[q].refcount - Same(q, o)
    BY <1>5
  <2> QED BY <1>1, <2>1, <2>2, <2>3, <2>4
<1>10. Registered'
  BY <1>0, <1>3, <1>5, <1>7 DEF Registered, Open
<1>11. OneObject'
  BY <1>0, <1>5, <1>7 DEF OneObject
<1>12. WeakSound'
  <2> SUFFICES ASSUME NEW c \in Block, cached_blocks[c] # Nothing
               PROVE  /\ obj'[cached_blocks[c]].usecount > 0 => obj'[cached_blocks[c]].block = c
                      /\ \A e \in Block : cached_blocks[e] = cached_blocks[c] => e = c
    BY <1>3 DEF WeakSound, Live
  <2>1. cached_blocks[c] \in Object
    BY <1>0 DEF TypeOK
  <2>2. Live(cached_blocks[c]) => obj[cached_blocks[c]].block = c
    BY <1>0 DEF WeakSound
  <2>3. \A e \in Block : cached_blocks[e] = cached_blocks[c] => e = c
    BY <1>0 DEF WeakSound
  <2>4. obj'[cached_blocks[c]].usecount > 0 => Live(cached_blocks[c])
    BY <1>7, <2>1 DEF Live
  <2>5. obj'[cached_blocks[c]].block = obj[cached_blocks[c]].block
    BY <1>5, <2>1
  <2> QED BY <2>2, <2>3, <2>4, <2>5
<1>13. disk'[b] = written[b] /\ \A c \in Block \ {b} : disk'[c] = disk[c]
  BY <1>0, <1>3, <1>4 DEF TypeOK
<1>14. Marks'
  <2> SUFFICES ASSUME NEW q \in Object, Live(q)'
               PROVE  /\ obj'[q].data = written[obj'[q].block]
                      /\ obj'[q].data # disk'[obj'[q].block] => Saves(q)'
    BY <1>3 DEF Marks
  <2>1. CASE q = o
    <3>1. obj'[q].data = obj[o].data /\ obj'[q].block = b
      BY <1>2, <1>5, <2>1
    <3> QED BY <1>4, <1>13, <3>1
  <2>2. CASE q # o
    <3>1. obj'[q] = obj[q] /\ Live(q)
      BY <1>7, <1>a, <2>2
    <3>2. obj[q].block \in Block \ {b}
      BY <1>0, <1>2, <1>4, <2>2, <3>1 DEF OneObject, Registered
    <3>3. obj[q].block \in modified_map => obj[q].block \in modified_map'
      BY <1>3, <3>2
    <3>4. Saves(q) => Saves(q)'
      BY <3>1, <3>3 DEF Saves
    <3>5. obj[q].data = written[obj[q].block] /\ (obj[q].data # disk[obj[q].block] => Saves(q))
      BY <1>0, <3>1 DEF Marks
    <3> QED BY <1>13, <3>1, <3>2, <3>4, <3>5
  <2> QED BY <2>1, <2>2
<1>15. Kept'
  <2> SUFFICES ASSUME NEW c \in Block
               PROVE  disk'[c] = written[c] \/ \E q \in Object : Live(q)' /\ obj'[q].block = c
    BY <1>3 DEF Kept
  <2>0. CASE c = b
    BY <1>13, <2>0
  <2>1. CASE c # b
    <3>1. \A q \in Object : Live(q) /\ obj[q].block = c => Live(q)' /\ obj'[q].block = c
      BY <1>2, <1>5, <1>7, <2>1
    <3>2. disk'[c] = disk[c]
      BY <1>13, <2>1
    <3> QED BY <1>0, <3>1, <3>2 DEF Kept
  <2> QED BY <2>0, <2>1
<1>16. MarkedFirst' /\ Gone'
  BY <1>3 DEF MarkedFirst, Gone
<1> QED BY <1>8, <1>9, <1>10, <1>11, <1>12, <1>14, <1>15, <1>16 DEF Inv

LEMMA ClearKeeps ==
  ASSUME Inv, Clear
  PROVE  Inv'
<1>0. TypeOK /\ Counted /\ Registered /\ OneObject /\ WeakSound /\ Marks /\ Kept
  BY DEF Inv
<1>1. /\ phase = "nodes" /\ phase' = "groups" /\ cached_blocks' = [b \in Block |-> Nothing]
      /\ obj' = [o \in Object |->
           [obj[o] EXCEPT !.refcount = WeakRelease(@, \E b \in Block : cached_blocks[b] = o)]]
      /\ UNCHANGED <<disk, modified_map, own, index, pc, write, written>>
  BY DEF Clear
<1>2. ASSUME NEW o \in Object
      PROVE  /\ obj'[o].block = obj[o].block /\ obj'[o].data = obj[o].data
             /\ obj'[o].modified = obj[o].modified /\ obj'[o].usecount = obj[o].usecount
             /\ obj'[o].refcount = obj[o].usecount /\ obj'[o] \in Control
  <2>1. obj[o] \in Control /\ obj[o].usecount \in Nat
    BY <1>0 DEF TypeOK, Control
  <2>2. obj[o].refcount = obj[o].usecount + (IF \E b \in Block : cached_blocks[b] = o THEN 1 ELSE 0)
    BY <1>0 DEF Counted
  <2>3. PICK r : r = WeakRelease(obj[o].refcount, \E b \in Block : cached_blocks[b] = o)
    OBVIOUS
  <2>4. r = obj[o].usecount
    <3>1. CASE \E b \in Block : cached_blocks[b] = o
      BY <2>1, <2>2, <2>3, <3>1 DEF WeakRelease
    <3>2. CASE ~\E b \in Block : cached_blocks[b] = o
      BY <2>1, <2>2, <2>3, <3>2 DEF WeakRelease
    <3> QED BY <3>1, <3>2
  <2>5. obj'[o] = [obj[o] EXCEPT !.refcount = r]
    BY <1>1, <2>3
  <2> QED BY <2>1, <2>4, <2>5 DEF Control
<1>3. ASSUME NEW o \in Object PROVE (Live(o)' <=> Live(o)) /\ (Saves(o)' <=> Saves(o))
  <2>1. /\ obj'[o].block = obj[o].block /\ obj'[o].modified = obj[o].modified
        /\ obj'[o].usecount = obj[o].usecount /\ modified_map' = modified_map
    BY <1>1, <1>2
  <2>2. Live(o)' <=> Live(o)
    BY <2>1 DEF Live
  <2>3. Saves(o)' <=> Saves(o)
    BY <2>1 DEF Saves
  <2> QED BY <2>2, <2>3
<1>4. TypeOK'
  <2>1. obj' \in [Object -> Control]
    <3>1. \A o \in Object : obj'[o] \in Control
      BY <1>2
    <3>2. obj' = [o \in Object |-> obj'[o]]
      BY <1>1
    <3> QED BY <3>1, <3>2
  <2>2. cached_blocks' \in [Block -> Object \cup {Nothing}]
    BY <1>1
  <2> QED BY <1>0, <1>1, <2>1, <2>2 DEF TypeOK, Control, Phase
<1>5. Counted'
  <2> SUFFICES ASSUME NEW q \in Object
               PROVE  /\ obj'[q].usecount = Cardinality({w \in Owner : own'[w] = q})
                      /\ obj'[q].refcount = obj'[q].usecount + (IF \E c \in Block : cached_blocks'[c] = q THEN 1 ELSE 0)
    BY DEF Counted
  <2>1. obj'[q].usecount = obj[q].usecount /\ obj'[q].refcount = obj[q].usecount
    BY <1>2
  <2>2. obj[q].usecount = Cardinality({w \in Owner : own[w] = q}) /\ obj[q].usecount \in Nat
    BY <1>0 DEF Counted, TypeOK
  <2>3. ~\E c \in Block : cached_blocks'[c] = q
    BY <1>1, CacheAssumption
  <2> QED BY <1>1, <2>1, <2>2, <2>3
<1>6. Registered' /\ OneObject' /\ WeakSound'
  <2>1. Registered'
    BY <1>0, <1>1, <1>2, <1>3 DEF Registered, Open
  <2>2. OneObject'
    BY <1>0, <1>2, <1>3 DEF OneObject
  <2>3. WeakSound'
    BY <1>1 DEF WeakSound
  <2> QED BY <2>1, <2>2, <2>3
<1>7. Marks'
  BY <1>0, <1>1, <1>2, <1>3, ZenonT(60) DEF Marks
<1>8. Kept'
  <2> SUFFICES ASSUME NEW c \in Block
               PROVE  disk[c] = written[c] \/ \E q \in Object : Live(q)' /\ obj'[q].block = c
    BY <1>1 DEF Kept
  <2>1. \A q \in Object : Live(q) /\ obj[q].block = c => Live(q)' /\ obj'[q].block = c
    BY <1>2, <1>3
  <2> QED BY <1>0, <2>1 DEF Kept
<1>9. MarkedFirst' /\ Gone'
  BY <1>1 DEF MarkedFirst, Gone
<1> QED BY <1>4, <1>5, <1>6, <1>7, <1>8, <1>9 DEF Inv

-----------------------------------------------------------------------------
LEMMA InitInv == Init => Inv
<1> SUFFICES ASSUME Init PROVE Inv
  OBVIOUS
<1>1. TypeOK
  <2>1. Dead \in Control
    BY DEF Dead, Control
  <2>2. obj \in [Object -> Control]
    BY <2>1 DEF Init
  <2>3. 0 \in Slot /\ Handle \subseteq Owner
    BY CacheAssumption DEF Slot, Owner
  <2> QED BY <2>2, <2>3 DEF Init, TypeOK, Control, Phase, Step, Owner
<1>2. \A o \in Object : obj[o].usecount = 0 /\ obj[o].refcount = 0 /\ ~Live(o)
  BY DEF Init, Dead, Live
<1>3. Counted
  <2> SUFFICES ASSUME NEW o \in Object
               PROVE  /\ obj[o].usecount = Cardinality({w \in Owner : own[w] = o})
                      /\ obj[o].refcount = obj[o].usecount + (IF \E c \in Block : cached_blocks[c] = o THEN 1 ELSE 0)
    BY DEF Counted
  <2>1. {w \in Owner : own[w] = o} = {}
    BY CacheAssumption DEF Init
  <2>2. ~\E c \in Block : cached_blocks[c] = o
    BY CacheAssumption DEF Init
  <2>3. Cardinality({w \in Owner : own[w] = o}) = 0
    BY <2>1, FS_EmptySet
  <2> QED BY <1>2, <2>2, <2>3
<1>4. Registered /\ OneObject /\ Marks
  BY <1>2 DEF Registered, OneObject, Marks
<1>5. WeakSound /\ Kept /\ MarkedFirst /\ Gone
  BY DEF Init, WeakSound, Kept, MarkedFirst, Gone
<1> QED BY <1>1, <1>3, <1>4, <1>5 DEF Inv

LEMMA InvNext == Inv /\ [Next]_vars => Inv'
<1> SUFFICES ASSUME Inv, [Next]_vars PROVE Inv'
  OBVIOUS
<1>1. ASSUME NEW h \in Handle, NEW b \in Block, NEW w \in BOOLEAN, Lookup(h, b, w) PROVE Inv'
  <2>1. Find(h, b) \/ Read(h, b)
    BY <1>1 DEF Lookup
  <2> QED BY <1>1, <2>1, FindKeeps, ReadKeeps
<1>2. ASSUME NEW h \in Handle, Cache(h) \/ Mark(h) \/ Drop(h) PROVE Inv'
  BY <1>2, CacheKeeps, MarkKeeps, DropKeeps
<1>3. ASSUME NEW h \in Handle, NEW v \in Value, Write(h, v) PROVE Inv'
  BY <1>3, WriteKeeps
<1>4. CASE Unmount \/ WrittenBack \/ Unmounted
  BY <1>4, StageKeeps
<1>5. CASE Commit
  BY <1>5, CommitKeeps
<1>6. CASE Clear
  BY <1>6, ClearKeeps
<1>7. CASE Mount
  BY <1>7, MountKeeps
<1>8. ASSUME NEW i \in Slot, Reset(i) PROVE Inv'
  BY <1>8, ResetKeeps
<1>9. CASE UNCHANGED vars
  <2>a. TypeOK'
    BY <1>9 DEF vars, Inv, TypeOK
  <2>b. Counted'
    BY <1>9 DEF vars, Inv, Counted
  <2>c. Gone'
    BY <1>9 DEF vars, Inv, Gone
  <2>2. Registered' /\ OneObject'
    BY <1>9 DEF vars, Inv, Registered, OneObject, Open, Live
  <2>3. WeakSound'
    BY <1>9 DEF vars, Inv, WeakSound, Live
  <2>4. Marks'
    BY <1>9 DEF vars, Inv, Marks, Live, Saves
  <2>5. Kept' /\ MarkedFirst'
    BY <1>9 DEF vars, Inv, Kept, MarkedFirst, Live
  <2> QED BY <2>a, <2>b, <2>c, <2>2, <2>3, <2>4, <2>5 DEF Inv
<1> QED BY <1>1, <1>2, <1>3, <1>4, <1>5, <1>6, <1>7, <1>8, <1>9 DEF Next

\* The fields have their types and a handle points at a block exactly outside
\* its idle state (EXT2_detail.cpp, get_block and cache_block).
THEOREM TypeCorrect == Spec => []TypeOK
<1>1. Inv => TypeOK
  BY DEF Inv
<1> QED BY InitInv, InvNext, <1>1, PTL DEF Spec

\* Reference counts are exact for any number of blocks, pointers and slots
\* (shared_ptr_control.cpp, shared_ptr.hpp, weak_ptr.hpp, shared_ptr_cache.hpp).
THEOREM CountedAlways == Spec => []Counted
<1>1. Inv => Counted
  BY DEF Inv
<1> QED BY InitInv, InvNext, <1>1, PTL DEF Spec

LEMMA InvCoherent == Inv => Coherent
<1> SUFFICES ASSUME Inv PROVE Coherent
  OBVIOUS
<1>0. TypeOK /\ Marks /\ Kept
  BY DEF Inv
<1>1. ASSUME NEW b \in Block PROVE Content[b] = written[b]
  <2>1. CASE \E o \in Object : Live(o) /\ obj[o].block = b
    <3>1. PICK o \in Object : o = CHOOSE p \in Object : Live(p) /\ obj[p].block = b
      BY <2>1
    <3>2. Live(o) /\ obj[o].block = b
      BY <2>1, <3>1
    <3>3. Content[b] = obj[o].data
      BY <2>1, <3>1 DEF Content
    <3> QED BY <1>0, <3>2, <3>3 DEF Marks
  <2>2. CASE ~\E o \in Object : Live(o) /\ obj[o].block = b
    BY <1>0, <2>2 DEF Content, Kept
  <2> QED BY <2>1, <2>2
<1>2. Content = [b \in Block |-> Content[b]] /\ written = [b \in Block |-> written[b]]
  BY <1>0 DEF Content, TypeOK
<1> QED BY <1>1, <1>2 DEF Coherent

\* What get_block returns is what was last written, however blocks were
\* evicted, saved and read again in between (EXT2_detail.cpp).
THEOREM CoherentAlways == Spec => []Coherent
BY InitInv, InvNext, InvCoherent, PTL DEF Spec

-----------------------------------------------------------------------------
(* Every step is a step of BlockStore, or none.                            *)

\* What Assign sends to the disk is the newest content of one block.
LEMMA AssignFlushes ==
  ASSUME Inv, NEW w \in Owner, NEW p, Assign(w, p)
  PROVE  \/ disk' = disk
         \/ \E b \in Block : disk' = [disk EXCEPT ![b] = written[b]]
<1> DEFINE saves == own[w] # Nothing /\ own[w] # p /\ IsLast(own[w]) /\ Saves(own[w])
<1>0. TypeOK /\ Counted /\ Registered /\ Marks
  BY DEF Inv
<1>1. disk' = IF saves THEN [disk EXCEPT ![obj[own[w]].block] = obj[own[w]].data] ELSE disk
  BY DEF Assign
<1>2. CASE saves
  <2>1. own[w] \in Object /\ Live(own[w])
    BY <1>0, <1>2, LiveHeld
  <2>2. obj[own[w]].block \in Block /\ obj[own[w]].data = written[obj[own[w]].block]
    BY <1>0, <2>1 DEF Registered, Marks
  <2> QED BY <1>1, <1>2, <2>2
<1>3. CASE ~saves
  BY <1>1, <1>3
<1> QED BY <1>2, <1>3

\* With no pointer left there is no object left, and nothing is unsaved.
LEMMA AllSaved ==
  ASSUME Inv, \A w \in Owner : own[w] = Nothing
  PROVE  disk = written
<1>0. TypeOK /\ Counted /\ Kept
  BY DEF Inv
<1>1. \A o \in Object : ~Live(o)
  BY <1>0, LiveHeld, CacheAssumption
<1>2. \A b \in Block : disk[b] = written[b]
  BY <1>0, <1>1 DEF Kept
<1> QED BY <1>0, <1>2 DEF TypeOK

LEMMA StepImplements ==
  ASSUME Inv, [Next]_vars
  PROVE  [Store!Next]_(Store!vars)
<1> DEFINE mounted == phase # "unmounted"
           Quiet == UNCHANGED <<written, disk, phase>>
           Flushes == \E b \in Block : disk' = [disk EXCEPT ![b] = written[b]]
<1>0. TypeOK /\ Counted /\ Registered /\ Marks /\ Gone
  BY DEF Inv
<1>1. ASSUME written' = written, mounted' = mounted, disk' = disk
      PROVE  [Store!Next]_(Store!vars)
  BY <1>1 DEF Store!vars
<1>2. ASSUME written' = written, mounted' = mounted, mounted, Flushes
      PROVE  [Store!Next]_(Store!vars)
  BY <1>2 DEF Store!Next, Store!Flush
<1>3. ASSUME NEW h \in Handle, NEW b \in Block, NEW w \in BOOLEAN, Lookup(h, b, w)
      PROVE  [Store!Next]_(Store!vars)
  BY <1>1, <1>3 DEF Lookup
<1>4. ASSUME NEW w \in Owner, NEW p, Assign(w, p), UNCHANGED <<phase, written>>, mounted
      PROVE  [Store!Next]_(Store!vars)
  BY <1>1, <1>2, <1>4, AssignFlushes
<1>5. ASSUME NEW h \in Handle, Cache(h) \/ Drop(h) PROVE [Store!Next]_(Store!vars)
  <2>1. h \in Owner /\ index \in Owner
    BY <1>0 DEF Owner, TypeOK
  <2>2. CASE Cache(h)
    <3>1. own[h] # Nothing
      BY <1>0, <2>2 DEF Cache, TypeOK
    <3>2. mounted
      BY <1>0, <2>1, <3>1 DEF Gone
    <3> QED BY <1>4, <2>1, <2>2, <3>2 DEF Cache
  <2>3. CASE Drop(h)
    BY <1>4, <2>1, <2>3 DEF Drop
  <2> QED BY <1>5, <2>2, <2>3
<1>6. ASSUME NEW h \in Handle, Mark(h) PROVE [Store!Next]_(Store!vars)
  BY <1>1, <1>6 DEF Mark
<1>7. ASSUME NEW h \in Handle, NEW v \in Value, Write(h, v) PROVE [Store!Next]_(Store!vars)
  <2>1. own[h] \in Object /\ Live(own[h])
    BY <1>0, <1>7, LiveHeld DEF Write, TypeOK, Owner
  <2>2. obj[own[h]].block \in Block
    BY <1>0, <2>1 DEF Registered
  <2>3. mounted /\ mounted' /\ disk' = disk /\ written' = [written EXCEPT ![obj[own[h]].block] = v]
    BY <1>7 DEF Write
  <2>4. Store!Put(obj[own[h]].block, v)
    BY <2>3 DEF Store!Put
  <2> QED BY <2>2, <2>4 DEF Store!Next
<1>8. CASE Unmount \/ WrittenBack \/ Clear
  BY <1>1, <1>8 DEF Unmount, WrittenBack, Clear
<1>9. CASE Commit
  <2>1. own[Unmounter] \in Object /\ Live(own[Unmounter])
    BY <1>0, <1>9, LiveHeld, CacheAssumption DEF Commit, TypeOK, Owner
  <2>2. /\ obj[own[Unmounter]].block \in Block
        /\ obj[own[Unmounter]].data = written[obj[own[Unmounter]].block]
    BY <1>0, <2>1 DEF Registered, Marks
  <2>3. /\ disk' = [disk EXCEPT ![obj[own[Unmounter]].block] = obj[own[Unmounter]].data]
        /\ written' = written /\ phase' = phase /\ phase = "write_back"
    BY <1>9 DEF Commit
  <2>4. Flushes
    BY <2>2, <2>3
  <2> QED BY <1>2, <2>3, <2>4
<1>10. CASE Unmounted
  <2>1. disk = written
    BY <1>10, AllSaved DEF Unmounted
  <2>2. mounted /\ ~mounted' /\ disk' = disk /\ written' = written
    BY <1>10 DEF Unmounted
  <2>3. Store!Unmount
    BY <2>1, <2>2 DEF Store!Unmount
  <2> QED BY <2>3 DEF Store!Next
<1>11. CASE Mount
  <2>1. Store!Mount
    BY <1>11 DEF Mount, Store!Mount
  <2> QED BY <2>1 DEF Store!Next
<1>12. ASSUME NEW i \in Slot, Reset(i) PROVE [Store!Next]_(Store!vars)
  BY <1>4, <1>12 DEF Reset, Owner
<1>13. CASE UNCHANGED vars
  BY <1>1, <1>13 DEF vars
<1> QED BY <1>3, <1>5, <1>6, <1>7, <1>8, <1>9, <1>10, <1>11, <1>12, <1>13 DEF Next

\* block_group_t with its two caches is a store of blocks: writes reach the
\* disk whole and newest, and all of them before ~EXT2 returns.
THEOREM Implements == Spec => ImplementsStore
<1>1. Init => Store!Init
  BY DEF Init, Store!Init
<1>2. Inv /\ [Next]_vars => [Store!Next]_(Store!vars)
  BY StepImplements
<1> QED BY InitInv, InvNext, <1>1, <1>2, PTL DEF Spec, ImplementsStore, Store!Spec

(***************************************************************************)
(* The table of unordered maps.  The pointers are a sequence s of keys     *)
(* (Chain) in which the keys of a bucket stand together (Grouped), and a   *)
(* bucket points to the node before its first one (Filed): Good(t, s).     *)
(* From Good both look-ups and the iterators follow.  Behind and InFront   *)
(* keep it, so the loops of _rehash and of the copy keep it at every turn, *)
(* and the policy keeps the load (TableInv).                               *)
(*                                                                         *)
(* Loops are recursive functions over 0 .. Longest; that each exists, and  *)
(* what holds at every turn, is shown by the smallest turn at which it     *)
(* would not (Smallest).                                                   *)
(***************************************************************************)
LEMMA Smallest ==
  ASSUME NEW T \in SUBSET Nat, T # {}
  PROVE  \E x \in T : \A y \in T : x <= y
<1> DEFINE R == OpToRel(<, Nat)
<1>1. PICK x \in T : \A y \in T : <<y, x>> \notin R
  <2>1. IsWellFoundedOn(R, Nat) BY NatLessThanWellFounded
  <2> HIDE DEF R
  <2> QED BY <2>1, WFMin
<1>2. \A y \in T : ~ (y < x) BY <1>1 DEF OpToRel
<1> QED BY <1>2

\* The cardinality of the instance is that of the library's theorems.
LEMMA SameSize ==
  /\ \A S : hashed!Cardinality(S) = Cardinality(S)
  /\ \A S : hashed!IsFiniteSet(S) <=> IsFiniteSet(S)
BY DEF Cardinality, IsFiniteSet, hashed!Cardinality, hashed!IsFiniteSet

LEMMA TableConstants ==
  /\ Entry \subseteq Nat /\ IsFiniteSet(Entry) /\ Asked \subseteq Nat
  /\ Codes \in Nat \ {0} /\ Hint \in 0 .. 12
  /\ hashed!Longest = Cardinality(Entry) /\ hashed!Longest \in Nat
  /\ hashed!Head \notin Entry /\ hashed!Nil \notin Entry /\ hashed!Head # hashed!Nil
<1>1. /\ Entry \subseteq Nat /\ IsFiniteSet(Entry) /\ Asked \subseteq Nat
      /\ Codes \in Nat \ {0} /\ Hint \in 0 .. 12
  BY TablesAssumption, SameSize DEF hashed!HashTableAssumption
<1>2. hashed!Longest = Cardinality(Entry) BY SameSize DEF hashed!Longest
<1>3. Cardinality(Entry) \in Nat BY <1>1, FS_CardinalityType
<1> QED BY <1>1, <1>2, <1>3 DEF hashed!Head, hashed!Nil

\* A walk along the list is there.
LEMMA WalkLoop ==
  ASSUME NEW t, NEW p, NEW l \in Nat, l = hashed!Longest + 1
  PROVE  \E f : /\ f = [k \in 0 .. l |-> IF k = 0 THEN p ELSE hashed!After(t, f[k - 1])]
                /\ hashed!Walk(t, p) = f
<1> DEFINE Start == p
           Iter(k, x) == hashed!After(t, x)
           Loop(f, n) == f = [k \in 0 .. n |-> IF k = 0 THEN Start ELSE Iter(k, f[k - 1])]
           Bad == {n \in 0 .. l : ~\E f : Loop(f, n)}
<1>1. Bad = {}
  <2> SUFFICES ASSUME Bad # {} PROVE FALSE OBVIOUS
  <2>1. PICK n \in Bad : \A m \in Bad : n <= m
    <3>1. Bad \in SUBSET Nat OBVIOUS
    <3> HIDE DEF Bad
    <3> QED BY <3>1, Smallest
  <2>2. n # 0
    <3> HIDE DEF Start, Iter
    <3>1. Loop([k \in 0 .. 0 |-> Start], 0) OBVIOUS
    <3> HIDE DEF Loop
    <3> QED BY <2>1, <3>1
  <2>3. n \in 1 .. l /\ n - 1 \in 0 .. l BY <2>1, <2>2
  <2>4. PICK f : Loop(f, n - 1)
    <3> HIDE DEF Loop
    <3>1. n - 1 \notin Bad BY <2>1, <2>3
    <3> QED BY <2>3, <3>1
  <2>5. PICK g : g = [k \in 0 .. n |-> IF k = n THEN Iter(n, f[n - 1]) ELSE f[k]] OBVIOUS
  <2>6. Loop(g, n)
    <3> HIDE DEF Start, Iter
    <3>1. \A k \in 0 .. n - 1 : g[k] = f[k] BY <2>3, <2>5
    <3>2. \A k \in 0 .. n - 1 : f[k] = IF k = 0 THEN Start ELSE Iter(k, f[k - 1])
      BY <2>4
    <3>3. \A k \in 0 .. n : g[k] = IF k = 0 THEN Start ELSE Iter(k, g[k - 1])
      <4> TAKE k \in 0 .. n
      <4>1. CASE k = n
        <5>1. g[k] = Iter(n, f[n - 1]) BY <2>5, <4>1
        <5>2. f[n - 1] = g[k - 1] BY <2>3, <3>1, <4>1
        <5> QED BY <2>2, <4>1, <5>1, <5>2
      <4>2. CASE k = 0 BY <2>3, <3>1, <3>2, <4>2
      <4>3. CASE k # n /\ k # 0
        <5>1. k \in 0 .. n - 1 /\ k - 1 \in 0 .. n - 1 BY <2>3, <4>3
        <5>2. g[k] = f[k] /\ f[k - 1] = g[k - 1] BY <3>1, <5>1
        <5> QED BY <3>2, <4>3, <5>1, <5>2
      <4> QED BY <4>1, <4>2, <4>3
    <3>4. g = [k \in 0 .. n |-> g[k]] BY <2>5
    <3> QED BY <3>3, <3>4
  <2> HIDE DEF Loop
  <2> QED BY <2>1, <2>6
<1>2. \E f : Loop(f, l)
  <2>1. l \in 0 .. l /\ l \notin Bad BY <1>1
  <2> HIDE DEF Loop
  <2> QED BY <2>1
<1>3. PICK f : f = CHOOSE g : Loop(g, l) OBVIOUS
<1>4. Loop(f, l)
  <2> HIDE DEF Loop
  <2> QED BY <1>2, <1>3
<1>5. hashed!Walk(t, p) = f BY <1>3 DEF hashed!Walk
<1> QED BY <1>4, <1>5

LEMMA WalkSteps ==
  ASSUME NEW t, NEW p
  PROVE  /\ hashed!Walk(t, p)[0] = p
         /\ \A i \in 1 .. hashed!Longest + 1 :
              hashed!Walk(t, p)[i] = hashed!After(t, hashed!Walk(t, p)[i - 1])
<1>1. PICK l : l = hashed!Longest + 1 OBVIOUS
<1>2. l \in Nat BY <1>1, TableConstants
<1>3. PICK f : /\ f = [k \in 0 .. l |-> IF k = 0 THEN p ELSE hashed!After(t, f[k - 1])]
               /\ hashed!Walk(t, p) = f
  BY <1>1, <1>2, WalkLoop
<1>4. 0 \in 0 .. l BY <1>2
<1>5. f[0] = p BY <1>3, <1>4
<1>6. ASSUME NEW i \in 1 .. l PROVE f[i] = hashed!After(t, f[i - 1])
  <2>1. i \in 0 .. l /\ i # 0 BY <1>2
  <2> QED BY <1>3, <2>1
<1> QED BY <1>1, <1>3, <1>5, <1>6

-----------------------------------------------------------------------------
\* The list as a sequence: the node before position i, and the one at it.
Before(s, i) == IF i = 1 THEN hashed!Head ELSE s[i - 1]
NodeAt(s, i) == IF i <= Len(s) THEN s[i] ELSE hashed!Nil

Listed(s) == s \in Seq(Entry) /\ \A i, j \in 1 .. Len(s) : s[i] = s[j] => i = j
Nodes(s) == {s[i] : i \in 1 .. Len(s)}

\* The pointers of t are the list s.
Chain(t, s) ==
  /\ Listed(s)
  /\ t.next \in [Entry \cup {hashed!Head} -> Entry \cup {hashed!Nil}]
  /\ \A i \in 1 .. Len(s) + 1 : t.next[Before(s, i)] = NodeAt(s, i)

\* s[i] is the first node of its bucket.
First(t, s, i) ==
  /\ i \in 1 .. Len(s)
  /\ \A j \in 1 .. i - 1 : hashed!Bucket(t, s[j]) # hashed!Bucket(t, s[i])

\* The nodes of a bucket stand together.
Grouped(t, s) ==
  \A i, j, k \in 1 .. Len(s) :
    i <= j /\ j <= k /\ hashed!Bucket(t, s[i]) = hashed!Bucket(t, s[k])
      => hashed!Bucket(t, s[j]) = hashed!Bucket(t, s[k])

\* A bucket points to the node before its first one, and an empty one nowhere.
Filed(t, s) ==
  /\ t.bucketCount \in Nat \ {0}
  /\ t.buckets \in [0 .. t.bucketCount - 1 -> Entry \cup {hashed!Head, hashed!Nil}]
  /\ \A i \in 1 .. Len(s) : First(t, s, i) => t.buckets[hashed!Bucket(t, s[i])] = Before(s, i)
  /\ \A b \in 0 .. t.bucketCount - 1 :
       t.buckets[b] # hashed!Nil => \E i \in 1 .. Len(s) : hashed!Bucket(t, s[i]) = b

Shape(t) == t = [next |-> t.next, buckets |-> t.buckets, bucketCount |-> t.bucketCount]
Good(t, s) == Shape(t) /\ Chain(t, s) /\ Grouped(t, s) /\ Filed(t, s)

LEMMA BucketIn ==
  ASSUME NEW t, t.bucketCount \in Nat \ {0}, NEW k \in Entry
  PROVE  hashed!Bucket(t, k) \in 0 .. t.bucketCount - 1
<1>1. PICK c \in Nat : c = hashed!Code(k)
  <2>1. k % Codes \in Nat BY TableConstants
  <2> QED BY <2>1 DEF hashed!Code
<1>2. c % t.bucketCount \in 0 .. t.bucketCount - 1 OBVIOUS
<1> QED BY <1>1, <1>2 DEF hashed!Bucket

LEMMA ListedNodes ==
  ASSUME NEW s, Listed(s)
  PROVE  /\ Len(s) \in Nat /\ s \in [1 .. Len(s) -> Entry] /\ DOMAIN s = 1 .. Len(s)
         /\ \A i \in 1 .. Len(s) : s[i] \in Entry
         /\ IsFiniteSet(Nodes(s)) /\ Cardinality(Nodes(s)) = Len(s)
         /\ Nodes(s) \subseteq Entry /\ Len(s) <= hashed!Longest
<1>1. s \in Seq(Entry) BY DEF Listed
<1>2. Len(s) \in Nat /\ s \in [1 .. Len(s) -> Entry] /\ DOMAIN s = 1 .. Len(s)
  BY <1>1, LenProperties, SMTT(30)
<1>3. PICK n \in Nat : n = Len(s) BY <1>2
<1>4. \A i \in 1 .. n : s[i] \in Entry BY <1>2, <1>3
<1>5. Nodes(s) \subseteq Entry BY <1>3, <1>4 DEF Nodes
<1>6. IsFiniteSet(Nodes(s)) /\ Cardinality(Nodes(s)) <= Cardinality(Entry)
  BY <1>5, TableConstants, FS_Subset
<1>7. IsFiniteSet(1 .. n) /\ Cardinality(1 .. n) = n
  <2>1. 1 \in Int /\ n \in Int /\ (1 > n => n = 0) /\ n - 1 + 1 = n BY <1>3
  <2> QED BY <2>1, FS_Interval
<1>8. s \in Surjection(1 .. n, Nodes(s))
  <2>1. s \in [1 .. n -> Nodes(s)] BY <1>2, <1>3 DEF Nodes
  <2>2. \A x \in Nodes(s) : \E i \in 1 .. n : s[i] = x BY <1>3 DEF Nodes
  <2> QED BY <2>1, <2>2 DEF Surjection
<1>9. s \in Injection(1 .. n, Nodes(s))
  <2>1. \A i, j \in 1 .. n : s[i] = s[j] => i = j BY <1>3 DEF Listed
  <2> QED BY <1>8, <2>1 DEF Surjection, Injection, IsInjective
<1>10. Cardinality(Nodes(s)) = n
  BY <1>7, <1>8, <1>9, FS_Surjection
<1> QED BY <1>1, <1>2, <1>3, <1>4, <1>5, <1>6, <1>10, TableConstants

\* The nodes before positions are nodes.
LEMMA BeforeIs ==
  ASSUME NEW s, Listed(s), NEW i \in 1 .. Len(s) + 1
  PROVE  /\ Before(s, i) \in Entry \cup {hashed!Head}
         /\ Before(s, i) # hashed!Nil
         /\ NodeAt(s, i) \in Entry \cup {hashed!Nil}
<1>1. PICK n \in Nat : n = Len(s) BY ListedNodes
<1>2. i # 1 => i - 1 \in 1 .. n BY <1>1
<1>3. i <= n => i \in 1 .. n BY <1>1
<1>4. \A m \in 1 .. n : s[m] \in Entry BY <1>1, ListedNodes
<1> QED BY <1>1, <1>2, <1>3, <1>4, TableConstants DEF Before, NodeAt

\* A walk from the node before position i meets the nodes from i on.
LEMMA WalkAlong ==
  ASSUME NEW t, NEW s, Chain(t, s), NEW i \in 1 .. Len(s) + 1,
         NEW m \in 1 .. hashed!Longest + 1
  PROVE  hashed!Walk(t, Before(s, i))[m] = NodeAt(s, i + m - 1)
<1>1. PICK n \in Nat : n = Len(s) BY ListedNodes DEF Chain
<1>2. PICK l \in Nat : l = hashed!Longest + 1 BY TableConstants
<1>3. PICK w : w = hashed!Walk(t, Before(s, i)) OBVIOUS
<1>4. w[0] = Before(s, i) /\ \A k \in 1 .. l : w[k] = hashed!After(t, w[k - 1])
  BY <1>2, <1>3, WalkSteps
<1> DEFINE Bad == {k \in 1 .. l : w[k] # NodeAt(s, i + k - 1)}
<1>5. Bad = {}
  <2> SUFFICES ASSUME Bad # {} PROVE FALSE OBVIOUS
  <2>1. PICK k \in Bad : \A j \in Bad : k <= j
    <3>1. Bad \in SUBSET Nat OBVIOUS
    <3> HIDE DEF Bad
    <3> QED BY <3>1, Smallest
  <2>2. k \in 1 .. l /\ w[k] = hashed!After(t, w[k - 1]) BY <1>4, <2>1
  <2>3. CASE k = 1
    <3>1. w[1] = t.next[Before(s, i)] BY <1>4, <2>2, <2>3, BeforeIs DEF hashed!After, Chain
    <3>2. w[1] = NodeAt(s, i) BY <3>1 DEF Chain
    <3>3. i + 1 - 1 = i OBVIOUS
    <3> QED BY <2>1, <2>3, <3>2, <3>3
  <2>4. CASE k # 1
    <3>1. k - 1 \in 1 .. l /\ k - 1 \notin Bad BY <2>1, <2>2, <2>4
    <3>2. PICK q \in Nat : q = i + k - 2 BY <1>1, <2>2, <2>4
    <3>3. i + (k - 1) - 1 = q /\ i + k - 1 = q + 1 /\ q >= 1 BY <1>1, <2>2, <2>4, <3>2
    <3>4. w[k - 1] = NodeAt(s, q) BY <3>1, <3>3
    <3>5. w[k] = NodeAt(s, q + 1)
      <4>1. CASE q <= n
        <5>1. q + 1 \in 1 .. Len(s) + 1 /\ Before(s, q + 1) = s[q] /\ NodeAt(s, q) = s[q]
          BY <1>1, <3>3, <4>1 DEF Before, NodeAt
        <5>2. s[q] # hashed!Nil BY <5>1, BeforeIs DEF Chain
        <5>3. t.next[s[q]] = NodeAt(s, q + 1) BY <5>1 DEF Chain
        <5> QED BY <2>2, <3>4, <5>1, <5>2, <5>3 DEF hashed!After
      <4>2. CASE ~(q <= n)
        <5>1. NodeAt(s, q) = hashed!Nil /\ NodeAt(s, q + 1) = hashed!Nil
          BY <1>1, <3>2, <4>2 DEF NodeAt
        <5> QED BY <2>2, <3>4, <5>1 DEF hashed!After
      <4> QED BY <4>1, <4>2
    <3> QED BY <2>1, <3>3, <3>5
  <2> QED BY <2>3, <2>4
<1>6. m \in 1 .. l /\ m \notin Bad BY <1>2, <1>5
<1> QED BY <1>3, <1>6

\* From the null pointer a walk meets nothing.
LEMMA WalkNowhere ==
  ASSUME NEW t, NEW m \in 1 .. hashed!Longest + 1
  PROVE  hashed!Walk(t, hashed!Nil)[m] = hashed!Nil
<1>1. PICK l \in Nat : l = hashed!Longest + 1 BY TableConstants
<1>2. PICK w : w = hashed!Walk(t, hashed!Nil) OBVIOUS
<1>3. w[0] = hashed!Nil /\ \A k \in 1 .. l : w[k] = hashed!After(t, w[k - 1])
  BY <1>1, <1>2, WalkSteps
<1> DEFINE Bad == {k \in 1 .. l : w[k] # hashed!Nil}
<1>4. Bad = {}
  <2> SUFFICES ASSUME Bad # {} PROVE FALSE OBVIOUS
  <2>1. PICK k \in Bad : \A j \in Bad : k <= j
    <3>1. Bad \in SUBSET Nat OBVIOUS
    <3> HIDE DEF Bad
    <3> QED BY <3>1, Smallest
  <2>2. k \in 1 .. l /\ w[k] = hashed!After(t, w[k - 1]) BY <1>3, <2>1
  <2>3. w[k - 1] = hashed!Nil
    <3>1. CASE k = 1 BY <1>3, <3>1
    <3>2. CASE k # 1
      <4>1. k - 1 \in 1 .. l /\ k - 1 \notin Bad BY <2>1, <2>2, <3>2
      <4> QED BY <4>1
    <3> QED BY <3>1, <3>2
  <2> QED BY <2>1, <2>2, <2>3 DEF hashed!After
<1>5. m \in 1 .. l /\ m \notin Bad BY <1>1, <1>4
<1> QED BY <1>2, <1>5

-----------------------------------------------------------------------------
\* The look-ups.

\* A bucket with a node has a first one.
LEMMA FirstThere ==
  ASSUME NEW t, NEW s, Listed(s), NEW m \in 1 .. Len(s)
  PROVE  \E f \in 1 .. m : /\ First(t, s, f)
                           /\ hashed!Bucket(t, s[f]) = hashed!Bucket(t, s[m])
<1> DEFINE T == {i \in 1 .. m : hashed!Bucket(t, s[i]) = hashed!Bucket(t, s[m])}
<1>1. T \in SUBSET Nat OBVIOUS
<1>2. Len(s) \in Nat BY ListedNodes
<1>3. m \in T BY <1>2
<1>4. PICK f \in T : \A i \in T : f <= i
  <2> HIDE DEF T
  <2> QED BY <1>1, <1>3, Smallest
<1>5. f \in 1 .. m /\ hashed!Bucket(t, s[f]) = hashed!Bucket(t, s[m]) BY <1>4
<1>6. ASSUME NEW j \in 1 .. f - 1 PROVE hashed!Bucket(t, s[j]) # hashed!Bucket(t, s[f])
  <2>1. j \in 1 .. m /\ ~(f <= j) BY <1>2, <1>5
  <2>2. j \notin T BY <1>4, <2>1
  <2> QED BY <1>5, <2>1, <2>2
<1>7. f \in 1 .. Len(s) BY <1>2, <1>5
<1> QED BY <1>5, <1>6, <1>7 DEF First

\* Where the walk of a look-up begins: nowhere, and then no node has the
\* bucket, or before the bucket's first node.
LEMMA BucketStart ==
  ASSUME NEW t, NEW s, Good(t, s), NEW b \in 0 .. t.bucketCount - 1
  PROVE  \/ /\ t.buckets[b] = hashed!Nil
            /\ \A i \in 1 .. Len(s) : hashed!Bucket(t, s[i]) # b
         \/ \E f \in 1 .. Len(s) :
              /\ First(t, s, f) /\ hashed!Bucket(t, s[f]) = b
              /\ t.buckets[b] = Before(s, f)
<1>1. Listed(s) /\ Len(s) \in Nat BY ListedNodes DEF Good, Chain
<1>2. CASE \E i \in 1 .. Len(s) : hashed!Bucket(t, s[i]) = b
  <2>1. PICK i \in 1 .. Len(s) : hashed!Bucket(t, s[i]) = b BY <1>2
  <2>2. PICK f \in 1 .. i : First(t, s, f) /\ hashed!Bucket(t, s[f]) = b
    BY <1>1, <2>1, FirstThere
  <2>3. f \in 1 .. Len(s) BY <2>2 DEF First
  <2> QED BY <2>2, <2>3 DEF Good, Filed
<1>3. CASE ~\E i \in 1 .. Len(s) : hashed!Bucket(t, s[i]) = b
  BY <1>3 DEF Good, Filed
<1> QED BY <1>2, <1>3

LEMMA GetRight ==
  ASSUME NEW t, NEW s, Good(t, s), NEW k \in Entry
  PROVE  hashed!Get(t, k) <=> (k \in Nodes(s))
<1>1. PICK n \in Nat : n = Len(s) BY ListedNodes DEF Good, Chain
<1>2. PICK l \in Nat : l = hashed!Longest /\ n <= l BY <1>1, TableConstants, ListedNodes DEF Good, Chain
<1>3. PICK b \in 0 .. t.bucketCount - 1 : b = hashed!Bucket(t, k) BY BucketIn DEF Good, Filed
<1>4. CASE /\ t.buckets[b] = hashed!Nil
           /\ \A i \in 1 .. n : hashed!Bucket(t, s[i]) # b
  <2>1. k \notin Nodes(s) BY <1>1, <1>3, <1>4 DEF Nodes
  <2>2. ASSUME NEW i \in 1 .. l PROVE hashed!Walk(t, t.buckets[b])[i] # k
    <3>1. i \in 1 .. hashed!Longest + 1 BY <1>2
    <3> QED BY <1>4, <3>1, WalkNowhere, TableConstants
  <2> QED BY <1>2, <1>3, <2>1, <2>2 DEF hashed!Get
<1>5. CASE \E f \in 1 .. n : /\ First(t, s, f) /\ hashed!Bucket(t, s[f]) = b
                             /\ t.buckets[b] = Before(s, f)
  <2>1. PICK f \in 1 .. n : /\ First(t, s, f) /\ hashed!Bucket(t, s[f]) = b
                            /\ t.buckets[b] = Before(s, f)
    BY <1>5
  <2>2. \A i \in 1 .. l : hashed!Walk(t, t.buckets[b])[i] = NodeAt(s, f + i - 1)
    <3>1. f \in 1 .. Len(s) + 1 /\ \A i \in 1 .. l : i \in 1 .. hashed!Longest + 1
      BY <1>1, <1>2
    <3> QED BY <2>1, <3>1, WalkAlong DEF Good
  <2>3. ASSUME k \in Nodes(s) PROVE \E i \in 1 .. l : NodeAt(s, f + i - 1) = k
    <3>1. PICK m \in 1 .. n : k = s[m] BY <1>1, <2>3 DEF Nodes
    <3>2. ~(m \in 1 .. f - 1) BY <1>3, <2>1, <3>1 DEF First
    <3>3. m - f + 1 \in 1 .. l /\ f + (m - f + 1) - 1 = m BY <1>1, <1>2, <2>1, <3>1, <3>2
    <3>4. NodeAt(s, m) = k BY <1>1, <3>1 DEF NodeAt
    <3> QED BY <3>3, <3>4
  <2>4. ASSUME NEW i \in 1 .. l, NodeAt(s, f + i - 1) = k PROVE k \in Nodes(s)
    <3>1. f + i - 1 <= n BY <1>1, <2>4, TableConstants DEF NodeAt
    <3>2. f + i - 1 \in 1 .. n /\ k = s[f + i - 1] BY <1>1, <2>1, <2>4, <3>1 DEF NodeAt
    <3> QED BY <1>1, <3>2 DEF Nodes
  <2>5. hashed!Get(t, k) <=> \E i \in 1 .. l : NodeAt(s, f + i - 1) = k
    BY <1>2, <1>3, <2>2 DEF hashed!Get
  <2> QED BY <2>3, <2>4, <2>5
<1> QED BY <1>1, <1>4, <1>5, BucketStart

LEMMA FindRight ==
  ASSUME NEW t, NEW s, Good(t, s), NEW k \in Entry
  PROVE  hashed!FindNode(t, k) <=> (k \in Nodes(s))
<1>1. PICK n \in Nat : n = Len(s) BY ListedNodes DEF Good, Chain
<1>2. PICK l \in Nat : l = hashed!Longest /\ n <= l BY <1>1, TableConstants, ListedNodes DEF Good, Chain
<1>3. PICK b \in 0 .. t.bucketCount - 1 : b = hashed!Bucket(t, k) BY BucketIn DEF Good, Filed
<1>4. CASE /\ t.buckets[b] = hashed!Nil
           /\ \A i \in 1 .. n : hashed!Bucket(t, s[i]) # b
  <2>1. k \notin Nodes(s) BY <1>1, <1>3, <1>4 DEF Nodes
  <2> QED BY <1>3, <1>4, <2>1 DEF hashed!FindNode
<1>5. CASE \E f \in 1 .. n : /\ First(t, s, f) /\ hashed!Bucket(t, s[f]) = b
                             /\ t.buckets[b] = Before(s, f)
  <2>1. PICK f \in 1 .. n : /\ First(t, s, f) /\ hashed!Bucket(t, s[f]) = b
                            /\ t.buckets[b] = Before(s, f)
    BY <1>5
  <2>2. \A i \in 1 .. l : hashed!Walk(t, t.buckets[b])[i] = NodeAt(s, f + i - 1)
    <3>1. f \in 1 .. Len(s) + 1 /\ \A i \in 1 .. l : i \in 1 .. hashed!Longest + 1
      BY <1>1, <1>2
    <3> QED BY <2>1, <3>1, WalkAlong DEF Good
  <2>3. t.buckets[b] # hashed!Nil
    <3>1. f \in 1 .. Len(s) + 1 BY <1>1
    <3> QED BY <2>1, <3>1, BeforeIs DEF Good, Chain
  <2> DEFINE Meets(i) == /\ NodeAt(s, f + i - 1) = k
                         /\ \A j \in 2 .. i : hashed!Bucket(t, NodeAt(s, f + j - 1)) = b
  <2>4. ASSUME k \in Nodes(s) PROVE \E i \in 1 .. l : Meets(i)
    <3>1. PICK m \in 1 .. n : k = s[m] BY <1>1, <2>4 DEF Nodes
    <3>2. ~(m \in 1 .. f - 1) BY <1>3, <2>1, <3>1 DEF First
    <3>3. m - f + 1 \in 1 .. l /\ f + (m - f + 1) - 1 = m /\ f <= m
      BY <1>1, <1>2, <2>1, <3>1, <3>2
    <3>4. NodeAt(s, m) = k BY <1>1, <3>1 DEF NodeAt
    <3>5. ASSUME NEW j \in 2 .. m - f + 1 PROVE hashed!Bucket(t, NodeAt(s, f + j - 1)) = b
      <4>1. PICK q \in 1 .. n : q = f + j - 1 /\ f <= q /\ q <= m BY <1>1, <2>1, <3>1, <3>3
      <4>2. NodeAt(s, q) = s[q] BY <1>1, <4>1 DEF NodeAt
      <4>3. hashed!Bucket(t, s[q]) = hashed!Bucket(t, s[m])
        BY <1>1, <1>3, <2>1, <3>1, <4>1 DEF Good, Grouped
      <4> QED BY <1>3, <3>1, <4>1, <4>2, <4>3
    <3> QED BY <3>3, <3>4, <3>5
  <2>5. ASSUME NEW i \in 1 .. l, Meets(i) PROVE k \in Nodes(s)
    <3>1. f + i - 1 <= n BY <1>1, <2>5, TableConstants DEF NodeAt
    <3>2. f + i - 1 \in 1 .. n /\ k = s[f + i - 1] BY <1>1, <2>1, <2>5, <3>1 DEF NodeAt
    <3> QED BY <1>1, <3>2 DEF Nodes
  <2>6. hashed!FindNode(t, k) <=> \E i \in 1 .. l : Meets(i)
    <3>1. hashed!FindNode(t, k) <=>
            \E i \in 1 .. l :
              /\ hashed!Walk(t, t.buckets[b])[i] = k
              /\ \A j \in 2 .. i : hashed!Bucket(t, hashed!Walk(t, t.buckets[b])[j]) = b
      BY <1>2, <1>3, <2>3 DEF hashed!FindNode
    <3>2. \A i \in 1 .. l : \A j \in 2 .. i : j \in 1 .. l OBVIOUS
    <3> QED BY <2>2, <3>1, <3>2
  <2> QED BY <2>4, <2>5, <2>6
<1> QED BY <1>1, <1>4, <1>5, BucketStart

-----------------------------------------------------------------------------
\* One more node in the list, at position p.
Ins(s, p, k) ==
  [i \in 1 .. Len(s) + 1 |-> IF i < p THEN s[i] ELSE IF i = p THEN k ELSE s[i - 1]]

LEMMA InsListed ==
  ASSUME NEW s, Listed(s), NEW p \in 1 .. Len(s) + 1, NEW k \in Entry, k \notin Nodes(s)
  PROVE  /\ Listed(Ins(s, p, k)) /\ Len(Ins(s, p, k)) = Len(s) + 1
         /\ \A i \in 1 .. Len(s) + 1 :
              Ins(s, p, k)[i] = IF i < p THEN s[i] ELSE IF i = p THEN k ELSE s[i - 1]
         /\ Nodes(Ins(s, p, k)) = Nodes(s) \cup {k}
<1>1. PICK n \in Nat : n = Len(s) BY ListedNodes
<1>2. PICK z : z = Ins(s, p, k) OBVIOUS
<1>3. \A i \in 1 .. n : s[i] \in Entry /\ s[i] # k BY <1>1, ListedNodes DEF Nodes
<1>4. z = [i \in 1 .. n + 1 |-> IF i < p THEN s[i] ELSE IF i = p THEN k ELSE s[i - 1]]
  BY <1>1, <1>2 DEF Ins
<1>5. \A i \in 1 .. n + 1 : z[i] = IF i < p THEN s[i] ELSE IF i = p THEN k ELSE s[i - 1]
  BY <1>4
<1>6. \A i \in 1 .. n + 1 : z[i] \in Entry
  <2> TAKE i \in 1 .. n + 1
  <2>1. i < p => i \in 1 .. n BY <1>1
  <2>2. i > p => i - 1 \in 1 .. n BY <1>1
  <2> QED BY <1>1, <1>3, <1>5, <2>1, <2>2
<1>7. z \in Seq(Entry) /\ Len(z) = n + 1
  <2>1. z \in [1 .. n + 1 -> Entry] BY <1>4, <1>6
  <2>2. n + 1 \in Nat OBVIOUS
  <2> QED BY <2>1, <2>2, SeqDef, LenProperties
<1>8. ASSUME NEW i \in 1 .. n + 1, NEW j \in 1 .. n + 1, z[i] = z[j] PROVE i = j
  <2>1. \A a, b \in 1 .. n : s[a] = s[b] => a = b BY <1>1 DEF Listed
  <2>2. \A a \in 1 .. n + 1 : (a < p => a \in 1 .. n) /\ (a > p => a - 1 \in 1 .. n) BY <1>1
  <2>3. CASE i = p BY <1>1, <1>3, <1>5, <1>8, <2>2, <2>3
  <2>4. CASE j = p BY <1>1, <1>3, <1>5, <1>8, <2>2, <2>4
  <2>5. CASE i # p /\ j # p
    <3>1. PICK a \in 1 .. n : z[i] = s[a] /\ a = IF i < p THEN i ELSE i - 1
      BY <1>1, <1>5, <2>2, <2>5
    <3>2. PICK b \in 1 .. n : z[j] = s[b] /\ b = IF j < p THEN j ELSE j - 1
      BY <1>1, <1>5, <2>2, <2>5
    <3>3. a = b BY <1>8, <2>1, <3>1, <3>2
    <3> QED BY <1>1, <2>5, <3>1, <3>2, <3>3
  <2> QED BY <2>3, <2>4, <2>5
<1>9. Nodes(z) = Nodes(s) \cup {k}
  <2>1. ASSUME NEW i \in 1 .. n + 1 PROVE z[i] \in Nodes(s) \cup {k}
    <3>1. (i < p => i \in 1 .. n) /\ (i > p => i - 1 \in 1 .. n) BY <1>1
    <3> QED BY <1>1, <1>5, <3>1 DEF Nodes
  <2>2. ASSUME NEW i \in 1 .. n PROVE s[i] \in Nodes(z)
    <3>1. CASE i < p
      <4>1. i \in 1 .. n + 1 /\ z[i] = s[i] BY <1>5, <3>1
      <4> QED BY <1>7, <4>1 DEF Nodes
    <3>2. CASE ~(i < p)
      <4>1. i + 1 \in 1 .. n + 1 /\ ~(i + 1 < p) /\ i + 1 # p /\ i + 1 - 1 = i BY <1>1, <3>2
      <4>2. z[i + 1] = s[i] BY <1>5, <4>1
      <4> QED BY <1>7, <4>1, <4>2 DEF Nodes
    <3> QED BY <3>1, <3>2
  <2>3. k \in Nodes(z)
    <3>1. p \in 1 .. n + 1 /\ z[p] = k BY <1>1, <1>5
    <3> QED BY <1>7, <3>1 DEF Nodes
  <2> QED BY <1>1, <1>7, <2>1, <2>2, <2>3 DEF Nodes
<1>10. Listed(z) BY <1>7, <1>8 DEF Listed
<1> QED BY <1>1, <1>2, <1>5, <1>7, <1>9, <1>10

\* The nodes of the bucket still stand together when the new one is put before
\* its bucket's first node, or to the front if there is none.
Fitting(t, s, p, k) ==
  \/ First(t, s, p) /\ hashed!Bucket(t, s[p]) = hashed!Bucket(t, k)
  \/ p = 1 /\ \A i \in 1 .. Len(s) : hashed!Bucket(t, s[i]) # hashed!Bucket(t, k)

LEMMA InsGrouped ==
  ASSUME NEW t, NEW s, Listed(s), Grouped(t, s),
         NEW p \in 1 .. Len(s) + 1, NEW k \in Entry, k \notin Nodes(s), Fitting(t, s, p, k)
  PROVE  Grouped(t, Ins(s, p, k))
<1>1. PICK n \in Nat : n = Len(s) BY ListedNodes
<1>2. PICK z : z = Ins(s, p, k) OBVIOUS
<1>3. /\ Len(z) = n + 1
      /\ \A i \in 1 .. n + 1 : z[i] = IF i < p THEN s[i] ELSE IF i = p THEN k ELSE s[i - 1]
  BY <1>1, <1>2, InsListed
<1>4. \A a \in 1 .. n + 1 : (a < p => a \in 1 .. n) /\ (a > p => a - 1 \in 1 .. n) BY <1>1
<1>5. ASSUME NEW i \in 1 .. n + 1, NEW j \in 1 .. n + 1, NEW m \in 1 .. n + 1,
             i <= j, j <= m, hashed!Bucket(t, z[i]) = hashed!Bucket(t, z[m])
      PROVE  hashed!Bucket(t, z[j]) = hashed!Bucket(t, z[m])
  <2>1. CASE j = m BY <2>1
  <2>2. CASE j = i BY <1>5, <2>2
  <2>3. CASE i < j /\ j < m
    <3>1. CASE p = i
      <4>1. m - 1 \in 1 .. n /\ j - 1 \in 1 .. n /\ z[m] = s[m - 1] /\ z[j] = s[j - 1]
        BY <1>1, <1>3, <1>4, <2>3, <3>1
      <4>2. z[i] = k BY <1>3, <3>1
      <4>3. p \in 1 .. n /\ hashed!Bucket(t, s[p]) = hashed!Bucket(t, k)
        BY <1>1, <1>5, <4>1, <4>2 DEF Fitting, First
      <4>4. p <= j - 1 /\ j - 1 <= m - 1 BY <1>1, <2>3, <3>1
      <4>5. hashed!Bucket(t, s[j - 1]) = hashed!Bucket(t, s[m - 1])
        BY <1>1, <1>5, <4>1, <4>2, <4>3, <4>4 DEF Grouped
      <4> QED BY <4>1, <4>5
    <3>2. CASE p = m
      <4>1. i \in 1 .. p - 1 /\ i \in 1 .. n /\ z[i] = s[i] BY <1>1, <1>3, <1>4, <2>3, <3>2
      <4>2. z[m] = k BY <1>3, <3>2
      <4>3. hashed!Bucket(t, s[i]) # hashed!Bucket(t, k)
        BY <1>1, <4>1 DEF Fitting, First
      <4> QED BY <1>5, <4>1, <4>2, <4>3
    <3>3. CASE p = j
      <4>1. i \in 1 .. n /\ z[i] = s[i] /\ m - 1 \in 1 .. n /\ z[m] = s[m - 1]
        BY <1>1, <1>3, <1>4, <2>3, <3>3
      <4>2. z[j] = k BY <1>3, <3>3
      <4>3. p # 1 BY <2>3, <3>3
      <4>4. p \in 1 .. n /\ hashed!Bucket(t, s[p]) = hashed!Bucket(t, k)
        BY <1>1, <4>3 DEF Fitting, First
      <4>5. i <= p /\ p <= m - 1 BY <1>1, <2>3, <3>3
      <4>6. hashed!Bucket(t, s[p]) = hashed!Bucket(t, s[m - 1])
        BY <1>1, <1>5, <4>1, <4>4, <4>5 DEF Grouped
      <4> QED BY <4>1, <4>2, <4>4, <4>6
    <3>4. CASE p # i /\ p # j /\ p # m
      <4>1. PICK a \in 1 .. n : z[i] = s[a] /\ a = IF i < p THEN i ELSE i - 1
        BY <1>1, <1>3, <1>4, <3>4
      <4>2. PICK b \in 1 .. n : z[j] = s[b] /\ b = IF j < p THEN j ELSE j - 1
        BY <1>1, <1>3, <1>4, <3>4
      <4>3. PICK c \in 1 .. n : z[m] = s[c] /\ c = IF m < p THEN m ELSE m - 1
        BY <1>1, <1>3, <1>4, <3>4
      <4>4. a <= b /\ b <= c BY <1>1, <2>3, <3>4, <4>1, <4>2, <4>3
      <4>5. hashed!Bucket(t, s[b]) = hashed!Bucket(t, s[c])
        BY <1>1, <1>5, <4>1, <4>3, <4>4 DEF Grouped
      <4> QED BY <4>2, <4>3, <4>5
    <3> QED BY <3>1, <3>2, <3>3, <3>4
  <2> QED BY <1>5, <2>1, <2>2, <2>3
<1> QED BY <1>2, <1>3, <1>5 DEF Grouped

\* A node that is the first of its bucket was that before, or is the new one.
LEMMA FirstIns ==
  ASSUME NEW t, NEW s, Listed(s), NEW p \in 1 .. Len(s) + 1, NEW k \in Entry,
         k \notin Nodes(s), NEW q, First(t, Ins(s, p, k), q)
  PROVE  /\ q < p => First(t, s, q)
         /\ q > p => /\ First(t, s, q - 1)
                     /\ hashed!Bucket(t, s[q - 1]) # hashed!Bucket(t, k)
<1>1. PICK n \in Nat : n = Len(s) BY ListedNodes
<1>2. PICK z : z = Ins(s, p, k) OBVIOUS
<1>3. /\ Len(z) = n + 1
      /\ \A i \in 1 .. n + 1 : z[i] = IF i < p THEN s[i] ELSE IF i = p THEN k ELSE s[i - 1]
  BY <1>1, <1>2, InsListed
<1>4. q \in 1 .. n + 1 BY <1>2, <1>3 DEF First
<1>5. \A j \in 1 .. q - 1 : hashed!Bucket(t, z[j]) # hashed!Bucket(t, z[q])
  BY <1>2 DEF First
<1>6. ASSUME q < p PROVE First(t, s, q)
  <2>1. q \in 1 .. n /\ z[q] = s[q] BY <1>1, <1>3, <1>4, <1>6
  <2>2. ASSUME NEW j \in 1 .. q - 1 PROVE hashed!Bucket(t, s[j]) # hashed!Bucket(t, s[q])
    <3>1. j \in 1 .. n + 1 /\ j < p BY <1>1, <1>4, <1>6
    <3>2. z[j] = s[j] BY <1>3, <3>1
    <3> QED BY <1>5, <2>1, <3>2
  <2> QED BY <1>1, <2>1, <2>2 DEF First
<1>7. ASSUME q > p PROVE First(t, s, q - 1) /\ hashed!Bucket(t, s[q - 1]) # hashed!Bucket(t, k)
  <2>1. q - 1 \in 1 .. n /\ z[q] = s[q - 1] BY <1>1, <1>3, <1>4, <1>7
  <2>2. ASSUME NEW j \in 1 .. q - 1 - 1 PROVE hashed!Bucket(t, s[j]) # hashed!Bucket(t, s[q - 1])
    <3>1. CASE j < p
      <4>1. j \in 1 .. n + 1 /\ j \in 1 .. q - 1 BY <1>4
      <4>2. z[j] = s[j] BY <1>3, <3>1, <4>1
      <4> QED BY <1>5, <2>1, <4>1, <4>2
    <3>2. CASE ~(j < p)
      <4>1. j + 1 \in 1 .. n + 1 /\ j + 1 \in 1 .. q - 1 /\ ~(j + 1 < p) /\ j + 1 # p /\ j + 1 - 1 = j
        BY <1>1, <1>4, <3>2
      <4>2. z[j + 1] = s[j] BY <1>3, <4>1
      <4> QED BY <1>5, <2>1, <4>1, <4>2
    <3> QED BY <3>1, <3>2
  <2>3. p \in 1 .. q - 1 /\ z[p] = k BY <1>1, <1>3, <1>4, <1>7
  <2>4. hashed!Bucket(t, s[q - 1]) # hashed!Bucket(t, k) BY <1>5, <2>1, <2>3
  <2> QED BY <1>1, <2>1, <2>2, <2>4 DEF First
<1> QED BY <1>2, <1>6, <1>7

-----------------------------------------------------------------------------
\* The pointers.

IsBehind(u, t, k, prev) ==
  /\ Shape(u) /\ u.buckets = t.buckets /\ u.bucketCount = t.bucketCount
  /\ u.next \in [Entry \cup {hashed!Head} -> Entry \cup {hashed!Nil}]
  /\ u.next[k] = t.next[prev] /\ u.next[prev] = k
  /\ \A x \in Entry \cup {hashed!Head} : x # k /\ x # prev => u.next[x] = t.next[x]

LEMMA BehindIs ==
  ASSUME NEW t, Shape(t),
         t.next \in [Entry \cup {hashed!Head} -> Entry \cup {hashed!Nil}],
         NEW k \in Entry, NEW prev \in Entry \cup {hashed!Head}, k # prev,
         NEW u, u = hashed!Behind(t, k, prev)
  PROVE  IsBehind(u, t, k, prev)
<1>1. PICK f : f = [[t.next EXCEPT ![k] = t.next[prev]] EXCEPT ![prev] = k] OBVIOUS
<1>2. /\ f \in [Entry \cup {hashed!Head} -> Entry \cup {hashed!Nil}]
      /\ f[k] = t.next[prev] /\ f[prev] = k
      /\ \A x \in Entry \cup {hashed!Head} : x # k /\ x # prev => f[x] = t.next[x]
  BY <1>1
<1>3. u = [t EXCEPT !.next = f] BY <1>1 DEF hashed!Behind
<1>4. [t EXCEPT !.next = f] = [next |-> f, buckets |-> t.buckets, bucketCount |-> t.bucketCount]
  <2>1. PICK b, c, x : t = [next |-> x, buckets |-> b, bucketCount |-> c] BY DEF Shape
  <2> QED BY <2>1
<1> QED BY <1>2, <1>3, <1>4 DEF Shape, IsBehind

\* Positions and the nodes before them.
LEMMA BeforeOnce ==
  ASSUME NEW s, Listed(s), NEW i \in 1 .. Len(s) + 1, NEW j \in 1 .. Len(s) + 1,
         Before(s, i) = Before(s, j)
  PROVE  i = j
<1>1. PICK n \in Nat : n = Len(s) BY ListedNodes
<1>2. \A m \in 1 .. n : s[m] # hashed!Head BY <1>1, ListedNodes, TableConstants
<1>3. \A a, b \in 1 .. n : s[a] = s[b] => a = b BY <1>1 DEF Listed
<1>4. \A m \in 1 .. n + 1 : m # 1 => m - 1 \in 1 .. n BY <1>1
<1>5. CASE i = 1 BY <1>1, <1>2, <1>4, <1>5 DEF Before
<1>6. CASE j = 1 BY <1>1, <1>2, <1>4, <1>6 DEF Before
<1>7. CASE i # 1 /\ j # 1
  <2>1. i - 1 \in 1 .. n /\ j - 1 \in 1 .. n /\ s[i - 1] = s[j - 1] BY <1>1, <1>4, <1>7 DEF Before
  <2>2. i - 1 = j - 1 BY <1>3, <2>1
  <2> QED BY <1>1, <2>2
<1> QED BY <1>5, <1>6, <1>7

\* A node linked behind the one before position p is at position p.
LEMMA BehindChain ==
  ASSUME NEW t, NEW s, Shape(t), Chain(t, s), NEW p \in 1 .. Len(s) + 1,
         NEW k \in Entry, k \notin Nodes(s), NEW u,
         u.next = hashed!Behind(t, k, Before(s, p)).next
  PROVE  Chain(u, Ins(s, p, k))
<1>1. PICK n \in Nat : n = Len(s) BY ListedNodes DEF Chain
<1>2. PICK z : z = Ins(s, p, k) OBVIOUS
<1>3. Listed(s) BY DEF Chain
<1>4. /\ Listed(z) /\ Len(z) = n + 1
      /\ \A i \in 1 .. n + 1 : z[i] = IF i < p THEN s[i] ELSE IF i = p THEN k ELSE s[i - 1]
  BY <1>1, <1>2, <1>3, InsListed
<1>5. \A i \in 1 .. n + 1 : /\ Before(s, i) \in Entry \cup {hashed!Head}
                            /\ Before(s, i) # k
  <2> TAKE i \in 1 .. n + 1
  <2>1. Before(s, i) \in Entry \cup {hashed!Head} BY <1>1, <1>3, BeforeIs
  <2>2. i # 1 => i - 1 \in 1 .. n BY <1>1
  <2>3. Before(s, i) # k BY <1>1, <2>2, TableConstants DEF Before, Nodes
  <2> QED BY <2>1, <2>3
<1>6. PICK v, f : v = hashed!Behind(t, k, Before(s, p)) /\ f = v.next OBVIOUS
<1>7. /\ f \in [Entry \cup {hashed!Head} -> Entry \cup {hashed!Nil}]
      /\ f[k] = t.next[Before(s, p)] /\ f[Before(s, p)] = k
      /\ \A x \in Entry \cup {hashed!Head} : x # k /\ x # Before(s, p) => f[x] = t.next[x]
  <2>1. t.next \in [Entry \cup {hashed!Head} -> Entry \cup {hashed!Nil}] BY DEF Chain
  <2>2. Before(s, p) \in Entry \cup {hashed!Head} /\ k # Before(s, p) BY <1>1, <1>5
  <2>3. PICK prev : prev = Before(s, p) OBVIOUS
  <2>4. prev \in Entry \cup {hashed!Head} /\ k # prev BY <2>2, <2>3
  <2>5. v = hashed!Behind(t, k, prev) BY <1>6, <2>3
  <2>6. IsBehind(v, t, k, prev) BY <2>1, <2>4, <2>5, BehindIs
  <2> QED BY <1>6, <2>3, <2>6 DEF IsBehind
<1>8. ASSUME NEW i \in 1 .. n + 2 PROVE f[Before(z, i)] = NodeAt(z, i)
  <2>1. CASE i < p
    <3>1. i \in 1 .. n /\ i \in 1 .. n + 1 BY <1>1, <2>1
    <3>2. Before(z, i) = Before(s, i)
      <4>1. i # 1 => i - 1 \in 1 .. n + 1 /\ i - 1 < p BY <2>1, <3>1
      <4> QED BY <1>4, <4>1 DEF Before
    <3>3. Before(s, i) # Before(s, p) BY <1>1, <1>3, <2>1, <3>1, BeforeOnce
    <3>4. f[Before(z, i)] = NodeAt(s, i) BY <1>1, <1>5, <1>7, <3>1, <3>2, <3>3 DEF Chain
    <3>5. NodeAt(s, i) = s[i] /\ NodeAt(z, i) = z[i] /\ z[i] = s[i]
      BY <1>1, <1>4, <2>1, <3>1 DEF NodeAt
    <3> QED BY <3>4, <3>5
  <2>2. CASE i = p
    <3>1. Before(z, p) = Before(s, p)
      <4>1. p # 1 => p - 1 \in 1 .. n + 1 /\ p - 1 < p BY <1>1
      <4> QED BY <1>4, <4>1 DEF Before
    <3>2. NodeAt(z, p) = k BY <1>1, <1>4 DEF NodeAt
    <3> QED BY <1>7, <2>2, <3>1, <3>2
  <2>3. CASE i = p + 1
    <3>1. Before(z, i) = k
      <4>1. p + 1 # 1 /\ p + 1 - 1 = p BY <1>1
      <4>2. z[p] = k BY <1>1, <1>4
      <4> QED BY <2>3, <4>1, <4>2 DEF Before
    <3>2. f[k] = NodeAt(s, p) BY <1>1, <1>7 DEF Chain
    <3>3. NodeAt(z, p + 1) = NodeAt(s, p)
      <4>1. CASE p <= n
        <5>1. p + 1 \in 1 .. n + 1 /\ ~(p + 1 < p) /\ p + 1 # p /\ p + 1 - 1 = p /\ p + 1 <= n + 1
          BY <1>1, <4>1
        <5>2. z[p + 1] = s[p] BY <1>4, <5>1
        <5> QED BY <1>1, <1>4, <4>1, <5>1, <5>2 DEF NodeAt
      <4>2. CASE ~(p <= n)
        <5>1. ~(p + 1 <= n + 1) BY <1>1, <4>2
        <5> QED BY <1>1, <1>4, <4>2, <5>1 DEF NodeAt
      <4> QED BY <4>1, <4>2
    <3> QED BY <2>3, <3>1, <3>2, <3>3
  <2>4. CASE i > p + 1
    <3>1. /\ i - 1 \in 1 .. n + 1 /\ i # 1 /\ ~(i - 1 < p) /\ i - 1 # p /\ i - 1 - 1 = i - 2
          /\ i - 1 # 1 /\ i - 1 # p
      BY <1>1, <2>4
    <3>2. Before(z, i) = Before(s, i - 1)
      <4>1. z[i - 1] = s[i - 1 - 1] BY <1>4, <3>1
      <4> QED BY <3>1, <4>1 DEF Before
    <3>3. Before(s, i - 1) # Before(s, p) BY <1>1, <1>3, <3>1, BeforeOnce
    <3>4. f[Before(z, i)] = NodeAt(s, i - 1) BY <1>1, <1>5, <1>7, <3>1, <3>2, <3>3 DEF Chain
    <3>5. NodeAt(z, i) = NodeAt(s, i - 1)
      <4>1. CASE i <= n + 1
        <5>1. i \in 1 .. n + 1 /\ ~(i < p) /\ i # p /\ i - 1 <= n BY <1>1, <2>4, <4>1
        <5>2. z[i] = s[i - 1] BY <1>4, <5>1
        <5> QED BY <1>1, <1>4, <4>1, <5>1, <5>2 DEF NodeAt
      <4>2. CASE ~(i <= n + 1)
        <5>1. ~(i - 1 <= n) BY <1>1, <4>2
        <5> QED BY <1>1, <1>4, <4>2, <5>1 DEF NodeAt
      <4> QED BY <4>1, <4>2
    <3> QED BY <3>4, <3>5
  <2> QED BY <1>1, <2>1, <2>2, <2>3, <2>4
<1>9. \A i \in 1 .. Len(z) + 1 : i \in 1 .. n + 2 BY <1>1, <1>4
<1> QED BY <1>2, <1>4, <1>6, <1>7, <1>8, <1>9 DEF Chain

\* Tables of as many buckets put a key in the same one.
LEMMA SameBuckets ==
  ASSUME NEW t, NEW u, u.bucketCount = t.bucketCount
  PROVE  /\ \A x : hashed!Bucket(u, x) = hashed!Bucket(t, x)
         /\ \A s, i : First(u, s, i) <=> First(t, s, i)
         /\ \A s : Grouped(u, s) <=> Grouped(t, s)
<1>1. \A x : hashed!Bucket(u, x) = hashed!Bucket(t, x) BY DEF hashed!Bucket
<1> QED BY <1>1 DEF First, Grouped

\* The new node behind its bucket's predecessor.
LEMMA BehindGood ==
  ASSUME NEW t, NEW s, Good(t, s), NEW k \in Entry, k \notin Nodes(s),
         NEW p \in 1 .. Len(s), First(t, s, p),
         hashed!Bucket(t, s[p]) = hashed!Bucket(t, k)
  PROVE  Good(hashed!Behind(t, k, Before(s, p)), Ins(s, p, k))
<1>1. PICK n \in Nat : n = Len(s) BY ListedNodes DEF Good, Chain
<1>2. PICK z : z = Ins(s, p, k) OBVIOUS
<1>3. PICK u : u = hashed!Behind(t, k, Before(s, p)) OBVIOUS
<1>4. Listed(s) /\ p \in 1 .. Len(s) + 1 /\ Shape(t) /\ Chain(t, s) /\ Grouped(t, s)
  <2>1. Shape(t) /\ Chain(t, s) /\ Grouped(t, s) BY DEF Good
  <2>2. Listed(s) BY <2>1 DEF Chain
  <2>3. p \in 1 .. Len(s) + 1 BY <1>1
  <2> QED BY <2>1, <2>2, <2>3
<1>5. /\ Listed(z) /\ Len(z) = n + 1
      /\ \A i \in 1 .. n + 1 : z[i] = IF i < p THEN s[i] ELSE IF i = p THEN k ELSE s[i - 1]
  BY <1>1, <1>2, <1>4, InsListed, SMTT(30)
<1>6. Shape(u) /\ u.buckets = t.buckets /\ u.bucketCount = t.bucketCount
  <2>1. Before(s, p) \in Entry \cup {hashed!Head} /\ k # Before(s, p)
    <3>1. Before(s, p) \in Entry \cup {hashed!Head} BY <1>4, BeforeIs
    <3>2. p # 1 => p - 1 \in 1 .. n BY <1>1
    <3> QED BY <1>1, <3>1, <3>2, TableConstants DEF Before, Nodes
  <2>2. t.next \in [Entry \cup {hashed!Head} -> Entry \cup {hashed!Nil}] BY <1>4 DEF Chain
  <2>3. PICK prev : prev = Before(s, p) OBVIOUS
  <2>4. prev \in Entry \cup {hashed!Head} /\ k # prev /\ u = hashed!Behind(t, k, prev)
    BY <1>3, <2>1, <2>3
  <2>5. IsBehind(u, t, k, prev) BY <1>4, <2>2, <2>4, BehindIs
  <2> QED BY <2>5 DEF IsBehind
<1>7. Chain(u, z) BY <1>2, <1>3, <1>4, BehindChain
<1>8. Grouped(u, z)
  <2>1. Fitting(t, s, p, k) BY DEF Fitting
  <2>2. Grouped(t, z) BY <1>2, <1>4, <2>1, InsGrouped
  <2> QED BY <1>6, <2>2, SameBuckets
<1>9. Filed(u, z)
  <2>1. u.bucketCount \in Nat \ {0}
        /\ u.buckets \in [0 .. u.bucketCount - 1 -> Entry \cup {hashed!Head, hashed!Nil}]
    BY <1>6 DEF Good, Filed
  <2>2. ASSUME NEW q \in 1 .. n + 1, First(u, z, q)
        PROVE  u.buckets[hashed!Bucket(u, z[q])] = Before(z, q)
    <3>1. First(t, z, q) BY <1>6, <2>2, SameBuckets
    <3>2. CASE q < p
      <4>1. First(t, s, q) BY <1>2, <1>4, <3>1, <3>2, FirstIns
      <4>2. q \in 1 .. n /\ z[q] = s[q] BY <1>1, <1>5, <3>2
      <4>3. Before(z, q) = Before(s, q)
        <5>1. q # 1 => q - 1 \in 1 .. n + 1 /\ q - 1 < p BY <3>2
        <5> QED BY <1>5, <5>1 DEF Before
      <4>4. t.buckets[hashed!Bucket(t, s[q])] = Before(s, q) BY <1>1, <4>1, <4>2 DEF Good, Filed
      <4> QED BY <1>6, <4>2, <4>3, <4>4, SameBuckets
    <3>3. CASE q = p
      <4>1. z[q] = k BY <1>5, <3>3
      <4>2. Before(z, q) = Before(s, p)
        <5>1. p # 1 => p - 1 \in 1 .. n + 1 /\ p - 1 < p BY <1>1
        <5> QED BY <1>5, <3>3, <5>1 DEF Before
      <4>3. t.buckets[hashed!Bucket(t, s[p])] = Before(s, p) BY <1>1 DEF Good, Filed
      <4> QED BY <1>6, <4>1, <4>2, <4>3, SameBuckets
    <3>4. CASE q > p
      <4>1. First(t, s, q - 1) /\ hashed!Bucket(t, s[q - 1]) # hashed!Bucket(t, k)
        BY <1>2, <1>4, <3>1, <3>4, FirstIns
      <4>2. q - 1 \in 1 .. n /\ z[q] = s[q - 1] BY <1>1, <1>5, <3>4
      <4>3. q - 1 # p BY <4>1
      <4>4. Before(z, q) = Before(s, q - 1)
        <5>1. q # 1 /\ q - 1 # 1 /\ ~(q - 1 < p) /\ q - 1 \in 1 .. n + 1 BY <3>4, <4>2, <4>3
        <5>2. z[q - 1] = s[q - 1 - 1] BY <1>5, <4>3, <5>1
        <5> QED BY <5>1, <5>2 DEF Before
      <4>5. t.buckets[hashed!Bucket(t, s[q - 1])] = Before(s, q - 1)
        BY <1>1, <4>1, <4>2 DEF Good, Filed
      <4> QED BY <1>6, <4>2, <4>4, <4>5, SameBuckets
    <3> QED BY <3>2, <3>3, <3>4
  <2>3. ASSUME NEW b \in 0 .. u.bucketCount - 1, u.buckets[b] # hashed!Nil
        PROVE  \E i \in 1 .. n + 1 : hashed!Bucket(u, z[i]) = b
    <3>1. PICK i \in 1 .. n : hashed!Bucket(t, s[i]) = b BY <1>1, <1>6, <2>3 DEF Good, Filed
    <3>2. CASE i < p
      <4>1. i \in 1 .. n + 1 /\ z[i] = s[i] BY <1>5, <3>2
      <4> QED BY <1>6, <3>1, <4>1, SameBuckets
    <3>3. CASE ~(i < p)
      <4>1. i + 1 \in 1 .. n + 1 /\ ~(i + 1 < p) /\ i + 1 # p /\ i + 1 - 1 = i BY <1>1, <3>3
      <4>2. z[i + 1] = s[i] BY <1>5, <4>1
      <4> QED BY <1>6, <3>1, <4>1, <4>2, SameBuckets
    <3> QED BY <3>2, <3>3
  <2> QED BY <1>5, <2>1, <2>2, <2>3 DEF Filed
<1> QED BY <1>2, <1>3, <1>6, <1>7, <1>8, <1>9 DEF Good

\* No node has the bucket that points nowhere.
LEMMA EmptyBucket ==
  ASSUME NEW t, NEW s, Good(t, s), NEW k \in Entry,
         t.buckets[hashed!Bucket(t, k)] = hashed!Nil
  PROVE  \A i \in 1 .. Len(s) : hashed!Bucket(t, s[i]) # hashed!Bucket(t, k)
<1>1. PICK b \in 0 .. t.bucketCount - 1 : b = hashed!Bucket(t, k)
  BY BucketIn DEF Good, Filed
<1>2. ASSUME NEW f \in 1 .. Len(s), t.buckets[b] = Before(s, f) PROVE FALSE
  <2>1. f \in 1 .. Len(s) + 1 /\ Listed(s) BY ListedNodes DEF Good, Chain
  <2>2. Before(s, f) # hashed!Nil BY <2>1, BeforeIs
  <2> QED BY <1>1, <1>2, <2>2
<1> QED BY <1>1, <1>2, BucketStart

\* The new node in front of the list, when its bucket was empty; the buckets
\* are the old ones but for the two that change.
IsFront(u, t, s, k) ==
  /\ Shape(u) /\ u.bucketCount = t.bucketCount
  /\ u.next = hashed!Behind(t, k, hashed!Head).next
  /\ u.buckets \in [0 .. t.bucketCount - 1 -> Entry \cup {hashed!Head, hashed!Nil}]
  /\ u.buckets[hashed!Bucket(t, k)] = hashed!Head
  /\ Len(s) > 0 => u.buckets[hashed!Bucket(t, s[1])] = k
  /\ \A b \in 0 .. t.bucketCount - 1 :
       b # hashed!Bucket(t, k) /\ (Len(s) > 0 => b # hashed!Bucket(t, s[1]))
         => u.buckets[b] = t.buckets[b]

LEMMA FrontGood ==
  ASSUME NEW t, NEW s, Good(t, s), NEW k \in Entry, k \notin Nodes(s),
         t.buckets[hashed!Bucket(t, k)] = hashed!Nil, NEW u, IsFront(u, t, s, k)
  PROVE  Good(u, Ins(s, 1, k))
<1> USE DEF IsFront
<1>1. PICK n \in Nat : n = Len(s) BY ListedNodes DEF Good, Chain
<1>2. PICK z : z = Ins(s, 1, k) OBVIOUS
<1>3. Listed(s) /\ 1 \in 1 .. Len(s) + 1 /\ Shape(t) /\ Chain(t, s) /\ Grouped(t, s)
  BY <1>1 DEF Good, Chain
<1>4. /\ Listed(z) /\ Len(z) = n + 1
      /\ \A i \in 1 .. n + 1 : z[i] = IF i < 1 THEN s[i] ELSE IF i = 1 THEN k ELSE s[i - 1]
  BY <1>1, <1>2, <1>3, InsListed
<1>5. z[1] = k /\ \A i \in 1 .. n : i + 1 \in 1 .. n + 1 /\ z[i + 1] = s[i]
  <2>1. z[1] = k BY <1>1, <1>4
  <2>2. ASSUME NEW i \in 1 .. n PROVE i + 1 \in 1 .. n + 1 /\ z[i + 1] = s[i]
    <3>1. i + 1 \in 1 .. n + 1 /\ ~(i + 1 < 1) /\ i + 1 # 1 /\ i + 1 - 1 = i OBVIOUS
    <3> QED BY <1>4, <3>1
  <2> QED BY <2>1, <2>2
<1>6. \A i \in 1 .. n : hashed!Bucket(t, s[i]) # hashed!Bucket(t, k) BY <1>1, EmptyBucket
<1>7. Chain(u, z)
  <2>1. Before(s, 1) = hashed!Head BY DEF Before
  <2> QED BY <1>2, <1>3, <2>1, BehindChain
<1>8. Grouped(u, z)
  <2>1. Fitting(t, s, 1, k) BY <1>1, <1>6 DEF Fitting
  <2>2. Grouped(t, z) BY <1>2, <1>3, <2>1, InsGrouped
  <2> QED BY <2>2, SameBuckets
<1>9. Filed(u, z)
  <2>1. u.bucketCount \in Nat \ {0} BY DEF Good, Filed
  <2>2. ASSUME NEW q \in 1 .. n + 1, First(u, z, q)
        PROVE  u.buckets[hashed!Bucket(u, z[q])] = Before(z, q)
    <3>1. First(t, z, q) BY <2>2, SameBuckets
    <3>2. hashed!Bucket(u, z[q]) = hashed!Bucket(t, z[q]) BY SameBuckets
    <3>3. CASE q = 1 BY <1>5, <3>2, <3>3 DEF Before
    <3>4. CASE q # 1
      <4>1. PICK i \in 1 .. n : i = q - 1 /\ q = i + 1 BY <1>1, <3>4
      <4>2. z[q] = s[i] BY <1>5, <4>1
      <4>3. First(t, s, i)
        <5>1. q > 1 /\ q - 1 = i BY <3>4, <4>1
        <5>2. First(t, s, q - 1) BY <1>2, <1>3, <3>1, <5>1, FirstIns
        <5> QED BY <5>1, <5>2
      <4>4. CASE i = 1
        <5>1. Before(z, q) = k BY <1>5, <3>4, <4>1, <4>4 DEF Before
        <5>2. Len(s) > 0 BY <1>1, <4>1
        <5> QED BY <3>2, <4>2, <4>4, <5>1, <5>2
      <4>5. CASE i # 1
        <5>1. Before(z, q) = Before(s, i)
          <6>1. PICK j \in 1 .. n : j = i - 1 /\ i = j + 1 BY <4>5
          <6>2. z[i] = s[j] BY <1>5, <6>1
          <6> QED BY <3>4, <4>1, <4>5, <6>1, <6>2 DEF Before
        <5>2. hashed!Bucket(t, s[i]) # hashed!Bucket(t, s[1])
          <6>1. 1 \in 1 .. i - 1 BY <4>5
          <6> QED BY <4>3, <6>1 DEF First
        <5>3. hashed!Bucket(t, s[i]) # hashed!Bucket(t, k) BY <1>6
        <5>4. hashed!Bucket(t, s[i]) \in 0 .. t.bucketCount - 1
          <6>1. s[i] \in Entry BY <1>1, <1>3, ListedNodes
          <6> QED BY <6>1, BucketIn DEF Good, Filed
        <5>5. t.buckets[hashed!Bucket(t, s[i])] = Before(s, i)
          BY <1>1, <4>3 DEF Good, Filed
        <5> QED BY <3>2, <4>2, <5>1, <5>2, <5>3, <5>4, <5>5
      <4> QED BY <4>4, <4>5
    <3> QED BY <3>3, <3>4
  <2>3. ASSUME NEW b \in 0 .. u.bucketCount - 1, u.buckets[b] # hashed!Nil
        PROVE  \E i \in 1 .. n + 1 : hashed!Bucket(u, z[i]) = b
    <3>1. CASE b = hashed!Bucket(t, k)
      <4>1. 1 \in 1 .. n + 1 OBVIOUS
      <4> QED BY <1>5, <3>1, <4>1, SameBuckets
    <3>2. CASE b # hashed!Bucket(t, k) /\ Len(s) > 0 /\ b = hashed!Bucket(t, s[1])
      <4>1. 1 \in 1 .. n BY <1>1, <3>2
      <4> QED BY <1>5, <3>2, <4>1, SameBuckets
    <3>3. CASE b # hashed!Bucket(t, k) /\ ~(Len(s) > 0 /\ b = hashed!Bucket(t, s[1]))
      <4>1. u.buckets[b] = t.buckets[b] BY <3>3
      <4>2. PICK i \in 1 .. n : hashed!Bucket(t, s[i]) = b
        BY <1>1, <2>3, <4>1 DEF Good, Filed
      <4> QED BY <1>5, <4>2, SameBuckets
    <3> QED BY <3>1, <3>2, <3>3
  <2> QED BY <1>4, <2>1, <2>2, <2>3 DEF Filed
<1> QED BY <1>2, <1>7, <1>8, <1>9 DEF Good

\* The first pointer of the list.
LEMMA HeadNext ==
  ASSUME NEW t, NEW s, Chain(t, s)
  PROVE  /\ Len(s) = 0 => t.next[hashed!Head] = hashed!Nil
         /\ Len(s) > 0 => t.next[hashed!Head] = s[1] /\ s[1] \in Entry /\ s[1] # hashed!Nil
<1>1. PICK n \in Nat : n = Len(s) BY ListedNodes DEF Chain
<1>2. 1 \in 1 .. n + 1 BY <1>1
<1>3. t.next[hashed!Head] = NodeAt(s, 1) BY <1>1, <1>2 DEF Chain, Before
<1>4. ASSUME n > 0 PROVE s[1] \in Entry
  <2>1. 1 \in 1 .. Len(s) BY <1>1, <1>4
  <2> QED BY <2>1, ListedNodes DEF Chain
<1> QED BY <1>1, <1>3, <1>4, TableConstants DEF NodeAt

\* The buckets with the first node's filed behind k, and the table with these
\* buckets and k in front.
WithFirst(m, t, s, k) ==
  m = IF Len(s) = 0 THEN t.buckets ELSE [t.buckets EXCEPT ![hashed!Bucket(t, s[1])] = k]
Fronted(t, m, k) ==
  [hashed!Behind(t, k, hashed!Head)
     EXCEPT !.buckets = [m EXCEPT ![hashed!Bucket(t, k)] = hashed!Head]]

LEMMA FrontSet ==
  ASSUME NEW t, NEW s, Good(t, s), NEW k \in Entry, k \notin Nodes(s),
         t.buckets[hashed!Bucket(t, k)] = hashed!Nil,
         NEW m, WithFirst(m, t, s, k), NEW u, u = Fronted(t, m, k)
  PROVE  Good(u, Ins(s, 1, k)) /\ u.bucketCount = t.bucketCount
<1> DEFINE T == [0 .. t.bucketCount - 1 -> Entry \cup {hashed!Head, hashed!Nil}]
<1>1. Shape(t) /\ Chain(t, s) /\ t.buckets \in T /\ t.bucketCount \in Nat \ {0}
  BY DEF Good, Filed
<1>2. PICK b \in 0 .. t.bucketCount - 1 : b = hashed!Bucket(t, k) BY <1>1, BucketIn
<1>3. PICK v : v = hashed!Behind(t, k, hashed!Head) OBVIOUS
<1>4. Shape(v) /\ v.bucketCount = t.bucketCount /\ v.buckets = t.buckets
  <2>1. PICK prev : prev = hashed!Head OBVIOUS
  <2>2. prev \in Entry \cup {hashed!Head} /\ k # prev /\ v = hashed!Behind(t, k, prev)
    BY <1>3, <2>1, TableConstants
  <2>3. t.next \in [Entry \cup {hashed!Head} -> Entry \cup {hashed!Nil}] BY <1>1 DEF Chain
  <2>4. IsBehind(v, t, k, prev) BY <1>1, <2>2, <2>3, BehindIs
  <2> QED BY <2>4 DEF IsBehind
<1>5. PICK n \in Nat : n = Len(s) BY <1>1, ListedNodes DEF Chain
<1>6. \A i \in 1 .. n : hashed!Bucket(t, s[i]) # b BY <1>2, <1>5, EmptyBucket
<1>7. ASSUME n > 0
      PROVE  /\ hashed!Bucket(t, s[1]) \in 0 .. t.bucketCount - 1
             /\ hashed!Bucket(t, s[1]) # b
  <2>1. 1 \in 1 .. n BY <1>5, <1>7
  <2>2. s[1] \in Entry BY <1>1, <1>5, <1>7, HeadNext
  <2> QED BY <1>1, <1>6, <2>1, <2>2, BucketIn
<1>8. m \in T /\ \A c \in 0 .. t.bucketCount - 1 :
                    IF n > 0 /\ c = hashed!Bucket(t, s[1]) THEN m[c] = k ELSE m[c] = t.buckets[c]
  <2>1. CASE n = 0 BY <1>1, <1>5, <2>1 DEF WithFirst
  <2>2. CASE n # 0
    <3>1. n > 0 BY <2>2
    <3>2. PICK c \in 0 .. t.bucketCount - 1 : c = hashed!Bucket(t, s[1]) BY <1>7, <3>1
    <3>3. m = [t.buckets EXCEPT ![c] = k] BY <1>5, <2>2, <3>2 DEF WithFirst
    <3> QED BY <1>1, <3>1, <3>2, <3>3
  <2> QED BY <2>1, <2>2
<1>9. PICK g : g = [m EXCEPT ![b] = hashed!Head] OBVIOUS
<1>10. g \in T /\ g[b] = hashed!Head /\ \A c \in 0 .. t.bucketCount - 1 : c # b => g[c] = m[c]
  BY <1>8, <1>9
<1>11. u = [v EXCEPT !.buckets = g] BY <1>2, <1>3, <1>9 DEF Fronted
<1>12. Shape(u) /\ u.next = v.next /\ u.buckets = g /\ u.bucketCount = t.bucketCount
  <2>1. PICK x, y, c : v = [next |-> x, buckets |-> y, bucketCount |-> c] BY <1>4 DEF Shape
  <2>2. u = [next |-> x, buckets |-> g, bucketCount |-> c] BY <1>11, <2>1
  <2>3. u.next = x /\ u.buckets = g /\ u.bucketCount = c BY <2>2
  <2>4. v.next = x /\ v.bucketCount = c BY <2>1
  <2>5. Shape(u) BY <2>2, <2>3 DEF Shape
  <2> QED BY <1>4, <2>3, <2>4, <2>5
<1>13. Len(s) > 0 => u.buckets[hashed!Bucket(t, s[1])] = k
  BY <1>5, <1>7, <1>8, <1>10, <1>12
<1>14. u.buckets[hashed!Bucket(t, k)] = hashed!Head BY <1>2, <1>10, <1>12
<1>15. \A c \in 0 .. t.bucketCount - 1 :
         c # hashed!Bucket(t, k) /\ (Len(s) > 0 => c # hashed!Bucket(t, s[1]))
           => u.buckets[c] = t.buckets[c]
  BY <1>2, <1>5, <1>8, <1>10, <1>12
<1>16. u.buckets \in T /\ u.next = hashed!Behind(t, k, hashed!Head).next BY <1>3, <1>10, <1>12
<1>17. IsFront(u, t, s, k) BY <1>12, <1>13, <1>14, <1>15, <1>16 DEF IsFront
<1> QED BY <1>12, <1>17, FrontGood

\* Of a table in order a node is linked into one in order.
LEMMA LinkedGood ==
  ASSUME NEW t, NEW s, Good(t, s), NEW k \in Entry, k \notin Nodes(s)
  PROVE  \E z : /\ Good(hashed!Linked(t, k), z) /\ Nodes(z) = Nodes(s) \cup {k}
                /\ Len(z) = Len(s) + 1
                /\ hashed!Linked(t, k).bucketCount = t.bucketCount
<1>1. Chain(t, s) /\ Listed(s) /\ Shape(t) BY DEF Good, Chain
<1>2. PICK b \in 0 .. t.bucketCount - 1 : b = hashed!Bucket(t, k) BY BucketIn DEF Good, Filed
<1>3. CASE t.buckets[b] = hashed!Nil
  <2>1. PICK m : m = hashed!Moved(t, k) OBVIOUS
  <2>2. WithFirst(m, t, s, k)
    <3>1. Len(s) \in Nat BY <1>1, ListedNodes
    <3> QED BY <1>1, <2>1, <3>1, HeadNext DEF hashed!Moved, WithFirst
  <2>3. PICK u : u = hashed!Linked(t, k) OBVIOUS
  <2>4. u = Fronted(t, m, k)
    BY <1>2, <1>3, <2>1, <2>3 DEF hashed!Linked, hashed!InFront, Fronted
  <2>5. Good(u, Ins(s, 1, k)) /\ u.bucketCount = t.bucketCount
    BY <1>2, <1>3, <2>2, <2>4, FrontSet
  <2>6. 1 \in 1 .. Len(s) + 1 BY <1>1, ListedNodes
  <2> QED BY <1>1, <2>3, <2>5, <2>6, InsListed
<1>4. CASE t.buckets[b] # hashed!Nil
  <2>1. PICK f \in 1 .. Len(s) : /\ First(t, s, f) /\ hashed!Bucket(t, s[f]) = b
                                 /\ t.buckets[b] = Before(s, f)
    BY <1>2, <1>4, BucketStart
  <2>2. f \in 1 .. Len(s) + 1 BY <1>1, ListedNodes
  <2>3. PICK u : u = hashed!Linked(t, k) OBVIOUS
  <2>4. u = hashed!Behind(t, k, Before(s, f)) BY <1>2, <1>4, <2>1, <2>3 DEF hashed!Linked
  <2>5. Good(hashed!Behind(t, k, Before(s, f)), Ins(s, f, k)) BY <1>2, <2>1, BehindGood
  <2>6. u.bucketCount = t.bucketCount
    <3>1. PICK x, y, c : t = [next |-> x, buckets |-> y, bucketCount |-> c] BY <1>1 DEF Shape
    <3>2. \A g : [t EXCEPT !.next = g].bucketCount = t.bucketCount BY <3>1
    <3> QED BY <2>4, <3>2 DEF hashed!Behind
  <2> QED BY <1>1, <2>2, <2>3, <2>4, <2>5, <2>6, InsListed
<1> QED BY <1>3, <1>4

-----------------------------------------------------------------------------
\* The rehash: the nodes of the old list are linked one by one.
LEMMA EmptyGood ==
  ASSUME NEW n \in Nat \ {0}
  PROVE  Good(hashed!NoTable(n), <<>>) /\ Nodes(<<>>) = {} /\ hashed!NoTable(n).bucketCount = n
<1>1. PICK t : t = hashed!NoTable(n) OBVIOUS
<1>2. /\ t = [next |-> t.next, buckets |-> t.buckets, bucketCount |-> t.bucketCount]
      /\ t.next = [x \in Entry \cup {hashed!Head} |-> hashed!Nil]
      /\ t.buckets = [b \in 0 .. n - 1 |-> hashed!Nil] /\ t.bucketCount = n
  BY <1>1 DEF hashed!NoTable, hashed!NoNodes, hashed!NoBuckets
<1>3. Len(<<>>) = 0 /\ Nodes(<<>>) = {} BY DEF Nodes
<1>4. Listed(<<>>) BY <1>3 DEF Listed
<1>5. Chain(t, <<>>)
  <2>1. t.next \in [Entry \cup {hashed!Head} -> Entry \cup {hashed!Nil}] BY <1>2
  <2>2. ASSUME NEW i \in 1 .. Len(<<>>) + 1 PROVE t.next[Before(<<>>, i)] = NodeAt(<<>>, i)
    <3>1. i = 1 /\ ~(i <= Len(<<>>)) BY <1>3
    <3> QED BY <1>2, <3>1 DEF Before, NodeAt
  <2> QED BY <1>4, <2>1, <2>2 DEF Chain
<1>6. Grouped(t, <<>>) BY <1>3 DEF Grouped
<1>7. Filed(t, <<>>) BY <1>2, <1>3 DEF Filed
<1> QED BY <1>1, <1>2, <1>3, <1>5, <1>6, <1>7 DEF Good, Shape

\* beginBkt is the bucket of the first node.
Ready(r, z) ==
  /\ r = [table |-> r.table, beginBkt |-> r.beginBkt]
  /\ Good(r.table, z)
  /\ Len(z) > 0 => r.beginBkt = hashed!Bucket(r.table, z[1])

LEMMA RelinkedReady ==
  ASSUME NEW r, NEW z, Ready(r, z), NEW k \in Entry, k \notin Nodes(z)
  PROVE  \E y : /\ Ready(hashed!Relinked(r, k), y) /\ Nodes(y) = Nodes(z) \cup {k}
                /\ hashed!Relinked(r, k).table.bucketCount = r.table.bucketCount
<1>1. PICK t, bb : r = [table |-> t, beginBkt |-> bb]
  <2>1. r = [table |-> r.table, beginBkt |-> r.beginBkt] BY DEF Ready
  <2> QED BY <2>1
<1>2. r.table = t /\ r.beginBkt = bb BY <1>1
<1>3. Good(t, z) /\ (Len(z) > 0 => bb = hashed!Bucket(t, z[1])) BY <1>2 DEF Ready
<1>4. Chain(t, z) /\ Listed(z) /\ Shape(t) BY <1>3 DEF Good, Chain
<1>5. PICK n \in Nat : n = Len(z) BY <1>4, ListedNodes
<1>6. k # hashed!Nil BY TableConstants
<1>7. PICK b \in 0 .. t.bucketCount - 1 : b = hashed!Bucket(t, k)
  BY <1>3, BucketIn DEF Good, Filed
<1>8. \A p \in 1 .. n + 1 : /\ Listed(Ins(z, p, k)) /\ Len(Ins(z, p, k)) = n + 1
                            /\ Nodes(Ins(z, p, k)) = Nodes(z) \cup {k}
                            /\ p = 1 => Ins(z, p, k)[1] = k
                            /\ p # 1 => Ins(z, p, k)[1] = z[1]
  <2> TAKE p \in 1 .. n + 1
  <2>1. /\ Listed(Ins(z, p, k)) /\ Len(Ins(z, p, k)) = n + 1
        /\ Nodes(Ins(z, p, k)) = Nodes(z) \cup {k}
        /\ \A i \in 1 .. n + 1 :
              Ins(z, p, k)[i] = IF i < p THEN z[i] ELSE IF i = p THEN k ELSE z[i - 1]
    BY <1>4, <1>5, InsListed
  <2>2. 1 \in 1 .. n + 1 /\ (p # 1 => 1 < p) /\ ~(1 < 1) OBVIOUS
  <2> QED BY <2>1, <2>2
<1>9. CASE t.buckets[b] = hashed!Nil
  <2>1. PICK v : v = hashed!Behind(t, k, hashed!Head) OBVIOUS
  <2>2. PICK m : m = hashed!Noted(v, k, bb) OBVIOUS
  <2>3. v.next[k] = t.next[hashed!Head] /\ v.buckets = t.buckets /\ v.bucketCount = t.bucketCount
    <3>1. PICK prev : prev = hashed!Head OBVIOUS
    <3>2. prev \in Entry \cup {hashed!Head} /\ k # prev /\ v = hashed!Behind(t, k, prev)
      BY <2>1, <3>1, TableConstants
    <3>3. t.next \in [Entry \cup {hashed!Head} -> Entry \cup {hashed!Nil}] BY <1>4 DEF Chain
    <3>4. IsBehind(v, t, k, prev) BY <1>4, <3>2, <3>3, BehindIs
    <3> QED BY <3>1, <3>4 DEF IsBehind
  <2>4. WithFirst(m, t, z, k)
    BY <1>3, <1>4, <1>5, <2>2, <2>3, HeadNext DEF hashed!Noted, WithFirst
  <2>5. PICK u : u = hashed!Opened(v, k, bb) OBVIOUS
  <2>6. u = Fronted(t, m, k)
    <3>1. hashed!Bucket(v, k) = hashed!Bucket(t, k) BY <2>3 DEF hashed!Bucket
    <3> QED BY <2>1, <2>2, <2>5, <3>1 DEF hashed!Opened, Fronted
  <2>7. Good(u, Ins(z, 1, k)) /\ u.bucketCount = t.bucketCount
    BY <1>3, <1>7, <1>9, <2>4, <2>6, FrontSet
  <2>8. hashed!Relinked(r, k) = [table |-> u, beginBkt |-> hashed!Bucket(t, k)]
    BY <1>2, <1>6, <1>7, <1>9, <2>1, <2>5 DEF hashed!Relinked
  <2>9. hashed!Bucket(t, k) = hashed!Bucket(u, k) BY <2>7 DEF hashed!Bucket
  <2>10. PICK r2 : r2 = hashed!Relinked(r, k) OBVIOUS
  <2>11. r2.table = u /\ r2.beginBkt = hashed!Bucket(u, k)
         /\ r2 = [table |-> u, beginBkt |-> hashed!Bucket(u, k)]
    BY <2>8, <2>9, <2>10
  <2>12. 1 \in 1 .. n + 1 OBVIOUS
  <2>13. Ready(r2, Ins(z, 1, k)) BY <1>8, <2>7, <2>11, <2>12 DEF Ready
  <2> QED BY <1>2, <1>8, <2>7, <2>10, <2>11, <2>12, <2>13
<1>10. CASE t.buckets[b] # hashed!Nil
  <2>1. PICK f \in 1 .. n : /\ First(t, z, f) /\ hashed!Bucket(t, z[f]) = b
                            /\ t.buckets[b] = Before(z, f)
    BY <1>3, <1>5, <1>7, <1>10, BucketStart
  <2>2. f \in 1 .. n + 1 BY <1>5
  <2>3. PICK u : u = hashed!Behind(t, k, Before(z, f)) OBVIOUS
  <2>4. Good(u, Ins(z, f, k)) BY <1>3, <1>5, <1>7, <2>1, <2>3, BehindGood
  <2>5. u.bucketCount = t.bucketCount
    <3>1. PICK x, y, c : t = [next |-> x, buckets |-> y, bucketCount |-> c] BY <1>4 DEF Shape
    <3>2. \A g : [t EXCEPT !.next = g].bucketCount = t.bucketCount BY <3>1
    <3> QED BY <2>3, <3>2 DEF hashed!Behind
  <2>6. PICK r2 : r2 = hashed!Relinked(r, k) OBVIOUS
  <2>7. r2 = [r EXCEPT !.table = u]
    BY <1>2, <1>6, <1>7, <1>10, <2>1, <2>3, <2>6 DEF hashed!Relinked
  <2>8. r2 = [table |-> u, beginBkt |-> bb] BY <1>1, <2>7
  <2>9. r2.table = u /\ r2.beginBkt = bb BY <2>8
  <2>10. bb = hashed!Bucket(u, Ins(z, f, k)[1])
    <3>1. bb = hashed!Bucket(t, z[1]) BY <1>3, <1>5
    <3>2. CASE f = 1 BY <1>7, <1>8, <2>1, <2>2, <2>5, <3>1, <3>2, SameBuckets
    <3>3. CASE f # 1 BY <1>8, <2>2, <2>5, <3>1, <3>3, SameBuckets
    <3> QED BY <3>2, <3>3
  <2>11. Ready(r2, Ins(z, f, k)) BY <2>4, <2>8, <2>9, <2>10 DEF Ready
  <2> QED BY <1>2, <1>8, <2>2, <2>5, <2>6, <2>9, <2>11
<1> QED BY <1>9, <1>10

\* The loop of _rehash is there.
LEMMA RehashLoop ==
  ASSUME NEW t, NEW c, NEW l \in Nat, l = hashed!Longest
  PROVE  \E f : /\ f = [k \in 0 .. l |-> IF k = 0 THEN [table |-> hashed!NoTable(c), beginBkt |-> 0] ELSE hashed!Relinked(f[k - 1], hashed!Walk(t, hashed!Head)[k])]
                /\ hashed!Rehashed(t, c) = f[l].table
<1> DEFINE Start == [table |-> hashed!NoTable(c), beginBkt |-> 0]
           Iter(k, x) == hashed!Relinked(x, hashed!Walk(t, hashed!Head)[k])
           Loop(f, n) == f = [k \in 0 .. n |-> IF k = 0 THEN Start ELSE Iter(k, f[k - 1])]
           Bad == {n \in 0 .. l : ~\E f : Loop(f, n)}
<1>1. Bad = {}
  <2> SUFFICES ASSUME Bad # {} PROVE FALSE OBVIOUS
  <2>1. PICK n \in Bad : \A m \in Bad : n <= m
    <3>1. Bad \in SUBSET Nat OBVIOUS
    <3> HIDE DEF Bad
    <3> QED BY <3>1, Smallest
  <2>2. n # 0
    <3> HIDE DEF Start, Iter
    <3>1. Loop([k \in 0 .. 0 |-> Start], 0) OBVIOUS
    <3> HIDE DEF Loop
    <3> QED BY <2>1, <3>1
  <2>3. n \in 1 .. l /\ n - 1 \in 0 .. l BY <2>1, <2>2
  <2>4. PICK f : Loop(f, n - 1)
    <3> HIDE DEF Loop
    <3>1. n - 1 \notin Bad BY <2>1, <2>3
    <3> QED BY <2>3, <3>1
  <2>5. PICK g : g = [k \in 0 .. n |-> IF k = n THEN Iter(n, f[n - 1]) ELSE f[k]] OBVIOUS
  <2>6. Loop(g, n)
    <3> HIDE DEF Start, Iter
    <3>1. \A k \in 0 .. n - 1 : g[k] = f[k] BY <2>3, <2>5
    <3>2. \A k \in 0 .. n - 1 : f[k] = IF k = 0 THEN Start ELSE Iter(k, f[k - 1])
      BY <2>4
    <3>3. \A k \in 0 .. n : g[k] = IF k = 0 THEN Start ELSE Iter(k, g[k - 1])
      <4> TAKE k \in 0 .. n
      <4>1. CASE k = n
        <5>1. g[k] = Iter(n, f[n - 1]) BY <2>5, <4>1
        <5>2. f[n - 1] = g[k - 1] BY <2>3, <3>1, <4>1
        <5> QED BY <2>2, <4>1, <5>1, <5>2
      <4>2. CASE k = 0 BY <2>3, <3>1, <3>2, <4>2
      <4>3. CASE k # n /\ k # 0
        <5>1. k \in 0 .. n - 1 /\ k - 1 \in 0 .. n - 1 BY <2>3, <4>3
        <5>2. g[k] = f[k] /\ f[k - 1] = g[k - 1] BY <3>1, <5>1
        <5> QED BY <3>2, <4>3, <5>1, <5>2
      <4> QED BY <4>1, <4>2, <4>3
    <3>4. g = [k \in 0 .. n |-> g[k]] BY <2>5
    <3> QED BY <3>3, <3>4
  <2> HIDE DEF Loop
  <2> QED BY <2>1, <2>6
<1>2. \E f : Loop(f, l)
  <2>1. l \in 0 .. l /\ l \notin Bad BY <1>1
  <2> HIDE DEF Loop
  <2> QED BY <2>1
<1>3. PICK f : f = CHOOSE g : Loop(g, l) OBVIOUS
<1>4. Loop(f, l)
  <2> HIDE DEF Loop
  <2> QED BY <1>2, <1>3
<1>5. hashed!Rehashed(t, c) = f[l].table BY <1>3 DEF hashed!Rehashed
<1> QED BY <1>4, <1>5

LEMMA RehashSteps ==
  ASSUME NEW t, NEW c
  PROVE  \E f : /\ f[0] = [table |-> hashed!NoTable(c), beginBkt |-> 0]
                /\ \A i \in 1 .. hashed!Longest :
                     f[i] = hashed!Relinked(f[i - 1], hashed!Walk(t, hashed!Head)[i])
                /\ hashed!Rehashed(t, c) = f[hashed!Longest].table
<1>1. PICK l : l = hashed!Longest OBVIOUS
<1>2. l \in Nat BY <1>1, TableConstants
<1>3. PICK f : /\ f = [k \in 0 .. l |-> IF k = 0 THEN [table |-> hashed!NoTable(c), beginBkt |-> 0]
                         ELSE hashed!Relinked(f[k - 1], hashed!Walk(t, hashed!Head)[k])]
               /\ hashed!Rehashed(t, c) = f[l].table
  BY <1>1, <1>2, RehashLoop
<1>4. f[0] = [table |-> hashed!NoTable(c), beginBkt |-> 0]
  <2>1. 0 \in 0 .. l BY <1>2
  <2> QED BY <1>3, <2>1
<1>5. ASSUME NEW i \in 1 .. l
      PROVE  f[i] = hashed!Relinked(f[i - 1], hashed!Walk(t, hashed!Head)[i])
  <2>1. i \in 0 .. l /\ i # 0 BY <1>2
  <2> QED BY <1>3, <2>1
<1> QED BY <1>1, <1>3, <1>4, <1>5

\* What the walk from the head meets.
LEMMA WalkList ==
  ASSUME NEW t, NEW s, Chain(t, s)
  PROVE  \A i \in 1 .. hashed!Longest + 1 : hashed!Walk(t, hashed!Head)[i] = NodeAt(s, i)
<1>1. PICK n \in Nat : n = Len(s) BY ListedNodes DEF Chain
<1> TAKE i \in 1 .. hashed!Longest + 1
<1>2. 1 \in 1 .. Len(s) + 1 /\ Before(s, 1) = hashed!Head BY <1>1 DEF Before
<1>3. hashed!Walk(t, Before(s, 1))[i] = NodeAt(s, 1 + i - 1) BY <1>2, WalkAlong
<1>4. 1 + i - 1 = i BY TableConstants
<1> QED BY <1>2, <1>3, <1>4

\* The first i nodes.
Taken(s, i) == {s[j] : j \in {m \in 1 .. Len(s) : m <= i}}

LEMMA RehashedGood ==
  ASSUME NEW t, NEW s, Good(t, s), NEW c \in Nat \ {0}
  PROVE  \E z : /\ Good(hashed!Rehashed(t, c), z) /\ Nodes(z) = Nodes(s)
                /\ hashed!Rehashed(t, c).bucketCount = c
<1>1. Chain(t, s) /\ Listed(s) BY DEF Good, Chain
<1>2. PICK n \in Nat : n = Len(s) BY <1>1, ListedNodes
<1>3. PICK l \in Nat : l = hashed!Longest /\ n <= l BY <1>1, <1>2, ListedNodes, TableConstants
<1>4. PICK f : /\ f[0] = [table |-> hashed!NoTable(c), beginBkt |-> 0]
               /\ \A i \in 1 .. l :
                    f[i] = hashed!Relinked(f[i - 1], hashed!Walk(t, hashed!Head)[i])
               /\ hashed!Rehashed(t, c) = f[l].table
  BY <1>3, RehashSteps
<1>5. f[0] = [table |-> hashed!NoTable(c), beginBkt |-> 0] BY <1>4
<1>6. \A i \in 1 .. l : f[i] = hashed!Relinked(f[i - 1], NodeAt(s, i))
  <2> TAKE i \in 1 .. l
  <2>1. i \in 0 .. l /\ i # 0 /\ i \in 1 .. l + 1 OBVIOUS
  <2>2. f[i] = hashed!Relinked(f[i - 1], hashed!Walk(t, hashed!Head)[i]) BY <1>4, <2>1
  <2>3. hashed!Walk(t, hashed!Head)[i] = NodeAt(s, i) BY <1>1, <1>3, <2>1, WalkList
  <2> QED BY <2>2, <2>3
<1> DEFINE Fine(i) == \E z : /\ Ready(f[i], z) /\ Nodes(z) = Taken(s, i)
                             /\ f[i].table.bucketCount = c
           Bad == {i \in 0 .. l : ~Fine(i)}
<1>7. Bad = {}
  <2> SUFFICES ASSUME Bad # {} PROVE FALSE OBVIOUS
  <2>1. PICK i \in Bad : \A j \in Bad : i <= j
    <3>1. Bad \in SUBSET Nat OBVIOUS
    <3> HIDE DEF Bad
    <3> QED BY <3>1, Smallest
  <2>2. i # 0
    <3>1. PICK t0 : t0 = hashed!NoTable(c) OBVIOUS
    <3>2. Good(t0, <<>>) /\ Nodes(<<>>) = {} /\ t0.bucketCount = c BY <3>1, EmptyGood
    <3>3. f[0].table = t0 /\ f[0].beginBkt = 0 /\ f[0] = [table |-> t0, beginBkt |-> 0]
      BY <1>5, <3>1
    <3>4. Ready(f[0], <<>>)
      <4>1. ~(Len(<<>>) > 0) OBVIOUS
      <4> QED BY <3>2, <3>3, <4>1 DEF Ready
    <3>5. Taken(s, 0) = {} BY <1>2 DEF Taken
    <3>6. Fine(0) BY <3>2, <3>3, <3>4, <3>5
    <3> QED BY <2>1, <3>6
  <2>3. i \in 1 .. l /\ i - 1 \in 0 .. l /\ ~(i <= i - 1) BY <2>1, <2>2
  <2>4. Fine(i - 1)
    <3>1. i - 1 \notin Bad BY <2>1, <2>3
    <3> QED BY <2>3, <3>1
  <2>5. PICK z : Ready(f[i - 1], z) /\ Nodes(z) = Taken(s, i - 1) /\ f[i - 1].table.bucketCount = c
    BY <2>4
  <2>6. f[i] = hashed!Relinked(f[i - 1], NodeAt(s, i)) BY <1>6, <2>3
  <2>7. CASE i <= n
    <3>1. i \in 1 .. n BY <2>3, <2>7
    <3>2. NodeAt(s, i) = s[i] /\ s[i] \in Entry BY <1>1, <1>2, <3>1, ListedNodes DEF NodeAt
    <3>3. s[i] \notin Taken(s, i - 1)
      <4>1. \A a, b \in 1 .. n : s[a] = s[b] => a = b BY <1>1, <1>2 DEF Listed
      <4> QED BY <1>2, <3>1, <4>1 DEF Taken
    <3>4. Taken(s, i) = Taken(s, i - 1) \cup {s[i]} BY <1>2, <3>1 DEF Taken
    <3>5. PICK r, k : r = f[i - 1] /\ k = s[i] OBVIOUS
    <3>6. Ready(r, z) /\ k \in Entry /\ k \notin Nodes(z) BY <2>5, <3>2, <3>3, <3>5
    <3>7. \E y : /\ Ready(hashed!Relinked(r, k), y) /\ Nodes(y) = Nodes(z) \cup {k}
                 /\ hashed!Relinked(r, k).table.bucketCount = r.table.bucketCount
      BY <3>6, RelinkedReady
    <3>8. f[i] = hashed!Relinked(r, k) BY <2>6, <3>2, <3>5
    <3>9. Fine(i) BY <2>5, <3>4, <3>5, <3>7, <3>8
    <3> QED BY <2>1, <3>9
  <2>8. CASE ~(i <= n)
    <3>1. NodeAt(s, i) = hashed!Nil BY <1>2, <2>8 DEF NodeAt
    <3>2. f[i] = f[i - 1] BY <2>6, <3>1 DEF hashed!Relinked
    <3>3. Taken(s, i) = Taken(s, i - 1) BY <1>2, <2>3, <2>8 DEF Taken
    <3>4. Fine(i) BY <2>5, <3>2, <3>3
    <3> QED BY <2>1, <3>4
  <2> QED BY <2>7, <2>8
<1>8. Fine(l)
  <2>1. l \in 0 .. l /\ l \notin Bad BY <1>7
  <2> QED BY <2>1
<1>9. Taken(s, l) = Nodes(s) BY <1>2, <1>3 DEF Taken, Nodes
<1> QED BY <1>4, <1>8, <1>9 DEF Ready

-----------------------------------------------------------------------------
\* The copy: the same list, and its buckets found along it.
\* The loop of the copy constructor is there.
LEMMA CopyLoop ==
  ASSUME NEW t, NEW l \in Nat, l = hashed!Longest
  PROVE  \E f : /\ f = [k \in 0 .. l |-> IF k = 0 THEN [t EXCEPT !.buckets = hashed!NoBuckets(t.bucketCount)] ELSE hashed!Traced(f[k - 1], hashed!Walk(t, hashed!Head)[k - 1], hashed!Walk(t, hashed!Head)[k])]
                /\ hashed!Copied(t) = f[l]
<1> DEFINE Start == [t EXCEPT !.buckets = hashed!NoBuckets(t.bucketCount)]
           Iter(k, x) == hashed!Traced(x, hashed!Walk(t, hashed!Head)[k - 1], hashed!Walk(t, hashed!Head)[k])
           Loop(f, n) == f = [k \in 0 .. n |-> IF k = 0 THEN Start ELSE Iter(k, f[k - 1])]
           Bad == {n \in 0 .. l : ~\E f : Loop(f, n)}
<1>1. Bad = {}
  <2> SUFFICES ASSUME Bad # {} PROVE FALSE OBVIOUS
  <2>1. PICK n \in Bad : \A m \in Bad : n <= m
    <3>1. Bad \in SUBSET Nat OBVIOUS
    <3> HIDE DEF Bad
    <3> QED BY <3>1, Smallest
  <2>2. n # 0
    <3> HIDE DEF Start, Iter
    <3>1. Loop([k \in 0 .. 0 |-> Start], 0) OBVIOUS
    <3> HIDE DEF Loop
    <3> QED BY <2>1, <3>1
  <2>3. n \in 1 .. l /\ n - 1 \in 0 .. l BY <2>1, <2>2
  <2>4. PICK f : Loop(f, n - 1)
    <3> HIDE DEF Loop
    <3>1. n - 1 \notin Bad BY <2>1, <2>3
    <3> QED BY <2>3, <3>1
  <2>5. PICK g : g = [k \in 0 .. n |-> IF k = n THEN Iter(n, f[n - 1]) ELSE f[k]] OBVIOUS
  <2>6. Loop(g, n)
    <3> HIDE DEF Start, Iter
    <3>1. \A k \in 0 .. n - 1 : g[k] = f[k] BY <2>3, <2>5
    <3>2. \A k \in 0 .. n - 1 : f[k] = IF k = 0 THEN Start ELSE Iter(k, f[k - 1])
      BY <2>4
    <3>3. \A k \in 0 .. n : g[k] = IF k = 0 THEN Start ELSE Iter(k, g[k - 1])
      <4> TAKE k \in 0 .. n
      <4>1. CASE k = n
        <5>1. g[k] = Iter(n, f[n - 1]) BY <2>5, <4>1
        <5>2. f[n - 1] = g[k - 1] BY <2>3, <3>1, <4>1
        <5> QED BY <2>2, <4>1, <5>1, <5>2
      <4>2. CASE k = 0 BY <2>3, <3>1, <3>2, <4>2
      <4>3. CASE k # n /\ k # 0
        <5>1. k \in 0 .. n - 1 /\ k - 1 \in 0 .. n - 1 BY <2>3, <4>3
        <5>2. g[k] = f[k] /\ f[k - 1] = g[k - 1] BY <3>1, <5>1
        <5> QED BY <3>2, <4>3, <5>1, <5>2
      <4> QED BY <4>1, <4>2, <4>3
    <3>4. g = [k \in 0 .. n |-> g[k]] BY <2>5
    <3> QED BY <3>3, <3>4
  <2> HIDE DEF Loop
  <2> QED BY <2>1, <2>6
<1>2. \E f : Loop(f, l)
  <2>1. l \in 0 .. l /\ l \notin Bad BY <1>1
  <2> HIDE DEF Loop
  <2> QED BY <2>1
<1>3. PICK f : f = CHOOSE g : Loop(g, l) OBVIOUS
<1>4. Loop(f, l)
  <2> HIDE DEF Loop
  <2> QED BY <1>2, <1>3
<1>5. hashed!Copied(t) = f[l] BY <1>3 DEF hashed!Copied
<1> QED BY <1>4, <1>5

LEMMA CopySteps ==
  ASSUME NEW t
  PROVE  \E f : /\ f[0] = [t EXCEPT !.buckets = hashed!NoBuckets(t.bucketCount)]
                /\ \A i \in 1 .. hashed!Longest :
                     f[i] = hashed!Traced(f[i - 1], hashed!Walk(t, hashed!Head)[i - 1],
                                          hashed!Walk(t, hashed!Head)[i])
                /\ hashed!Copied(t) = f[hashed!Longest]
<1>1. PICK l : l = hashed!Longest OBVIOUS
<1>2. l \in Nat BY <1>1, TableConstants
<1>3. PICK f : /\ f = [k \in 0 .. l |->
                         IF k = 0 THEN [t EXCEPT !.buckets = hashed!NoBuckets(t.bucketCount)]
                         ELSE hashed!Traced(f[k - 1], hashed!Walk(t, hashed!Head)[k - 1],
                                            hashed!Walk(t, hashed!Head)[k])]
               /\ hashed!Copied(t) = f[l]
  BY <1>1, <1>2, CopyLoop
<1>4. f[0] = [t EXCEPT !.buckets = hashed!NoBuckets(t.bucketCount)]
  <2>1. 0 \in 0 .. l BY <1>2
  <2> QED BY <1>3, <2>1
<1>5. ASSUME NEW i \in 1 .. l
      PROVE  f[i] = hashed!Traced(f[i - 1], hashed!Walk(t, hashed!Head)[i - 1],
                                  hashed!Walk(t, hashed!Head)[i])
  <2>1. i \in 0 .. l /\ i # 0 BY <1>2
  <2> QED BY <1>3, <2>1
<1> QED BY <1>1, <1>3, <1>4, <1>5

\* The buckets of the first i nodes have their predecessors, and no others.
TracedTo(u, t, s, i) ==
  /\ Shape(u) /\ u.next = t.next /\ u.bucketCount = t.bucketCount
  /\ u.buckets \in [0 .. t.bucketCount - 1 -> Entry \cup {hashed!Head, hashed!Nil}]
  /\ \A j \in 1 .. Len(s) :
       First(t, s, j) /\ j <= i => u.buckets[hashed!Bucket(t, s[j])] = Before(s, j)
  /\ \A b \in 0 .. t.bucketCount - 1 :
       u.buckets[b] # hashed!Nil => \E j \in 1 .. Len(s) : j <= i /\ hashed!Bucket(t, s[j]) = b

LEMMA NoneTraced ==
  ASSUME NEW t, NEW s, Good(t, s), NEW u,
         u = [t EXCEPT !.buckets = hashed!NoBuckets(t.bucketCount)]
  PROVE  TracedTo(u, t, s, 0)
<1>1. PICK x, y, c : t = [next |-> x, buckets |-> y, bucketCount |-> c] BY DEF Good, Shape
<1>2. PICK g : g = hashed!NoBuckets(t.bucketCount) OBVIOUS
<1>3. u = [next |-> x, buckets |-> g, bucketCount |-> c] BY <1>1, <1>2
<1>4. u.next = x /\ u.buckets = g /\ u.bucketCount = c BY <1>3
<1>5. t.next = x /\ t.bucketCount = c BY <1>1
<1>6. Shape(u) BY <1>3, <1>4 DEF Shape
<1>7. g = [b \in 0 .. t.bucketCount - 1 |-> hashed!Nil] BY <1>2 DEF hashed!NoBuckets
<1>8. \A j \in 1 .. Len(s) : ~(j <= 0) BY ListedNodes DEF Good, Chain
<1>9. g \in [0 .. t.bucketCount - 1 -> Entry \cup {hashed!Head, hashed!Nil}] BY <1>7
<1>10. \A b \in 0 .. t.bucketCount - 1 : g[b] = hashed!Nil BY <1>7
<1> QED BY <1>4, <1>5, <1>6, <1>8, <1>9, <1>10 DEF TracedTo

LEMMA OneTraced ==
  ASSUME NEW t, NEW s, Good(t, s), NEW i \in 1 .. Len(s), NEW u, TracedTo(u, t, s, i - 1),
         NEW v, v = hashed!Traced(u, Before(s, i), s[i])
  PROVE  TracedTo(v, t, s, i)
<1>1. Chain(t, s) /\ Listed(s) /\ t.bucketCount \in Nat \ {0} BY DEF Good, Chain, Filed
<1>2. PICK n \in Nat : n = Len(s) BY <1>1, ListedNodes
<1>3. s[i] \in Entry /\ s[i] # hashed!Nil BY <1>1, ListedNodes, TableConstants
<1>4. PICK b \in 0 .. t.bucketCount - 1 : b = hashed!Bucket(t, s[i]) BY <1>1, <1>3, BucketIn
<1>5. PICK x, y, c : /\ u = [next |-> x, buckets |-> y, bucketCount |-> c]
                     /\ x = t.next /\ y = u.buckets /\ c = t.bucketCount
  BY DEF TracedTo, Shape
<1>6. b = hashed!Bucket(u, s[i]) BY <1>4, <1>5 DEF hashed!Bucket
<1>7. y \in [0 .. t.bucketCount - 1 -> Entry \cup {hashed!Head, hashed!Nil}]
  BY <1>5 DEF TracedTo
<1>8. \A j \in 1 .. n : First(t, s, j) /\ j <= i - 1 => y[hashed!Bucket(t, s[j])] = Before(s, j)
  BY <1>2, <1>5 DEF TracedTo
<1>9. \A a \in 0 .. t.bucketCount - 1 :
        y[a] # hashed!Nil => \E j \in 1 .. n : j <= i - 1 /\ hashed!Bucket(t, s[j]) = a
  BY <1>2, <1>5 DEF TracedTo
<1>10. CASE y[b] # hashed!Nil
  <2>1. v = u BY <1>3, <1>5, <1>6, <1>10 DEF hashed!Traced
  <2>2. PICK j \in 1 .. n : j <= i - 1 /\ hashed!Bucket(t, s[j]) = b BY <1>9, <1>10
  <2>3. ~First(t, s, i)
    <3>1. j \in 1 .. i - 1 BY <1>2, <2>2
    <3> QED BY <1>4, <2>2, <3>1 DEF First
  <2>4. \A m \in 1 .. n : (m <= i /\ m # i => m <= i - 1) /\ (m <= i - 1 => m <= i) BY <1>2
  <2>5. \A m \in 1 .. n : First(t, s, m) /\ m <= i => y[hashed!Bucket(t, s[m])] = Before(s, m)
    BY <1>8, <2>3, <2>4
  <2>6. \A a \in 0 .. t.bucketCount - 1 :
          y[a] # hashed!Nil => \E m \in 1 .. n : m <= i /\ hashed!Bucket(t, s[m]) = a
    BY <1>9, <2>4
  <2>7. Shape(u) BY DEF TracedTo
  <2> QED BY <1>2, <1>5, <1>7, <2>1, <2>5, <2>6, <2>7 DEF TracedTo
<1>11. CASE y[b] = hashed!Nil
  <2>1. PICK prev : prev = Before(s, i) OBVIOUS
  <2>2. PICK g : g = [y EXCEPT ![b] = prev] OBVIOUS
  <2>3. v = [u EXCEPT !.buckets[b] = prev]
    <3>1. u.buckets[hashed!Bucket(u, s[i])] = hashed!Nil BY <1>5, <1>6, <1>11
    <3> QED BY <1>3, <1>6, <2>1, <3>1 DEF hashed!Traced
  <2>4. v = [next |-> x, buckets |-> g, bucketCount |-> c] BY <1>5, <2>2, <2>3
  <2>5. v.next = x /\ v.buckets = g /\ v.bucketCount = c BY <2>4
  <2>6. Shape(v) BY <2>4, <2>5 DEF Shape
  <2>7. prev \in Entry \cup {hashed!Head}
    <3>1. i \in 1 .. Len(s) + 1 BY <1>2
    <3> QED BY <1>1, <2>1, <3>1, BeforeIs
  <2>8. /\ g \in [0 .. t.bucketCount - 1 -> Entry \cup {hashed!Head, hashed!Nil}]
        /\ g[b] = prev /\ \A a \in 0 .. t.bucketCount - 1 : a # b => g[a] = y[a]
    BY <1>7, <2>2, <2>7
  <2>9. ASSUME NEW m \in 1 .. n, First(t, s, m), m <= i
        PROVE  g[hashed!Bucket(t, s[m])] = Before(s, m)
    <3>1. CASE m = i BY <1>4, <2>1, <2>8, <3>1
    <3>2. CASE m # i
      <4>1. m <= i - 1 BY <1>2, <2>9, <3>2
      <4>2. y[hashed!Bucket(t, s[m])] = Before(s, m) BY <1>8, <2>9, <4>1
      <4>3. Before(s, m) # hashed!Nil
        <5>1. m \in 1 .. Len(s) + 1 BY <1>2
        <5> QED BY <1>1, <5>1, BeforeIs
      <4>4. hashed!Bucket(t, s[m]) \in 0 .. t.bucketCount - 1
        <5>1. s[m] \in Entry BY <1>1, <1>2, ListedNodes
        <5> QED BY <1>1, <5>1, BucketIn
      <4> QED BY <1>11, <2>8, <4>2, <4>3, <4>4
    <3> QED BY <3>1, <3>2
  <2>10. ASSUME NEW a \in 0 .. t.bucketCount - 1, g[a] # hashed!Nil
         PROVE  \E m \in 1 .. n : m <= i /\ hashed!Bucket(t, s[m]) = a
    <3>1. CASE a = b
      <4>1. i \in 1 .. n /\ i <= i BY <1>2
      <4> QED BY <1>4, <3>1, <4>1
    <3>2. CASE a # b
      <4>1. PICK m \in 1 .. n : m <= i - 1 /\ hashed!Bucket(t, s[m]) = a
        BY <1>9, <2>8, <2>10, <3>2
      <4>2. m <= i BY <1>2, <4>1
      <4> QED BY <4>1, <4>2
    <3> QED BY <3>1, <3>2
  <2> QED BY <1>2, <1>5, <2>5, <2>6, <2>8, <2>9, <2>10 DEF TracedTo
<1> QED BY <1>5, <1>10, <1>11

LEMMA CopiedGood ==
  ASSUME NEW t, NEW s, Good(t, s)
  PROVE  Good(hashed!Copied(t), s) /\ hashed!Copied(t).bucketCount = t.bucketCount
<1>1. Chain(t, s) /\ Listed(s) BY DEF Good, Chain
<1>2. PICK n \in Nat : n = Len(s) BY <1>1, ListedNodes
<1>3. PICK l \in Nat : l = hashed!Longest /\ n <= l BY <1>1, <1>2, ListedNodes, TableConstants
<1>4. PICK w : w = hashed!Walk(t, hashed!Head) OBVIOUS
<1>5. PICK f : /\ f[0] = [t EXCEPT !.buckets = hashed!NoBuckets(t.bucketCount)]
               /\ \A i \in 1 .. l : f[i] = hashed!Traced(f[i - 1], w[i - 1], w[i])
               /\ hashed!Copied(t) = f[l]
  BY <1>3, <1>4, CopySteps
<1>6. w[0] = hashed!Head /\ \A i \in 1 .. l : w[i] = NodeAt(s, i)
  <2>1. w[0] = hashed!Head BY <1>4, WalkSteps
  <2>2. \A i \in 1 .. l : i \in 1 .. hashed!Longest + 1 BY <1>3
  <2> QED BY <1>1, <1>4, <2>1, <2>2, WalkList
<1>7. \A i \in 1 .. n : w[i] = s[i] /\ w[i - 1] = Before(s, i)
  <2> TAKE i \in 1 .. n
  <2>1. i \in 1 .. l BY <1>3
  <2>2. w[i] = s[i] BY <1>2, <1>6, <2>1 DEF NodeAt
  <2>3. CASE i = 1 BY <1>6, <2>2, <2>3 DEF Before
  <2>4. CASE i # 1
    <3>1. i - 1 \in 1 .. l /\ i - 1 <= n BY <1>3, <2>4
    <3>2. w[i - 1] = s[i - 1] BY <1>2, <1>6, <3>1 DEF NodeAt
    <3> QED BY <2>2, <2>4, <3>2 DEF Before
  <2> QED BY <2>3, <2>4
<1> DEFINE Bad == {i \in 0 .. l : ~TracedTo(f[i], t, s, i)}
<1>8. Bad = {}
  <2> SUFFICES ASSUME Bad # {} PROVE FALSE OBVIOUS
  <2>1. PICK i \in Bad : \A j \in Bad : i <= j
    <3>1. Bad \in SUBSET Nat OBVIOUS
    <3> HIDE DEF Bad
    <3> QED BY <3>1, Smallest
  <2>2. i # 0
    <3>1. TracedTo(f[0], t, s, 0) BY <1>5, NoneTraced
    <3> QED BY <2>1, <3>1
  <2>3. i \in 1 .. l /\ i - 1 \in 0 .. l /\ ~(i <= i - 1) BY <2>1, <2>2
  <2>4. TracedTo(f[i - 1], t, s, i - 1)
    <3>1. i - 1 \notin Bad BY <2>1, <2>3
    <3> QED BY <2>3, <3>1
  <2>5. f[i] = hashed!Traced(f[i - 1], w[i - 1], w[i]) BY <1>5, <2>3
  <2>6. CASE i <= n
    <3>1. i \in 1 .. Len(s) BY <1>2, <2>3, <2>6
    <3>2. PICK u, v : u = f[i - 1] /\ v = f[i] OBVIOUS
    <3>3. v = hashed!Traced(u, Before(s, i), s[i]) BY <1>2, <1>7, <2>5, <3>1, <3>2
    <3>4. TracedTo(u, t, s, i - 1) BY <2>4, <3>2
    <3>5. TracedTo(v, t, s, i) BY <3>1, <3>3, <3>4, OneTraced
    <3> QED BY <2>1, <3>2, <3>5
  <2>7. CASE ~(i <= n)
    <3>1. w[i] = hashed!Nil BY <1>2, <1>6, <2>3, <2>7 DEF NodeAt
    <3>2. f[i] = f[i - 1] BY <2>5, <3>1 DEF hashed!Traced
    <3>3. \A j \in 1 .. n : j <= i /\ j <= i - 1 BY <2>3, <2>7
    <3>4. TracedTo(f[i], t, s, i) BY <1>2, <2>4, <3>2, <3>3 DEF TracedTo
    <3> QED BY <2>1, <3>4
  <2> QED BY <2>6, <2>7
<1>9. PICK u : u = hashed!Copied(t) OBVIOUS
<1>10. TracedTo(u, t, s, l)
  <2>1. l \in 0 .. l /\ l \notin Bad BY <1>8
  <2> QED BY <1>5, <1>9, <2>1
<1>11. u.bucketCount = t.bucketCount /\ u.next = t.next /\ Shape(u) BY <1>10 DEF TracedTo
<1>12. Chain(u, s) BY <1>1, <1>11 DEF Chain
<1>13. Grouped(u, s) BY <1>11, SameBuckets DEF Good
<1>14. Filed(u, s)
  <2>1. u.bucketCount \in Nat \ {0}
        /\ u.buckets \in [0 .. u.bucketCount - 1 -> Entry \cup {hashed!Head, hashed!Nil}]
    BY <1>10, <1>11 DEF TracedTo, Good, Filed
  <2>2. ASSUME NEW i \in 1 .. n, First(u, s, i)
        PROVE  u.buckets[hashed!Bucket(u, s[i])] = Before(s, i)
    <3>1. First(t, s, i) /\ i <= l BY <1>3, <1>11, <2>2, SameBuckets
    <3>2. u.buckets[hashed!Bucket(t, s[i])] = Before(s, i) BY <1>2, <1>10, <3>1 DEF TracedTo
    <3> QED BY <1>11, <3>2, SameBuckets
  <2>3. ASSUME NEW b \in 0 .. u.bucketCount - 1, u.buckets[b] # hashed!Nil
        PROVE  \E i \in 1 .. n : hashed!Bucket(u, s[i]) = b
    <3>1. PICK i \in 1 .. n : hashed!Bucket(t, s[i]) = b BY <1>2, <1>10, <1>11, <2>3 DEF TracedTo
    <3> QED BY <1>11, <3>1, SameBuckets
  <2> QED BY <1>2, <2>1, <2>2, <2>3 DEF Filed
<1> QED BY <1>9, <1>11, <1>12, <1>13, <1>14 DEF Good

-----------------------------------------------------------------------------
\* The policy.  Bertrand's postulate: above every n there is a prime up to 2n.
PrimesGoOn ==
  \A n \in Nat : n >= 13 => \E p \in 13 .. 2 * n : p > n /\ hashed!IsPrime(p)

LEMMA NextListedIs ==
  ASSUME PrimesGoOn, NEW n \in Nat, n >= 13
  PROVE  hashed!NextListed(n) \in 13 .. 2 * n /\ hashed!NextListed(n) > n
<1> DEFINE P == {p \in 13 .. 2 * n : p > n /\ hashed!IsPrime(p)}
           Next13(p) == /\ p > n /\ hashed!IsPrime(p)
                        /\ \A q \in n + 1 .. p - 1 : ~hashed!IsPrime(q)
<1>1. P \in SUBSET Nat OBVIOUS
<1>2. P # {} BY DEF PrimesGoOn
<1>3. PICK p \in P : \A q \in P : p <= q
  <2> HIDE DEF P
  <2> QED BY <1>1, <1>2, Smallest
<1>4. p \in 13 .. 2 * n /\ p > n /\ hashed!IsPrime(p) OBVIOUS
<1>5. ASSUME NEW q \in n + 1 .. p - 1, hashed!IsPrime(q) PROVE FALSE
  <2>1. q \in 13 .. 2 * n /\ q > n /\ ~(p <= q) BY <1>4
  <2>2. q \in P BY <1>5, <2>1
  <2> QED BY <1>3, <2>1, <2>2
<1>6. Next13(p) BY <1>4, <1>5
<1>7. hashed!NextListed(n) = CHOOSE q \in 13 .. 2 * n : Next13(q) BY DEF hashed!NextListed
<1>8. PICK c : c = CHOOSE q \in 13 .. 2 * n : Next13(q) OBVIOUS
<1>9. c \in 13 .. 2 * n /\ Next13(c)
  <2> HIDE DEF Next13
  <2> QED BY <1>4, <1>6, <1>8
<1> QED BY <1>7, <1>8, <1>9

LEMMA PolicyGives ==
  ASSUME PrimesGoOn, NEW n \in Nat
  PROVE  /\ hashed!NextBuckets(n) \in Nat /\ hashed!NextBuckets(n) >= 2
         /\ hashed!NextBuckets(n) > n
         /\ hashed!NextLimit(n) \in Nat /\ hashed!NextLimit(n) <= hashed!NextBuckets(n) + 1
<1>1. CASE n < 13
  <2>1. n \in 0 .. 12 BY <1>1
  <2>2. /\ hashed!firstPrimes[n + 1] \in Nat /\ hashed!firstPrimes[n + 1] >= 2
        /\ hashed!firstPrimes[n + 1] > n
    <3>1. n \in 0 .. 6 \/ n \in 7 .. 12 BY <2>1
    <3>2. CASE n \in 0 .. 6 BY <3>2 DEF hashed!firstPrimes
    <3>3. CASE n \in 7 .. 12 BY <3>3 DEF hashed!firstPrimes
    <3> QED BY <3>1, <3>2, <3>3
  <2> QED BY <1>1, <2>2 DEF hashed!NextBuckets, hashed!NextLimit
<1>2. CASE ~(n < 13)
  <2>1. n >= 13 BY <1>2
  <2>2. PICK p \in Nat : p = hashed!NextListed(n) /\ p > n /\ p >= 13
    BY <2>1, NextListedIs
  <2> QED BY <1>2, <2>2 DEF hashed!NextBuckets, hashed!NextLimit
<1> QED BY <1>1, <1>2

-----------------------------------------------------------------------------
\* The list and the buckets are those of the keys that were inserted, and the
\* limit of the policy keeps the load: by it no element is over the buckets.
TableInv ==
  /\ \E s : Good(hash_table, s) /\ Nodes(s) = inserted /\ elemCount = Len(s)
  /\ hash_table.bucketCount >= 2 /\ elemCount <= hash_table.bucketCount
  /\ nextResize \in Nat
  /\ failed = "none" => nextResize <= hash_table.bucketCount + 1
  /\ failed # "insertion"

LEMMA TableInvSays ==
  ASSUME TableInv
  PROVE  TableIsSet
<1>1. PICK s : Good(hash_table, s) /\ Nodes(s) = inserted /\ elemCount = Len(s) BY DEF TableInv
<1>2. PICK n \in Nat : n = Len(s) BY <1>1, ListedNodes DEF Good, Chain
<1>3. PICK l \in Nat : l = hashed!Longest /\ n <= l
  BY <1>1, <1>2, ListedNodes, TableConstants DEF Good, Chain
<1>4. PICK w : w = hashed!Walk(hash_table, hashed!Head) OBVIOUS
<1>5. \A i \in 1 .. n + 1 : w[i] = NodeAt(s, i)
  <2>1. \A i \in 1 .. n + 1 : i \in 1 .. hashed!Longest + 1 BY <1>3
  <2> QED BY <1>1, <1>4, <2>1, WalkList DEF Good
<1>6. {w[i] : i \in 1 .. elemCount} = inserted
  <2>1. \A i \in 1 .. n : w[i] = s[i] BY <1>2, <1>5 DEF NodeAt
  <2> QED BY <1>1, <1>2, <2>1 DEF Nodes
<1>7. w[elemCount + 1] = hashed!Nil
  <2>1. n + 1 \in 1 .. n + 1 /\ ~(n + 1 <= n) OBVIOUS
  <2> QED BY <1>1, <1>2, <1>5, <2>1 DEF NodeAt
<1>8. elemCount = hashed!Cardinality(inserted)
  <2>1. Cardinality(Nodes(s)) = Len(s) BY <1>1, ListedNodes DEF Good, Chain
  <2>2. hashed!Cardinality(inserted) = Cardinality(inserted) BY SameSize
  <2> QED BY <1>1, <2>1, <2>2
<1>9. \A k \in Entry : hashed!FindNode(hash_table, k) <=> (k \in inserted) BY <1>1, FindRight
<1>10. \A k \in Entry : hashed!Get(hash_table, k) <=> (k \in inserted) BY <1>1, GetRight
<1>11. hashed!TableIsSet BY <1>4, <1>6, <1>7, <1>8, <1>9, <1>10 DEF hashed!TableIsSet
<1>12. hashed!LoadBounded /\ hashed!InsertionSafe
  BY DEF TableInv, hashed!LoadBounded, hashed!InsertionSafe
<1> QED BY <1>11, <1>12 DEF TableIsSet

LEMMA TableInvInit ==
  ASSUME PrimesGoOn, TablesInit
  PROVE  TableInv
<1>1. Hint \in Nat BY TableConstants
<1>2. PICK c \in Nat : c = hashed!NextBuckets(Hint) /\ c >= 2 BY <1>1, PolicyGives
<1>3. hash_table = hashed!NoTable(c) /\ elemCount = 0 /\ inserted = {} /\ failed = "none"
      /\ nextResize = hashed!NextLimit(Hint)
  BY <1>2 DEF TablesInit, hashed!Init
<1>4. Good(hash_table, <<>>) /\ Nodes(<<>>) = {} /\ hash_table.bucketCount = c
  BY <1>2, <1>3, EmptyGood
<1>5. nextResize \in Nat /\ nextResize <= c + 1 BY <1>1, <1>2, <1>3, PolicyGives
<1>6. Len(<<>>) = 0 OBVIOUS
<1>7. \E s : Good(hash_table, s) /\ Nodes(s) = inserted /\ elemCount = Len(s)
  BY <1>3, <1>4, <1>6
<1> QED BY <1>2, <1>3, <1>4, <1>5, <1>7 DEF TableInv

\* What the policy asks for while nothing has failed.
LEMMA Requests ==
  ASSUME PrimesGoOn, TableInv, failed = "none", NEW d \in Nat \ {0}
  PROVE  /\ hashed!NeedRehash(d) =>
              /\ hashed!Wanted(d) \in Nat
              /\ hashed!Wanted(d) >= elemCount + d /\ hashed!Wanted(d) >= hash_table.bucketCount
              /\ elemCount + d >= hash_table.bucketCount
              /\ hashed!LimitAfter(d) = hashed!NextLimit(hashed!Wanted(d))
         /\ ~hashed!NeedRehash(d) =>
              /\ hashed!LimitAfter(d) \in Nat
              /\ hashed!LimitAfter(d) <= hash_table.bucketCount + 1
              /\ elemCount + d <= hash_table.bucketCount
<1>1. PICK e, c \in Nat : e = elemCount /\ c = hash_table.bucketCount
  <2>1. PICK s : Good(hash_table, s) /\ elemCount = Len(s) BY DEF TableInv
  <2>2. Len(s) \in Nat BY <2>1, ListedNodes DEF Good, Chain
  <2>3. hash_table.bucketCount \in Nat BY <2>1 DEF Good, Filed
  <2> QED BY <2>1, <2>2, <2>3
<1>2. PICK r \in Nat : r = nextResize /\ r <= c + 1 /\ c >= 2 /\ e <= c BY <1>1 DEF TableInv
<1>3. hashed!Below(d) <=> (e + d < r) BY <1>1, <1>2 DEF hashed!Below
<1>4. hashed!NeedRehash(d) <=> (~(e + d < r) /\ e + d >= c)
  BY <1>1, <1>3 DEF hashed!NeedRehash
<1>5. hashed!Wanted(d) = IF e + d + 1 >= 2 * c THEN e + d + 1 ELSE 2 * c
  BY <1>1 DEF hashed!Wanted
<1>6. ASSUME hashed!NeedRehash(d)
      PROVE  /\ hashed!Wanted(d) \in Nat /\ hashed!Wanted(d) >= e + d /\ hashed!Wanted(d) >= c
             /\ e + d >= c /\ hashed!LimitAfter(d) = hashed!NextLimit(hashed!Wanted(d))
  <2>1. hashed!LimitAfter(d) = hashed!NextLimit(hashed!Wanted(d))
    BY <1>3, <1>4, <1>6 DEF hashed!LimitAfter
  <2>2. 2 * c >= c /\ 2 * c \in Nat OBVIOUS
  <2> QED BY <1>4, <1>5, <1>6, <2>1, <2>2
<1>7. ASSUME ~hashed!NeedRehash(d)
      PROVE  /\ hashed!LimitAfter(d) \in Nat /\ hashed!LimitAfter(d) <= c + 1 /\ e + d <= c
  <2>1. CASE e + d < r
    <3>1. hashed!LimitAfter(d) = r BY <1>2, <1>3, <2>1 DEF hashed!LimitAfter
    <3> QED BY <1>2, <2>1, <3>1
  <2>2. CASE ~(e + d < r)
    <3>1. hashed!LimitAfter(d) = c BY <1>1, <1>3, <1>7, <2>2 DEF hashed!LimitAfter
    <3> QED BY <1>4, <1>7, <2>2, <3>1
  <2> QED BY <2>1, <2>2
<1> QED BY <1>1, <1>6, <1>7

LEMMA InsertKeeps ==
  ASSUME PrimesGoOn, TableInv, failed = "none", NEW k \in Entry, k \notin inserted,
         hashed!InsertNode(k)
  PROVE  TableInv'
<1>1. PICK s : Good(hash_table, s) /\ Nodes(s) = inserted /\ elemCount = Len(s) BY DEF TableInv
<1>2. Chain(hash_table, s) /\ Listed(s) BY <1>1 DEF Good, Chain
<1>3. PICK n \in Nat : n = Len(s) BY <1>2, ListedNodes
<1>4. PICK c \in Nat : c = hash_table.bucketCount /\ c >= 2 BY <1>1 DEF TableInv, Good, Filed
<1>5. ~(hashed!NeedRehash(1) /\ hash_table.next[hashed!Head] = hashed!Nil)
  <2> SUFFICES ASSUME hashed!NeedRehash(1), hash_table.next[hashed!Head] = hashed!Nil
               PROVE  FALSE
    OBVIOUS
  <2>1. 1 \in Nat \ {0} OBVIOUS
  <2>2. elemCount + 1 >= hash_table.bucketCount BY <2>1, Requests
  <2>3. n > 0 BY <1>1, <1>3, <1>4, <2>2
  <2> QED BY <1>2, <1>3, <2>3, HeadNext
<1>6. PICK t : t = IF hashed!NeedRehash(1)
                   THEN hashed!Rehashed(hash_table, hashed!NextBuckets(hashed!Wanted(1)))
                   ELSE hash_table
  OBVIOUS
<1>7. /\ hash_table' = hashed!Linked(t, k) /\ elemCount' = elemCount + 1
      /\ inserted' = inserted \cup {k} /\ failed' = failed
      /\ nextResize' = hashed!LimitAfter(1)
  BY <1>5, <1>6 DEF hashed!InsertNode
<1>8. \E z : /\ Good(t, z) /\ Nodes(z) = Nodes(s) /\ t.bucketCount >= 2
             /\ elemCount + 1 <= t.bucketCount
             /\ hashed!LimitAfter(1) \in Nat /\ hashed!LimitAfter(1) <= t.bucketCount + 1
  <2>1. 1 \in Nat \ {0} OBVIOUS
  <2>2. CASE hashed!NeedRehash(1)
    <3>1. PICK m \in Nat : /\ m = hashed!Wanted(1) /\ m >= n + 1
                           /\ hashed!LimitAfter(1) = hashed!NextLimit(m)
      BY <1>1, <1>3, <2>1, <2>2, Requests
    <3>2. PICK q \in Nat : /\ q = hashed!NextBuckets(m) /\ q >= 2 /\ q > m
                           /\ hashed!NextLimit(m) \in Nat /\ hashed!NextLimit(m) <= q + 1
      BY PolicyGives
    <3>3. t = hashed!Rehashed(hash_table, q) BY <1>6, <2>2, <3>1, <3>2
    <3>4. PICK z : Good(t, z) /\ Nodes(z) = Nodes(s) /\ t.bucketCount = q
      BY <1>1, <3>2, <3>3, RehashedGood
    <3> QED BY <1>1, <1>3, <3>1, <3>2, <3>4
  <2>3. CASE ~hashed!NeedRehash(1)
    <3>1. t = hash_table BY <1>6, <2>3
    <3>2. /\ hashed!LimitAfter(1) \in Nat /\ hashed!LimitAfter(1) <= c + 1
          /\ elemCount + 1 <= c
      BY <1>4, <2>1, <2>3, Requests
    <3> QED BY <1>1, <1>4, <3>1, <3>2
  <2> QED BY <2>2, <2>3
<1>9. PICK z : /\ Good(t, z) /\ Nodes(z) = Nodes(s) /\ t.bucketCount >= 2
               /\ elemCount + 1 <= t.bucketCount
               /\ hashed!LimitAfter(1) \in Nat /\ hashed!LimitAfter(1) <= t.bucketCount + 1
  BY <1>8
<1>10. k \notin Nodes(z) BY <1>1, <1>9
<1>11. PICK y : /\ Good(hashed!Linked(t, k), y) /\ Nodes(y) = Nodes(z) \cup {k}
                /\ Len(y) = Len(z) + 1 /\ hashed!Linked(t, k).bucketCount = t.bucketCount
  BY <1>9, <1>10, LinkedGood
<1>12. Len(z) = Len(s)
  <2>1. Cardinality(Nodes(z)) = Len(z) BY <1>9, ListedNodes DEF Good, Chain
  <2>2. Cardinality(Nodes(s)) = Len(s) BY <1>2, ListedNodes
  <2> QED BY <1>9, <2>1, <2>2
<1>13. \E x : Good(hash_table', x) /\ Nodes(x) = inserted' /\ elemCount' = Len(x)
  <2>1. Good(hash_table', y) /\ Nodes(y) = inserted' /\ elemCount' = Len(y)
    BY <1>1, <1>7, <1>9, <1>11, <1>12
  <2> QED BY <2>1
<1>14. hash_table'.bucketCount >= 2 /\ elemCount' <= hash_table'.bucketCount
       /\ nextResize' \in Nat /\ nextResize' <= hash_table'.bucketCount + 1
       /\ failed' # "insertion"
  BY <1>7, <1>9, <1>11
<1> QED BY <1>13, <1>14 DEF TableInv

\* A rehash for at least as many buckets as there are.
LEMMA RehashKeeps ==
  ASSUME TableInv, failed = "none", NEW c \in Nat, c >= hash_table.bucketCount,
         hashed!Rehash(c), UNCHANGED <<elemCount, inserted>>,
         nextResize' \in Nat, nextResize' <= c + 1
  PROVE  TableInv'
<1>1. PICK s : Good(hash_table, s) /\ Nodes(s) = inserted /\ elemCount = Len(s) BY DEF TableInv
<1>2. PICK n \in Nat : n = Len(s) BY <1>1, ListedNodes DEF Good, Chain
<1>3. PICK b \in Nat : b = hash_table.bucketCount /\ b >= 2 /\ n <= b
  BY <1>1, <1>2 DEF TableInv, Good, Filed
<1>4. CASE hash_table.next[hashed!Head] = hashed!Nil
  <2>1. hash_table' = hash_table /\ failed' = "rehash" BY <1>4 DEF hashed!Rehash
  <2>2. \E x : Good(hash_table', x) /\ Nodes(x) = inserted' /\ elemCount' = Len(x)
    BY <1>1, <2>1
  <2> QED BY <1>1, <1>2, <1>3, <2>1, <2>2 DEF TableInv
<1>5. CASE hash_table.next[hashed!Head] # hashed!Nil
  <2>1. hash_table' = hashed!Rehashed(hash_table, c) /\ failed' = failed
    BY <1>5 DEF hashed!Rehash
  <2>2. c >= 2 /\ n <= c BY <1>3
  <2>3. PICK z : /\ Good(hash_table', z) /\ Nodes(z) = Nodes(s)
                 /\ hash_table'.bucketCount = c
    BY <1>1, <2>1, <2>2, RehashedGood
  <2>4. Len(z) = Len(s)
    <3>1. Cardinality(Nodes(z)) = Len(z) BY <2>3, ListedNodes DEF Good, Chain
    <3>2. Cardinality(Nodes(s)) = Len(s) BY <1>1, ListedNodes DEF Good, Chain
    <3> QED BY <2>3, <3>1, <3>2
  <2>5. \E x : Good(hash_table', x) /\ Nodes(x) = inserted' /\ elemCount' = Len(x)
    BY <1>1, <2>3, <2>4
  <2> QED BY <1>1, <1>2, <2>1, <2>2, <2>3, <2>5 DEF TableInv
<1> QED BY <1>4, <1>5

LEMMA ReserveKeeps ==
  ASSUME PrimesGoOn, TableInv, failed = "none", NEW n \in Nat, hashed!Reserve(n)
  PROVE  TableInv'
<1>1. PICK e \in Nat : e = elemCount
  <2>1. PICK s : Good(hash_table, s) /\ elemCount = Len(s) BY DEF TableInv
  <2> QED BY <2>1, ListedNodes DEF Good, Chain
<1>2. PICK d \in Nat \ {0} : d = n - elemCount BY <1>1 DEF hashed!Reserve
<1>3. UNCHANGED <<elemCount, inserted>> /\ nextResize' = hashed!LimitAfter(d)
  BY <1>2 DEF hashed!Reserve
<1>4. CASE hashed!NeedRehash(d)
  <2>1. PICK m \in Nat : /\ m = hashed!Wanted(d) /\ m >= hash_table.bucketCount
                         /\ hashed!LimitAfter(d) = hashed!NextLimit(m)
    BY <1>4, Requests
  <2>2. PICK q \in Nat : /\ q = hashed!NextBuckets(m) /\ q > m
                         /\ hashed!NextLimit(m) \in Nat /\ hashed!NextLimit(m) <= q + 1
    BY PolicyGives
  <2>3. hashed!Rehash(q) BY <1>2, <1>4, <2>1, <2>2 DEF hashed!Reserve
  <2>4. q >= hash_table.bucketCount
    <3>1. hash_table.bucketCount \in Nat BY DEF TableInv, Good, Filed
    <3> QED BY <2>1, <2>2, <3>1
  <2> QED BY <1>3, <2>1, <2>2, <2>3, <2>4, RehashKeeps
<1>5. CASE ~hashed!NeedRehash(d)
  <2>1. UNCHANGED <<hash_table, failed>> BY <1>2, <1>5 DEF hashed!Reserve
  <2>2. nextResize' \in Nat /\ nextResize' <= hash_table.bucketCount + 1
    BY <1>3, <1>5, Requests
  <2>3. \E x : Good(hash_table', x) /\ Nodes(x) = inserted' /\ elemCount' = Len(x)
    BY <1>3, <2>1 DEF TableInv
  <2> QED BY <1>3, <2>1, <2>2, <2>3 DEF TableInv
<1> QED BY <1>4, <1>5

LEMMA RehashToKeeps ==
  ASSUME TableInv, failed = "none", NEW n \in Nat, hashed!RehashTo(n)
  PROVE  TableInv'
<1>1. PICK b \in Nat : b = hash_table.bucketCount BY DEF TableInv, Good, Filed
<1>2. /\ n > b /\ hashed!Rehash(n)
      /\ UNCHANGED <<elemCount, inserted>> /\ nextResize' = nextResize
  BY <1>1 DEF hashed!RehashTo
<1>3. nextResize' \in Nat /\ nextResize' <= n + 1 BY <1>1, <1>2 DEF TableInv
<1>4. n >= hash_table.bucketCount BY <1>1, <1>2
<1> QED BY <1>2, <1>3, <1>4, RehashKeeps

LEMMA CopyKeeps ==
  ASSUME TableInv, failed = "none", hashed!Copy
  PROVE  TableInv'
<1>1. PICK s : Good(hash_table, s) /\ Nodes(s) = inserted /\ elemCount = Len(s) BY DEF TableInv
<1>2. UNCHANGED <<elemCount, nextResize, inserted>> BY DEF hashed!Copy
<1>3. CASE hash_table.next[hashed!Head] = hashed!Nil
  <2>1. hash_table' = hash_table /\ failed' = "copy" BY <1>3 DEF hashed!Copy
  <2>2. \E x : Good(hash_table', x) /\ Nodes(x) = inserted' /\ elemCount' = Len(x)
    BY <1>1, <1>2, <2>1
  <2> QED BY <1>2, <2>1, <2>2 DEF TableInv
<1>4. CASE hash_table.next[hashed!Head] # hashed!Nil
  <2>1. hash_table' = hashed!Copied(hash_table) /\ failed' = failed BY <1>4 DEF hashed!Copy
  <2>2. Good(hash_table', s) /\ hash_table'.bucketCount = hash_table.bucketCount
    BY <1>1, <2>1, CopiedGood
  <2>3. \E x : Good(hash_table', x) /\ Nodes(x) = inserted' /\ elemCount' = Len(x)
    BY <1>1, <1>2, <2>2
  <2> QED BY <1>2, <2>1, <2>2, <2>3 DEF TableInv
<1> QED BY <1>3, <1>4

LEMMA ClearTableKeeps ==
  ASSUME TableInv, failed = "none", hashed!Clear
  PROVE  TableInv'
<1>1. PICK s : Good(hash_table, s) BY DEF TableInv
<1>2. PICK b \in Nat \ {0} : b = hash_table.bucketCount BY <1>1 DEF Good, Filed
<1>3. hash_table' = hashed!NoTable(b)
  <2>1. PICK x, y : hash_table = [next |-> x, buckets |-> y, bucketCount |-> b]
    BY <1>1, <1>2 DEF Good, Shape
  <2>2. hash_table' = [hash_table EXCEPT !.next = hashed!NoNodes, !.buckets = hashed!NoBuckets(b)]
    BY <1>2 DEF hashed!Clear
  <2> QED BY <2>1, <2>2 DEF hashed!NoTable
<1>4. elemCount' = 0 /\ inserted' = {} /\ UNCHANGED <<nextResize, failed>> BY DEF hashed!Clear
<1>5. Good(hash_table', <<>>) /\ Nodes(<<>>) = {} /\ hash_table'.bucketCount = b
  BY <1>2, <1>3, EmptyGood
<1>6. Len(<<>>) = 0 OBVIOUS
<1>7. \E x : Good(hash_table', x) /\ Nodes(x) = inserted' /\ elemCount' = Len(x)
  BY <1>4, <1>5, <1>6
<1> QED BY <1>2, <1>4, <1>5, <1>7 DEF TableInv

LEMMA TableInvStep ==
  ASSUME PrimesGoOn, TableInv, [TablesNext]_<<part, hash_vars>>
  PROVE  TableInv'
<1>1. CASE UNCHANGED <<part, hash_vars>> BY <1>1 DEF hash_vars, TableInv
<1>2. CASE TablesNext
  <2>1. failed = "none" /\ hashed!Next BY <1>2 DEF TablesNext, TablesStep, hashed!Next
  <2>2. PICK s : Good(hash_table, s) /\ Nodes(s) = inserted BY DEF TableInv
  <2>3. ASSUME NEW k \in Entry, hashed!GetCreate(k) PROVE TableInv'
    <3>1. k \notin inserted BY <2>2, <2>3, FindRight DEF hashed!GetCreate
    <3>2. hashed!InsertNode(k) BY <2>3 DEF hashed!GetCreate
    <3> QED BY <2>1, <3>1, <3>2, InsertKeeps
  <2>4. ASSUME NEW k \in Entry, hashed!GetInsert(k) PROVE TableInv'
    <3>1. k \notin inserted BY <2>2, <2>4, GetRight DEF hashed!GetInsert
    <3>2. hashed!InsertNode(k) BY <2>4 DEF hashed!GetInsert
    <3> QED BY <2>1, <3>1, <3>2, InsertKeeps
  <2>5. Asked \subseteq Nat BY TableConstants
  <2>6. ASSUME NEW n \in Asked, hashed!RehashTo(n) PROVE TableInv'
    BY <2>1, <2>5, <2>6, RehashToKeeps
  <2>7. ASSUME NEW n \in Asked, hashed!Reserve(n) PROVE TableInv'
    BY <2>1, <2>5, <2>7, ReserveKeeps
  <2>8. ASSUME hashed!Copy PROVE TableInv' BY <2>1, <2>8, CopyKeeps
  <2>9. ASSUME hashed!Clear PROVE TableInv' BY <2>1, <2>9, ClearTableKeeps
  <2> QED BY <2>1, <2>3, <2>4, <2>6, <2>7, <2>8, <2>9 DEF hashed!Next
<1> QED BY <1>1, <1>2

\* Unordered maps: whatever was inserted, rehashed, reserved, copied and cleared
\* in whatever order, both look-ups find the keys that were inserted and an
\* iterator meets each of them once, the load stays within the limit, and no
\* insertion meets the assertion on an empty table (hash_table.hpp).
THEOREM TableIsSetAlways ==
  ASSUME PrimesGoOn
  PROVE  TablesSpec => []TableIsSet
<1>1. TablesInit => TableInv BY TableInvInit
<1>2. TableInv /\ [TablesNext]_<<part, hash_vars>> => TableInv' BY TableInvStep
<1>3. TableInv => TableIsSet BY TableInvSays
<1> QED BY <1>1, <1>2, <1>3, PTL DEF TablesSpec
=============================================================================
