-------------------------- MODULE SharedMutexProofs --------------------------
(***************************************************************************)
(* shared_timed_mutex for any number of threads.  As long as there are at  *)
(* most max_readers threads that read, no reader ever waits for room, the  *)
(* loop of line 67 is never passed late, a writer is alone with the data   *)
(* and nobody sleeps through a release.  With more readers than places and *)
(* no writers nobody sleeps through the room of a reader that left.        *)
(***************************************************************************)
EXTENDS MCLocks, FiniteSetTheorems, TLAPS

RoomForAll == Cardinality(MayRead) <= MaxReaders

Claimed == At("writing") \cup At("lock@rwait")

\* What Exclusion rests on: the counters are the numbers of threads at the
\* places they stand for, and a writer got in when no reader was left.
ReadersInv ==
  /\ At("shared@rwait") = {}
  /\ At("reading") \cup At("shared@wwait") \subseteq MayRead
  /\ readers = Cardinality(At("reading"))
WritersInv ==
  /\ \A t, u \in Claimed : t = u
  /\ writers = IF Claimed = {} THEN 0 ELSE 1
  /\ At("writing") # {} => readers = 0
LockInv == ReadersInv /\ WritersInv

USE DEF Pc

-----------------------------------------------------------------------------
\* Arithmetic on machine words away from the wrap.
LEMMA IncSmall ==
  ASSUME NEW n \in Nat, n + 1 < WordSize
  PROVE  Inc(n) = n + 1
BY WordSizeAssumption, SMT DEF Inc

LEMMA DecSmall ==
  ASSUME NEW n \in Nat, n > 0, n < WordSize
  PROVE  Dec(n) = n - 1
<1>1. n - 1 \in Nat /\ n - 1 < WordSize BY WordSizeAssumption, SMT
<1>2. (n - 1) % WordSize = n - 1 BY <1>1, WordSizeAssumption, SMT
<1> QED BY <1>2 DEF Dec

LEMMA WordsClosed == \A n \in Word : Inc(n) \in Word /\ Dec(n) \in Word
<1>1. WordSize \in Nat \ {0} BY WordSizeAssumption, ThreadAssumption,
        FS_CardinalityType, SMT
<1> QED BY <1>1, SMT DEF Inc, Dec, Word

\* Types.
LEMMA TypeInit == Init => TypeOK
BY WordSizeAssumption, ThreadAssumption, FS_CardinalityType
DEF Init, TypeOK, Word, rwait!Init, wwait!Init, rwait!TypeOK, wwait!TypeOK

LEMMA TypeNext == TypeOK /\ [Next]_vars => TypeOK'
<1> SUFFICES ASSUME TypeOK, [Next]_vars PROVE TypeOK'
    OBVIOUS
<1> USE DEF TypeOK, counts, r_vars, w_vars, Goto
<1> USE DEF rwait!TypeOK, rwait!Wait, rwait!NotifyOne, rwait!NotifyAll,
            rwait!Wake, rwait!Waiting, rwait!vars
<1> USE DEF wwait!TypeOK, wwait!Wait, wwait!NotifyAll, wwait!Waiting,
            wwait!vars
<1>1. CASE UNCHANGED vars BY <1>1 DEF vars
<1>2. ASSUME NEW t \in Thread, Step(t) PROVE TypeOK'
  <2>1. CASE LockWaits(t) BY <2>1 DEF LockWaits
  <2>2. CASE LockClaims(t) BY <2>2, WordsClosed DEF LockClaims
  <2>3. CASE LockDrains(t) BY <2>3 DEF LockDrains
  <2>4. CASE TryLock(t) BY <2>4, WordsClosed DEF TryLock
  <2>5. CASE Unlock(t) BY <2>5, WordsClosed DEF Unlock, WriterGone
  <2>6. CASE SharedWaits(t) BY <2>6, WordsClosed DEF SharedWaits
  <2>7. CASE SharedEnters(t) BY <2>7, WordsClosed DEF SharedEnters
  <2>8. CASE TryLockShared(t) BY <2>8, WordsClosed DEF TryLockShared
  <2>9. CASE UnlockShared(t) BY <2>9, WordsClosed DEF UnlockShared, ReaderGone
  <2>10. CASE Wake(t) BY <2>10 DEF Wake
  <2> QED BY <1>2, <2>1, <2>2, <2>3, <2>4, <2>5, <2>6, <2>7, <2>8, <2>9,
             <2>10 DEF Step
<1> QED BY <1>1, <1>2 DEF Next

\* The lock's variables keep their types for any number of threads.
THEOREM TypeCorrect == Spec => []TypeOK
<1> QED BY TypeInit, TypeNext, PTL DEF Spec

-----------------------------------------------------------------------------
\* A thread that goes somewhere is there and nowhere else.
LEMMA Moved ==
  ASSUME TypeOK, NEW t \in Thread, NEW w \in Pc, Goto(t, w)
  PROVE  /\ At(w)' = At(w) \cup {t}
         /\ \A p : p # w => At(p)' = At(p) \ {t}
BY DEF TypeOK, Goto, At

LEMMA Stayed ==
  ASSUME UNCHANGED pc
  PROVE  \A p : At(p)' = At(p)
BY DEF At

LEMMA AtFinite == \A p : At(p) \in SUBSET Thread /\ IsFiniteSet(At(p))
<1>1. \A p : At(p) \in SUBSET Thread BY DEF At
<1> QED BY <1>1, ThreadAssumption, FS_Subset

\* While a reader is outside there is room for it.
LEMMA RoomLeft ==
  ASSUME RoomForAll, ReadersInv, TypeOK, NEW t \in MayRead, pc[t] # "reading"
  PROVE  HasRoom /\ Inc(readers) = readers + 1
<1> DEFINE R == At("reading")
<1>1. IsFiniteSet(MayRead) BY ThreadAssumption, RolesAssumption, FS_Subset
<1>2. R \cup {t} \in SUBSET MayRead BY DEF ReadersInv
<1>3. t \notin R BY DEF At
<1>4. IsFiniteSet(R) BY AtFinite
<1>5. Cardinality(R \cup {t}) = Cardinality(R) + 1
  BY <1>3, <1>4, FS_AddElement
<1>6. Cardinality(R \cup {t}) <= Cardinality(MayRead)
  BY <1>1, <1>2, FS_Subset
<1>7. readers = Cardinality(R) /\ readers \in Nat
      /\ Cardinality(MayRead) \in Nat
  BY <1>1, <1>4, FS_CardinalityType DEF ReadersInv
<1> HIDE DEF R
<1>8. readers + 1 <= MaxReaders
  BY <1>5, <1>6, <1>7, MaxReadersAssumption DEF RoomForAll
<1> QED BY <1>7, <1>8, IncSmall, MaxReadersAssumption, WordSizeAssumption
        DEF HasRoom

-----------------------------------------------------------------------------
LEMMA LockInit == Init => LockInv
<1> SUFFICES ASSUME Init PROVE LockInv OBVIOUS
<1>1. \A p : p # "idle" => At(p) = {} BY DEF Init, At
<1> QED BY <1>1, FS_EmptySet
        DEF Init, LockInv, ReadersInv, WritersInv, Claimed

\* Readers: entering and leaving keep the count.
LEMMA ReadersNext ==
  ASSUME RoomForAll, TypeOK, LockInv, NEW t \in Thread, Step(t)
  PROVE  ReadersInv'
<1> USE DEF LockInv
<1>a. At("shared@rwait") = {} /\ pc[t] # "shared@rwait"
  BY DEF ReadersInv, At
<1>b. t \in At(pc[t]) BY DEF At
<1>c. IsFiniteSet(At("reading")) BY AtFinite
\* Steps that leave the readers alone.
<1>1. ASSUME NEW w \in Pc, Goto(t, w) \/ UNCHANGED pc,
             w \notin {"reading", "shared@rwait"},
             w = "shared@wwait" => t \in MayRead,
             pc[t] # "reading", readers' = readers
      PROVE ReadersInv'
  <2>1. t \notin At("reading") BY <1>1 DEF At
  <2>2. CASE UNCHANGED pc BY <1>1, <2>2, Stayed DEF ReadersInv
  <2>3. CASE Goto(t, w)
    <3>1. At("reading")' = At("reading") BY <1>1, <2>1, <2>3, Moved
    <3>2. At("shared@rwait")' = {} BY <1>1, <1>a, <2>3, Moved
    <3>3. At("shared@wwait")' \subseteq MayRead
      BY <1>1, <2>3, Moved DEF ReadersInv
    <3> QED BY <1>1, <3>1, <3>2, <3>3 DEF ReadersInv
  <2> QED BY <1>1, <2>2, <2>3
\* Steps by which t becomes a reader.
<1>2. ASSUME t \in MayRead, pc[t] # "reading", Goto(t, "reading"),
             readers' = Inc(readers)
      PROVE ReadersInv'
  <2>1. t \notin At("reading") BY <1>2 DEF At
  <2>2. At("reading")' = At("reading") \cup {t} BY <1>2, Moved
  <2>3. Cardinality(At("reading")') = Cardinality(At("reading")) + 1
    BY <1>c, <2>1, <2>2, FS_AddElement
  <2>4. readers' = readers + 1 BY <1>2, RoomLeft
  <2>5. At("shared@rwait")' = {} BY <1>2, <1>a, Moved
  <2>6. At("shared@wwait")' \subseteq MayRead BY <1>2, Moved DEF ReadersInv
  <2> QED BY <1>2, <2>2, <2>3, <2>4, <2>5, <2>6 DEF ReadersInv
<1>3. CASE LockWaits(t)
  BY <1>3, <1>1 DEF LockWaits, Back, counts
<1>4. CASE LockClaims(t)
  BY <1>4, <1>1 DEF LockClaims, Back
<1>5. CASE LockDrains(t)
  BY <1>5, <1>1 DEF LockDrains, Back, counts
<1>6. CASE TryLock(t)
  BY <1>6, <1>1 DEF TryLock
<1>7. CASE Unlock(t)
  BY <1>7, <1>1 DEF Unlock
<1>8. CASE SharedWaits(t)
  BY <1>8, <1>1 DEF SharedWaits, Back
<1>9. CASE SharedEnters(t)
  <2>1. t \in MayRead /\ pc[t] # "reading"
    BY <1>9, <1>a DEF SharedEnters, Back
  <2>2. HasRoom BY <2>1, RoomLeft
  <2> QED BY <1>2, <1>9, <2>1, <2>2 DEF SharedEnters
<1>10. CASE TryLockShared(t)
  BY <1>2, <1>10 DEF TryLockShared
<1>11. CASE UnlockShared(t)
  <2>1. t \in At("reading") /\ Goto(t, "idle") /\ readers' = Dec(readers)
    BY <1>11 DEF UnlockShared, At
  <2>2. At("reading")' = At("reading") \ {t} BY <2>1, Moved
  <2>3. Cardinality(At("reading")') = Cardinality(At("reading")) - 1
    BY <1>c, <2>1, <2>2, FS_RemoveElement
  <2>4. readers > 0 BY <1>c, <2>1, FS_EmptySet, FS_CardinalityType
        DEF ReadersInv
  <2>5. readers' = readers - 1
    BY <2>1, <2>4, DecSmall, WordSizeAssumption DEF TypeOK, Word
  <2>6. At("shared@rwait")' = {} /\ At("shared@wwait")' \subseteq MayRead
    BY <1>a, <2>1, Moved DEF ReadersInv
  <2>7. At("reading")' \subseteq MayRead BY <2>2 DEF ReadersInv
  <2> QED BY <2>3, <2>5, <2>6, <2>7 DEF ReadersInv
<1>12. CASE Wake(t)
  BY <1>12, Stayed DEF Wake, counts, ReadersInv
<1> QED BY <1>3, <1>4, <1>5, <1>6, <1>7, <1>8, <1>9, <1>10, <1>11, <1>12
        DEF Step

\* Writers: only one claims, and it enters when the last reader is gone.
LEMMA WritersNext ==
  ASSUME RoomForAll, TypeOK, LockInv, NEW t \in Thread, Step(t)
  PROVE  WritersInv'
<1> USE DEF LockInv
<1>a. pc[t] # "shared@rwait" BY DEF ReadersInv, At
<1>b. Inc(0) = 1
  <2>1. 0 + 1 < WordSize BY MaxReadersAssumption, WordSizeAssumption, SMT
  <2> QED BY <2>1, IncSmall
<1>c. Dec(1) = 0
  <2>1. 1 < WordSize BY MaxReadersAssumption, WordSizeAssumption, SMT
  <2> QED BY <2>1, DecSmall
\* Steps that neither claim nor give up the lock, with no new reader.
<1>1. ASSUME NEW w \in Pc, Goto(t, w) \/ UNCHANGED pc,
             w \notin {"writing", "lock@rwait"}, t \notin Claimed,
             writers' = writers, readers' = readers \/ NoWriter
      PROVE WritersInv'
  <2>1. Claimed' = Claimed /\ At("writing")' = At("writing")
    <3>1. CASE Goto(t, w)
      BY <1>1, <3>1, Moved DEF Claimed
    <3>2. CASE UNCHANGED pc
      BY <3>2, Stayed DEF Claimed
    <3> QED BY <1>1, <3>1, <3>2
  <2>2. At("writing")' # {} => readers' = 0
    BY <1>1, <2>1 DEF WritersInv, NoWriter, Claimed
  <2> QED BY <1>1, <2>1, <2>2 DEF WritersInv
\* Steps by which t claims the lock.
<1>2. ASSUME NoWriter, NEW w \in {"writing", "lock@rwait"}, Goto(t, w),
             w = "writing" => NoReader,
             writers' = Inc(writers), readers' = readers
      PROVE WritersInv'
  <2>1. Claimed = {} BY <1>2 DEF WritersInv, NoWriter
  <2>2. At("writing") = {} /\ At("lock@rwait") = {} BY <2>1 DEF Claimed
  <2>3. Claimed' = {t} BY <1>2, <2>2, Moved DEF Claimed
  <2>4. writers' = 1 BY <1>2, <1>b DEF NoWriter
  <2>5. At("writing")' # {} => w = "writing" BY <1>2, <2>2, Moved
  <2> QED BY <1>2, <2>3, <2>4, <2>5 DEF WritersInv, NoReader
<1>3. CASE LockWaits(t)
  BY <1>3, <1>1 DEF LockWaits, Back, counts, Claimed, At
<1>4. CASE LockClaims(t)
  BY <1>4, <1>2 DEF LockClaims
<1>5. CASE LockDrains(t)
  <2>0. pc[t] = "lock@rwait" BY <1>5 DEF LockDrains, Back
  <2>1. t \in Claimed BY <2>0 DEF Claimed, At
  <2>2. UNCHANGED <<writers, readers>> BY <1>5 DEF LockDrains, counts
  <2>3. CASE NoReader
    <3>1. Goto(t, "writing") BY <1>5, <2>3 DEF LockDrains
    <3>2. Claimed' = Claimed BY <2>1, <3>1, Moved DEF Claimed
    <3> QED BY <2>2, <2>3, <3>2 DEF WritersInv, NoReader
  <2>4. CASE ~NoReader
    <3>1. UNCHANGED pc BY <1>5, <2>4 DEF LockDrains
    <3>2. Claimed' = Claimed /\ At("writing")' = At("writing")
      BY <3>1, Stayed DEF Claimed
    <3> QED BY <2>2, <3>2 DEF WritersInv
  <2> QED BY <2>3, <2>4
<1>6. CASE TryLock(t)
  BY <1>6, <1>2 DEF TryLock
<1>7. CASE Unlock(t)
  <2>1. t \in At("writing") /\ Goto(t, "idle") /\ writers' = Dec(writers)
        /\ readers' = readers
    BY <1>7 DEF Unlock, At
  <2>2. Claimed = {t} BY <2>1 DEF WritersInv, Claimed
  <2>3. Claimed' = {} BY <2>1, <2>2, Moved DEF Claimed
  <2>4. writers' = 0 BY <1>c, <2>1, <2>2 DEF WritersInv
  <2> QED BY <2>3, <2>4 DEF WritersInv, Claimed
<1>8. CASE SharedWaits(t)
  BY <1>8, <1>1 DEF SharedWaits, Back, Claimed, At
<1>9. CASE SharedEnters(t)
  <2>1. t \in MayRead /\ pc[t] \in {"idle", "shared@wwait"} /\ NoWriter
    BY <1>9, <1>a DEF SharedEnters, Back
  <2>2. t \notin Claimed BY <2>1 DEF Claimed, At
  <2>3. HasRoom BY <2>1, RoomLeft
  <2>4. Goto(t, "reading") /\ writers' = writers
    BY <1>9, <2>3 DEF SharedEnters
  <2> QED BY <1>1, <2>1, <2>2, <2>4
<1>10. CASE TryLockShared(t)
  <2>1. t \notin Claimed BY <1>10 DEF TryLockShared, Claimed, At
  <2> QED BY <1>1, <1>10, <2>1 DEF TryLockShared
<1>11. CASE UnlockShared(t)
  <2>1. t \in At("reading") /\ Goto(t, "idle") /\ writers' = writers
    BY <1>11 DEF UnlockShared, At
  <2>2. readers # 0 BY <2>1, AtFinite, FS_EmptySet DEF ReadersInv
  <2>3. At("writing") = {} BY <2>2 DEF WritersInv
  <2>4. t \notin Claimed BY <2>1 DEF Claimed, At
  <2>5. Claimed' = Claimed /\ At("writing")' = {}
    BY <2>1, <2>3, <2>4, Moved DEF Claimed
  <2> QED BY <2>1, <2>5 DEF WritersInv
<1>12. CASE Wake(t)
  BY <1>12, Stayed DEF Wake, counts, WritersInv, Claimed
<1> QED BY <1>3, <1>4, <1>5, <1>6, <1>7, <1>8, <1>9, <1>10, <1>11, <1>12
        DEF Step

LEMMA LockNext ==
  ASSUME RoomForAll, TypeOK, LockInv, [Next]_vars
  PROVE  LockInv'
<1>1. CASE UNCHANGED vars
  BY <1>1, Stayed
  DEF vars, counts, LockInv, ReadersInv, WritersInv, Claimed
<1>2. CASE Next
  BY <1>2, ReadersNext, WritersNext DEF Next, LockInv
<1> QED BY <1>1, <1>2

LEMMA LockInvExclusion == LockInv => Exclusion
<1> SUFFICES ASSUME LockInv, NEW t \in At("writing")
             PROVE  At("writing") = {t} /\ At("reading") = {}
    BY DEF Exclusion
<1>1. At("writing") = {t} BY DEF LockInv, WritersInv, Claimed
<1>2. At("reading") = {}
  BY AtFinite, FS_EmptySet DEF LockInv, ReadersInv, WritersInv
<1> QED BY <1>1, <1>2

\* With at most max_readers readers a writer is alone with the data, for any
\* number of threads, any interleaving and any initial waiting_readers.
THEOREM ExclusionAlways ==
  ASSUME RoomForAll
  PROVE  Spec => []Exclusion
<1>1. Init => LockInv BY LockInit
<1>2. TypeOK /\ LockInv /\ [Next]_vars => LockInv' BY LockNext
<1>3. LockInv => Exclusion BY LockInvExclusion
<1> QED BY <1>1, <1>2, <1>3, TypeCorrect, PTL DEF Spec

LEMMA LockInvCounts == LockInv => CountsAgree
<1> SUFFICES ASSUME LockInv PROVE CountsAgree OBVIOUS
<1>1. writers = Cardinality(Claimed)
  <2>1. CASE Claimed = {}
    BY <2>1, FS_EmptySet DEF LockInv, WritersInv
  <2>2. CASE Claimed # {}
    <3>1. PICK t \in Claimed : Claimed = {t}
      BY <2>2 DEF LockInv, WritersInv
    <3> QED BY <2>2, <3>1, FS_Singleton DEF LockInv, WritersInv
  <2> QED BY <2>1, <2>2
<1>2. writers <= 1 BY DEF LockInv, WritersInv
<1> QED BY <1>1, <1>2 DEF LockInv, ReadersInv, Claimed, CountsAgree

\* Under the same condition the counters are the numbers of threads inside or
\* committed to enter, so unlock and unlock_shared never count below zero.
THEOREM CountsAgreeAlways ==
  ASSUME RoomForAll
  PROVE  Spec => []CountsAgree
<1>1. Init => LockInv BY LockInit
<1>2. TypeOK /\ LockInv /\ [Next]_vars => LockInv' BY LockNext
<1>3. LockInv => CountsAgree BY LockInvCounts
<1> QED BY <1>1, <1>2, <1>3, TypeCorrect, PTL DEF Spec

-----------------------------------------------------------------------------
\* The cardinality the condition variables count with.
LEMMA SameCardinality ==
  \A S : rwait!Cardinality(S) = Cardinality(S) /\ wwait!Cardinality(S) = Cardinality(S)
BY DEF Cardinality, rwait!Cardinality, wwait!Cardinality, IsFiniteSet,
       rwait!IsFiniteSet, wwait!IsFiniteSet

\* Who waits on the two condition variables.  wwait has waiters only while a
\* writer is there, and never credits.  On rwait there is at most the writer
\* that has claimed the lock: it has been told, or a reader is still inside.
WritersWait == w_old = {} /\ w_credits = 0 /\ (w_fresh # {} => ~NoWriter)
Sleeps(t) == r_fresh = {t} /\ r_old = {} /\ r_credits = 0 /\ ~NoReader
Told(t) == r_fresh = {} /\ r_old = {t} /\ r_credits = 1
DrainWait == rwait!Init \/ \E t \in At("lock@rwait") : Sleeps(t) \/ Told(t)

\* wwait is only waited on while a writer is there, and broadcast to when it
\* leaves.
LEMMA WritersWaitNext ==
  ASSUME RoomForAll, TypeOK, LockInv, WritersWait, NEW t \in Thread, Step(t)
  PROVE  WritersWait'
<1> USE DEF WritersWait
<1>1. ASSUME w_vars' = w_vars, ~NoWriter => ~NoWriter' PROVE WritersWait'
  BY <1>1 DEF w_vars
<1>2. ASSUME ~NoWriter, writers' = writers, wwait!Wait(t) PROVE WritersWait'
  BY <1>2 DEF wwait!Wait, NoWriter
<1>3. CASE LockWaits(t) BY <1>2, <1>3 DEF LockWaits, counts
<1>4. CASE SharedWaits(t) BY <1>2, <1>4 DEF SharedWaits
<1>5. CASE LockClaims(t) \/ TryLock(t)
  BY <1>1, <1>5 DEF LockClaims, TryLock
<1>6. CASE Unlock(t)
  <2>1. w_fresh' = {} /\ w_old' = {} /\ w_credits' = 0
    <3>1. wwait!NotifyAll BY <1>6 DEF Unlock, WriterGone
    <3>2. CASE wwait!Unpromised BY <3>1, <3>2 DEF wwait!NotifyAll
    <3>3. CASE ~wwait!Unpromised
      <4>1. UNCHANGED <<w_fresh, w_old, w_credits>>
        BY <3>1, <3>3 DEF wwait!NotifyAll, wwait!vars
      <4>2. IsFiniteSet(w_fresh)
        BY ThreadAssumption, FS_Subset DEF TypeOK, wwait!TypeOK
      <4>3. ~(Cardinality(w_fresh) > 0)
        <5>1. w_fresh \cup w_old = w_fresh OBVIOUS
        <5>2. Cardinality(w_fresh \cup w_old) = Cardinality(w_fresh) BY <5>1
        <5> QED BY <3>3, <5>2, SameCardinality
            DEF wwait!Unpromised, wwait!Waiting
      <4>4. w_fresh = {} BY <4>2, <4>3, FS_CardinalityType, FS_EmptySet
      <4> QED BY <4>1, <4>4
    <3> QED BY <3>2, <3>3
  <2> QED BY <2>1
<1>7. CASE LockDrains(t) \/ SharedEnters(t) \/ TryLockShared(t)
           \/ UnlockShared(t) \/ Wake(t)
  BY <1>1, <1>7
  DEF LockDrains, SharedEnters, TryLockShared, UnlockShared, Wake, counts, NoWriter
<1> QED BY <1>3, <1>4, <1>5, <1>6, <1>7 DEF Step

\* What the two ways of telling rwait do to the one thread that may wait there.
LEMMA DrainTold ==
  ASSUME DrainWait, rwait!NotifyAll \/ rwait!NotifyOne
  PROVE  rwait!Init' \/ \E t \in At("lock@rwait") : Told(t)'
<1> USE DEF rwait!Init, rwait!NotifyAll, rwait!NotifyOne, rwait!vars
<1>1. CASE rwait!Init
  <2>1. r_fresh \cup r_old = {} /\ r_credits = 0 BY <1>1
  <2>2. Cardinality(r_fresh \cup r_old) = 0 BY <2>1, FS_EmptySet
  <2>3. ~rwait!Unpromised
    BY <2>1, <2>2, SameCardinality DEF rwait!Unpromised, rwait!Waiting
  <2> QED BY <1>1, <2>3
<1>2. ASSUME NEW t \in At("lock@rwait"), Sleeps(t)
      PROVE rwait!Init' \/ \E u \in At("lock@rwait") : Told(u)'
  <2>1. r_fresh \cup r_old = {t} /\ r_credits = 0 BY <1>2 DEF Sleeps
  <2>2. Cardinality(r_fresh \cup r_old) = 1 BY <2>1, FS_Singleton
  <2>3. rwait!Unpromised
    BY <2>1, <2>2, SameCardinality DEF rwait!Unpromised, rwait!Waiting
  <2>4. CASE rwait!NotifyAll BY <2>3, <2>4
  <2>5. CASE rwait!NotifyOne
    <3>1. Told(t)' BY <2>1, <2>3, <2>5 DEF Told, rwait!Waiting
    <3> QED BY <3>1, <1>2
  <2> QED BY <2>4, <2>5
<1>3. ASSUME NEW t \in At("lock@rwait"), Told(t)
      PROVE rwait!Init' \/ \E u \in At("lock@rwait") : Told(u)'
  <2>1. r_fresh \cup r_old = {t} /\ r_credits = 1 BY <1>3 DEF Told
  <2>2. Cardinality(r_fresh \cup r_old) = 1 BY <2>1, FS_Singleton
  <2>3. ~rwait!Unpromised
    BY <2>1, <2>2, SameCardinality DEF rwait!Unpromised, rwait!Waiting
  <2>4. Told(t)' BY <2>3, <1>3 DEF Told
  <2> QED BY <2>4, <1>3
<1> QED BY <1>1, <1>2, <1>3 DEF DrainWait

\* rwait is only waited on by the writer that has claimed the lock, while a
\* reader is inside, and every reader that leaves tells it.
LEMMA DrainWaitNext ==
  ASSUME RoomForAll, TypeOK, LockInv, DrainWait, NEW t \in Thread, Step(t)
  PROVE  DrainWait'
<1> USE DEF DrainWait
\* Steps that leave rwait, the thread that waits there and the readers alone.
<1>1. ASSUME r_vars' = r_vars, ~NoReader => ~NoReader',
             \A u \in At("lock@rwait") :
               u \in At("lock@rwait")' \/ u \notin rwait!Waiting
      PROVE DrainWait'
  <2>1. CASE rwait!Init BY <1>1, <2>1 DEF rwait!Init, r_vars
  <2>2. ASSUME NEW u \in At("lock@rwait"), Sleeps(u) \/ Told(u)
        PROVE DrainWait'
    <3>1. u \in rwait!Waiting BY <2>2 DEF Sleeps, Told, rwait!Waiting
    <3>2. u \in At("lock@rwait")' BY <1>1, <3>1
    <3>3. (Sleeps(u) \/ Told(u))' BY <1>1, <2>2 DEF Sleeps, Told, r_vars
    <3> QED BY <3>2, <3>3
  <2> QED BY <2>1, <2>2
\* Steps that add a waiter.
<1>2. ASSUME rwait!Wait(t), ~NoReader, readers' = readers,
             rwait!Init, t \in At("lock@rwait")'
      PROVE DrainWait'
  <2>1. Sleeps(t)' BY <1>2 DEF Sleeps, rwait!Wait, rwait!Init, NoReader
  <2> QED BY <1>2, <2>1
\* A thread somewhere else takes no place at lock@rwait from another.
<1>3. ASSUME NEW w \in Pc, Goto(t, w), pc[t] # "lock@rwait"
      PROVE \A u \in At("lock@rwait") : u \in At("lock@rwait")'
  <2>1. t \notin At("lock@rwait") BY <1>3 DEF At
  <2> QED BY <1>3, <2>1, Moved
<1>4. CASE LockWaits(t)
  BY <1>1, <1>3, <1>4 DEF LockWaits, Back, counts, NoReader
<1>5. CASE LockClaims(t)
  <2>1. NoWriter /\ pc[t] # "lock@rwait" /\ readers' = readers
    BY <1>5 DEF LockClaims, Back
  <2>2. CASE NoReader
    BY <1>1, <1>3, <1>5, <2>1, <2>2 DEF LockClaims, NoReader
  <2>3. CASE ~NoReader
    <3>1. Goto(t, "lock@rwait") /\ rwait!Wait(t)
      BY <1>5, <2>3 DEF LockClaims
    <3>2. At("lock@rwait") = {}
      BY <2>1 DEF LockInv, WritersInv, Claimed, NoWriter
    <3>3. t \in At("lock@rwait")' BY <3>1, Moved
    <3> QED BY <1>2, <2>1, <2>3, <3>1, <3>2, <3>3
  <2> QED BY <2>2, <2>3
<1>6. CASE LockDrains(t)
  <2>1. /\ t \in At("lock@rwait") /\ t \notin rwait!Waiting
        /\ readers' = readers
    BY <1>6 DEF LockDrains, Back, At, counts
  <2>2. rwait!Init
    <3>1. \A u \in At("lock@rwait") : u = t
      BY <2>1 DEF LockInv, WritersInv, Claimed
    <3> QED BY <2>1, <3>1 DEF Sleeps, Told, rwait!Waiting
  <2>3. CASE NoReader
    <3>1. r_vars' = r_vars BY <1>6, <2>3 DEF LockDrains
    <3> QED BY <2>2, <3>1 DEF rwait!Init, r_vars
  <2>4. CASE ~NoReader
    <3>1. rwait!Wait(t) /\ UNCHANGED pc BY <1>6, <2>4 DEF LockDrains
    <3>2. t \in At("lock@rwait")' BY <2>1, <3>1, Stayed
    <3> QED BY <1>2, <2>1, <2>2, <2>4, <3>1, <3>2
  <2> QED BY <2>3, <2>4
<1>7. CASE TryLock(t)
  BY <1>1, <1>3, <1>7 DEF TryLock, NoReader
<1>8. CASE Unlock(t)
  BY <1>1, <1>3, <1>8 DEF Unlock, NoReader
<1>9. CASE SharedWaits(t)
  BY <1>1, <1>3, <1>9 DEF SharedWaits, Back, NoReader
<1>10. CASE SharedEnters(t)
  <2>1. t \in MayRead /\ pc[t] \in {"idle", "shared@wwait"}
    <3>1. pc[t] # "shared@rwait" BY DEF LockInv, ReadersInv, At
    <3> QED BY <1>10, <3>1 DEF SharedEnters, Back
  <2>2. HasRoom /\ Inc(readers) = readers + 1 BY <2>1, RoomLeft DEF LockInv
  <2>3. Goto(t, "reading") /\ r_vars' = r_vars /\ readers' = readers + 1
    BY <1>10, <2>2 DEF SharedEnters
  <2>4. readers \in Nat BY DEF TypeOK, Word
  <2>5. ~NoReader' BY <2>3, <2>4 DEF NoReader
  <2> QED BY <1>1, <1>3, <2>1, <2>3, <2>5
<1>11. CASE TryLockShared(t)
  <2>1. t \in MayRead /\ pc[t] = "idle" BY <1>11 DEF TryLockShared
  <2>2. HasRoom /\ Inc(readers) = readers + 1 BY <2>1, RoomLeft DEF LockInv
  <2>3. Goto(t, "reading") /\ r_vars' = r_vars /\ readers' = readers + 1
    BY <1>11, <2>2 DEF TryLockShared
  <2>4. readers \in Nat BY DEF TypeOK, Word
  <2>5. ~NoReader' BY <2>3, <2>4 DEF NoReader
  <2> QED BY <1>1, <1>3, <2>1, <2>3, <2>5
<1>12. CASE UnlockShared(t)
  <2>1. rwait!NotifyAll \/ rwait!NotifyOne
    BY <1>12 DEF UnlockShared, ReaderGone
  <2>2. rwait!Init' \/ \E u \in At("lock@rwait") : Told(u)'
    BY <2>1, DrainTold
  <2>3. Goto(t, "idle") /\ pc[t] # "lock@rwait" BY <1>12 DEF UnlockShared
  <2>4. \A u \in At("lock@rwait") : u \in At("lock@rwait")'
    BY <1>3, <2>3
  <2> QED BY <2>2, <2>4
<1>13. CASE Wake(t)
  <2>1. rwait!Wake(t) /\ UNCHANGED pc BY <1>13 DEF Wake
  <2>2. PICK u \in At("lock@rwait") : Told(u)
    BY <2>1 DEF rwait!Wake, rwait!Init, Sleeps
  <2>3. r_old' = {} /\ r_credits' = 0 /\ r_fresh' = {}
    BY <2>1, <2>2 DEF rwait!Wake, Told
  <2> QED BY <2>3 DEF rwait!Init
<1> QED BY <1>4, <1>5, <1>6, <1>7, <1>8, <1>9, <1>10, <1>11, <1>12, <1>13
        DEF Step

LEMMA WaitNext ==
  ASSUME RoomForAll, TypeOK, LockInv, WritersWait, DrainWait, [Next]_vars
  PROVE  WritersWait' /\ DrainWait'
<1>1. CASE UNCHANGED vars
  <2> USE <1>1 DEF vars, counts, r_vars, w_vars, NoWriter, NoReader
  <2>1. WritersWait' BY DEF WritersWait
  <2>2. DrainWait' BY DEF DrainWait, rwait!Init, Sleeps, Told, At
  <2> QED BY <2>1, <2>2
<1>2. CASE Next BY <1>2, WritersWaitNext, DrainWaitNext DEF Next
<1> QED BY <1>1, <1>2

LEMMA WaitRelease ==
  ASSUME WritersWait, DrainWait PROVE NoMissedRelease
<1>1. NoWriter => Sleepers(wwait!Waiting, w_credits) = 0
  <2>1. SUFFICES ASSUME NoWriter PROVE Sleepers(wwait!Waiting, w_credits) = 0
    OBVIOUS
  <2>2. wwait!Waiting = {} /\ w_credits = 0
    BY <2>1 DEF WritersWait, wwait!Waiting
  <2> QED BY <2>2, FS_EmptySet DEF Sleepers
<1>2. NoReader => Sleepers(rwait!Waiting, r_credits) = 0
  <2>1. SUFFICES ASSUME NoReader PROVE Sleepers(rwait!Waiting, r_credits) = 0
    OBVIOUS
  <2>2. CASE rwait!Init
    <3>1. rwait!Waiting = {} /\ r_credits = 0
      BY <2>2 DEF rwait!Init, rwait!Waiting
    <3> QED BY <3>1, FS_EmptySet DEF Sleepers
  <2>3. ASSUME NEW t, Told(t) PROVE Sleepers(rwait!Waiting, r_credits) = 0
    <3>1. rwait!Waiting = {t} /\ r_credits = 1
      BY <2>3 DEF Told, rwait!Waiting
    <3>2. Cardinality(rwait!Waiting) = 1 BY <3>1, FS_Singleton
    <3> QED BY <3>1, <3>2 DEF Sleepers
  <2> QED BY <2>1, <2>2, <2>3 DEF DrainWait, Sleeps
<1> QED BY <1>1, <1>2 DEF NoMissedRelease

\* With a place for every reader nobody sleeps through a release: while no
\* writer is there, nobody is left on wwait, and once the last reader is gone
\* a writer that waits for it has been told (unlock, unlock_shared).
THEOREM NoMissedReleaseAlways ==
  ASSUME RoomForAll
  PROVE  Spec => []NoMissedRelease
<1>1. Init => LockInv BY LockInit
<1>2. TypeOK /\ LockInv /\ [Next]_vars => LockInv' BY LockNext
<1>3. Init => WritersWait /\ DrainWait
  BY DEF Init, WritersWait, DrainWait, wwait!Init
<1>4. TypeOK /\ LockInv /\ WritersWait /\ DrainWait /\ [Next]_vars
        => WritersWait' /\ DrainWait'
  BY WaitNext
<1>5. WritersWait /\ DrainWait => NoMissedRelease BY WaitRelease
<1> QED BY <1>1, <1>2, <1>3, <1>4, <1>5, TypeCorrect, PTL DEF Spec

-----------------------------------------------------------------------------
\* The crowded lock: more readers than places and no writers.  Its readers are
\* outside, inside, or at rwait, where some sleep and some have woken up.
Outside == crowded!At("shared@rwait")
Asleep  == cr_fresh \cup cr_old
PlacesInv ==
  /\ c_pc \in [Thread -> {"idle", "shared@rwait", "reading"}]
  /\ c_writers = 0
  /\ c_readers = Cardinality(crowded!At("reading")) /\ c_readers <= Places
WaitersInv ==
  /\ Asleep \subseteq Outside /\ cr_fresh \cap cr_old = {}
  /\ cr_credits \in Nat /\ cr_credits <= Cardinality(Asleep)
RoomInv ==
  cr_credits < Cardinality(Asleep) =>
    c_readers + cr_credits + Cardinality(Outside \ Asleep) >= Places
CrowdedInv == PlacesInv /\ WaitersInv /\ RoomInv

\* Sets of threads are finite, and grow and shrink by one.
LEMMA ThreadSets ==
  ASSUME NEW S \in SUBSET Thread
  PROVE  /\ IsFiniteSet(S) /\ Cardinality(S) \in Nat
         /\ \A t \in Thread :
              /\ t \in S => Cardinality(S \ {t}) = Cardinality(S) - 1
              /\ t \notin S => Cardinality(S \cup {t}) = Cardinality(S) + 1
<1>1. IsFiniteSet(S) BY ThreadAssumption, FS_Subset
<1> QED BY <1>1, FS_CardinalityType, FS_AddElement, FS_RemoveElement

\* The operators of the instance are those of FiniteSets.
LEMMA CrowdedCardinality ==
  \A S : /\ crowded!Cardinality(S) = Cardinality(S)
         /\ crowded!rwait!Cardinality(S) = Cardinality(S)
BY DEF Cardinality, crowded!Cardinality, crowded!rwait!Cardinality, IsFiniteSet,
       crowded!IsFiniteSet, crowded!rwait!IsFiniteSet

LEMMA CrowdedMoved ==
  ASSUME PlacesInv, NEW t \in Thread, NEW w, crowded!Goto(t, w)
  PROVE  /\ crowded!At(w)' = crowded!At(w) \cup {t}
         /\ \A p : p # w => crowded!At(p)' = crowded!At(p) \ {t}
         /\ w \in {"idle", "shared@rwait", "reading"} =>
              c_pc' \in [Thread -> {"idle", "shared@rwait", "reading"}]
BY DEF PlacesInv, crowded!Goto, crowded!At

LEMMA PlacesNumbers ==
  /\ Places \in Nat /\ WordSize \in Nat /\ Places < WordSize
  /\ \A n \in Nat : n < Places => crowded!Inc(n) = n + 1
  /\ \A n \in Nat : 0 < n /\ n <= Places => crowded!Dec(n) = n - 1
<1>1. Places \in Nat /\ WordSize \in Nat /\ Places < WordSize
  BY PlacesAssumption DEF crowded!MaxReadersAssumption, crowded!WordSizeAssumption
<1>2. \A n \in Nat : n < Places => crowded!Inc(n) = n + 1
  BY <1>1 DEF crowded!Inc
<1>3. ASSUME NEW n \in Nat, 0 < n, n <= Places PROVE crowded!Dec(n) = n - 1
  <2>1. n - 1 \in 0 .. WordSize - 1 BY <1>1, <1>3
  <2>2. (n - 1) % WordSize = n - 1 BY <1>1, <2>1
  <2> QED BY <2>2 DEF crowded!Dec
<1> QED BY <1>1, <1>2, <1>3

LEMMA CrowdedTypes ==
  ASSUME CrowdedInv
  PROVE  /\ Asleep \in SUBSET Thread /\ Outside \in SUBSET Thread
         /\ Outside \ Asleep \in SUBSET Thread
         /\ crowded!At("reading") \in SUBSET Thread
         /\ c_readers \in Nat /\ c_readers <= Places
<1>1. \A p : crowded!At(p) \in SUBSET Thread BY DEF crowded!At
<1> QED BY <1>1, ThreadSets DEF CrowdedInv, PlacesInv, WaitersInv, Outside

\* A reader gets a place: it comes from outside, or was awake at rwait.
LEMMA CrowdedEnter ==
  ASSUME CrowdedInv, NEW t \in Thread, c_pc[t] # "reading", t \notin Asleep,
         c_readers < Places, crowded!Goto(t, "reading"),
         c_readers' = crowded!Inc(c_readers), c_writers' = c_writers,
         UNCHANGED <<cr_fresh, cr_old, cr_credits>>
  PROVE  CrowdedInv'
<1> USE DEF CrowdedInv
<1>1. c_readers' = c_readers + 1 BY PlacesNumbers, CrowdedTypes
<1>2. Asleep' = Asleep /\ cr_credits' = cr_credits BY DEF Asleep
<1>3. PlacesInv'
  <2>1. t \notin crowded!At("reading") BY DEF crowded!At
  <2>2. crowded!At("reading")' = crowded!At("reading") \cup {t} BY CrowdedMoved
  <2>3. Cardinality(crowded!At("reading")') = c_readers + 1
    BY <2>1, <2>2, CrowdedTypes, ThreadSets DEF PlacesInv
  <2>4. c_readers + 1 <= Places BY PlacesNumbers, CrowdedTypes
  <2>5. c_pc' \in [Thread -> {"idle", "shared@rwait", "reading"}]
    BY CrowdedMoved
  <2> QED BY <1>1, <2>3, <2>4, <2>5 DEF PlacesInv
<1>4. Outside' = Outside \ {t} BY CrowdedMoved DEF Outside
<1>5. WaitersInv' BY <1>2, <1>4 DEF WaitersInv
<1>6. Cardinality(Outside' \ Asleep) >= Cardinality(Outside \ Asleep) - 1
      /\ Cardinality(Outside' \ Asleep) \in Nat
  <2>1. CASE t \in Outside
    <3>1. Outside' \ Asleep = (Outside \ Asleep) \ {t} BY <1>4
    <3>2. t \in Outside \ Asleep BY <2>1
    <3> QED BY <3>1, <3>2, CrowdedTypes, ThreadSets
  <2>2. CASE t \notin Outside
    <3>1. Outside' = Outside BY <1>4, <2>2
    <3>2. Cardinality(Outside \ Asleep) \in Nat BY CrowdedTypes, ThreadSets
    <3> QED BY <3>1, <3>2
  <2> QED BY <2>1, <2>2
<1>7. RoomInv'
  <2>1. Cardinality(Outside \ Asleep) \in Nat BY CrowdedTypes, ThreadSets
  <2>2. cr_credits \in Nat /\ c_readers \in Nat BY CrowdedTypes DEF WaitersInv
  <2>3. Cardinality(Outside' \ Asleep') = Cardinality(Outside' \ Asleep) BY <1>2
  <2> QED BY <1>1, <1>2, <1>6, <2>1, <2>2, <2>3, PlacesNumbers DEF RoomInv
<1> QED BY <1>3, <1>5, <1>7

\* A reader finds no place and goes to sleep.
LEMMA CrowdedSleep ==
  ASSUME CrowdedInv, NEW t \in Thread, c_pc[t] # "reading", t \notin Asleep,
         ~(c_readers < Places), crowded!Goto(t, "shared@rwait"),
         c_readers' = c_readers, c_writers' = c_writers,
         cr_fresh' = cr_fresh \cup {t}, UNCHANGED <<cr_old, cr_credits>>
  PROVE  CrowdedInv'
<1> USE DEF CrowdedInv
<1>1. Asleep' = Asleep \cup {t} BY DEF Asleep
<1>2. PlacesInv'
  <2>1. t \notin crowded!At("reading") BY DEF crowded!At
  <2>2. crowded!At("reading")' = crowded!At("reading") BY <2>1, CrowdedMoved
  <2>3. c_pc' \in [Thread -> {"idle", "shared@rwait", "reading"}]
    BY CrowdedMoved
  <2> QED BY <2>2, <2>3 DEF PlacesInv
<1>3. WaitersInv'
  <2>1. Outside' = Outside \cup {t} BY CrowdedMoved DEF Outside
  <2>2. Cardinality(Asleep \cup {t}) = Cardinality(Asleep) + 1
        /\ Cardinality(Asleep) \in Nat
    BY CrowdedTypes, ThreadSets
  <2>3. Cardinality(Asleep') = Cardinality(Asleep) + 1 BY <1>1, <2>2
  <2>4. cr_credits' \in Nat /\ cr_credits' <= Cardinality(Asleep')
    BY <2>2, <2>3 DEF WaitersInv
  <2>5. Asleep' \subseteq Outside' BY <1>1, <2>1 DEF WaitersInv
  <2>6. cr_fresh' \cap cr_old' = {} BY DEF WaitersInv, Asleep
  <2> QED BY <2>4, <2>5, <2>6 DEF WaitersInv
<1>4. RoomInv'
  <2>1. c_readers' >= Places BY CrowdedTypes, PlacesNumbers
  <2>2. c_readers' \in Nat /\ cr_credits' \in Nat
    BY CrowdedTypes DEF WaitersInv
  <2>3. Outside' \ Asleep' \in SUBSET Thread BY DEF Outside, crowded!At
  <2>4. Cardinality(Outside' \ Asleep') \in Nat BY <2>3, ThreadSets
  <2> QED BY <2>1, <2>2, <2>4, PlacesNumbers DEF RoomInv
<1> QED BY <1>2, <1>3, <1>4

\* A reader leaves: nobody sleeps without a credit any more, or one more of
\* those that sleep has one.
LEMMA CrowdedTold ==
  ASSUME CrowdedInv, crowded!ReaderGone
  PROVE  \/ Asleep' = {} /\ cr_fresh' = {} /\ cr_old' = {} /\ cr_credits' = 0
         \/ /\ ~(cr_credits < Cardinality(Asleep))
            /\ UNCHANGED <<cr_fresh, cr_old, cr_credits>>
         \/ /\ cr_credits < Cardinality(Asleep)
            /\ cr_fresh' = {} /\ cr_old' = Asleep /\ cr_credits' = cr_credits + 1
<1>1. crowded!rwait!Waiting = Asleep BY DEF crowded!rwait!Waiting, Asleep
<1>2. crowded!rwait!Unpromised <=> cr_credits < Cardinality(Asleep)
  BY <1>1, CrowdedCardinality, CrowdedTypes, ThreadSets
  DEF crowded!rwait!Unpromised, CrowdedInv, WaitersInv
<1>3. crowded!rwait!NotifyAll \/ crowded!rwait!NotifyOne
  BY DEF crowded!ReaderGone
<1> QED BY <1>1, <1>2, <1>3
  DEF crowded!rwait!NotifyAll, crowded!rwait!NotifyOne, crowded!rwait!vars, Asleep

LEMMA CrowdedLeave ==
  ASSUME CrowdedInv, NEW t \in Thread, c_pc[t] = "reading",
         crowded!Goto(t, "idle"), c_readers' = crowded!Dec(c_readers),
         c_writers' = c_writers, crowded!ReaderGone
  PROVE  CrowdedInv'
<1> USE DEF CrowdedInv
<1>1. t \in crowded!At("reading") /\ t \notin Outside
  BY DEF crowded!At, Outside
<1>2. Cardinality(crowded!At("reading") \ {t}) = c_readers - 1
      /\ Cardinality(crowded!At("reading") \ {t}) \in Nat
  BY <1>1, CrowdedTypes, ThreadSets DEF PlacesInv
<1>3. c_readers' = c_readers - 1
  BY <1>2, PlacesNumbers, CrowdedTypes
<1>4. PlacesInv'
  <2>1. crowded!At("reading")' = crowded!At("reading") \ {t} BY CrowdedMoved
  <2>2. c_readers - 1 <= Places BY CrowdedTypes, PlacesNumbers
  <2>3. c_pc' \in [Thread -> {"idle", "shared@rwait", "reading"}]
    BY CrowdedMoved
  <2> QED BY <1>2, <1>3, <2>1, <2>2, <2>3 DEF PlacesInv
<1>5. Outside' = Outside BY <1>1, CrowdedMoved DEF Outside
<1>6. cr_credits \in Nat /\ Cardinality(Asleep) \in Nat
      /\ Cardinality(Outside \ Asleep) \in Nat /\ c_readers \in Nat
  BY CrowdedTypes, ThreadSets DEF WaitersInv
<1>7. CASE Asleep' = {} /\ cr_fresh' = {} /\ cr_old' = {} /\ cr_credits' = 0
  <2>1. Cardinality(Asleep') = 0 BY <1>7, FS_EmptySet
  <2>2. WaitersInv' /\ RoomInv' BY <1>7, <2>1 DEF WaitersInv, RoomInv
  <2> QED BY <1>4, <2>2
<1>8. CASE /\ ~(cr_credits < Cardinality(Asleep))
           /\ UNCHANGED <<cr_fresh, cr_old, cr_credits>>
  <2>1. Asleep' = Asleep /\ cr_credits' = cr_credits BY <1>8 DEF Asleep
  <2>2. WaitersInv' BY <1>5, <1>8, <2>1 DEF WaitersInv
  <2>3. RoomInv' BY <1>8, <2>1 DEF RoomInv
  <2> QED BY <1>4, <2>2, <2>3
<1>9. CASE /\ cr_credits < Cardinality(Asleep)
           /\ cr_fresh' = {} /\ cr_old' = Asleep /\ cr_credits' = cr_credits + 1
  <2>1. Asleep' = Asleep BY <1>9 DEF Asleep
  <2>2. cr_credits + 1 \in Nat /\ cr_credits + 1 <= Cardinality(Asleep)
    BY <1>6, <1>9
  <2>3. WaitersInv' BY <1>5, <1>9, <2>1, <2>2 DEF WaitersInv
  <2>4. c_readers + cr_credits + Cardinality(Outside \ Asleep) >= Places
    BY <1>9 DEF RoomInv
  <2>5. c_readers' + cr_credits' + Cardinality(Outside' \ Asleep') >= Places
    BY <1>3, <1>5, <1>6, <1>9, <2>1, <2>4, PlacesNumbers
  <2> QED BY <1>4, <2>3, <2>5 DEF RoomInv
<1> QED BY <1>7, <1>8, <1>9, CrowdedTold

\* A sleeper takes a credit.
LEMMA CrowdedWake ==
  ASSUME CrowdedInv, NEW t \in cr_old, cr_credits > 0,
         cr_old' = cr_old \ {t}, cr_credits' = cr_credits - 1,
         UNCHANGED <<cr_fresh, c_readers, c_writers, c_pc>>
  PROVE  CrowdedInv'
<1> USE DEF CrowdedInv
<1>1. t \in Asleep /\ t \in Outside /\ t \in Thread
  BY CrowdedTypes DEF Asleep, WaitersInv
<1>2. Asleep' = Asleep \ {t} BY DEF Asleep, WaitersInv
<1>3. Outside' = Outside /\ crowded!At("reading")' = crowded!At("reading")
  BY DEF Outside, crowded!At
<1>4. PlacesInv' BY <1>3 DEF PlacesInv
<1>5. Cardinality(Asleep') = Cardinality(Asleep) - 1
      /\ Cardinality(Asleep) \in Nat
  BY <1>1, <1>2, CrowdedTypes, ThreadSets
<1>6. Cardinality(Outside' \ Asleep') = Cardinality(Outside \ Asleep) + 1
  <2>1. Outside' \ Asleep' = (Outside \ Asleep) \cup {t} BY <1>1, <1>2, <1>3
  <2>2. t \notin Outside \ Asleep BY <1>1
  <2> QED BY <1>1, <2>1, <2>2, CrowdedTypes, ThreadSets
<1>7. cr_credits \in Nat /\ cr_credits <= Cardinality(Asleep)
      /\ c_readers \in Nat /\ Cardinality(Outside \ Asleep) \in Nat
  BY CrowdedTypes, ThreadSets DEF WaitersInv
<1>8. WaitersInv'
  <2>1. cr_credits' \in Nat /\ cr_credits' <= Cardinality(Asleep')
    BY <1>5, <1>7
  <2>2. Asleep' \subseteq Outside' /\ cr_fresh' \cap cr_old' = {}
    BY <1>2, <1>3 DEF WaitersInv
  <2> QED BY <2>1, <2>2 DEF WaitersInv
<1>9. RoomInv'
  BY <1>5, <1>6, <1>7, PlacesNumbers DEF RoomInv
<1> QED BY <1>4, <1>8, <1>9

LEMMA CrowdedNext ==
  ASSUME CrowdedInv, crowded!Next
  PROVE  CrowdedInv'
<1>1. PICK t \in Thread : crowded!Step(t) BY DEF crowded!Next
<1>2. /\ c_pc[t] \in {"idle", "shared@rwait", "reading"} /\ c_writers = 0
  BY DEF CrowdedInv, PlacesInv
<1>3. crowded!rwait!Waiting = Asleep BY DEF crowded!rwait!Waiting, Asleep
<1>4. c_pc[t] = "idle" => t \notin Asleep
  BY DEF CrowdedInv, WaitersInv, Outside, crowded!At
<1>5. CASE crowded!SharedEnters(t)
  <2>1. c_pc[t] # "reading" /\ t \notin Asleep
    BY <1>3, <1>4, <1>5 DEF crowded!SharedEnters, crowded!Back
  <2>2. c_writers' = c_writers BY <1>5 DEF crowded!SharedEnters
  <2>3. CASE c_readers < Places
    BY <1>5, <2>1, <2>2, <2>3, CrowdedEnter
    DEF crowded!SharedEnters, crowded!HasRoom, crowded!r_vars
  <2>4. CASE ~(c_readers < Places)
    <3>1. crowded!Goto(t, "shared@rwait") /\ c_readers' = c_readers
          /\ cr_fresh' = cr_fresh \cup {t} /\ UNCHANGED <<cr_old, cr_credits>>
      BY <1>5, <2>4
      DEF crowded!SharedEnters, crowded!HasRoom, crowded!rwait!Wait
    <3> QED BY <2>1, <2>2, <2>4, <3>1, CrowdedSleep
  <2> QED BY <2>3, <2>4
<1>6. CASE crowded!TryLockShared(t)
  <2>1. /\ c_pc[t] = "idle" /\ c_readers < Places /\ c_writers' = c_writers
        /\ crowded!Goto(t, "reading") /\ c_readers' = crowded!Inc(c_readers)
        /\ UNCHANGED <<cr_fresh, cr_old, cr_credits>>
    BY <1>6 DEF crowded!TryLockShared, crowded!HasRoom, crowded!r_vars
  <2> QED BY <1>4, <2>1, CrowdedEnter
<1>7. CASE crowded!UnlockShared(t)
  BY <1>7, CrowdedLeave DEF crowded!UnlockShared
<1>8. CASE crowded!Wake(t)
  BY <1>8, CrowdedWake DEF crowded!Wake, crowded!rwait!Wake, crowded!counts
<1>9. ~crowded!LockWaits(t) /\ ~crowded!LockClaims(t) /\ ~crowded!TryLock(t)
  BY DEF crowded!LockWaits, crowded!LockClaims, crowded!TryLock
<1>10. ~crowded!LockDrains(t) /\ ~crowded!Unlock(t) /\ ~crowded!SharedWaits(t)
  BY <1>2
  DEF crowded!LockDrains, crowded!Back, crowded!Unlock, crowded!SharedWaits,
      crowded!NoWriter
<1> QED BY <1>1, <1>5, <1>6, <1>7, <1>8, <1>9, <1>10 DEF crowded!Step

LEMMA CrowdedInit == crowded!Init => CrowdedInv
<1> SUFFICES ASSUME crowded!Init PROVE CrowdedInv OBVIOUS
<1> USE DEF crowded!Init, crowded!rwait!Init
<1>1. \A p : p # "idle" => crowded!At(p) = {} BY DEF crowded!At
<1>2. Cardinality({}) = 0 BY FS_EmptySet
<1>3. PlacesInv BY <1>1, <1>2, PlacesNumbers DEF PlacesInv
<1>4. Asleep = {} /\ Outside = {} /\ cr_credits = 0
  BY <1>1 DEF Asleep, Outside
<1>5. WaitersInv /\ RoomInv
  BY <1>2, <1>4 DEF WaitersInv, RoomInv
<1> QED BY <1>3, <1>5 DEF CrowdedInv

LEMMA CrowdedStep == CrowdedInv /\ [LocksNext]_<<used, vars, c_vars>> => CrowdedInv'
<1> SUFFICES ASSUME CrowdedInv, [LocksNext]_<<used, vars, c_vars>>
             PROVE  CrowdedInv'
    OBVIOUS
<1>1. CASE c_vars' = c_vars
  <2>1. crowded!At("reading")' = crowded!At("reading") /\ Outside' = Outside
        /\ Asleep' = Asleep
    BY <1>1 DEF crowded!At, Outside, Asleep, c_vars
  <2> QED BY <1>1, <2>1
      DEF CrowdedInv, PlacesInv, WaitersInv, RoomInv, c_vars
<1>2. CASE crowded!Next BY <1>2, CrowdedNext
<1> QED BY <1>1, <1>2 DEF LocksNext

LEMMA CrowdedRoom == CrowdedInv => NobodyMissesRoom
<1> SUFFICES ASSUME CrowdedInv PROVE NobodyMissesRoom OBVIOUS
<1>1. crowded!rwait!Waiting = Asleep BY DEF crowded!rwait!Waiting, Asleep
<1>2. Cardinality(Asleep) \in Nat /\ cr_credits \in Nat
  BY CrowdedTypes, ThreadSets DEF CrowdedInv, WaitersInv
<1>3. crowded!Sleepers(Asleep, cr_credits) > 0
        <=> cr_credits < Cardinality(Asleep)
  BY <1>2, CrowdedCardinality DEF crowded!Sleepers
<1>4. crowded!Cardinality(Outside \ Asleep) = Cardinality(Outside \ Asleep)
  BY CrowdedCardinality
<1> QED BY <1>1, <1>3, <1>4
  DEF NobodyMissesRoom, crowded!NoMissedRoom, CrowdedInv, RoomInv, Outside

\* With more readers than places and no writers a reader sleeps on rwait only
\* while each place is taken, or promised to a reader that is awake or has been
\* told, whatever the constructor left in waiting_readers (lock_shared, line 67).
THEOREM NobodyMissesRoomAlways == LocksSpec => []NobodyMissesRoom
<1>1. LocksInit => CrowdedInv BY CrowdedInit DEF LocksInit
<1>2. CrowdedInv /\ [LocksNext]_<<used, vars, c_vars>> => CrowdedInv'
  BY CrowdedStep
<1>3. CrowdedInv => NobodyMissesRoom BY CrowdedRoom
<1> QED BY <1>1, <1>2, <1>3, PTL DEF LocksSpec
=============================================================================
