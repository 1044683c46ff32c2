---------------------------- MODULE CondVarProofs ----------------------------
(***************************************************************************)
(* The counters of condition_variable implement the abstract condition     *)
(* variable, for any number of threads and of waits.                       *)
(***************************************************************************)
EXTENDS CondVar, FiniteSetTheorems, TLAPS

\* What no waiter's snapshot can be ahead of, and the bound on broadcasts.
Snapshots ==
  /\ broadcast_seq <= wakeup_seq
  /\ \A t \in Thread :
       seq[t] <= wakeup_seq /\ broadcast_count[t] <= broadcast_seq

CountInv == TypeOK /\ Snapshots /\ Counted
CondInv  == CountInv /\ NoMissedChange /\ NoNotificationLost

-----------------------------------------------------------------------------
LEMMA SetsFinite ==
  /\ Waiters \in SUBSET Thread /\ IsFiniteSet(Waiters)
  /\ Notified \in SUBSET Waiters /\ IsFiniteSet(Notified)
<1>1. Waiters \in SUBSET Thread BY DEF Waiters
<1>2. Notified \in SUBSET Waiters BY DEF Notified
<1>3. IsFiniteSet(Waiters) BY <1>1, ThreadAssumption, FS_Subset
<1> QED BY <1>1, <1>2, <1>3, FS_Subset

LEMMA CardinalityNat ==
  Cardinality(Waiters) \in Nat /\ Cardinality(Notified) \in Nat
BY SetsFinite, FS_CardinalityType

\* What each action does to the two sets.
LEMMA SetsSame ==
  ASSUME TypeOK, NEW t \in Thread,
         Acquire(t) \/ Release(t) \/ Respin(t) \/ LeaveBroadcast(t)
  PROVE  Waiters' = Waiters /\ Notified' = Notified
<1> USE DEF TypeOK, Waiters, Notified, Broadcast, counters, locals, Pc
<1>1. CASE Acquire(t) BY <1>1 DEF Acquire
<1>2. CASE Release(t) BY <1>2 DEF Release
<1>3. CASE Respin(t) BY <1>3 DEF Respin
<1>4. CASE LeaveBroadcast(t) BY <1>4 DEF LeaveBroadcast
<1> QED BY <1>1, <1>2, <1>3, <1>4

LEMMA SetsWait ==
  ASSUME TypeOK, NEW t \in Thread, Wait(t)
  PROVE  /\ t \notin Waiters
         /\ Waiters' = Waiters \cup {t}
         /\ Notified' = Notified
BY DEF TypeOK, Wait, Waiters, Notified, Broadcast, Pc

LEMMA SetsNotifyOne ==
  ASSUME TypeOK, Snapshots, NEW t \in Thread, NotifyOne(t)
  PROVE  Waiters' = Waiters /\ Notified' = Waiters
<1>1. Waiters' = Waiters
  BY DEF NotifyOne, Waiters, Broadcast, locals
<1>2. \A u \in Thread : seq'[u] # wakeup_seq'
  BY DEF TypeOK, Snapshots, NotifyOne, locals
<1> QED BY <1>1, <1>2 DEF Notified, Waiters

LEMMA SetsNotifyAll ==
  ASSUME TypeOK, Snapshots, NEW t \in Thread, NotifyAll(t)
  PROVE  Waiters' = {} /\ Notified' = {}
<1>1. \A u \in Thread : broadcast_seq' # broadcast_count'[u]
  BY DEF TypeOK, Snapshots, NotifyAll, locals
<1>2. Waiters' = {} BY <1>1 DEF Waiters, Broadcast
<1> QED BY <1>2 DEF Notified

LEMMA SetsTakeCredit ==
  ASSUME TypeOK, NEW t \in Thread, TakeCredit(t)
  PROVE  /\ t \in Notified
         /\ Waiters' = Waiters \ {t}
         /\ Notified' = Notified \ {t}
BY DEF TypeOK, TakeCredit, HasCredit, Waiters, Notified, Broadcast, locals, Pc

-----------------------------------------------------------------------------
\* Types, snapshots and counts.
LEMMA CountInit == Init => CountInv
<1> SUFFICES ASSUME Init PROVE CountInv OBVIOUS
<1>1. Waiters = {} BY DEF Init, Waiters
<1>2. Cardinality(Waiters) = 0 BY <1>1, FS_EmptySet
<1> QED BY <1>2, MaxWaitsAssumption
        DEF Init, CountInv, TypeOK, Snapshots, Counted, Pc

LEMMA CountNext ==
  ASSUME CountInv, NEW t \in Thread, Step(t)
  PROVE  CountInv'
<1> USE MaxWaitsAssumption DEF CountInv
<1>1. CASE Acquire(t)
  <2>1. Waiters' = Waiters BY <1>1, SetsSame
  <2> QED BY <1>1, <2>1
          DEF Acquire, TypeOK, Snapshots, Counted, counters, locals, Pc
<1>2. CASE Release(t)
  <2>1. Waiters' = Waiters BY <1>2, SetsSame
  <2> QED BY <1>2, <2>1
          DEF Release, TypeOK, Snapshots, Counted, counters, locals, Pc
<1>3. CASE Wait(t)
  <2>1. Cardinality(Waiters') = Cardinality(Waiters) + 1
    BY <1>3, SetsWait, SetsFinite, FS_AddElement
  <2>2. Counted' BY <1>3, <2>1, CardinalityNat DEF Wait, Counted, TypeOK
  <2>3. TypeOK' BY <1>3 DEF Wait, TypeOK, Counted, Pc
  <2>4. Snapshots' BY <1>3 DEF Wait, TypeOK, Snapshots
  <2> QED BY <2>2, <2>3, <2>4
<1>4. CASE NotifyOne(t)
  <2>1. Waiters' = Waiters BY <1>4, SetsNotifyOne
  <2>2. Counted'
    BY <1>4, <2>1 DEF NotifyOne, NextFutex, Counted, TypeOK
  <2>3. TypeOK'
    BY <1>4 DEF NotifyOne, NextFutex, HasUnnotified, Counted, TypeOK, locals
  <2>4. Snapshots' BY <1>4 DEF NotifyOne, TypeOK, Snapshots, locals
  <2> QED BY <2>2, <2>3, <2>4
<1>5. CASE NotifyAll(t)
  <2>1. Cardinality(Waiters') = 0 BY <1>5, SetsNotifyAll, FS_EmptySet
  <2> USE DEF AllSettled, BroadcastFutex, HasUnnotified
  <2>2. Counted' BY <1>5, <2>1 DEF NotifyAll, Counted, TypeOK
  <2>3. TypeOK' BY <1>5 DEF NotifyAll, Snapshots, TypeOK, locals
  <2>4. Snapshots' BY <1>5 DEF NotifyAll, TypeOK, Snapshots, locals
  <2> QED BY <2>2, <2>3, <2>4
<1>6. CASE Respin(t)
  <2>1. Waiters' = Waiters BY <1>6, SetsSame
  <2> QED BY <1>6, <2>1
          DEF Respin, TypeOK, Snapshots, Counted, counters
<1>7. CASE TakeCredit(t)
  <2>1. Cardinality(Waiters') = Cardinality(Waiters) - 1
    BY <1>7, SetsTakeCredit, SetsFinite, FS_RemoveElement
  <2>2. Counted' BY <1>7, <2>1, CardinalityNat DEF TakeCredit, Counted, TypeOK
  <2>3. TypeOK' BY <1>7 DEF TakeCredit, HasCredit, TypeOK, locals, Pc
  <2>4. Snapshots' BY <1>7 DEF TakeCredit, Snapshots, locals
  <2> QED BY <2>2, <2>3, <2>4
<1>8. CASE LeaveBroadcast(t)
  <2>1. Waiters' = Waiters BY <1>8, SetsSame
  <2> QED BY <1>8, <2>1
          DEF LeaveBroadcast, TypeOK, Snapshots, Counted, counters, locals, Pc
<1> QED BY <1>1, <1>2, <1>3, <1>4, <1>5, <1>6, <1>7, <1>8 DEF Step, Leave

-----------------------------------------------------------------------------
\* The futex word: every step that lets a waiter leave raises it.
LEMMA ChangeNext ==
  ASSUME CountInv, NoMissedChange, NEW t \in Thread, Step(t)
  PROVE  NoMissedChange'
<1> SUFFICES ASSUME NEW u \in Thread, pc'[u] = "spin"
             PROVE  /\ futex_val'[u] <= futex'
                    /\ Broadcast(u)' \/ (u \in Waiters' /\ HasCredit(u)')
                         => futex_val'[u] # futex'
    BY DEF NoMissedChange
<1> USE DEF CountInv
<1>u. u \in Waiters => pc[u] = "spin" BY DEF Waiters
<1>1. CASE Acquire(t) \/ Release(t) \/ LeaveBroadcast(t)
  <2>1. Waiters' = Waiters BY <1>1, SetsSame
  <2>2. UNCHANGED <<counters, locals>> /\ pc[u] = "spin"
    BY <1>1 DEF Acquire, Release, LeaveBroadcast, TypeOK, Pc
  <2> QED BY <2>1, <2>2 DEF NoMissedChange, counters, locals, Broadcast,
                            HasCredit
<1>2. CASE Wait(t)
  <2>1. CASE u = t
    BY <1>2, <2>1 DEF Wait, TypeOK, Broadcast, HasCredit
  <2>2. CASE u # t
    <3>1. futex_val'[u] = futex_val[u] /\ pc[u] = "spin"
      BY <1>2, <2>2 DEF Wait, TypeOK
    <3>2. futex_val[u] <= futex BY <3>1 DEF NoMissedChange
    <3> QED BY <1>2, <3>1, <3>2 DEF Wait, TypeOK
  <2> QED BY <2>1, <2>2
<1>3. CASE NotifyOne(t) \/ NotifyAll(t)
  <2>1. futex' > futex /\ futex' \in Int
    BY <1>3 DEF NotifyOne, NotifyAll, NextFutex, BroadcastFutex,
                HasUnnotified, Counted, TypeOK
  <2>2. futex_val'[u] = futex_val[u] /\ pc[u] = "spin"
    BY <1>3 DEF NotifyOne, NotifyAll, locals
  <2>3. futex_val[u] <= futex BY <2>2 DEF NoMissedChange
  <2> QED BY <2>1, <2>2, <2>3 DEF TypeOK
<1>4. CASE Respin(t)
  <2>1. pc[u] = "spin" BY <1>4 DEF Respin
  <2>2. Waiters' = Waiters BY <1>4, SetsSame
  <2>3. CASE u = t
    <3>1. futex_val'[u] = futex' /\ futex' \in Int
      BY <1>4, <2>3 DEF Respin, TypeOK, counters
    <3>2. ~Broadcast(u)' /\ ~HasCredit(u)'
      BY <1>4, <2>3 DEF Respin, Broadcast, HasCredit, counters
    <3> QED BY <3>1, <3>2
  <2>4. CASE u # t
    <3>1. futex_val'[u] = futex_val[u] BY <1>4, <2>4 DEF Respin, TypeOK
    <3> QED BY <1>4, <2>1, <2>2, <3>1
            DEF Respin, NoMissedChange, counters, Broadcast, HasCredit
  <2> QED BY <2>3, <2>4
<1>5. CASE TakeCredit(t)
  <2>1. pc[u] = "spin" BY <1>5 DEF TakeCredit, TypeOK
  <2>2. u \in Waiters' => u \in Waiters BY <1>5, SetsTakeCredit
  <2>3. HasCredit(u)' => HasCredit(u)
    BY <1>5 DEF TakeCredit, HasCredit, TypeOK, locals
  <2>4. Broadcast(u)' <=> Broadcast(u)
    BY <1>5 DEF TakeCredit, Broadcast, locals
  <2>5. futex_val'[u] = futex_val[u] /\ futex' = futex
    BY <1>5 DEF TakeCredit, locals
  <2> QED BY <2>1, <2>2, <2>3, <2>4, <2>5 DEF NoMissedChange
<1> QED BY <1>1, <1>2, <1>3, <1>4, <1>5 DEF Step, Leave

\* Notifications: notify_one makes every waiter eligible at once.
LEMMA LostNext ==
  ASSUME CountInv, NoNotificationLost, NEW t \in Thread, Step(t)
  PROVE  NoNotificationLost'
<1> USE DEF CountInv
<1>1. CASE Acquire(t) \/ Release(t) \/ Respin(t) \/ LeaveBroadcast(t)
  <2>1. Notified' = Notified BY <1>1, SetsSame
  <2>2. UNCHANGED counters
    BY <1>1 DEF Acquire, Release, Respin, LeaveBroadcast
  <2> QED BY <2>1, <2>2 DEF NoNotificationLost, counters
<1>2. CASE Wait(t)
  <2>1. Notified' = Notified BY <1>2, SetsWait
  <2> QED BY <1>2, <2>1 DEF Wait, NoNotificationLost
<1>3. CASE NotifyOne(t)
  <2>1. Notified' = Waiters BY <1>3, SetsNotifyOne
  <2> QED BY <1>3, <2>1, CardinalityNat
          DEF NotifyOne, HasUnnotified, Counted, TypeOK, NoNotificationLost
<1>4. CASE NotifyAll(t)
  <2>1. Cardinality(Notified') = 0 BY <1>4, SetsNotifyAll, FS_EmptySet
  <2> QED BY <1>4, <2>1
          DEF NotifyAll, AllSettled, TypeOK, NoNotificationLost
<1>5. CASE TakeCredit(t)
  <2>1. Cardinality(Notified') = Cardinality(Notified) - 1
    BY <1>5, SetsTakeCredit, SetsFinite, FS_RemoveElement
  <2> QED BY <1>5, <2>1, CardinalityNat
          DEF TakeCredit, TypeOK, NoNotificationLost
<1> QED BY <1>1, <1>2, <1>3, <1>4, <1>5 DEF Step, Leave

-----------------------------------------------------------------------------
LEMMA CondInit == Init => CondInv
<1> SUFFICES ASSUME Init PROVE CondInv OBVIOUS
<1>1. CountInv BY CountInit
<1>2. NoMissedChange BY DEF Init, NoMissedChange
<1>3. wakeup_seq - woken_seq = 0 BY DEF Init
<1>4. NoNotificationLost BY <1>3, CardinalityNat DEF NoNotificationLost
<1> QED BY <1>1, <1>2, <1>4 DEF CondInv

LEMMA CondNext == CondInv /\ [Next]_vars => CondInv'
<1> SUFFICES ASSUME CondInv, [Next]_vars PROVE CondInv' OBVIOUS
<1> USE DEF CondInv
<1>1. CASE UNCHANGED vars
  <2>1. Waiters' = Waiters BY <1>1 DEF vars, counters, locals, Waiters, Broadcast
  <2>2. Notified' = Notified
    BY <1>1, <2>1 DEF vars, counters, locals, Notified
  <2>3. CountInv'
    BY <1>1, <2>1 DEF vars, counters, locals, CountInv, TypeOK, Snapshots,
                      Counted
  <2>4. NoMissedChange'
    BY <1>1, <2>1 DEF vars, counters, locals, NoMissedChange, Broadcast,
                      HasCredit
  <2>5. NoNotificationLost'
    BY <1>1, <2>2 DEF vars, counters, NoNotificationLost
  <2> QED BY <2>3, <2>4, <2>5
<1>2. CASE Next
  BY <1>2, CountNext, ChangeNext, LostNext DEF Next
<1> QED BY <1>1, <1>2

LEMMA CondAlways == Spec => []CondInv
<1> QED BY CondInit, CondNext, PTL DEF Spec

\* The counters stay numbers, with the order the code's comparisons rely on.
THEOREM TypeCorrect == Spec => []TypeOK
<1>1. CondInv => TypeOK BY DEF CondInv, CountInv
<1> QED BY <1>1, CondAlways, PTL

\* The counters count waiters and notifications.
THEOREM CountedAlways == Spec => []Counted
<1>1. CondInv => Counted BY DEF CondInv, CountInv
<1> QED BY <1>1, CondAlways, PTL

\* No waiter that may leave spins on a value that is not going to change.
THEOREM NoMissedChangeAlways == Spec => []NoMissedChange
<1>1. CondInv => NoMissedChange BY DEF CondInv
<1> QED BY <1>1, CondAlways, PTL

\* Every notification not yet taken has a waiter that may take it.
THEOREM NoNotificationLostAlways == Spec => []NoNotificationLost
<1>1. CondInv => NoNotificationLost BY DEF CondInv
<1> QED BY <1>1, CondAlways, PTL

-----------------------------------------------------------------------------
\* The abstract guard is the code's comparison of two counters.
LEMMA AbstractGuard ==
  ASSUME CountInv
  PROVE  /\ Abstract!Waiting = Waiters
         /\ Abstract!Unpromised <=> HasUnnotified
<1>1. Abstract!Waiting = Waiters BY SetsFinite DEF Abstract!Waiting
<1>2. Abstract!Unpromised <=> Cardinality(Waiters) > wakeup_seq - woken_seq
  BY <1>1, Zenon DEF Abstract!Unpromised, Abstract!Cardinality, Cardinality
<1>3. Cardinality(Waiters) > wakeup_seq - woken_seq <=> HasUnnotified
  BY CardinalityNat DEF HasUnnotified, CountInv, Counted, TypeOK
<1> QED BY <1>1, <1>2, <1>3

LEMMA AbstractInit == Init => Abstract!Init
<1> SUFFICES ASSUME Init PROVE Abstract!Init OBVIOUS
<1>1. Waiters = {} BY DEF Init, Waiters
<1> QED BY <1>1 DEF Init, Abstract!Init, Notified

\* Every step of a thread is one abstract step or changes nothing abstract.
LEMMA AbstractStep ==
  ASSUME CondInv, NEW t \in Thread, Step(t)
  PROVE  [Abstract!Next]_(Abstract!vars)
<1> USE DEF CondInv, CountInv
<1>1. CASE Acquire(t) \/ Release(t) \/ Respin(t) \/ LeaveBroadcast(t)
  <2>1. UNCHANGED counters
    BY <1>1 DEF Acquire, Release, Respin, LeaveBroadcast
  <2> QED BY <1>1, <2>1, SetsSame DEF Abstract!vars, counters
<1>2. CASE Wait(t)
  <2>1. UNCHANGED <<wakeup_seq, woken_seq>> BY <1>2 DEF Wait
  <2>2. (Waiters \ Notified)' = (Waiters \ Notified) \cup {t}
    BY <1>2, SetsWait, SetsFinite
  <2>3. Abstract!Wait(t)
    BY <1>2, <2>1, <2>2, SetsWait, AbstractGuard DEF Abstract!Wait
  <2> QED BY <2>3 DEF Abstract!Next
<1>3. CASE NotifyOne(t)
  <2>1. Abstract!Unpromised BY <1>3, AbstractGuard DEF NotifyOne
  <2>2. (wakeup_seq - woken_seq)' = (wakeup_seq - woken_seq) + 1
    BY <1>3 DEF NotifyOne, TypeOK
  <2>3. Abstract!NotifyOne
    BY <1>3, <2>1, <2>2, SetsNotifyOne, AbstractGuard DEF Abstract!NotifyOne
  <2> QED BY <2>3 DEF Abstract!Next
<1>4. CASE NotifyAll(t)
  <2>1. Abstract!Unpromised BY <1>4, AbstractGuard DEF NotifyAll
  <2>2. (wakeup_seq - woken_seq)' = 0
    BY <1>4 DEF NotifyAll, AllSettled, TypeOK
  <2>3. Abstract!NotifyAll
    BY <1>4, <2>1, <2>2, SetsNotifyAll DEF Abstract!NotifyAll
  <2> QED BY <2>3 DEF Abstract!Next
<1>5. CASE TakeCredit(t)
  <2>1. (wakeup_seq - woken_seq)' = (wakeup_seq - woken_seq) - 1
        /\ wakeup_seq - woken_seq > 0
    BY <1>5 DEF TakeCredit, HasCredit, TypeOK
  <2>2. (Waiters \ Notified)' = Waiters \ Notified
    BY <1>5, SetsTakeCredit, SetsFinite
  <2>3. Abstract!Wake(t)
    BY <1>5, <2>1, <2>2, SetsTakeCredit DEF Abstract!Wake
  <2> QED BY <2>3 DEF Abstract!Next
<1> QED BY <1>1, <1>2, <1>3, <1>4, <1>5 DEF Step, Leave

LEMMA AbstractNext == CondInv /\ [Next]_vars => [Abstract!Next]_(Abstract!vars)
<1> SUFFICES ASSUME CondInv, [Next]_vars
             PROVE  [Abstract!Next]_(Abstract!vars)
    OBVIOUS
<1>1. CASE UNCHANGED vars
  <2>1. Waiters' = Waiters /\ Notified' = Notified
    BY <1>1 DEF vars, counters, locals, Waiters, Notified, Broadcast
  <2> QED BY <1>1, <2>1 DEF vars, counters, Abstract!vars
<1>2. CASE Next BY <1>2, AbstractStep DEF Next
<1> QED BY <1>1, <1>2

\* The code implements the abstract condition variable.
THEOREM Implements == Spec => ImplementsCondVar
<1> QED BY CondAlways, AbstractInit, AbstractNext, PTL
        DEF Spec, ImplementsCondVar, Abstract!Spec
=============================================================================
