------------------------------ MODULE CondVar ------------------------------
(***************************************************************************)
(* Utils::condition_variable (src/Utils/detail/condition_variable.cpp; the *)
(* template generic_condition_variable has the same bodies), with threads  *)
(* that hold a spin_yield_mutex when they wait.                            *)
(*                                                                         *)
(* Code between low_lock(__lock) and low_unlock(__lock) never blocks, so   *)
(* it is one step.  The spin on __futex is outside: between a waiter's     *)
(* snapshot and its next section any number of others run.  The counters   *)
(* stay below MaxWaits, so far from the wrap of the 32 bit __futex.        *)
(***************************************************************************)
EXTENDS Integers, FiniteSets

CONSTANTS
  Thread,
  MaxWaits,   \* bound: calls of wait
  NoOne       \* the mutex is free

ASSUME ThreadAssumption == IsFiniteSet(Thread) /\ NoOne \notin Thread
ASSUME MaxWaitsAssumption == MaxWaits \in Nat

VARIABLES
  futex, total_seq, wakeup_seq, woken_seq, broadcast_seq,
  mutex,                            \* who holds the unique_lock's mutex
  pc,
  futex_val, seq, broadcast_count   \* locals of wait, per thread

counters == <<futex, total_seq, wakeup_seq, woken_seq, broadcast_seq>>
locals   == <<futex_val, seq, broadcast_count>>
vars     == <<counters, mutex, pc, locals>>

\* out: not using it; in: holds the mutex; spin: inside wait's loop;
\* relock: past it, taking the mutex again
Pc == {"out", "in", "spin", "relock"}

TypeOK ==
  /\ total_seq \in 0 .. MaxWaits
  /\ wakeup_seq \in 0 .. total_seq
  /\ woken_seq \in 0 .. wakeup_seq
  /\ broadcast_seq \in 0 .. MaxWaits
  /\ futex \in 0 .. 2 * MaxWaits
  /\ mutex \in Thread \cup {NoOne}
  /\ pc \in [Thread -> Pc]
  /\ futex_val \in [Thread -> 0 .. 2 * MaxWaits]
  /\ seq \in [Thread -> 0 .. MaxWaits]
  /\ broadcast_count \in [Thread -> 0 .. MaxWaits]

Init ==
  /\ futex = 0 /\ total_seq = 0 /\ wakeup_seq = 0 /\ woken_seq = 0
  /\ broadcast_seq = 0
  /\ mutex = NoOne
  /\ pc = [t \in Thread |-> "out"]
  /\ futex_val = [t \in Thread |-> 0]
  /\ seq = [t \in Thread |-> 0]
  /\ broadcast_count = [t \in Thread |-> 0]

\* The client's own lock, and the mut.lock() wait ends with.
Acquire(t) ==
  /\ pc[t] \in {"out", "relock"}
  /\ mutex = NoOne
  /\ mutex' = t
  /\ pc' = [pc EXCEPT ![t] = "in"]
  /\ UNCHANGED <<counters, locals>>

Release(t) ==
  /\ pc[t] = "in"
  /\ mutex' = NoOne
  /\ pc' = [pc EXCEPT ![t] = "out"]
  /\ UNCHANGED <<counters, locals>>

-----------------------------------------------------------------------------
\* Faulty variant: the spinners are not disturbed.
SameFutex == futex
\* The values the notifications give the word the waiters spin on.
NextFutex == futex + 1
BroadcastFutex == 2 * total_seq

\* Faulty variant: only wakeup_seq is raised.
WokenKept == woken_seq
\* The woken_seq of notify_all: no waiter has a credit to take any more.
AllSettled == total_seq

\* Faulty variant: the notifications do not look for waiters.
Unconditional == TRUE
\* The guard of both: some waiter has not been notified yet.
HasUnnotified == total_seq > wakeup_seq

\* Both notifications may be given with the mutex or without it.
MayNotify(t) == pc[t] \in {"in", "out"}

NotifyOne(t) ==
  /\ MayNotify(t)
  /\ HasUnnotified
  /\ wakeup_seq' = wakeup_seq + 1
  /\ futex' = NextFutex
  /\ UNCHANGED <<total_seq, woken_seq, broadcast_seq, mutex, pc, locals>>

NotifyAll(t) ==
  /\ MayNotify(t)
  /\ HasUnnotified
  /\ wakeup_seq' = total_seq
  /\ woken_seq' = AllSettled
  /\ futex' = BroadcastFutex
  /\ broadcast_seq' = broadcast_seq + 1
  /\ UNCHANGED <<total_seq, mutex, pc, locals>>

-----------------------------------------------------------------------------
\* The first section of wait: the mutex is given up under __lock, so that no
\* notification falls between the two.
Wait(t) ==
  /\ pc[t] = "in"
  /\ total_seq < MaxWaits
  /\ mutex' = NoOne
  /\ total_seq' = total_seq + 1
  /\ futex' = futex + 1
  /\ broadcast_count' = [broadcast_count EXCEPT ![t] = broadcast_seq]
  /\ seq' = [seq EXCEPT ![t] = wakeup_seq]
  /\ futex_val' = [futex_val EXCEPT ![t] = futex']
  /\ pc' = [pc EXCEPT ![t] = "spin"]
  /\ UNCHANGED <<wakeup_seq, woken_seq, broadcast_seq>>

Broadcast(t) == broadcast_seq # broadcast_count[t]

\* Faulty variant: any open credit will do, also one older than the wait.
AnyCredit(t) == woken_seq # wakeup_seq
\* Faulty variant: no look at what others took already.
NotifiedSince(t) == seq[t] # wakeup_seq
\* The loop's exit: notified since the wait began, and not all notifications
\* have been taken.
HasCredit(t) == seq[t] # wakeup_seq /\ woken_seq # wakeup_seq

\* The sections after the spin ended.  Not notified: spin on the new value.
Respin(t) ==
  /\ pc[t] = "spin" /\ futex # futex_val[t]
  /\ ~Broadcast(t) /\ ~HasCredit(t)
  /\ futex_val' = [futex_val EXCEPT ![t] = futex]
  /\ UNCHANGED <<counters, mutex, pc, seq, broadcast_count>>

\* Notified by notify_one.
TakeCredit(t) ==
  /\ pc[t] = "spin" /\ futex # futex_val[t]
  /\ ~Broadcast(t) /\ HasCredit(t)
  /\ woken_seq' = woken_seq + 1
  /\ pc' = [pc EXCEPT ![t] = "relock"]
  /\ UNCHANGED <<futex, total_seq, wakeup_seq, broadcast_seq, mutex, locals>>

\* Notified by notify_all.
LeaveBroadcast(t) ==
  /\ pc[t] = "spin" /\ futex # futex_val[t]
  /\ Broadcast(t)
  /\ pc' = [pc EXCEPT ![t] = "relock"]
  /\ UNCHANGED <<counters, mutex, locals>>

Leave(t) == TakeCredit(t) \/ LeaveBroadcast(t)

Step(t) ==
  \/ Acquire(t) \/ Release(t) \/ Wait(t)
  \/ NotifyOne(t) \/ NotifyAll(t)
  \/ Respin(t) \/ Leave(t)

Next == \E t \in Thread : Step(t)

Spec == Init /\ [][Next]_vars

-----------------------------------------------------------------------------
\* The waiters no broadcast has released, and among them those a notify_one
\* was given to since they came.
Waiters  == {t \in Thread : pc[t] = "spin" /\ ~Broadcast(t)}
Notified == {t \in Waiters : seq[t] # wakeup_seq}

\* The mutex belongs to at most one thread, the one between wait's two ends.
MutexHeld == \A t \in Thread : pc[t] = "in" <=> mutex = t

\* The counters count what their names say, whatever the interleaving of
\* waits, notifications and broadcasts.
Counted ==
  /\ futex = total_seq + wakeup_seq
  /\ Cardinality(Waiters) = total_seq - woken_seq

\* A waiter that could leave is not spinning on the current futex value: the
\* snapshot is always older than the notification.
NoMissedChange ==
  \A t \in Thread : pc[t] = "spin" =>
    /\ futex_val[t] <= futex
    /\ Broadcast(t) \/ (t \in Waiters /\ HasCredit(t)) => futex_val[t] # futex

\* Each notification not yet taken has a waiter of its own that may take it:
\* notify_one is never spent on nobody while somebody waits.
NoNotificationLost == Cardinality(Notified) >= wakeup_seq - woken_seq

\* The counters implement the abstract condition variable.
Abstract == INSTANCE CondVarSpec WITH
  fresh   <- Waiters \ Notified,
  old     <- Notified,
  credits <- wakeup_seq - woken_seq
ImplementsCondVar == Abstract!Spec

-----------------------------------------------------------------------------
\* Threads in the loop are scheduled, and nobody keeps the mutex for ever.
FairSpec ==
  /\ Spec
  /\ \A t \in Thread :
       WF_vars(Respin(t)) /\ WF_vars(Leave(t)) /\ WF_vars(Release(t))

\* Every notification ends a wait, and a broadcast ends every wait it finds.
NotificationsTaken == \A n \in 1 .. MaxWaits : wakeup_seq >= n ~> woken_seq >= n
BroadcastReleases ==
  \A t \in Thread : pc[t] = "spin" /\ Broadcast(t) ~> pc[t] # "spin"
=============================================================================
