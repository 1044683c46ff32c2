----------------------------- MODULE SharedMutex -----------------------------
(***************************************************************************)
(* Utils::shared_timed_mutex (src/Utils/detail/shared_mutex.cpp), the      *)
(* readers-writer lock of the file systems and the allocators, on top of   *)
(* two condition variables.  Every operation holds _mut from its first     *)
(* line to its return or to the next wait, so each such stretch is one     *)
(* step; between a notification and the waiter's return from wait others   *)
(* take _mut.                                                              *)
(***************************************************************************)
EXTENDS Integers, FiniteSets

CONSTANTS
  Thread,
  MayWrite, MayRead,   \* the threads that use lock, and lock_shared
  MaxReaders,          \* max_readers, 10 in the code
  WordSize             \* unsigned arithmetic is modulo this number

ASSUME ThreadAssumption == IsFiniteSet(Thread)
ASSUME RolesAssumption == MayWrite \subseteq Thread /\ MayRead \subseteq Thread
ASSUME MaxReadersAssumption == MaxReaders \in Nat \ {0}
ASSUME WordSizeAssumption ==
  /\ WordSize \in Nat
  /\ Cardinality(Thread) < WordSize /\ MaxReaders < WordSize

VARIABLES
  writers, readers, waiting_readers,
  r_fresh, r_old, r_credits,   \* the condition variable rwait
  w_fresh, w_old, w_credits,   \* the condition variable wwait
  pc

counts == <<writers, readers, waiting_readers>>
r_vars == <<r_fresh, r_old, r_credits>>
w_vars == <<w_fresh, w_old, w_credits>>
vars   == <<counts, r_vars, w_vars, pc>>

rwait == INSTANCE CondVarSpec
  WITH fresh <- r_fresh, old <- r_old, credits <- r_credits
wwait == INSTANCE CondVarSpec
  WITH fresh <- w_fresh, old <- w_old, credits <- w_credits

\* lock@c: in c.wait inside lock; shared@c: inside lock_shared
Pc == {"idle", "lock@wwait", "lock@rwait", "writing",
       "shared@wwait", "shared@rwait", "reading"}
Word == 0 .. WordSize - 1

TypeOK ==
  /\ writers \in Word /\ readers \in Word /\ waiting_readers \in Word
  /\ rwait!TypeOK /\ wwait!TypeOK
  /\ pc \in [Thread -> Pc]

\* The constructor leaves waiting_readers as the memory was.
Init ==
  /\ writers = 0 /\ readers = 0 /\ waiting_readers \in Word
  /\ rwait!Init /\ wwait!Init
  /\ pc = [t \in Thread |-> "idle"]

\* Faulty variant: no wrap.
Succ(n) == n + 1
Inc(n) == (n + 1) % WordSize
Dec(n) == (n - 1) % WordSize
Goto(t, where) == pc' = [pc EXCEPT ![t] = where]

\* wait has returned and _mut is taken again.
Back(t, where) ==
  /\ pc[t] = where
  /\ t \notin rwait!Waiting \cup wwait!Waiting

-----------------------------------------------------------------------------
\* Faulty variant: a test that always succeeds.
Always == TRUE
\* The conditions the loops wait for.
NoWriter == writers = 0
NoReader == readers = 0
HasRoom  == readers < MaxReaders

\* lock waits until no writer is there ...
LockWaits(t) ==
  /\ t \in MayWrite
  /\ pc[t] = "idle" \/ Back(t, "lock@wwait")
  /\ ~NoWriter
  /\ wwait!Wait(t)
  /\ Goto(t, "lock@wwait")
  /\ UNCHANGED <<counts, r_vars>>

\* ... claims the lock, which keeps new readers out ...
LockClaims(t) ==
  /\ t \in MayWrite
  /\ pc[t] = "idle" \/ Back(t, "lock@wwait")
  /\ NoWriter
  /\ writers' = Inc(writers)
  /\ IF NoReader
       THEN Goto(t, "writing") /\ UNCHANGED r_vars
       ELSE Goto(t, "lock@rwait") /\ rwait!Wait(t)
  /\ UNCHANGED <<readers, waiting_readers, w_vars>>

\* ... and waits for the readers inside to leave.
LockDrains(t) ==
  /\ Back(t, "lock@rwait")
  /\ IF NoReader
       THEN Goto(t, "writing") /\ UNCHANGED r_vars
       ELSE rwait!Wait(t) /\ UNCHANGED pc
  /\ UNCHANGED <<counts, w_vars>>

\* try_lock that succeeds; one that fails, also because _mut is taken, changes
\* nothing.
TryLock(t) ==
  /\ t \in MayWrite /\ pc[t] = "idle"
  /\ NoWriter /\ NoReader
  /\ writers' = Inc(writers)
  /\ Goto(t, "writing")
  /\ UNCHANGED <<readers, waiting_readers, r_vars, w_vars>>

\* Faulty variant: nobody is told.
TellNobody == UNCHANGED w_vars
\* Who learns that the writer is gone.
WriterGone == wwait!NotifyAll

Unlock(t) ==
  /\ pc[t] = "writing"
  /\ writers' = Dec(writers)
  /\ WriterGone
  /\ Goto(t, "idle")
  /\ UNCHANGED <<readers, waiting_readers, r_vars>>

-----------------------------------------------------------------------------
\* lock_shared waits until no writer is there or on its way.
SharedWaits(t) ==
  /\ t \in MayRead
  /\ pc[t] = "idle" \/ Back(t, "shared@wwait")
  /\ ~NoWriter
  /\ waiting_readers' = IF pc[t] = "idle" THEN Inc(waiting_readers)
                                          ELSE waiting_readers
  /\ wwait!Wait(t)
  /\ Goto(t, "shared@wwait")
  /\ UNCHANGED <<writers, readers, r_vars>>

\* Then it needs room among the readers.  A reader that had to wait for room
\* does not look at writers again (line 67).
SharedEnters(t) ==
  /\ t \in MayRead
  /\ \/ (pc[t] = "idle" \/ Back(t, "shared@wwait")) /\ NoWriter
     \/ Back(t, "shared@rwait")
  /\ LET counted == IF pc[t] = "idle" THEN Inc(waiting_readers)
                                      ELSE waiting_readers
     IN IF HasRoom
          THEN /\ readers' = Inc(readers)
               /\ waiting_readers' = Dec(counted)
               /\ Goto(t, "reading")
               /\ UNCHANGED r_vars
          ELSE /\ waiting_readers' = counted
               /\ Goto(t, "shared@rwait")
               /\ rwait!Wait(t)
               /\ UNCHANGED readers
  /\ UNCHANGED <<writers, w_vars>>

\* try_lock_shared that succeeds.
TryLockShared(t) ==
  /\ t \in MayRead /\ pc[t] = "idle"
  /\ NoWriter /\ HasRoom
  /\ readers' = Inc(readers)
  /\ Goto(t, "reading")
  /\ UNCHANGED <<writers, waiting_readers, r_vars, w_vars>>

\* Faulty variant: nobody is told unless a reader waits.
ReaderGoneIfWaited == IF waiting_readers > 0 THEN rwait!NotifyAll
                                             ELSE UNCHANGED r_vars
\* Who learns that a reader is gone.
ReaderGone == IF waiting_readers > 0 THEN rwait!NotifyAll ELSE rwait!NotifyOne

UnlockShared(t) ==
  /\ pc[t] = "reading"
  /\ readers' = Dec(readers)
  /\ ReaderGone
  /\ Goto(t, "idle")
  /\ UNCHANGED <<writers, waiting_readers, w_vars>>

\* A waiter takes a credit and leaves rwait; wwait is only ever broadcast to,
\* so it never has a credit.
Wake(t) == rwait!Wake(t) /\ UNCHANGED <<counts, w_vars, pc>>

Step(t) ==
  \/ LockWaits(t) \/ LockClaims(t) \/ LockDrains(t) \/ TryLock(t) \/ Unlock(t)
  \/ SharedWaits(t) \/ SharedEnters(t) \/ TryLockShared(t) \/ UnlockShared(t)
  \/ Wake(t)

Next == \E t \in Thread : Step(t)

Spec == Init /\ [][Next]_vars

-----------------------------------------------------------------------------
At(where) == {t \in Thread : pc[t] = where}

\* A writer is alone with the data: no second writer, no reader.
Exclusion ==
  \A t \in At("writing") : At("writing") = {t} /\ At("reading") = {}

\* The assertion unlock starts with (line 52) holds whenever it is evaluated.
UnlockAssertion == At("writing") # {} => writers = 1 /\ readers = 0

\* The counters agree with the threads: at most one writer has claimed the
\* lock, and readers never drops below zero (the assertion of line 93).
CountsAgree ==
  /\ writers <= 1
  /\ writers = Cardinality(At("writing") \cup At("lock@rwait"))
  /\ readers = Cardinality(At("reading"))

\* Nobody sleeps through the event he waits for: with no writer every thread
\* on wwait has left it, and a writer that waits for the last reader has a
\* credit as soon as that reader is gone.
Sleepers(waiting, credits) == Cardinality(waiting) - credits
NoMissedRelease ==
  /\ NoWriter => Sleepers(wwait!Waiting, w_credits) = 0
  /\ NoReader => Sleepers(rwait!Waiting, r_credits) = 0

\* A reader sleeps on rwait only while the room is taken or promised to
\* readers that are awake, whatever waiting_readers started from.
NoMissedRoom ==
  Sleepers(rwait!Waiting, r_credits) > 0 =>
    readers + r_credits + Cardinality(At("shared@rwait") \ rwait!Waiting)
      >= MaxReaders

-----------------------------------------------------------------------------
\* A thread that is inside leaves, one that is told wakes up, and one that is
\* awake gets _mut; nobody has to call lock or lock_shared.
Proceeds(t) ==
  \/ pc[t] # "idle" /\ (LockWaits(t) \/ LockClaims(t) \/ LockDrains(t))
  \/ pc[t] # "idle" /\ (SharedWaits(t) \/ SharedEnters(t))
  \/ Unlock(t) \/ UnlockShared(t) \/ Wake(t)

FairSpec == Spec /\ \A t \in Thread : WF_vars(Proceeds(t))

\* A writer that has claimed the lock gets it, whatever the readers do.
ClaimedIsWritten ==
  \A t \in Thread : pc[t] = "lock@rwait" ~> pc[t] = "writing"

\* While threads wait the lock keeps changing hands: some thread gets in.
Blocked == {"lock@wwait", "lock@rwait", "shared@wwait", "shared@rwait"}
Inside == At("writing") \cup At("reading") # {}
SomebodyEnters == (\E t \in Thread : pc[t] \in Blocked) ~> Inside
=============================================================================
