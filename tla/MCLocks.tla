------------------------------ MODULE MCLocks ------------------------------
(***************************************************************************)
(* Two locks: the lock of SharedMutex, with a place for every reader, and  *)
(* crowded, a lock that has fewer places than readers and no writers (with *)
(* writers it fails, see SharedMutexFull.cfg).  They share nothing, so a   *)
(* behaviour uses one of them.                                             *)
(***************************************************************************)
EXTENDS SharedMutex

CONSTANT Places   \* max_readers of crowded

VARIABLES
  used,   \* the lock this behaviour is about
  c_writers, c_readers, c_waiting_readers,
  cr_fresh, cr_old, cr_credits, cw_fresh, cw_old, cw_credits, c_pc

c_vars == <<c_writers, c_readers, c_waiting_readers,
            cr_fresh, cr_old, cr_credits, cw_fresh, cw_old, cw_credits, c_pc>>

crowded == INSTANCE SharedMutex WITH
  MayWrite <- {}, MayRead <- Thread, MaxReaders <- Places,
  writers <- c_writers, readers <- c_readers, waiting_readers <- c_waiting_readers,
  r_fresh <- cr_fresh, r_old <- cr_old, r_credits <- cr_credits,
  w_fresh <- cw_fresh, w_old <- cw_old, w_credits <- cw_credits, pc <- c_pc

ASSUME PlacesAssumption == crowded!MaxReadersAssumption /\ crowded!WordSizeAssumption

\* The lock that is not used starts with its least waiting_readers.
LocksInit ==
  /\ used \in {"lock", "crowded"}
  /\ Init /\ (used = "lock" \/ waiting_readers = 0)
  /\ crowded!Init /\ (used = "crowded" \/ c_waiting_readers = 0)

LocksNext ==
  \/ used = "lock" /\ Next /\ UNCHANGED <<used, c_vars>>
  \/ used = "crowded" /\ crowded!Next /\ UNCHANGED <<used, vars>>

\* The fairness of SharedMutex.
LocksSpec ==
  /\ LocksInit /\ [][LocksNext]_<<used, vars, c_vars>>
  /\ \A t \in Thread : WF_vars(used = "lock" /\ Proceeds(t) /\ UNCHANGED <<used, c_vars>>)

\* NoMissedRoom of the crowded lock: with more readers than places, one sleeps
\* only while every place is taken or promised (lock_shared, line 67).
NobodyMissesRoom == crowded!NoMissedRoom
=============================================================================
