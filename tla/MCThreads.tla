------------------------------ MODULE MCThreads ------------------------------
(***************************************************************************)
(* The scheduler with and without the timer hook.  timer is chosen at the  *)
(* start and stays; without it the properties that the hook breaks are     *)
(* checked as well, liveness under the fairness of FairSpec among them.    *)
(***************************************************************************)
EXTENDS Scheduler

CONSTANT v

VARIABLE timer   \* does the timer call scheduler_hook?

coop == INSTANCE Scheduler WITH Preemptive <- FALSE

ThreadsInit == timer \in BOOLEAN /\ Init

ThreadsNext ==
  /\ UNCHANGED timer
  /\ \/ timer /\ Next
     \/ ~timer /\ coop!Next

ThreadsSpec ==
  /\ ThreadsInit /\ [][ThreadsNext]_<<timer, vars>>
  /\ \A s \in Thread :
       /\ WF_vars(~timer /\ KernelStep(s))
       /\ WF_vars(~timer /\ Yield(s))
       /\ SF_vars(~timer /\ \E w \in Value \cup {"null"} : Exit(s, w))

\* Without the hook (thread_create, sched_yield, thread_join, thread_exit): no
\* assert of the scheduler fails, no id is given twice, no context is loaded whose
\* frame is gone or was loaded before, and every thread on the run list can be
\* resumed on its own stack.
CoopSound == ~timer => NoFault /\ ContextsUsable

\* Without the hook (sched_yield): a thread that stays on the run list gets the
\* CPU again and again, although others are created, joined and woken around the
\* iterator.
CoopRuns ==
  \A t \in Thread : []<>(timer \/ t \notin Range(runlist) \/ running = t)

\* Without the hook (thread_exit, thread_join, reap_threads): thread_count() is
\* back to 1 again and again, as the wait loops of the thread test expect, with
\* nobody waiting and the stacks of all dead threads freed.
CoopFinish ==
  []<>(timer \/ /\ Len(runlist) = 1 /\ waiting_threads = {}
                /\ \A t \in Thread : Dead(t) => t \in freed)
=============================================================================
