------------------------------ MODULE Scheduler ------------------------------
(***************************************************************************)
(* The kernel threads of src/kernel/Scheduling/thread.cpp on one CPU: the  *)
(* round robin run list, the join wait lists, the reaper, and the context  *)
(* switch whose last instructions run with interrupts enabled.             *)
(*                                                                         *)
(* Code under an irq_guard is one step: with one CPU nothing else runs     *)
(* until the guard's destructor executes STI.  Between two guards the      *)
(* timer interrupt may push a second frame on the running stack (level 1), *)
(* in which scheduler_hook calls sched_yield.  A saved context names the   *)
(* stack and the frame it was taken in; it dies when control leaves that   *)
(* frame, and loading a dead one is the undefined behaviour this module    *)
(* stops at.                                                               *)
(*                                                                         *)
(* Ids are handed out by a plain tid_counter++ under no guard: its load and *)
(* its store are two steps, and with the timer two threads may be given    *)
(* one id.  The two then share one entry of __thread_map and every look-up *)
(* by id; the module stops there as well (fault "id twice"), so that what  *)
(* it says of threads is said until an id has been given twice.            *)
(***************************************************************************)
EXTENDS Integers, Sequences, FiniteSets, SequencesExt

CONSTANTS
  MaxThread,    \* bound: thread_create stops after this many ids
  Value,        \* the non-null values a thread may hand to thread_exit
  Preemptive,   \* does the timer call scheduler_hook (Timer_c.cpp:31)?
  ReapLimit     \* sched_yield's literal 10: reap without wrapping above it

ASSUME MaxThreadAssumption == MaxThread \in Nat \ {0}
ASSUME PreemptiveAssumption == Preemptive \in BOOLEAN
ASSUME ReapLimitAssumption == ReapLimit \in Nat

Thread == 0 .. MaxThread - 1
Main == 0
Frame == {0, 1}   \* 0: the thread's own calls, 1: the interrupt on top of them

VARIABLES
  tid_counter, thread_map, runlist, thread_it, waiting_threads,
  threads_to_reap, current_thread,
  status, ret, wait_list,   \* fields of a __thread_t and of its thread_data_t
  context, freed,           \* saved contexts; threads whose stack is freed
  running,                  \* the stack the CPU executes on
  pc, next,                 \* per stack and frame: where it is, local "next"
  loaded,                   \* per stack: what get_inc_tid read of tid_counter
  arg, got,                 \* per stack: local "id", and the joiner's *retval
  exit_value,               \* history: what a thread handed to thread_exit
  fault                     \* an assert failed, a dead context was loaded or
                            \* an id was given twice: nothing goes on then

queues  == <<runlist, thread_it, waiting_threads, wait_list, threads_to_reap>>
records == <<tid_counter, thread_map, status, ret, exit_value>>
cpu     == <<current_thread, running, context, freed>>
locals  == <<pc, next, loaded, arg, got>>
vars    == <<queues, records, cpu, locals, fault>>

Status == {"RUNNING", "DONE", "WAITING"}
Pc == {"none", "entry", "idle", "counting", "creating", "parking", "picking",
       "switch", "load", "woken"}
Context == [stk : Thread, frm : Frame, at : {"none", "entry", "yield", "join"}]
NoContext == [stk |-> Main, frm |-> 0, at |-> "none"]
Saved(s, f, where) == [stk |-> s, frm |-> f, at |-> where]
NoData == "no data"   \* thread->data is null
Uninit == "uninit"    \* data was allocated by a joiner, ret never written
Result == Value \cup {"null", "garbage"}
\* A value is a pointer a thread hands out, none of the marks used beside it.
ASSUME ValueAssumption == Value \cap {"null", "none", NoData, Uninit} = {}

TypeOK ==
  /\ tid_counter \in 0 .. MaxThread
  /\ thread_map \subseteq Thread
  /\ runlist \in Seq(Thread)
  /\ thread_it \in Nat
  /\ waiting_threads \subseteq Thread
  /\ wait_list \in [Thread -> Seq(Thread)]
  /\ threads_to_reap \in Seq(Thread)
  /\ current_thread \in Thread
  /\ status \in [Thread -> Status]
  /\ ret \in [Thread -> Value \cup {NoData, Uninit}]
  /\ exit_value \in [Thread -> Value \cup {"null", "none"}]
  /\ context \in [Thread -> Context]
  /\ freed \subseteq Thread
  /\ running \in Thread
  /\ pc \in [Thread -> [Frame -> Pc]]
  /\ next \in [Thread -> [Frame -> Thread]]
  /\ loaded \in [Thread -> Thread]
  /\ arg \in [Thread -> Thread]
  /\ got \in [Thread -> Result \cup {"none"}]
  /\ fault \in {"none", "assert", "dead context", "id twice"}

\* init_kernel_threads: the boot code becomes thread 0.  Its status is never
\* assigned, so it starts as whatever the heap held.
Init ==
  /\ tid_counter = 1
  /\ thread_map = {Main}
  /\ runlist = <<Main>>
  /\ thread_it = 1
  /\ waiting_threads = {}
  /\ wait_list = [t \in Thread |-> <<>>]
  /\ threads_to_reap = <<>>
  /\ current_thread = Main
  /\ \E garbage \in Status :
       status = [t \in Thread |-> IF t = Main THEN garbage ELSE "RUNNING"]
  /\ ret = [t \in Thread |-> NoData]
  /\ exit_value = [t \in Thread |-> "none"]
  /\ context = [t \in Thread |-> NoContext]
  /\ freed = {}
  /\ running = Main
  /\ pc = [t \in Thread |-> [f \in Frame |->
             IF t = Main /\ f = 0 THEN "idle" ELSE "none"]]
  /\ next = [t \in Thread |-> [f \in Frame |-> Main]]
  /\ loaded = [t \in Thread |-> Main]
  /\ arg = [t \in Thread |-> Main]
  /\ got = [t \in Thread |-> "none"]
  /\ fault = "none"

\* The frame of stack s that executes: the interrupt's when there is one.
Top(s) == IF pc[s][1] = "none" THEN 0 ELSE 1

Executes(s, f, at) ==
  /\ fault = "none"
  /\ running = s
  /\ Top(s) = f
  /\ pc[s][f] = at

\* An iterator that ran off the list restarts at begin().
Wrapped(i, list) == IF i > Len(list) THEN 1 ELSE i

\* Faulty variant: the iterator ignored.
PointedFirst == Head(runlist)
\* *thread_it.
Pointed == runlist[thread_it]

-----------------------------------------------------------------------------
\* thread_create, up to get_inc_tid's load of the counter, outside any guard.
LoadId(s) ==
  /\ Executes(s, 0, "idle")
  /\ tid_counter < MaxThread
  /\ loaded' = [loaded EXCEPT ![s] = tid_counter]
  /\ pc' = [pc EXCEPT ![s][0] = "counting"]
  /\ UNCHANGED <<queues, records, cpu, next, arg, got, fault>>

\* Its store: the id is the loaded value.  If the counter has moved since, some
\* thread created in a slice between the two has been given that value too.
StoreId(s) ==
  /\ Executes(s, 0, "counting")
  /\ IF tid_counter = loaded[s]
       THEN /\ tid_counter' = loaded[s] + 1
            /\ arg' = [arg EXCEPT ![s] = loaded[s]]
            /\ got' = [got EXCEPT ![s] = "none"]
            /\ loaded' = [loaded EXCEPT ![s] = Main]
            /\ pc' = [pc EXCEPT ![s][0] = "creating"]
            /\ UNCHANGED fault
       ELSE /\ fault' = "id twice"
            /\ UNCHANGED <<tid_counter, arg, got, loaded, pc>>
  /\ UNCHANGED <<queues, thread_map, status, ret, exit_value, cpu, next>>

\* ... and register_thread_current publishes the thread under one.  Its
\* context makes the first load enter thread_entry_func on a fresh stack.
Register(s) ==
  /\ Executes(s, 0, "creating")
  /\ thread_map' = thread_map \cup {arg[s]}
  /\ status' = [status EXCEPT ![arg[s]] = "RUNNING"]
  /\ context' = [context EXCEPT ![arg[s]] = Saved(arg[s], 0, "entry")]
  /\ runlist' = Append(runlist, arg[s])
  /\ pc' = [pc EXCEPT ![s][0] = "idle"]
  /\ UNCHANGED <<thread_it, waiting_threads, wait_list, threads_to_reap,
                 tid_counter, ret, exit_value, current_thread, running, freed,
                 next, loaded, arg, got, fault>>

\* thread_entry_func: STI, then the thread's own function.
Enter(s) ==
  /\ Executes(s, 0, "entry")
  /\ pc' = [pc EXCEPT ![s][0] = "idle"]
  /\ UNCHANGED <<queues, records, cpu, next, loaded, arg, got, fault>>

-----------------------------------------------------------------------------
\* Faulty variant: one thread skipped.
AfterNext(i) == i + 2
\* ++thread_it.
After(i) == i + 1

\* Faulty variant: no reaping when the list wraps.
ReapsOverLimit(wraps) == ~wraps /\ Len(threads_to_reap) > ReapLimit
\* When sched_yield calls reap_threads.
Reaps(wraps) ==
  \/ wraps /\ threads_to_reap # <<>>
  \/ ~wraps /\ Len(threads_to_reap) > ReapLimit

\* Faulty variant: the queue kept.
NotCleared(reaps) == threads_to_reap
\* What reap_threads leaves queued once it has freed what was there.
Unreaped(reaps) == IF reaps THEN <<>> ELSE threads_to_reap

\* The asserts of sched_yield and reap_threads that are not only about the code
\* of this file: a list that outgrew the map has its dead queued, and whoever
\* is reaped is registered, dead, not the first thread, and has its context.
AssertsOfYield(wraps) ==
  /\ wraps /\ Len(runlist) > Cardinality(thread_map) => threads_to_reap # <<>>
  /\ Reaps(wraps) =>
       /\ IsInjective(threads_to_reap)
       /\ \A t \in Range(threads_to_reap) :
            t \in thread_map \ freed /\ t # Main /\ status[t] = "DONE"

\* sched_yield up to the guard's end, in frame f of stack s.  The context
\* saved is that of *thread_it, whoever is executing.
SchedYield(s, f) ==
  LET old   == Pointed
      wraps == After(thread_it) > Len(runlist)
      it    == Wrapped(After(thread_it), runlist)
      nxt   == runlist[it]
      dead  == IF Reaps(wraps) THEN Range(threads_to_reap) ELSE {}
      kept  == [t \in Thread |-> IF t \in dead THEN NoContext ELSE context[t]]
  IN /\ runlist # <<>>
     /\ thread_it' = it
     /\ freed' = freed \cup dead
     /\ threads_to_reap' = Unreaped(Reaps(wraps))
     /\ IF nxt = old
          THEN /\ context' = kept
               /\ UNCHANGED <<current_thread, pc, next>>
          ELSE /\ context' = [kept EXCEPT ![old] = Saved(s, f, "yield")]
               /\ current_thread' = nxt
               /\ next' = [next EXCEPT ![s][f] = nxt]
               /\ pc' = [pc EXCEPT ![s][f] = "switch"]
     /\ fault' = IF AssertsOfYield(wraps) THEN "none" ELSE "assert"
     /\ UNCHANGED <<runlist, waiting_threads, wait_list, records, running,
                    loaded, arg, got>>

\* A thread calls sched_yield itself.
Yield(s) == Executes(s, 0, "idle") /\ SchedYield(s, 0)

\* timer_callback -> scheduler_hook -> sched_yield, wherever interrupts are
\* enabled.  The hook does not nest in itself: hooks are ten ticks apart.
TimerHook(s) ==
  /\ Preemptive
  /\ fault = "none" /\ running = s /\ Top(s) = 0
  /\ SchedYield(s, 1)

-----------------------------------------------------------------------------
\* The guarded half of switch_to_thread.
SwitchTo(s, f) ==
  /\ Executes(s, f, "switch")
  /\ current_thread' = next[s][f]
  /\ pc' = [pc EXCEPT ![s][f] = "load"]
  /\ UNCHANGED <<queues, records, running, context, freed, next, loaded,
                 arg, got, fault>>

\* Where the code goes on after the save_context or the entry it was saved at.
ResumesAt(c) == CASE c.at = "entry" -> "entry"
                  [] c.at = "join" -> "woken"
                  [] OTHER -> "idle"

\* load_destroy_context: the CPU leaves stack s for the frame of the context.
\* Frames above that one are gone, and with them every context in them; the
\* one just loaded is used up.  sched_yield's first act is assert(current ==
\* old), and then it returns into what its caller was doing.
Load(s, f) ==
  LET n == next[s][f]
      c == context[n]
  IN /\ Executes(s, f, "load")
     /\ IF c.at = "none" \/ c.stk \in freed
          THEN /\ fault' = "dead context"
               /\ UNCHANGED <<running, context, pc>>
          ELSE /\ running' = c.stk
               /\ context' = [t \in Thread |->
                    IF context[t].stk = c.stk /\ context[t].frm >= c.frm
                      THEN NoContext ELSE context[t]]
               /\ pc' = [pc EXCEPT ![c.stk] = [g \in Frame |->
                    IF g = 1 THEN "none"
                    ELSE IF c.frm = 1 THEN @[0] ELSE ResumesAt(c)]]
               /\ fault' = IF c.at = "yield" /\ current_thread # n
                             THEN "assert" ELSE "none"
     /\ UNCHANGED <<queues, records, current_thread, freed, next, loaded, arg,
                    got>>

-----------------------------------------------------------------------------
\* Faulty variant: the null data of a late join forgotten.
RawRet(u) == {ret[u]}
\* What reading thread_data_t.ret of thread u may return.
ReadRet(u) == CASE ret[u] = NoData -> {"null"}
                [] ret[u] = Uninit -> Result
                [] OTHER -> {ret[u]}

\* Faulty variant: the DONE test missing.
NeverDone(u) == FALSE
\* The test of thread_join that nothing has to be waited for.
IsDone(u) == status[u] = "DONE"

\* A thread joins only threads younger than itself (the tests join their
\* children); otherwise two threads may wait for each other.  Whoever is
\* registered has an id below tid_counter, as the first assert asks.
MayJoin(s, u) == u \in thread_map /\ u > s

\* thread_join of a thread that is DONE returns at once.
JoinDone(s, u) ==
  /\ Executes(s, 0, "idle") /\ MayJoin(s, u)
  /\ IsDone(u)
  /\ arg' = [arg EXCEPT ![s] = u]
  /\ \E r \in ReadRet(u) : got' = [got EXCEPT ![s] = r]
  /\ UNCHANGED <<queues, records, cpu, pc, next, loaded, fault>>

\* Otherwise the caller leaves the run list for the wait list of u.
JoinWait(s, u) ==
  LET current == current_thread
      rest    == RemoveAt(runlist, thread_it)
  IN /\ Executes(s, 0, "idle") /\ MayJoin(s, u)
     /\ ~IsDone(u)
     /\ IF Len(runlist) > 1 /\ current # u /\ Pointed = current
          THEN /\ waiting_threads' = waiting_threads \cup {current}
               /\ runlist' = rest
               /\ thread_it' = Wrapped(thread_it, rest)
               /\ wait_list' = [wait_list EXCEPT ![u] = Append(@, current)]
               /\ status' = [status EXCEPT ![current] = "WAITING"]
               /\ ret' = [ret EXCEPT ![u] = IF @ = NoData THEN Uninit ELSE @]
               /\ pc' = [pc EXCEPT ![s][0] = "parking"]
               /\ arg' = [arg EXCEPT ![s] = u]
               /\ got' = [got EXCEPT ![s] = "none"]
               /\ UNCHANGED fault
          ELSE /\ fault' = "assert"
               /\ UNCHANGED <<waiting_threads, runlist, thread_it, wait_list,
                              status, ret, pc, arg, got>>
     /\ UNCHANGED <<threads_to_reap, tid_counter, thread_map, exit_value, cpu,
                    next, loaded>>

\* save_context(current->context) runs after the guard (line 470) ...
Park(s) ==
  /\ Executes(s, 0, "parking")
  /\ context' = [context EXCEPT ![s] = Saved(s, 0, "join")]
  /\ pc' = [pc EXCEPT ![s][0] = "picking"]
  /\ UNCHANGED <<queues, records, current_thread, running, freed, next,
                 loaded, arg, got, fault>>

\* ... and *thread_it is read after that, unguarded too.
Pick(s) ==
  /\ Executes(s, 0, "picking")
  /\ next' = [next EXCEPT ![s][0] = Pointed]
  /\ pc' = [pc EXCEPT ![s][0] = "switch"]
  /\ UNCHANGED <<queues, records, cpu, loaded, arg, got, fault>>

\* The joiner is back: it takes the result and is RUNNING again.
JoinReturn(s) ==
  /\ Executes(s, 0, "woken")
  /\ current_thread' = s
  /\ \E r \in ReadRet(arg[s]) : got' = [got EXCEPT ![s] = r]
  /\ status' = [status EXCEPT ![s] = "RUNNING"]
  /\ pc' = [pc EXCEPT ![s][0] = "idle"]
  /\ UNCHANGED <<queues, tid_counter, thread_map, ret, exit_value, running,
                 context, freed, next, loaded, arg, fault>>

\* Faulty variant: the joiners left out.
Unwoken(t) == runlist
\* The run list once thread_exit has pushed the joiners of t onto it.
WithWoken(t) == runlist \o wait_list[t]

\* Faulty variant: the data not allocated.
StoredIfData(t, v) == IF v = "null" \/ ret[t] = NoData THEN ret[t] ELSE v
\* thread_data_t.ret once t has exited with v.
Stored(t, v) == IF v = "null" THEN ret[t] ELSE v

\* thread_exit: the joiners join the run list, *thread_it leaves it, and the
\* dying thread is queued for the reaper while it still runs on its stack.
\* The main thread never exits (reap_threads asserts id > 0).
Exit(s, v) ==
  LET t    == current_thread
      list == WithWoken(t)
      rest == RemoveAt(list, thread_it)
      it   == Wrapped(thread_it, rest)
  IN /\ Executes(s, 0, "idle") /\ s # Main
     /\ waiting_threads' = waiting_threads \ Range(wait_list[t])
     /\ wait_list' = [wait_list EXCEPT ![t] = <<>>]
     /\ ret' = [ret EXCEPT ![t] = Stored(t, v)]
     /\ exit_value' = [exit_value EXCEPT ![t] = v]
     /\ runlist' = rest
     /\ thread_it' = it
     /\ IF rest # <<>>
          THEN /\ next' = [next EXCEPT ![s][0] = rest[it]]
               /\ status' = [status EXCEPT ![t] = "DONE"]
               /\ threads_to_reap' = Append(threads_to_reap, t)
               /\ pc' = [pc EXCEPT ![s][0] = "switch"]
               /\ UNCHANGED fault
          ELSE /\ fault' = "assert"
               /\ UNCHANGED <<next, status, threads_to_reap, pc>>
     /\ UNCHANGED <<tid_counter, thread_map, cpu, loaded, arg, got>>

-----------------------------------------------------------------------------
Switch(s) == \E f \in Frame : SwitchTo(s, f) \/ Load(s, f)

Step(s) ==
  \/ LoadId(s) \/ StoreId(s) \/ Register(s) \/ Enter(s)
  \/ Yield(s) \/ TimerHook(s) \/ Switch(s)
  \/ \E u \in Thread : JoinDone(s, u) \/ JoinWait(s, u)
  \/ Park(s) \/ Pick(s) \/ JoinReturn(s)
  \/ \E v \in Value \cup {"null"} : Exit(s, v)

Next == \E s \in Thread : Step(s)

Spec == Init /\ [][Next]_vars

-----------------------------------------------------------------------------
\* Every registered thread is in exactly one place: once on the run list, once
\* on one wait list (and then in waiting_threads), or DONE.  Erasing whatever
\* *thread_it points at, and pushing whole wait lists back, must keep it so, as
\* long as no id has been given twice.
OnWaitList(t) == \E u \in Thread : t \in Range(wait_list[u])
Dead(t) == t # Main /\ status[t] = "DONE"

NoneTwice ==
  /\ \A i, j \in DOMAIN runlist : runlist[i] = runlist[j] => i = j
  /\ \A t, u \in Thread :
       \A i \in DOMAIN wait_list[t], j \in DOMAIN wait_list[u] :
         wait_list[t][i] = wait_list[u][j] => t = u /\ i = j

NoThreadLost ==
  /\ NoneTwice
  /\ \A t \in thread_map :
       /\ t \in Range(runlist) <=> ~(Dead(t) \/ OnWaitList(t))
       /\ ~(Dead(t) /\ OnWaitList(t))
  /\ \A t \in Thread : OnWaitList(t) <=> t \in waiting_threads
  /\ Range(runlist) \cup waiting_threads \subseteq thread_map

\* No joiner sleeps on the wait list of a thread that has already exited:
\* thread_join queues itself before thread_exit empties the list, or not at all,
\* as long as no id has been given twice.
NoLostWakeup == \A t \in Thread : Dead(t) => wait_list[t] = <<>>

\* The reaper's list holds each dead thread at most once and never a freed one,
\* however often reap_threads is interrupted or put off (a stack is freed once),
\* as long as no id has been given twice.
ReapedOnce ==
  /\ \A i, j \in DOMAIN threads_to_reap :
       threads_to_reap[i] = threads_to_reap[j] => i = j
  /\ \A t \in Range(threads_to_reap) : Dead(t) /\ t \notin freed

\* A thread that is not inside the scheduler is the one current_processor
\* names and the one *thread_it points at: thread_exit and thread_join remove
\* the one and act on the other (the assert of line 447, and the one that is
\* commented out in get_current_thread).
Outside(s) ==
  Top(s) = 0 /\ pc[s][0] \in {"entry", "idle", "counting", "creating", "woken"}
CurrentIsRunning ==
  fault = "none" /\ Outside(running) =>
    /\ current_thread = running
    /\ thread_it \in DOMAIN runlist
    /\ runlist[thread_it] = running

\* No assert of the scheduler fails (in particular the run list never becomes
\* empty), no context is loaded whose frame is gone or was loaded before, and no
\* id is given twice.
NoFault == fault = "none"

\* A joiner whose target handed a value to thread_exit gets that value, also
\* when it slept, was woken by the exit, and reads ret long afterwards, as long
\* as no id has been given twice.
JoinValue ==
  \A s \in Thread : got[s] # "none" /\ pc[s][0] = "idle" =>
    /\ Dead(arg[s])
    /\ exit_value[arg[s]] \in Value => got[s] = exit_value[arg[s]]

\* A context can only be loaded through the thread that owns it: every thread
\* on the run list but the one executing can be resumed, on its own stack.
Resumable(t) == context[t].at # "none" /\ context[t].stk = t
ContextsUsable ==
  \A t \in Range(runlist) :
    Resumable(t) \/ (running = t /\ pc[t][0] # "load")

-----------------------------------------------------------------------------
\* Where a thread is in its life, for those who create and join it.
Life(t) ==
  IF t \notin thread_map THEN IF t < tid_counter THEN "taken" ELSE "unborn"
  ELSE IF t \in freed THEN "freed"
  ELSE IF Dead(t) THEN "dead"
  ELSE IF t \in waiting_threads THEN "asleep"
  ELSE "alive"
Lives == [t \in Thread |-> Life(t)]

\* thread_create, thread_join, thread_exit, reap_threads: whatever the timer
\* interrupts, only living threads that are not asleep act, a joiner sleeps
\* until its target exits and no longer, its result is the target's exit value,
\* and only dead threads' stacks are freed, as long as no id is given twice.
threads == INSTANCE ThreadSpec WITH life <- Lives, value <- exit_value
ImplementsThreads == threads!Spec

-----------------------------------------------------------------------------
\* Kernel code always goes on; a thread keeps calling sched_yield (or the
\* timer does it); and after finitely many slices its function returns.
KernelStep(s) ==
  \/ StoreId(s) \/ Register(s) \/ Enter(s)
  \/ Switch(s) \/ Park(s) \/ Pick(s) \/ JoinReturn(s)

FairSpec ==
  /\ Spec
  /\ \A s \in Thread :
       /\ WF_vars(KernelStep(s))
       /\ WF_vars(Yield(s))
       /\ WF_vars(TimerHook(s))
       /\ SF_vars(\E v \in Value \cup {"null"} : Exit(s, v))

\* thread_count() is back to 1 in the end: the wait loops of the thread test
\* (while (Kernel::thread_count() > 1) sched_yield()) terminate.
ThreadsFinish == Len(runlist) > 1 ~> Len(runlist) = 1 /\ waiting_threads = {}
=============================================================================
