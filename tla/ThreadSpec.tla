------------------------------ MODULE ThreadSpec ------------------------------
(***************************************************************************)
(* What the threads of src/kernel/Scheduling/thread.cpp promise to those   *)
(* who create, join and leave them, whatever the scheduler does: only a    *)
(* living thread that is not asleep acts, a joiner sleeps exactly as long  *)
(* as its target lives, it gets what its target handed to thread_exit, and *)
(* only the stacks of the dead are freed.                                  *)
(*                                                                         *)
(* A thread's life goes from unborn through taken (its id is given out),   *)
(* alive, asleep in thread_join and alive again, to dead and freed.        *)
(***************************************************************************)
CONSTANTS
  Thread,   \* the ids
  Main,     \* the thread the kernel boots as, which never exits
  Value     \* the non-null values a thread may hand to thread_exit

VARIABLES
  life,     \* per thread: where it is in its life
  value,    \* what it handed to thread_exit
  arg,      \* the thread it created or joined last
  got       \* what its last thread_join returned, if it has returned

vars == <<life, value, arg, got>>

\* What joining u may return.  A null exit value is not stored, so a joiner
\* that made the thread's data reads whatever the heap held.
Outcome(u) ==
  IF value[u] \in Value THEN {value[u]} ELSE Value \cup {"null", "garbage"}

Init ==
  /\ life = [t \in Thread |-> IF t = Main THEN "alive" ELSE "unborn"]
  /\ value = [t \in Thread |-> "none"]
  /\ arg = [t \in Thread |-> Main]
  /\ got = [t \in Thread |-> "none"]

Takes(s) ==
  /\ life[s] = "alive"
  /\ \E u \in Thread :
       /\ life[u] = "unborn"
       /\ life' = [life EXCEPT ![u] = "taken"]
       /\ arg' = [arg EXCEPT ![s] = u]
  /\ got' = [got EXCEPT ![s] = "none"]
  /\ UNCHANGED value

Creates(s) ==
  /\ life[s] = "alive" /\ life[arg[s]] = "taken"
  /\ life' = [life EXCEPT ![arg[s]] = "alive"]
  /\ UNCHANGED <<value, arg, got>>

\* thread_join of a thread that lives ...
Sleeps(s, u) ==
  /\ life[s] = "alive" /\ life[u] \in {"alive", "asleep"} /\ u # s
  /\ life' = [life EXCEPT ![s] = "asleep"]
  /\ arg' = [arg EXCEPT ![s] = u]
  /\ got' = [got EXCEPT ![s] = "none"]
  /\ UNCHANGED value

\* ... and its return, at once or after the joiner has slept.
Joins(s, u) ==
  /\ life[s] = "alive" /\ life[u] \in {"dead", "freed"}
  /\ arg' = [arg EXCEPT ![s] = u]
  /\ \E r \in Outcome(u) : got' = [got EXCEPT ![s] = r]
  /\ UNCHANGED <<life, value>>

\* thread_exit wakes the joiners of the thread and nobody else.
Exits(s, v) ==
  /\ life[s] = "alive" /\ s # Main
  /\ life' = [t \in Thread |->
                IF t = s THEN "dead"
                ELSE IF life[t] = "asleep" /\ arg[t] = s THEN "alive"
                ELSE life[t]]
  /\ value' = [value EXCEPT ![s] = v]
  /\ UNCHANGED <<arg, got>>

\* reap_threads frees the stacks of some that are dead.
Reaps(S) ==
  /\ \A t \in S : life[t] = "dead"
  /\ life' = [t \in Thread |-> IF t \in S THEN "freed" ELSE life[t]]
  /\ UNCHANGED <<value, arg, got>>

Next ==
  \/ \E s \in Thread :
       \/ Takes(s) \/ Creates(s)
       \/ \E u \in Thread : Sleeps(s, u) \/ Joins(s, u)
       \/ \E v \in Value \cup {"null"} : Exits(s, v)
  \/ \E S \in SUBSET Thread : Reaps(S)

Spec == Init /\ [][Next]_vars
=============================================================================
