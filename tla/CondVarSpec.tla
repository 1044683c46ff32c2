---------------------------- MODULE CondVarSpec ----------------------------
(***************************************************************************)
(* What Utils::condition_variable promises to the code that uses it        *)
(* (src/Utils/detail/condition_variable.cpp), without its counters: a      *)
(* notification is a credit, and any thread that was waiting when one of   *)
(* the notifications so far was given may take it.  That is less than "the *)
(* thread that waited longest", and less than ISO C++ asks: a credit meant *)
(* for an old waiter may go to a later one once another credit follows it. *)
(***************************************************************************)
EXTENDS Integers, FiniteSets

CONSTANT Thread

VARIABLES
  fresh,     \* waiting since the last notification or later
  old,       \* waiting, and notify_one was called since
  credits    \* notifications nobody has taken yet

vars == <<fresh, old, credits>>

Waiting == fresh \cup old
Unpromised == Cardinality(Waiting) > credits

TypeOK ==
  /\ fresh \subseteq Thread
  /\ old \subseteq Thread
  /\ credits \in Nat

Init == fresh = {} /\ old = {} /\ credits = 0

Wait(t) ==
  /\ t \notin Waiting
  /\ fresh' = fresh \cup {t}
  /\ UNCHANGED <<old, credits>>

NotifyOne ==
  IF Unpromised
    THEN /\ old' = Waiting
         /\ fresh' = {}
         /\ credits' = credits + 1
    ELSE UNCHANGED vars

\* Everybody leaves, unless every waiter already has a credit.
NotifyAll ==
  IF Unpromised
    THEN fresh' = {} /\ old' = {} /\ credits' = 0
    ELSE UNCHANGED vars

Wake(t) ==
  /\ t \in old /\ credits > 0
  /\ old' = old \ {t}
  /\ credits' = credits - 1
  /\ UNCHANGED fresh

Next ==
  \/ \E t \in Thread : Wait(t) \/ Wake(t)
  \/ NotifyOne \/ NotifyAll

Spec == Init /\ [][Next]_vars

=============================================================================
