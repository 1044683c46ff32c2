--------------------------- MODULE SchedulerProofs ---------------------------
(***************************************************************************)
(* The scheduler for every number of threads, every set of exit values,    *)
(* with and without the timer: its types; that the executing thread is the *)
(* one current_thread and *thread_it name; that no thread is lost or woken *)
(* too late or reaped twice, a joiner gets the value its target exited     *)
(* with and no assert fails, all of them until an id has been given twice, *)
(* which the timer can bring about and which ends what Scheduler models.   *)
(* And without the timer hook no id is given twice, no context is loaded   *)
(* whose frame is gone, and every live thread can be resumed (CoopSound).  *)
(***************************************************************************)
EXTENDS MCThreads, FiniteSetTheorems, SequenceTheorems, WellFoundedInduction, TLAPS

\* The iterator never dangles, as long as no assert has failed.
ItInList == fault = "none" => thread_it \in 1 .. Len(runlist)

TypeInv == TypeOK /\ ItInList

\* list::erase through an iterator that is on the list removes one element.
LEMMA RemoveAtType ==
  ASSUME NEW S, NEW s \in Seq(S), NEW i \in 1 .. Len(s)
  PROVE  /\ RemoveAt(s, i) \in Seq(S)
         /\ Len(RemoveAt(s, i)) = Len(s) - 1
<1>. DEFINE front == SubSeq(s, 1, i - 1)
            back  == SubSeq(s, i + 1, Len(s))
<1>1. Len(s) \in Nat /\ i \in Nat
  OBVIOUS
<1>2. front \in Seq(S) /\ Len(front) = i - 1
  BY <1>1, SubSeqProperties
<1>3. back \in Seq(S) /\ Len(back) = Len(s) - i
  <2>1. CASE i + 1 <= Len(s)
    BY <1>1, <2>1, SubSeqProperties
  <2>2. CASE i = Len(s)
    BY <1>1, <2>2, SubSeqProperties
  <2>. QED BY <1>1, <2>1, <2>2
<1>4. RemoveAt(s, i) = front \o back
  BY DEF RemoveAt
<1>. HIDE DEF front, back
<1>5. front \o back \in Seq(S) /\ Len(front \o back) = Len(front) + Len(back)
  BY <1>2, <1>3, ConcatProperties
<1>. QED BY <1>1, <1>2, <1>3, <1>4, <1>5

\* An iterator wrapped onto a non-empty list is on it.
LEMMA WrappedInList ==
  ASSUME NEW S, NEW s \in Seq(S), s # <<>>, NEW i \in Nat \ {0}
  PROVE  Wrapped(i, s) \in 1 .. Len(s)
<1>1. Len(s) \in Nat \ {0}
  BY EmptySeq
<1>. QED BY <1>1 DEF Wrapped

LEMMA ThreadFacts == Main \in Thread /\ Thread \subseteq Nat
BY MaxThreadAssumption DEF Main, Thread

\* Assigning a local of one frame keeps the type of all of them.
LEMMA FrameUpdate ==
  ASSUME NEW V, NEW g \in [Thread -> [Frame -> V]],
         NEW s \in Thread, NEW f \in Frame, NEW val \in V
  PROVE  [g EXCEPT ![s][f] = val] \in [Thread -> [Frame -> V]]
<1>1. [g[s] EXCEPT ![f] = val] \in [Frame -> V]
  OBVIOUS
<1>2. [g EXCEPT ![s][f] = val] = [g EXCEPT ![s] = [g[s] EXCEPT ![f] = val]]
  OBVIOUS
<1>. QED BY <1>1, <1>2

\* get_inc_tid's store gives the loaded id, or finds it given.
GiveId(s) ==
  /\ Executes(s, 0, "counting")
  /\ tid_counter = loaded[s] /\ tid_counter' = tid_counter + 1
  /\ arg' = [arg EXCEPT ![s] = tid_counter]
  /\ got' = [got EXCEPT ![s] = "none"]
  /\ loaded' = [loaded EXCEPT ![s] = Main]
  /\ pc' = [pc EXCEPT ![s][0] = "creating"]
  /\ UNCHANGED <<queues, thread_map, status, ret, exit_value, cpu, next, fault>>

StopId(s) ==
  /\ Executes(s, 0, "counting")
  /\ fault' = "id twice"
  /\ UNCHANGED <<queues, records, cpu, locals>>

LEMMA StoreCases ==
  ASSUME NEW s \in Thread, StoreId(s)
  PROVE  GiveId(s) \/ StopId(s)
<1>1. CASE tid_counter = loaded[s]
  BY <1>1 DEF StoreId, GiveId
<1>2. CASE tid_counter # loaded[s]
  BY <1>2 DEF StoreId, StopId, records, locals
<1>. QED BY <1>1, <1>2

-----------------------------------------------------------------------------
LEMMA TypeInit == Init => TypeInv
<1>. SUFFICES ASSUME Init PROVE TypeInv
  OBVIOUS
<1>1. runlist \in Seq(Thread) /\ Len(runlist) = 1
  BY ThreadFacts DEF Init
<1>2. status \in [Thread -> Status]
  BY DEF Init, Status
<1>3. context \in [Thread -> Context]
  BY ThreadFacts DEF Init, Context, NoContext, Frame
<1>4. /\ pc \in [Thread -> [Frame -> Pc]]
      /\ next \in [Thread -> [Frame -> Thread]]
  BY ThreadFacts DEF Init, Pc
<1>5. tid_counter \in 0 .. MaxThread
  BY MaxThreadAssumption DEF Init
<1>6. /\ thread_map \subseteq Thread
      /\ wait_list \in [Thread -> Seq(Thread)]
      /\ threads_to_reap \in Seq(Thread)
      /\ ret \in [Thread -> Value \cup {NoData, Uninit}]
      /\ exit_value \in [Thread -> Value \cup {"null", "none"}]
      /\ arg \in [Thread -> Thread] /\ loaded \in [Thread -> Thread]
      /\ got \in [Thread -> Result \cup {"none"}]
  BY ThreadFacts DEF Init
<1>7. /\ thread_it \in Nat /\ waiting_threads \subseteq Thread
      /\ current_thread \in Thread /\ running \in Thread
      /\ freed \subseteq Thread /\ fault = "none"
  BY ThreadFacts DEF Init
<1>8. TypeOK
  BY <1>1, <1>2, <1>3, <1>4, <1>5, <1>6, <1>7 DEF TypeOK
<1>. QED BY <1>1, <1>8 DEF TypeInv, ItInList, Init

LEMMA YieldType ==
  ASSUME TypeInv, fault = "none", NEW s \in Thread, NEW f \in Frame,
         SchedYield(s, f)
  PROVE  TypeInv'
<1>. DEFINE it   == Wrapped(After(thread_it), runlist)
            nxt  == runlist[it]
            dead == IF Reaps(After(thread_it) > Len(runlist))
                      THEN Range(threads_to_reap) ELSE {}
            kept == [t \in Thread |->
                      IF t \in dead THEN NoContext ELSE context[t]]
<1>. USE DEF TypeInv
<1>1. it \in 1 .. Len(runlist) /\ nxt \in Thread
  <2>1. After(thread_it) \in Nat \ {0}
    BY DEF TypeOK, After
  <2>2. it \in 1 .. Len(runlist)
    BY <2>1, WrappedInList DEF SchedYield, TypeOK
  <2>. QED BY <2>2 DEF TypeOK
<1>2. dead \subseteq Thread
  BY DEF TypeOK, Range
<1>3. kept \in [Thread -> Context]
  BY ThreadFacts DEF TypeOK, NoContext, Context, Frame
<1>4. context' \in [Thread -> Context]
  <2>1. Saved(s, f, "yield") \in Context
    BY DEF Saved, Context
  <2>2. context' = kept \/ context' = [kept EXCEPT ![Pointed] = Saved(s, f, "yield")]
    BY DEF SchedYield
  <2>. HIDE DEF kept
  <2>. QED BY <1>3, <2>1, <2>2
<1>5. /\ current_thread' \in Thread
      /\ pc' \in [Thread -> [Frame -> Pc]]
      /\ next' \in [Thread -> [Frame -> Thread]]
  <2>1. \/ UNCHANGED <<current_thread, pc, next>>
        \/ /\ current_thread' = nxt
           /\ next' = [next EXCEPT ![s][f] = nxt]
           /\ pc' = [pc EXCEPT ![s][f] = "switch"]
    BY DEF SchedYield
  <2>2. pc \in [Thread -> [Frame -> Pc]] /\ next \in [Thread -> [Frame -> Thread]]
        /\ current_thread \in Thread /\ "switch" \in Pc
    BY DEF TypeOK, Pc
  <2>. HIDE DEF nxt
  <2>3. /\ [pc EXCEPT ![s][f] = "switch"] \in [Thread -> [Frame -> Pc]]
        /\ [next EXCEPT ![s][f] = nxt] \in [Thread -> [Frame -> Thread]]
    BY <1>1, <2>2, FrameUpdate
  <2>. QED BY <1>1, <2>1, <2>2, <2>3
<1>6. freed' \subseteq Thread /\ threads_to_reap' \in Seq(Thread)
  BY <1>2 DEF SchedYield, TypeOK, Unreaped
<1>7. thread_it' \in 1 .. Len(runlist) /\ thread_it' \in Nat
  BY <1>1 DEF SchedYield
<1>. QED BY <1>4, <1>5, <1>6, <1>7 DEF SchedYield, TypeOK, ItInList, records

LEMMA LoadType ==
  ASSUME TypeInv, NEW s \in Thread, NEW f \in Frame, Load(s, f)
  PROVE  TypeInv'
<1>. DEFINE c == context[next[s][f]]
<1>. USE DEF TypeInv
<1>1. c \in Context
  BY ZenonT(40) DEF TypeOK
<1>2. running' \in Thread
  BY <1>1 DEF Load, TypeOK, Context
<1>3. context' \in [Thread -> Context]
  <2>1. NoContext \in Context
    BY ThreadFacts DEF NoContext, Context, Frame
  <2>2. context \in [Thread -> Context]
    BY DEF TypeOK
  <2>3. \/ context' = context
        \/ context' = [t \in Thread |->
             IF context[t].stk = c.stk /\ context[t].frm >= c.frm
               THEN NoContext ELSE context[t]]
    BY DEF Load
  <2>. HIDE DEF c
  <2>. QED BY <2>1, <2>2, <2>3
<1>4. pc' \in [Thread -> [Frame -> Pc]]
  <2>. DEFINE back == [g \in Frame |->
                        IF g = 1 THEN "none"
                        ELSE IF c.frm = 1 THEN pc[c.stk][0] ELSE ResumesAt(c)]
  <2>1. ResumesAt(c) \in Pc /\ pc[c.stk][0] \in Pc /\ c.stk \in Thread
    <3>1. c.stk \in Thread
      BY <1>1 DEF Context
    <3>2. pc[c.stk][0] \in Pc
      <4>1. pc \in [Thread -> [Frame -> Pc]] /\ 0 \in Frame
        BY DEF TypeOK, Frame
      <4>. HIDE DEF c
      <4>. QED BY <3>1, <4>1
    <3>3. ResumesAt(c) \in Pc
      <4>. HIDE DEF c
      <4>. QED BY DEF ResumesAt, Pc
    <3>. QED BY <3>1, <3>2, <3>3
  <2>2. back \in [Frame -> Pc]
    BY <2>1 DEF Pc
  <2>3. pc' = pc \/ pc' = [pc EXCEPT ![c.stk] = back]
    BY <2>1 DEF Load, TypeOK
  <2>. HIDE DEF back, c
  <2>. QED BY <2>1, <2>2, <2>3, ZenonT(40) DEF TypeOK
<1>5. fault' \in {"none", "assert", "dead context", "id twice"} /\ fault = "none"
  BY DEF Load, Executes
<1>. QED BY <1>2, <1>3, <1>4, <1>5
         DEF Load, TypeOK, ItInList, queues, records

LEMMA JoinWaitType ==
  ASSUME TypeInv, NEW s \in Thread, NEW u \in Thread, JoinWait(s, u)
  PROVE  TypeInv'
<1>. DEFINE rest == RemoveAt(runlist, thread_it)
<1>. USE DEF TypeInv
<1>0. /\ pc \in [Thread -> [Frame -> Pc]] /\ "parking" \in Pc /\ 0 \in Frame
      /\ fault = "none" /\ thread_it \in 1 .. Len(runlist)
      /\ current_thread \in Thread /\ runlist \in Seq(Thread)
  BY DEF TypeOK, Pc, Frame, JoinWait, Executes, ItInList
<1>1. CASE fault' = "assert"
  <2>1. UNCHANGED <<waiting_threads, runlist, thread_it, wait_list, status, ret,
                    pc, arg, got>>
    BY <1>0, <1>1 DEF JoinWait
  <2>. QED BY <1>1, <2>1 DEF JoinWait, TypeOK, ItInList, cpu
<1>2. CASE fault' # "assert"
  <2>1. /\ Len(runlist) > 1
        /\ waiting_threads' = waiting_threads \cup {current_thread}
        /\ runlist' = rest
        /\ thread_it' = Wrapped(thread_it, rest)
        /\ wait_list' = [wait_list EXCEPT ![u] = Append(@, current_thread)]
        /\ status' = [status EXCEPT ![current_thread] = "WAITING"]
        /\ ret' = [ret EXCEPT ![u] = IF @ = NoData THEN Uninit ELSE @]
        /\ pc' = [pc EXCEPT ![s][0] = "parking"]
        /\ arg' = [arg EXCEPT ![s] = u]
        /\ got' = [got EXCEPT ![s] = "none"]
        /\ fault' = fault
    BY <1>2 DEF JoinWait
  <2>2. rest \in Seq(Thread) /\ Len(rest) = Len(runlist) - 1
    BY <1>0, RemoveAtType
  <2>3. thread_it' \in 1 .. Len(rest)
    <3>1. rest # <<>> /\ thread_it \in Nat \ {0}
      BY <1>0, <2>1, <2>2
    <3>. QED BY <2>1, <2>2, <3>1, WrappedInList
  <2>4. pc' \in [Thread -> [Frame -> Pc]]
    BY <1>0, <2>1, FrameUpdate
  <2>5. wait_list' \in [Thread -> Seq(Thread)] /\ waiting_threads' \subseteq Thread
    <3>1. wait_list \in [Thread -> Seq(Thread)] /\ waiting_threads \subseteq Thread
      BY DEF TypeOK
    <3>2. Append(wait_list[u], current_thread) \in Seq(Thread)
      BY <1>0, <3>1
    <3>. QED BY <1>0, <2>1, <3>1, <3>2
  <2>6. /\ status' \in [Thread -> Status]
        /\ ret' \in [Thread -> Value \cup {NoData, Uninit}]
        /\ arg' \in [Thread -> Thread]
        /\ got' \in [Thread -> Result \cup {"none"}]
    <3>1. /\ status \in [Thread -> Status] /\ "WAITING" \in Status
          /\ ret \in [Thread -> Value \cup {NoData, Uninit}]
          /\ arg \in [Thread -> Thread]
          /\ got \in [Thread -> Result \cup {"none"}]
      BY DEF TypeOK, Status
    <3>. QED BY <1>0, <2>1, <3>1
  <2>. HIDE DEF rest
  <2>7. thread_it' \in Nat /\ thread_it' \in 1 .. Len(runlist') /\ runlist' \in Seq(Thread)
    BY <2>1, <2>2, <2>3
  <2>. QED BY <1>0, <2>1, <2>4, <2>5, <2>6, <2>7 DEF JoinWait, TypeOK, ItInList, cpu
<1>. QED BY <1>1, <1>2

LEMMA ExitType ==
  ASSUME TypeInv, NEW s \in Thread, NEW val \in Value \cup {"null"}, Exit(s, val)
  PROVE  TypeInv'
<1>. DEFINE list == WithWoken(current_thread)
            rest == RemoveAt(list, thread_it)
            it   == Wrapped(thread_it, rest)
<1>. USE DEF TypeInv
<1>0. /\ pc \in [Thread -> [Frame -> Pc]] /\ "switch" \in Pc /\ 0 \in Frame
      /\ next \in [Thread -> [Frame -> Thread]]
      /\ fault = "none" /\ thread_it \in 1 .. Len(runlist)
      /\ current_thread \in Thread /\ runlist \in Seq(Thread)
      /\ wait_list[current_thread] \in Seq(Thread)
  BY DEF TypeOK, Pc, Frame, Exit, Executes, ItInList
<1>1. list \in Seq(Thread) /\ thread_it \in 1 .. Len(list)
  <2>1. /\ list \in Seq(Thread)
        /\ Len(list) = Len(runlist) + Len(wait_list[current_thread])
    BY <1>0, ConcatProperties DEF WithWoken
  <2>2. Len(runlist) \in Nat /\ Len(wait_list[current_thread]) \in Nat
    BY <1>0
  <2>. HIDE DEF list
  <2>. QED BY <1>0, <2>1, <2>2
<1>2. rest \in Seq(Thread) /\ Len(rest) = Len(list) - 1
  <2>. HIDE DEF list
  <2>. QED BY <1>1, RemoveAtType
<1>3. it \in Nat /\ (rest # <<>> => it \in 1 .. Len(rest))
  <2>. HIDE DEF rest
  <2>1. thread_it \in Nat \ {0}
    BY <1>0
  <2>. QED BY <1>2, <2>1, WrappedInList DEF Wrapped
<1>4. runlist' = rest /\ thread_it' = it /\ (fault' = "none" => rest # <<>>)
  BY DEF Exit
<1>5. pc' \in [Thread -> [Frame -> Pc]] /\ next' \in [Thread -> [Frame -> Thread]]
  <2>1. CASE rest = <<>>
    BY <1>0, <2>1 DEF Exit
  <2>2. CASE rest # <<>>
    <3>1. rest[it] \in Thread
      <4>. HIDE DEF rest, it
      <4>. QED BY <1>2, <1>3, <2>2
    <3>2. /\ pc' = [pc EXCEPT ![s][0] = "switch"]
          /\ next' = [next EXCEPT ![s][0] = rest[it]]
      BY <2>2 DEF Exit
    <3>. HIDE DEF rest, it
    <3>. QED BY <1>0, <3>1, <3>2, FrameUpdate
  <2>. QED BY <2>1, <2>2
<1>6. waiting_threads' \subseteq Thread /\ wait_list' \in [Thread -> Seq(Thread)]
  <2>1. /\ waiting_threads' = waiting_threads \ Range(wait_list[current_thread])
        /\ wait_list' = [wait_list EXCEPT ![current_thread] = <<>>]
    BY DEF Exit
  <2>2. wait_list \in [Thread -> Seq(Thread)] /\ waiting_threads \subseteq Thread
    BY DEF TypeOK
  <2>3. <<>> \in Seq(Thread)
    OBVIOUS
  <2>4. wait_list' \in [Thread -> Seq(Thread)]
    BY <1>0, <2>1, <2>2, <2>3
  <2>. QED BY <2>1, <2>2, <2>4
<1>7. /\ ret' \in [Thread -> Value \cup {NoData, Uninit}]
      /\ exit_value' \in [Thread -> Value \cup {"null", "none"}]
  <2>1. /\ ret' = [ret EXCEPT ![current_thread] = Stored(current_thread, val)]
        /\ exit_value' = [exit_value EXCEPT ![current_thread] = val]
    BY DEF Exit
  <2>2. /\ ret \in [Thread -> Value \cup {NoData, Uninit}]
        /\ exit_value \in [Thread -> Value \cup {"null", "none"}]
    BY DEF TypeOK
  <2>3. Stored(current_thread, val) \in Value \cup {NoData, Uninit}
    BY <1>0, <2>2 DEF Stored
  <2>. QED BY <1>0, <2>1, <2>2, <2>3
<1>8. status' \in [Thread -> Status] /\ threads_to_reap' \in Seq(Thread)
      /\ fault' \in {"none", "assert", "dead context", "id twice"}
  <2>1. \/ status' = status /\ threads_to_reap' = threads_to_reap /\ fault' = "assert"
        \/ /\ status' = [status EXCEPT ![current_thread] = "DONE"]
           /\ threads_to_reap' = Append(threads_to_reap, current_thread)
           /\ fault' = fault
    BY DEF Exit
  <2>2. /\ status \in [Thread -> Status] /\ "DONE" \in Status
        /\ threads_to_reap \in Seq(Thread)
    BY DEF TypeOK, Status
  <2>3. Append(threads_to_reap, current_thread) \in Seq(Thread)
    BY <1>0, <2>2
  <2>4. [status EXCEPT ![current_thread] = "DONE"] \in [Thread -> Status]
    BY <1>0, <2>2
  <2>5. status' \in [Thread -> Status] /\ threads_to_reap' \in Seq(Thread)
    BY <2>1, <2>2, <2>3, <2>4
  <2>. QED BY <1>0, <2>1, <2>5
<1>. HIDE DEF list, rest, it
<1>. QED BY <1>2, <1>3, <1>4, <1>5, <1>6, <1>7, <1>8, ZenonT(40)
         DEF Exit, TypeOK, ItInList, cpu

LEMMA TypeStep == TypeInv /\ [Next]_vars => TypeInv'
<1>. SUFFICES ASSUME TypeInv, [Next]_vars PROVE TypeInv'
  OBVIOUS
<1>. DEFINE F == /\ pc \in [Thread -> [Frame -> Pc]]
                 /\ next \in [Thread -> [Frame -> Thread]]
                 /\ 0 \in Frame
                 /\ {"counting", "creating", "idle", "picking", "switch", "load"} \subseteq Pc
<1>0. F /\ thread_it \in Nat
  BY DEF TypeInv, TypeOK, Frame, Pc
<1>1. CASE UNCHANGED vars
  BY <1>1 DEF TypeInv, TypeOK, ItInList, vars, queues, records, cpu, locals
<1>2. ASSUME NEW s \in Thread, LoadId(s) \/ StoreId(s) PROVE TypeInv'
  <2>1. CASE LoadId(s)
    <3>1. pc' \in [Thread -> [Frame -> Pc]]
      BY <1>0, <2>1, FrameUpdate DEF LoadId
    <3>2. tid_counter \in Thread
      <4>1. tid_counter \in 0 .. MaxThread /\ tid_counter < MaxThread
        BY <2>1 DEF LoadId, TypeInv, TypeOK
      <4>. QED BY <4>1, MaxThreadAssumption DEF Thread
    <3>. QED BY <2>1, <3>1, <3>2
             DEF LoadId, TypeInv, TypeOK, ItInList, queues, records, cpu
  <2>2. CASE GiveId(s)
    <3>1. pc' \in [Thread -> [Frame -> Pc]]
      BY <1>0, <2>2, FrameUpdate DEF GiveId
    <3>2. tid_counter \in Thread /\ tid_counter + 1 \in 0 .. MaxThread
      <4>1. tid_counter \in Thread
        BY <2>2 DEF GiveId, TypeInv, TypeOK
      <4>. QED BY <4>1, MaxThreadAssumption DEF Thread
    <3>3. /\ tid_counter' \in 0 .. MaxThread
          /\ arg' \in [Thread -> Thread]
          /\ loaded' \in [Thread -> Thread]
          /\ got' \in [Thread -> Result \cup {"none"}]
      BY <2>2, <3>2, ThreadFacts DEF GiveId, TypeInv, TypeOK
    <3>. QED BY <2>2, <3>1, <3>3
             DEF GiveId, TypeInv, TypeOK, ItInList, queues, cpu
  <2>3. CASE StopId(s)
    BY <2>3 DEF StopId, TypeInv, TypeOK, ItInList, queues, records, cpu, locals
  <2>. QED BY <1>2, <2>1, <2>2, <2>3, StoreCases
<1>3. ASSUME NEW s \in Thread, Register(s) PROVE TypeInv'
  <2>1. pc' \in [Thread -> [Frame -> Pc]]
    BY <1>0, <1>3, FrameUpdate DEF Register
  <2>2. arg[s] \in Thread /\ Saved(arg[s], 0, "entry") \in Context
    BY DEF TypeInv, TypeOK, Saved, Context, Frame
  <2>3. context' \in [Thread -> Context] /\ status' \in [Thread -> Status]
    BY <1>3, <2>2 DEF Register, TypeInv, TypeOK, Status
  <2>4. runlist' \in Seq(Thread) /\ Len(runlist') = Len(runlist) + 1
    <3>1. runlist \in Seq(Thread) /\ runlist' = Append(runlist, arg[s])
      BY <1>3 DEF Register, TypeInv, TypeOK
    <3>. QED BY <2>2, <3>1
  <2>5. ItInList'
    <3>1. Len(runlist) \in Nat
      <4>1. runlist \in Seq(Thread)
        BY DEF TypeInv, TypeOK
      <4>. QED BY <4>1
    <3>. QED BY <1>3, <2>4, <3>1 DEF Register, TypeInv, ItInList
  <2>. QED BY <1>3, <2>1, <2>2, <2>3, <2>4, <2>5 DEF Register, TypeInv, TypeOK
<1>4. ASSUME NEW s \in Thread, Enter(s) PROVE TypeInv'
  <2>1. pc' \in [Thread -> [Frame -> Pc]]
    BY <1>0, <1>4, FrameUpdate DEF Enter
  <2>. QED BY <1>4, <2>1
           DEF Enter, TypeInv, TypeOK, ItInList, queues, records, cpu
<1>5. ASSUME NEW s \in Thread, Yield(s) \/ TimerHook(s) PROVE TypeInv'
  BY <1>5, YieldType DEF Yield, TimerHook, Executes, Frame
<1>6. ASSUME NEW s \in Thread, NEW f \in Frame, SwitchTo(s, f) PROVE TypeInv'
  <2>1. pc' \in [Thread -> [Frame -> Pc]] /\ next[s][f] \in Thread
    <3>1. pc' = [pc EXCEPT ![s][f] = "load"]
      BY <1>6 DEF SwitchTo
    <3>2. [pc EXCEPT ![s][f] = "load"] \in [Thread -> [Frame -> Pc]]
      BY <1>0, FrameUpdate
    <3>3. next[s][f] \in Thread
      BY <1>0
    <3>. QED BY <3>1, <3>2, <3>3
  <2>. QED BY <1>6, <2>1 DEF SwitchTo, TypeInv, TypeOK, ItInList, queues, records
<1>7. ASSUME NEW s \in Thread, NEW f \in Frame, Load(s, f) PROVE TypeInv'
  BY <1>7, LoadType
<1>8. ASSUME NEW s \in Thread, NEW u \in Thread, JoinDone(s, u) PROVE TypeInv'
  <2>1. ReadRet(u) \subseteq Result
    BY DEF ReadRet, Result, TypeInv, TypeOK
  <2>2. got' \in [Thread -> Result \cup {"none"}] /\ arg' \in [Thread -> Thread]
    <3>1. got \in [Thread -> Result \cup {"none"}] /\ arg \in [Thread -> Thread]
      BY DEF TypeInv, TypeOK
    <3>2. /\ arg' = [arg EXCEPT ![s] = u]
          /\ \E r \in ReadRet(u) : got' = [got EXCEPT ![s] = r]
      BY <1>8 DEF JoinDone
    <3>. QED BY <2>1, <3>1, <3>2
  <2>. QED BY <1>8, <2>2
           DEF JoinDone, TypeInv, TypeOK, ItInList, queues, records, cpu
<1>9. ASSUME NEW s \in Thread, NEW u \in Thread, JoinWait(s, u) PROVE TypeInv'
  BY <1>9, JoinWaitType
<1>10. ASSUME NEW s \in Thread, Park(s) PROVE TypeInv'
  <2>1. pc' \in [Thread -> [Frame -> Pc]]
    BY <1>0, <1>10, FrameUpdate DEF Park
  <2>2. context' \in [Thread -> Context]
    BY <1>10 DEF Park, TypeInv, TypeOK, Saved, Context, Frame
  <2>. QED BY <1>10, <2>1, <2>2
           DEF Park, TypeInv, TypeOK, ItInList, queues, records
<1>11. ASSUME NEW s \in Thread, Pick(s) PROVE TypeInv'
  <2>1. Pointed \in Thread
    BY <1>11 DEF Pick, Executes, Pointed, TypeInv, TypeOK, ItInList
  <2>2. pc' \in [Thread -> [Frame -> Pc]] /\ next' \in [Thread -> [Frame -> Thread]]
    BY <1>0, <1>11, <2>1, FrameUpdate DEF Pick
  <2>. QED BY <1>11, <2>2
           DEF Pick, TypeInv, TypeOK, ItInList, queues, records, cpu
<1>12. ASSUME NEW s \in Thread, JoinReturn(s) PROVE TypeInv'
  <2>1. pc' \in [Thread -> [Frame -> Pc]]
    BY <1>0, <1>12, FrameUpdate DEF JoinReturn
  <2>2. ReadRet(arg[s]) \subseteq Result
    BY DEF ReadRet, Result, TypeInv, TypeOK
  <2>3. got' \in [Thread -> Result \cup {"none"}] /\ status' \in [Thread -> Status]
    <3>1. /\ got \in [Thread -> Result \cup {"none"}]
          /\ status \in [Thread -> Status] /\ "RUNNING" \in Status
      BY DEF TypeInv, TypeOK, Status
    <3>2. /\ status' = [status EXCEPT ![s] = "RUNNING"]
          /\ \E r \in ReadRet(arg[s]) : got' = [got EXCEPT ![s] = r]
      BY <1>12 DEF JoinReturn
    <3>. QED BY <2>2, <3>1, <3>2
  <2>. QED BY <1>12, <2>1, <2>3
           DEF JoinReturn, TypeInv, TypeOK, ItInList, queues
<1>13. ASSUME NEW s \in Thread, NEW val \in Value \cup {"null"}, Exit(s, val)
       PROVE TypeInv'
  BY <1>13, ExitType
<1>. QED
  BY <1>1, <1>2, <1>3, <1>4, <1>5, <1>6, <1>7, <1>8, <1>9, <1>10, <1>11,
     <1>12, <1>13 DEF Next, Step, Switch

\* Type correctness: every variable keeps its type and the iterator stays on
\* the run list through every interleaving of the kernel and its timer.
THEOREM TypeCorrect == Spec => []TypeOK
<1>1. TypeInv => TypeOK
  BY DEF TypeInv
<1>. QED BY <1>1, TypeInit, TypeStep, PTL DEF Spec

-----------------------------------------------------------------------------
(***************************************************************************)
(* CurrentIsRunning: whatever a hook does in the windows after a guard, a  *)
(* thread that gets back to its own code finds current_thread and          *)
(* *thread_it naming it, or a fault has stopped the machine.               *)
(***************************************************************************)

OutsidePc == {"entry", "idle", "counting", "creating", "woken"}
SwitchPc == {"switch", "load"}

HookPcs == \A k \in Thread : pc[k][1] \in {"none", "switch", "load"}

\* The thread's own frame on stack k may go on once n is scheduled again: it
\* is the code of n, or a switch that was on its way to n.
Expects(k, n) ==
  /\ pc[k][0] \in OutsidePc => k = n
  /\ pc[k][0] \in SwitchPc => next[k][0] = n

\* A context taken in a thread's own frame is that thread's; one taken by the
\* hook may be another's, but then the interrupted frame is still under the
\* hook's and expects the context's owner.
ContextOK(n) ==
  LET k == context[n].stk IN
    /\ context[n].frm = 0 => k = n
    /\ context[n].frm = 1 => pc[k][1] # "none" /\ Expects(k, n)
ContextInv == \A n \in Thread : context[n].at # "none" => ContextOK(n)

\* The frame that executes agrees with the iterator.
TopInv ==
  LET s == running
      p == pc[s][Top(s)]
  IN /\ Top(s) = 0 /\ p \in OutsidePc => current_thread = s /\ Pointed = s
     /\ p \in SwitchPc => next[s][Top(s)] = Pointed
     /\ p = "load" => current_thread = Pointed

SwitchInv == HookPcs /\ (fault = "none" => ContextInv /\ TopInv)

-----------------------------------------------------------------------------
\* Reading a local of one frame after another was assigned.
LEMMA FrameRead ==
  ASSUME NEW V, NEW g \in [Thread -> [Frame -> V]],
         NEW s \in Thread, NEW f \in Frame, NEW val,
         NEW k \in Thread, NEW h \in Frame
  PROVE  [g EXCEPT ![s][f] = val][k][h] =
           IF k = s /\ h = f THEN val ELSE g[k][h]
<1>1. [g EXCEPT ![s][f] = val] = [g EXCEPT ![s] = [g[s] EXCEPT ![f] = val]]
  OBVIOUS
<1>. QED BY <1>1

LEMMA SwitchTypes ==
  ASSUME TypeInv
  PROVE  /\ pc \in [Thread -> [Frame -> Pc]]
         /\ next \in [Thread -> [Frame -> Thread]]
         /\ context \in [Thread -> Context]
         /\ 0 \in Frame /\ 1 \in Frame
BY DEF TypeInv, TypeOK, Frame

\* A step of a thread's own frame that saves at most its own contexts leaves
\* every other frame, and so what the hooks' contexts rely on, alone.
LEMMA BaseMove ==
  ASSUME TypeInv, HookPcs, ContextInv, NEW s \in Thread, pc[s][1] = "none",
         \A k \in Thread : pc'[k][1] = pc[k][1],
         \A k \in Thread \ {s} : pc'[k][0] = pc[k][0] /\ next'[k][0] = next[k][0],
         \A n \in Thread : \/ context'[n] = context[n]
                           \/ context'[n].at = "none"
                           \/ context'[n].frm = 0 /\ context'[n].stk = n
  PROVE  HookPcs' /\ ContextInv'
<1>1. HookPcs'
  BY DEF HookPcs
<1>2. ASSUME NEW n \in Thread, context'[n].at # "none" PROVE ContextOK(n)'
  <2>1. CASE context'[n] = context[n]
    <3>1. PICK k \in Thread : k = context[n].stk
      BY SwitchTypes DEF Context
    <3>2. ContextOK(n)
      BY <1>2, <2>1 DEF ContextInv
    <3>3. CASE context[n].frm = 1
      <4>1. pc[k][1] # "none" /\ k # s /\ Expects(k, n)
        BY <3>1, <3>2, <3>3 DEF ContextOK
      <4>2. pc'[k][1] # "none" /\ pc'[k][0] = pc[k][0] /\ next'[k][0] = next[k][0]
        BY <4>1
      <4>3. (pc[k][1] # "none" /\ Expects(k, n))'
        BY <4>1, <4>2 DEF Expects
      <4>. QED BY <2>1, <3>1, <3>3, <4>3 DEF ContextOK
    <3>4. CASE context[n].frm # 1
      BY <2>1, <3>1, <3>2, <3>4 DEF ContextOK
    <3>. QED BY <3>3, <3>4
  <2>2. CASE context'[n].frm = 0 /\ context'[n].stk = n
    BY <2>2 DEF ContextOK
  <2>. QED BY <1>2, <2>1, <2>2
<1>. QED BY <1>1, <1>2 DEF ContextInv

LEMMA SwitchInit == Init => SwitchInv
<1>. SUFFICES ASSUME Init PROVE SwitchInv
  OBVIOUS
<1>1. ContextInv
  BY DEF Init, ContextInv, NoContext
<1>2. pc[Main][0] = "idle" /\ \A k \in Thread : pc[k][1] = "none"
  BY ThreadFacts DEF Init, Frame
<1>3. running = Main /\ current_thread = Main /\ Pointed = Main
  BY DEF Init, Pointed
<1>4. TopInv
  BY <1>2, <1>3, ThreadFacts DEF TopInv, Top, SwitchPc
<1>. QED BY <1>1, <1>2, <1>4 DEF SwitchInv, HookPcs

\* sched_yield in a thread's own frame: *thread_it is that thread.
LEMMA YieldSwitch ==
  ASSUME TypeInv, SwitchInv, NEW s \in Thread, Yield(s)
  PROVE  SwitchInv'
<1>. DEFINE it  == Wrapped(After(thread_it), runlist)
            nxt == runlist[it]
<1>1. /\ fault = "none" /\ running = s /\ pc[s][1] = "none" /\ pc[s][0] = "idle"
      /\ Top(s) = 0
  BY DEF Yield, Executes, Top
<1>2. HookPcs /\ ContextInv /\ current_thread = s /\ Pointed = s
  BY <1>1 DEF SwitchInv, TopInv, OutsidePc
<1>3. /\ thread_it' = it /\ runlist' = runlist /\ running' = running
      /\ Pointed' = nxt
      /\ \/ nxt = s /\ UNCHANGED <<current_thread, pc, next>>
         \/ /\ current_thread' = nxt
            /\ next' = [next EXCEPT ![s][0] = nxt]
            /\ pc' = [pc EXCEPT ![s][0] = "switch"]
  BY <1>2 DEF Yield, SchedYield, Pointed
<1>4. \A n \in Thread : \/ context'[n] = context[n]
                        \/ context'[n].at = "none"
                        \/ context'[n].frm = 0 /\ context'[n].stk = n
  <2>1. NoContext.at = "none" /\ Saved(s, 0, "yield").frm = 0
        /\ Saved(s, 0, "yield").stk = s
    BY DEF NoContext, Saved
  <2>. DEFINE dead == IF Reaps(After(thread_it) > Len(runlist))
                        THEN Range(threads_to_reap) ELSE {}
              kept == [t \in Thread |->
                        IF t \in dead THEN NoContext ELSE context[t]]
  <2>2. context' = kept \/ context' = [kept EXCEPT ![s] = Saved(s, 0, "yield")]
    BY <1>2 DEF Yield, SchedYield
  <2>. HIDE DEF dead
  <2>. QED BY <2>1, <2>2
<1>. HIDE DEF it, nxt
<1>5. /\ \A k \in Thread : pc'[k][1] = pc[k][1]
      /\ \A k \in Thread \ {s} : pc'[k][0] = pc[k][0] /\ next'[k][0] = next[k][0]
  <2>1. CASE UNCHANGED <<pc, next>>
    BY <2>1
  <2>2. CASE /\ next' = [next EXCEPT ![s][0] = nxt]
             /\ pc' = [pc EXCEPT ![s][0] = "switch"]
    BY <2>2, SwitchTypes, FrameRead
  <2>. QED BY <1>3, <2>1, <2>2
<1>6. HookPcs' /\ ContextInv'
  BY <1>1, <1>2, <1>4, <1>5, BaseMove
<1>7. TopInv'
  <2>1. Top(s)' = 0
    BY <1>1, <1>5 DEF Top
  <2>2. CASE nxt = s /\ UNCHANGED <<current_thread, pc, next>>
    BY <1>1, <1>2, <1>3, <2>1, <2>2 DEF TopInv, SwitchPc
  <2>3. CASE /\ current_thread' = nxt
             /\ next' = [next EXCEPT ![s][0] = nxt]
             /\ pc' = [pc EXCEPT ![s][0] = "switch"]
    <3>1. next'[s][0] = nxt /\ pc'[s][0] = "switch"
      BY <2>3, SwitchTypes, FrameRead
    <3>. QED BY <1>1, <1>3, <2>1, <2>3, <3>1 DEF TopInv, OutsidePc
  <2>. QED BY <1>3, <2>2, <2>3
<1>. QED BY <1>6, <1>7 DEF SwitchInv

\* The timer's frame on top of the interrupted one.  What it saves under the
\* name of *thread_it is the frame TopInv describes.
LEMMA HookSwitch ==
  ASSUME TypeInv, SwitchInv, NEW s \in Thread, TimerHook(s)
  PROVE  SwitchInv'
<1>. DEFINE it  == Wrapped(After(thread_it), runlist)
            nxt == runlist[it]
            old == Pointed
<1>1. fault = "none" /\ running = s /\ pc[s][1] = "none" /\ Top(s) = 0
  BY DEF TimerHook, Top
<1>2. /\ HookPcs /\ ContextInv
      /\ pc[s][0] \in OutsidePc => current_thread = s /\ old = s
      /\ pc[s][0] \in SwitchPc => next[s][0] = old
      /\ pc[s][0] = "load" => current_thread = old
  BY <1>1 DEF SwitchInv, TopInv
<1>3. thread_it' = it /\ runlist' = runlist /\ running' = s /\ Pointed' = nxt
  BY <1>1 DEF TimerHook, SchedYield, Pointed
<1>. DEFINE dead == IF Reaps(After(thread_it) > Len(runlist))
                      THEN Range(threads_to_reap) ELSE {}
            kept == [t \in Thread |->
                      IF t \in dead THEN NoContext ELSE context[t]]
            ctx  == [kept EXCEPT ![old] = Saved(s, 1, "yield")]
<1>4. NoContext.at = "none" /\ Saved(s, 1, "yield").frm = 1
      /\ Saved(s, 1, "yield").stk = s /\ Saved(s, 1, "yield").at = "yield"
  BY DEF NoContext, Saved
<1>5. CASE nxt = old
  <2>1. context' = kept /\ UNCHANGED <<current_thread, pc, next>>
    BY <1>5 DEF TimerHook, SchedYield
  <2>. HIDE DEF it, nxt, old, dead
  <2>2. \A n \in Thread : context'[n] = context[n] \/ context'[n].at = "none"
    BY <1>4, <2>1
  <2>3. HookPcs' /\ ContextInv'
    BY <1>1, <1>2, <2>1, <2>2, BaseMove
  <2>4. TopInv'
    BY <1>1, <1>2, <1>3, <1>5, <2>1 DEF TopInv, Top
  <2>. QED BY <2>3, <2>4 DEF SwitchInv
<1>6. CASE nxt # old
  <2>1. /\ context' = ctx
        /\ current_thread' = nxt
        /\ next' = [next EXCEPT ![s][1] = nxt]
        /\ pc' = [pc EXCEPT ![s][1] = "switch"]
    BY <1>6 DEF TimerHook, SchedYield
  <2>. HIDE DEF it, nxt, old, dead
  <2>2. /\ \A k \in Thread : pc'[k][0] = pc[k][0] /\ next'[k][0] = next[k][0]
        /\ \A k \in Thread \ {s} : pc'[k][1] = pc[k][1]
        /\ pc'[s][1] = "switch" /\ next'[s][1] = nxt
    BY <2>1, SwitchTypes, FrameRead
  <2>3. HookPcs'
    BY <1>2, <2>2 DEF HookPcs
  <2>4. ASSUME NEW n \in Thread, context'[n].at # "none" PROVE ContextOK(n)'
    <3>1. CASE n = old
      <4>1. context'[n] = Saved(s, 1, "yield")
        BY <2>1, <3>1
      <4>2. Expects(s, n)'
        BY <1>2, <2>2, <3>1 DEF Expects
      <4>. QED BY <1>4, <2>2, <4>1, <4>2 DEF ContextOK
    <3>2. CASE n # old
      <4>1. context'[n] = context[n]
        BY <1>4, <2>1, <2>4, <3>2
      <4>2. PICK k \in Thread : k = context[n].stk
        BY SwitchTypes DEF Context
      <4>3. ContextOK(n)
        BY <1>2, <2>4, <4>1 DEF ContextInv
      <4>4. Expects(k, n) => Expects(k, n)'
        BY <2>2 DEF Expects
      <4>5. pc[k][1] # "none" => pc'[k][1] # "none"
        BY <2>2
      <4>. QED BY <4>1, <4>2, <4>3, <4>4, <4>5 DEF ContextOK
    <3>. QED BY <3>1, <3>2
  <2>5. TopInv'
    BY <1>3, <2>1, <2>2 DEF TopInv, Top, OutsidePc
  <2>. QED BY <2>3, <2>4, <2>5 DEF SwitchInv, ContextInv
<1>. QED BY <1>5, <1>6

\* Leaving for another context: TopInv of the frame that is left gives TopInv
\* of the frame that is entered, by ContextInv.
LEMMA LoadSwitch ==
  ASSUME TypeInv, SwitchInv, NEW s \in Thread, NEW f \in Frame, Load(s, f)
  PROVE  SwitchInv'
<1>1. /\ fault = "none" /\ running = s /\ Top(s) = f /\ pc[s][f] = "load"
      /\ UNCHANGED <<thread_it, runlist, current_thread, next>>
      /\ Pointed' = Pointed
  BY DEF Load, Executes, queues, Pointed
<1>2. PICK n \in Thread : n = next[s][f]
  BY SwitchTypes
<1>3. HookPcs /\ ContextInv /\ n = Pointed /\ current_thread = n
  BY <1>1, <1>2 DEF SwitchInv, TopInv, SwitchPc
<1>4. CASE fault' = "dead context"
  <2>1. pc' = pc
    BY <1>1, <1>4 DEF Load
  <2>. QED BY <1>3, <1>4, <2>1 DEF SwitchInv, HookPcs
<1>5. CASE fault' # "dead context"
  <2>1. PICK c \in Context : c = context[n]
    BY SwitchTypes
  <2>. DEFINE k == c.stk
              back == [g \in Frame |->
                        IF g = 1 THEN "none"
                        ELSE IF c.frm = 1 THEN pc[k][0] ELSE ResumesAt(c)]
  <2>2. /\ c.at # "none"
        /\ running' = k
        /\ context' = [t \in Thread |->
             IF context[t].stk = k /\ context[t].frm >= c.frm
               THEN NoContext ELSE context[t]]
        /\ pc' = [pc EXCEPT ![k] = back]
    BY <1>2, <1>5, <2>1 DEF Load
  <2>3. k \in Thread /\ c.frm \in {0, 1}
    BY <2>1 DEF Context, Frame
  <2>4. /\ pc'[k][1] = "none"
        /\ pc'[k][0] = IF c.frm = 1 THEN pc[k][0] ELSE ResumesAt(c)
        /\ \A j \in Thread \ {k} : pc'[j] = pc[j]
    <3>1. pc'[k] = back /\ \A j \in Thread \ {k} : pc'[j] = pc[j]
      <4>. HIDE DEF back, k
      <4>. QED BY <2>2, <2>3, SwitchTypes
    <3>2. back[1] = "none" /\ back[0] = IF c.frm = 1 THEN pc[k][0] ELSE ResumesAt(c)
      BY SwitchTypes
    <3>. QED BY <3>1, <3>2
  <2>5. HookPcs'
    BY <1>3, <2>3, <2>4 DEF HookPcs
  <2>6. ContextInv'
    <3>1. ASSUME NEW m \in Thread, context'[m].at # "none" PROVE ContextOK(m)'
      <4>1. PICK j \in Thread : j = context[m].stk
        BY SwitchTypes DEF Context
      <4>2. /\ context'[m] = context[m]
            /\ ~(j = k /\ context[m].frm >= c.frm)
        <5>1. NoContext.at = "none"
          BY DEF NoContext
        <5>. HIDE DEF k
        <5>. QED BY <2>2, <3>1, <4>1, <5>1
      <4>3. ContextOK(m)
        BY <1>3, <3>1, <4>2 DEF ContextInv
      <4>4. CASE context[m].frm = 1
        <5>1. j # k
          BY <2>3, <4>2, <4>4
        <5>2. pc'[j] = pc[j] /\ next' = next
          BY <1>1, <2>4, <5>1
        <5>3. pc[j][1] # "none" /\ Expects(j, m)
          BY <4>1, <4>3, <4>4 DEF ContextOK
        <5>4. (pc[j][1] # "none" /\ Expects(j, m))'
          BY <5>2, <5>3 DEF Expects
        <5>. QED BY <4>1, <4>2, <4>4, <5>4 DEF ContextOK
      <4>5. CASE context[m].frm # 1
        BY <4>2, <4>3, <4>5 DEF ContextOK
      <4>. QED BY <4>4, <4>5
    <3>. QED BY <3>1 DEF ContextInv
  <2>7. /\ pc'[k][0] \in OutsidePc => k = n
        /\ pc'[k][0] \in SwitchPc => next[k][0] = n
    <3>1. ContextOK(n)
      BY <1>3, <2>1, <2>2 DEF ContextInv
    <3>2. CASE c.frm = 0
      <4>1. k = n
        BY <2>1, <3>1, <3>2 DEF ContextOK
      <4>2. pc'[k][0] \notin SwitchPc
        BY <2>4, <3>2 DEF ResumesAt, SwitchPc
      <4>. QED BY <4>1, <4>2
    <3>3. CASE c.frm = 1
      BY <2>1, <2>4, <3>1, <3>3 DEF ContextOK, Expects
    <3>. QED BY <2>3, <3>2, <3>3
  <2>8. TopInv'
    <3>1. Top(k)' = 0
      BY <2>4 DEF Top
    <3>. HIDE DEF k
    <3>. QED BY <1>1, <1>3, <2>2, <2>7, <3>1 DEF TopInv, SwitchPc
  <2>. QED BY <2>5, <2>6, <2>8 DEF SwitchInv
<1>. QED BY <1>4, <1>5

\* A step of the running thread's own frame, given what it leaves behind.
LEMMA OwnMove ==
  ASSUME TypeInv, SwitchInv, NEW s \in Thread, fault = "none",
         pc[s][1] = "none", running' = s,
         NEW p, NEW q \in Thread,
         pc' = [pc EXCEPT ![s][0] = p],
         next' = next \/ next' = [next EXCEPT ![s][0] = q],
         \A n \in Thread : \/ context'[n] = context[n]
                           \/ context'[n].frm = 0 /\ context'[n].stk = n,
         p \in OutsidePc => current_thread' = s /\ Pointed' = s,
         p \in SwitchPc => next'[s][0] = Pointed',
         p = "load" => current_thread' = Pointed'
  PROVE  SwitchInv'
<1>1. /\ pc'[s][0] = p
      /\ \A k \in Thread : pc'[k][1] = pc[k][1]
      /\ \A k \in Thread \ {s} : pc'[k][0] = pc[k][0]
  BY SwitchTypes, FrameRead
<1>2. \A k \in Thread \ {s} : next'[k][0] = next[k][0]
  <2>1. CASE next' = next
    BY <2>1
  <2>2. CASE next' = [next EXCEPT ![s][0] = q]
    BY <2>2, SwitchTypes, FrameRead
  <2>. QED BY <2>1, <2>2
<1>3. HookPcs' /\ ContextInv'
  BY <1>1, <1>2, BaseMove DEF SwitchInv
<1>4. Top(s)' = 0
  BY <1>1 DEF Top
<1>5. TopInv'
  BY <1>1, <1>4 DEF TopInv
<1>. QED BY <1>3, <1>5 DEF SwitchInv

\* The steps of a thread's own frame, but for sched_yield and the load.
LEMMA OwnStepSwitch ==
  ASSUME TypeInv, SwitchInv, NEW s \in Thread,
         \/ LoadId(s) \/ GiveId(s) \/ Register(s) \/ Enter(s) \/ Park(s)
         \/ Pick(s) \/ JoinReturn(s) \/ SwitchTo(s, 0)
         \/ \E u \in Thread : JoinDone(s, u) \/ JoinWait(s, u)
         \/ \E val \in Value \cup {"null"} : Exit(s, val)
  PROVE  SwitchInv'
<1>1. /\ fault = "none" /\ running = s /\ pc[s][1] = "none" /\ Top(s) = 0
      /\ running' = s
  <2>1. Executes(s, 0, pc[s][0]) /\ running' = running
    BY DEF LoadId, GiveId, Register, Enter, Park, Pick, JoinReturn, SwitchTo,
           JoinDone, JoinWait, Exit, Executes, cpu
  <2>. QED BY <2>1 DEF Executes, Top
<1>2. /\ HookPcs /\ ContextInv
      /\ pc[s][0] \in OutsidePc => current_thread = s /\ Pointed = s
      /\ pc[s][0] \in SwitchPc => next[s][0] = Pointed
      /\ thread_it \in 1 .. Len(runlist)
  BY <1>1 DEF SwitchInv, TopInv, TypeInv, ItInList
<1>. DEFINE Within(p) == p \notin OutsidePc \cup SwitchPc /\ p # "load"
<1>0. Within("picking") /\ Within("parking") /\ "switch" \notin OutsidePc
  BY DEF OutsidePc, SwitchPc
<1>3. CASE LoadId(s) \/ GiveId(s) \/ Enter(s)
  <2>1. pc[s][0] \in OutsidePc
    BY <1>3 DEF LoadId, GiveId, Enter, Executes, OutsidePc
  <2>2. UNCHANGED <<context, next, current_thread, runlist, thread_it>>
    BY <1>3 DEF LoadId, GiveId, Enter, cpu, queues
  <2>3. Pointed' = Pointed
    BY <2>2 DEF Pointed
  <2>4. PICK p \in {"counting", "creating", "idle"} :
          pc' = [pc EXCEPT ![s][0] = p]
    BY <1>3 DEF LoadId, GiveId, Enter
  <2>. QED BY <1>1, <1>2, <2>1, <2>2, <2>3, <2>4, OwnMove DEF SwitchPc
<1>4. CASE Register(s)
  <2>1. pc[s][0] \in OutsidePc /\ arg[s] \in Thread
    BY <1>4 DEF Register, Executes, OutsidePc, TypeInv, TypeOK
  <2>2. /\ UNCHANGED <<next, current_thread, thread_it>>
        /\ runlist' = Append(runlist, arg[s])
        /\ pc' = [pc EXCEPT ![s][0] = "idle"]
        /\ context' = [context EXCEPT ![arg[s]] = Saved(arg[s], 0, "entry")]
    BY <1>4 DEF Register
  <2>3. Pointed' = Pointed
    <3>1. runlist \in Seq(Thread)
      BY DEF TypeInv, TypeOK
    <3>. QED BY <1>2, <2>1, <2>2, <3>1 DEF Pointed
  <2>4. \A n \in Thread : \/ context'[n] = context[n]
                          \/ context'[n].frm = 0 /\ context'[n].stk = n
    BY <2>1, <2>2, SwitchTypes DEF Saved
  <2>. QED BY <1>1, <1>2, <2>1, <2>2, <2>3, <2>4, OwnMove DEF SwitchPc
<1>5. CASE Park(s)
  <2>1. /\ next' = next /\ pc' = [pc EXCEPT ![s][0] = "picking"]
        /\ context' = [context EXCEPT ![s] = Saved(s, 0, "join")]
    BY <1>5 DEF Park
  <2>2. \A n \in Thread : \/ context'[n] = context[n]
                          \/ context'[n].frm = 0 /\ context'[n].stk = n
    BY <2>1, SwitchTypes DEF Saved
  <2>. QED BY <1>1, <1>0, <2>1, <2>2, OwnMove
<1>6. CASE Pick(s)
  <2>1. /\ next' = [next EXCEPT ![s][0] = Pointed]
        /\ pc' = [pc EXCEPT ![s][0] = "switch"]
        /\ context' = context /\ Pointed' = Pointed
    BY <1>6 DEF Pick, cpu, queues, Pointed
  <2>2. Pointed \in Thread
    <3>1. runlist \in Seq(Thread)
      BY DEF TypeInv, TypeOK
    <3>. QED BY <1>2, <3>1 DEF Pointed
  <2>3. next'[s][0] = Pointed
    BY <2>1, SwitchTypes, FrameRead
  <2>4. PICK p, q \in Thread \cup {"switch"} : p = "switch" /\ q = Pointed
    BY <2>2
  <2>5. /\ q \in Thread /\ pc' = [pc EXCEPT ![s][0] = p]
        /\ next' = [next EXCEPT ![s][0] = q]
        /\ p \notin OutsidePc /\ p # "load" /\ next'[s][0] = Pointed'
        /\ \A n \in Thread : context'[n] = context[n]
    BY <1>0, <2>1, <2>2, <2>3, <2>4
  <2>. HIDE DEF Within
  <2>. QED BY <1>1, <2>5, OwnMove
<1>7. CASE JoinReturn(s)
  <2>1. /\ next' = next /\ pc' = [pc EXCEPT ![s][0] = "idle"]
        /\ context' = context /\ Pointed' = Pointed /\ current_thread' = s
        /\ pc[s][0] \in OutsidePc
    BY <1>7 DEF JoinReturn, Executes, queues, Pointed, OutsidePc
  <2>. QED BY <1>1, <1>2, <2>1, OwnMove DEF SwitchPc
<1>8. CASE SwitchTo(s, 0)
  <2>1. /\ next' = next /\ pc' = [pc EXCEPT ![s][0] = "load"]
        /\ context' = context /\ Pointed' = Pointed
        /\ current_thread' = next[s][0] /\ pc[s][0] \in SwitchPc
    BY <1>8 DEF SwitchTo, Executes, queues, Pointed, SwitchPc
  <2>. QED BY <1>1, <1>2, <2>1, OwnMove DEF OutsidePc
<1>9. ASSUME NEW u \in Thread, JoinDone(s, u) PROVE SwitchInv'
  <2>1. UNCHANGED <<context, next, current_thread, runlist, thread_it, pc>>
    BY <1>9 DEF JoinDone, cpu, queues
  <2>2. Pointed' = Pointed /\ Top(s)' = Top(s)
    BY <2>1 DEF Pointed, Top
  <2>3. HookPcs' /\ ContextInv'
    BY <1>1, <1>2, <2>1, BaseMove
  <2>. QED BY <1>1, <1>2, <2>1, <2>2, <2>3 DEF SwitchInv, TopInv
<1>10. ASSUME NEW u \in Thread, JoinWait(s, u) PROVE SwitchInv'
  <2>1. context' = context /\ next' = next
    BY <1>10 DEF JoinWait, cpu
  <2>2. CASE fault' = "none"
    <3>1. pc' = [pc EXCEPT ![s][0] = "parking"]
      BY <1>10, <2>2 DEF JoinWait
    <3>2. \A n \in Thread : context'[n] = context[n]
      BY <2>1
    <3>. QED BY <1>1, <1>0, <2>1, <3>1, <3>2, OwnMove
  <2>3. CASE fault' # "none"
    <3>1. pc' = pc
      BY <1>1, <1>10, <2>3 DEF JoinWait
    <3>. QED BY <1>2, <2>3, <3>1 DEF SwitchInv, HookPcs
  <2>. QED BY <2>2, <2>3
<1>11. ASSUME NEW val \in Value \cup {"null"}, Exit(s, val) PROVE SwitchInv'
  <2>. DEFINE list == WithWoken(current_thread)
              rest == RemoveAt(list, thread_it)
              it   == Wrapped(thread_it, rest)
  <2>1. context' = context /\ Pointed' = rest[it]
    BY <1>11 DEF Exit, cpu, Pointed
  <2>2. CASE fault' = "none"
    <3>1. /\ next' = [next EXCEPT ![s][0] = rest[it]]
          /\ pc' = [pc EXCEPT ![s][0] = "switch"]
      BY <1>11, <2>2 DEF Exit
    <3>2. rest[it] \in Thread
      <4>1. TypeInv'
        BY <1>11, ExitType
      <4>2. Pointed' \in Thread
        <5>1. runlist' \in Seq(Thread) /\ thread_it' \in 1 .. Len(runlist')
          BY <2>2, <4>1 DEF TypeInv, TypeOK, ItInList
        <5>. QED BY <5>1 DEF Pointed
      <4>. QED BY <2>1, <4>2
    <3>. HIDE DEF rest, it
    <3>3. next'[s][0] = rest[it]
      BY <3>1, SwitchTypes, FrameRead
    <3>. QED BY <1>1, <2>1, <3>1, <3>2, <3>3, OwnMove DEF OutsidePc
  <2>3. CASE fault' # "none"
    <3>1. pc' = pc
      BY <1>1, <1>11, <2>3 DEF Exit
    <3>. QED BY <1>2, <2>3, <3>1 DEF SwitchInv, HookPcs
  <2>. QED BY <2>2, <2>3
<1>. QED BY <1>3, <1>4, <1>5, <1>6, <1>7, <1>8, <1>9, <1>10, <1>11

\* The hook's frame on its way to the thread it picked.
LEMMA HookSwitchTo ==
  ASSUME TypeInv, SwitchInv, NEW s \in Thread, SwitchTo(s, 1)
  PROVE  SwitchInv'
<1>1. /\ fault = "none" /\ running = s /\ running' = s /\ Top(s) = 1
      /\ pc[s][1] = "switch" /\ pc' = [pc EXCEPT ![s][1] = "load"]
      /\ UNCHANGED <<context, next, runlist, thread_it>>
      /\ current_thread' = next[s][1] /\ Pointed' = Pointed
  BY DEF SwitchTo, Executes, queues, Pointed
<1>2. HookPcs /\ ContextInv /\ next[s][1] = Pointed
  BY <1>1 DEF SwitchInv, TopInv, SwitchPc
<1>3. /\ \A k \in Thread : pc'[k][0] = pc[k][0]
      /\ \A k \in Thread \ {s} : pc'[k][1] = pc[k][1]
      /\ pc'[s][1] = "load"
  BY <1>1, SwitchTypes, FrameRead
<1>4. HookPcs'
  BY <1>2, <1>3 DEF HookPcs
<1>5. ASSUME NEW n \in Thread, context'[n].at # "none" PROVE ContextOK(n)'
  <2>1. PICK k \in Thread : k = context[n].stk
    BY SwitchTypes DEF Context
  <2>2. ContextOK(n)
    BY <1>1, <1>2, <1>5 DEF ContextInv
  <2>3. pc[k][1] # "none" /\ Expects(k, n) => (pc[k][1] # "none" /\ Expects(k, n))'
    BY <1>1, <1>3 DEF Expects
  <2>. QED BY <1>1, <2>1, <2>2, <2>3 DEF ContextOK
<1>6. TopInv'
  BY <1>1, <1>2, <1>3 DEF TopInv, Top, OutsidePc
<1>. QED BY <1>4, <1>5, <1>6 DEF SwitchInv, ContextInv

LEMMA SwitchStep == TypeInv /\ SwitchInv /\ [Next]_vars => SwitchInv'
<1>. SUFFICES ASSUME TypeInv, SwitchInv, [Next]_vars PROVE SwitchInv'
  OBVIOUS
<1>1. CASE UNCHANGED vars
  BY <1>1 DEF SwitchInv, HookPcs, ContextInv, ContextOK, Expects, TopInv, Top,
              Pointed, vars, queues, cpu, locals
<1>2. ASSUME NEW s \in Thread, Step(s) PROVE SwitchInv'
  <2>1. CASE Yield(s)
    BY <2>1, YieldSwitch
  <2>2. CASE TimerHook(s)
    BY <2>2, HookSwitch
  <2>3. ASSUME NEW f \in Frame, SwitchTo(s, f) \/ Load(s, f) PROVE SwitchInv'
    BY <2>3, OwnStepSwitch, HookSwitchTo, LoadSwitch DEF Frame
  <2>4. CASE StoreId(s)
    <3>1. StopId(s) => SwitchInv'
      BY DEF StopId, SwitchInv, HookPcs, locals
    <3>. QED BY <2>4, <3>1, StoreCases, OwnStepSwitch
  <2>. QED BY <1>2, <2>1, <2>2, <2>3, <2>4, OwnStepSwitch DEF Step, Switch
<1>. QED BY <1>1, <1>2 DEF Next

\* Whatever the timer interrupts, a thread that is outside the scheduler is
\* current_thread and *thread_it: thread_exit and thread_join take the right
\* thread off the run list.
THEOREM CurrentIsRunningAlways == Spec => []CurrentIsRunning
<1>1. TypeInv /\ SwitchInv => CurrentIsRunning
  BY DEF TypeInv, ItInList, SwitchInv, TopInv, CurrentIsRunning, Outside,
         OutsidePc, Pointed, TypeOK
<1>. QED BY <1>1, TypeInit, TypeStep, SwitchInit, SwitchStep, PTL DEF Spec
-----------------------------------------------------------------------------
Distinct(q) == \A i, j \in DOMAIN q : q[i] = q[j] => i = j

\* Erasing through an iterator takes out that element and no other.
LEMMA RemoveAtDistinct ==
  ASSUME NEW S, NEW q \in Seq(S), NEW i \in 1 .. Len(q), Distinct(q)
  PROVE  /\ Distinct(RemoveAt(q, i))
         /\ Range(RemoveAt(q, i)) = Range(q) \ {q[i]}
<1>. DEFINE front == SubSeq(q, 1, i - 1)
            back  == SubSeq(q, i + 1, Len(q))
            rest  == RemoveAt(q, i)
            n     == Len(q)
<1>1. n \in Nat /\ i \in Nat /\ 1 <= i /\ i <= n /\ DOMAIN q = 1 .. n
  OBVIOUS
<1>2. front \in Seq(S) /\ Len(front) = i - 1 /\ \A j \in 1 .. i - 1 : front[j] = q[j]
  <2>1. \A j \in 1 .. i - 1 : q[j] \in S
    BY <1>1
  <2>2. /\ front \in Seq(S)
        /\ Len(front) = IF 1 <= i - 1 THEN i - 1 - 1 + 1 ELSE 0
        /\ \A j \in 1 .. i - 1 - 1 + 1 : front[j] = q[1 + j - 1]
    BY <1>1, <2>1, SubSeqProperties
  <2>. HIDE DEF front
  <2>3. Len(front) = i - 1
    BY <1>1, <2>2
  <2>4. ASSUME NEW j \in 1 .. i - 1 PROVE front[j] = q[j]
    <3>1. j \in 1 .. i - 1 - 1 + 1 /\ 1 + j - 1 = j
      BY <1>1
    <3>. QED BY <2>2, <3>1
  <2>. QED BY <2>2, <2>3, <2>4
<1>3. back \in Seq(S) /\ Len(back) = n - i /\ \A j \in 1 .. n - i : back[j] = q[i + j]
  <2>1. \A j \in i + 1 .. n : q[j] \in S
    BY <1>1
  <2>2. /\ back \in Seq(S)
        /\ Len(back) = IF i + 1 <= n THEN n - (i + 1) + 1 ELSE 0
        /\ \A j \in 1 .. n - (i + 1) + 1 : back[j] = q[i + 1 + j - 1]
    BY <1>1, <2>1, SubSeqProperties
  <2>. HIDE DEF back, n
  <2>3. Len(back) = n - i
    BY <1>1, <2>2
  <2>4. ASSUME NEW j \in 1 .. n - i PROVE back[j] = q[i + j]
    <3>1. j \in 1 .. n - (i + 1) + 1 /\ i + 1 + j - 1 = i + j
      BY <1>1
    <3>. QED BY <2>2, <3>1
  <2>. QED BY <2>2, <2>3, <2>4
<1>4. rest = front \o back
  BY DEF RemoveAt
<1>. HIDE DEF front, back, rest, n
<1>5. /\ DOMAIN rest = 1 .. n - 1
      /\ \A j \in 1 .. n - 1 : rest[j] = IF j < i THEN q[j] ELSE q[j + 1]
  <2>0. /\ rest \in Seq(S) /\ Len(rest) = Len(front) + Len(back)
        /\ \A j \in 1 .. Len(front) + Len(back) :
             rest[j] = IF j <= Len(front) THEN front[j] ELSE back[j - Len(front)]
    <3>1. front \in Seq(S) /\ back \in Seq(S)
      BY <1>2, <1>3
    <3>. QED BY <1>4, <3>1, ConcatProperties
  <2>1. /\ rest \in Seq(S) /\ Len(rest) = n - 1
        /\ \A j \in 1 .. n - 1 : rest[j] = IF j <= i - 1 THEN front[j] ELSE back[j - (i - 1)]
    <3>1. Len(front) = i - 1 /\ Len(back) = n - i /\ Len(front) + Len(back) = n - 1
      BY <1>1, <1>2, <1>3
    <3>. QED BY <2>0, <3>1
  <2>2. ASSUME NEW j \in 1 .. n - 1, j >= i PROVE rest[j] = q[j + 1]
    <3>1. j - (i - 1) \in 1 .. n - i /\ i + (j - (i - 1)) = j + 1
      BY <1>1, <2>2
    <3>2. rest[j] = back[j - (i - 1)]
      BY <1>1, <2>1, <2>2
    <3>. QED BY <1>3, <3>1, <3>2
  <2>. QED BY <1>1, <1>2, <2>1, <2>2
<1>6. Distinct(rest)
  <2>. SUFFICES ASSUME NEW j \in 1 .. n - 1, NEW k \in 1 .. n - 1, rest[j] = rest[k]
                PROVE  j = k
    BY <1>5 DEF Distinct
  <2>. DEFINE Up(x) == IF x < i THEN x ELSE x + 1
  <2>1. Up(j) \in 1 .. n /\ Up(k) \in 1 .. n
    BY <1>1
  <2>2. q[Up(j)] = q[Up(k)]
    BY <1>5
  <2>3. Up(j) = Up(k)
    <3>. HIDE DEF Up
    <3>. QED BY <1>1, <2>1, <2>2 DEF Distinct
  <2>. QED BY <1>1, <2>3
<1>7. Range(rest) \subseteq Range(q) \ {q[i]}
  <2>. SUFFICES ASSUME NEW j \in 1 .. n - 1
                PROVE  rest[j] \in Range(q) /\ rest[j] # q[i]
    BY <1>5 DEF Range
  <2>1. PICK m \in 1 .. n : m # i /\ rest[j] = q[m]
    <3>1. CASE j < i
      BY <1>1, <1>5, <3>1
    <3>2. CASE ~(j < i)
      <4>1. j + 1 \in 1 .. n /\ j + 1 # i
        BY <1>1, <3>2
      <4>. QED BY <1>5, <3>2, <4>1
    <3>. QED BY <3>1, <3>2
  <2>. QED BY <1>1, <2>1 DEF Distinct, Range
<1>8. Range(q) \ {q[i]} \subseteq Range(rest)
  <2>. SUFFICES ASSUME NEW m \in 1 .. n, m # i
                PROVE  \E j \in 1 .. n - 1 : rest[j] = q[m]
    BY <1>1, <1>5 DEF Range
  <2>1. CASE m < i
    <3>1. m \in 1 .. n - 1
      BY <1>1, <2>1
    <3>. QED BY <1>5, <2>1, <3>1
  <2>2. CASE ~(m < i)
    <3>1. m - 1 \in 1 .. n - 1 /\ ~(m - 1 < i) /\ (m - 1) + 1 = m
      BY <1>1, <2>2
    <3>. QED BY <1>5, <3>1
  <2>. QED BY <2>1, <2>2
<1>. QED BY <1>6, <1>7, <1>8 DEF rest

\* Pushing a queue behind another that shares no element with it.
LEMMA ConcatDistinct ==
  ASSUME NEW S, NEW p \in Seq(S), NEW q \in Seq(S), Distinct(p), Distinct(q),
         Range(p) \cap Range(q) = {}
  PROVE  /\ p \o q \in Seq(S)
         /\ Distinct(p \o q) /\ Range(p \o q) = Range(p) \cup Range(q)
         /\ Len(p \o q) = Len(p) + Len(q)
         /\ \A i \in 1 .. Len(p) : (p \o q)[i] = p[i]
<1>1. /\ p \o q \in Seq(S)
      /\ Len(p \o q) = Len(p) + Len(q)
      /\ \A i \in 1 .. Len(p) + Len(q) :
           (p \o q)[i] = IF i <= Len(p) THEN p[i] ELSE q[i - Len(p)]
  BY ConcatProperties
<1>2. Len(p) \in Nat /\ Len(q) \in Nat
  OBVIOUS
<1>3. PICK r, m, n : r = p \o q /\ m = Len(p) /\ n = Len(q)
  OBVIOUS
<1>4. /\ DOMAIN r = 1 .. m + n /\ DOMAIN p = 1 .. m /\ DOMAIN q = 1 .. n
      /\ m \in Nat /\ n \in Nat
      /\ \A i \in 1 .. m + n : r[i] = IF i <= m THEN p[i] ELSE q[i - m]
  BY <1>1, <1>2, <1>3
<1>5. Distinct(r)
  <2>. SUFFICES ASSUME NEW i \in 1 .. m + n, NEW j \in 1 .. m + n, r[i] = r[j], i <= j
                PROVE  i = j
    BY <1>4 DEF Distinct
  <2>1. CASE j <= m
    BY <1>4, <2>1 DEF Distinct
  <2>2. CASE i > m
    <3>1. i - m \in 1 .. n /\ j - m \in 1 .. n /\ q[i - m] = q[j - m]
      BY <1>4, <2>2
    <3>2. i - m = j - m
      BY <1>4, <3>1 DEF Distinct
    <3>. QED BY <1>4, <3>2
  <2>3. CASE i <= m /\ j > m
    <3>1. i \in 1 .. m /\ j - m \in 1 .. n /\ p[i] = q[j - m]
      BY <1>4, <2>3
    <3>2. p[i] \in Range(p) /\ q[j - m] \in Range(q)
      BY <1>4, <3>1 DEF Range
    <3>. QED BY <3>1, <3>2
  <2>. QED BY <1>4, <2>1, <2>2, <2>3
<1>6. Range(r) = Range(p) \cup Range(q)
  BY <1>3, RangeConcatenation
<1>7. \A i \in 1 .. m : r[i] = p[i]
  BY <1>4
<1>. QED BY <1>1, <1>3, <1>5, <1>6, <1>7

LEMMA AppendDistinct ==
  ASSUME NEW S, NEW q \in Seq(S), NEW e \in S, Distinct(q), e \notin Range(q)
  PROVE  /\ Distinct(Append(q, e)) /\ Range(Append(q, e)) = Range(q) \cup {e}
<1>0. <<e>> \in Seq(S)
  OBVIOUS
<1>1. PICK one \in Seq(S) : one = <<e>>
  BY <1>0
<1>2. Distinct(one) /\ Range(one) = {e}
  BY <1>1 DEF Distinct, Range
<1>3. Append(q, e) = q \o one
  BY <1>1, AppendIsConcat
<1>4. Range(q) \cap Range(one) = {}
  BY <1>2
<1>5. Distinct(q \o one) /\ Range(q \o one) = Range(q) \cup Range(one)
  BY <1>2, <1>4, ConcatDistinct
<1>. QED BY <1>2, <1>3, <1>5

-----------------------------------------------------------------------------
\* t sleeps on the wait list of u.
Joins(t, u) == t \in Range(wait_list[u])

QueuesInv ==
  /\ Distinct(runlist)
  /\ \A u \in Thread : Distinct(wait_list[u])
  /\ \A t, u, w \in Thread : Joins(t, u) /\ Joins(t, w) => u = w

PlaceInv ==
  /\ \A t \in Thread : OnWaitList(t) <=> t \in waiting_threads
  /\ Range(runlist) \subseteq thread_map
  /\ waiting_threads \subseteq thread_map
  /\ \A t \in thread_map :
       /\ t \in Range(runlist) <=> ~Dead(t) /\ ~OnWaitList(t)
       /\ ~(Dead(t) /\ OnWaitList(t))

\* Joiners wait for younger threads, and nobody waits for a dead one.
WaitInv ==
  \A t, u \in Thread : Joins(t, u) => t < u /\ u \in thread_map /\ ~Dead(u)

DeadInv ==
  /\ \A t \in Thread : Dead(t) => t \in thread_map
  /\ \A t \in freed : Dead(t)
  /\ Distinct(threads_to_reap)
  /\ \A t \in Range(threads_to_reap) : Dead(t) /\ t \notin freed

\* An id between get_inc_tid and register_thread_current is one thread's only.
Making(s) == pc[s][0] = "creating"
IdInv ==
  /\ Main \in thread_map
  /\ \A t \in thread_map : t < tid_counter
  /\ \A s \in Thread : Making(s) => arg[s] < tid_counter /\ arg[s] \notin thread_map
  /\ \A s, k \in Thread : Making(s) /\ Making(k) /\ arg[s] = arg[k] => s = k

QueueInv == QueuesInv /\ PlaceInv /\ WaitInv /\ DeadInv /\ IdInv

-----------------------------------------------------------------------------
LEMMA QueueTypes ==
  ASSUME TypeInv
  PROVE  /\ runlist \in Seq(Thread) /\ threads_to_reap \in Seq(Thread)
         /\ wait_list \in [Thread -> Seq(Thread)]
         /\ waiting_threads \subseteq Thread /\ thread_map \subseteq Thread
         /\ freed \subseteq Thread
         /\ status \in [Thread -> Status] /\ arg \in [Thread -> Thread]
         /\ tid_counter \in Nat
<1>1. tid_counter \in 0 .. MaxThread
  BY DEF TypeInv, TypeOK
<1>2. tid_counter \in Nat
  BY <1>1, MaxThreadAssumption
<1>. QED BY <1>2 DEF TypeInv, TypeOK

LEMMA RangeIn ==
  ASSUME TypeInv
  PROVE  /\ Range(runlist) \subseteq Thread
         /\ \A u \in Thread : Range(wait_list[u]) \subseteq Thread
<1>1. ASSUME NEW q \in Seq(Thread) PROVE Range(q) \subseteq Thread
  BY DEF Range
<1>. QED BY <1>1, QueueTypes

\* A thread that executes its own code is on the run list under the iterator.
LEMMA OnList ==
  ASSUME TypeInv, SwitchInv, NEW s \in Thread, NEW p \in OutsidePc,
         Executes(s, 0, p)
  PROVE  /\ fault = "none" /\ running = s /\ pc[s][1] = "none" /\ pc[s][0] = p
         /\ current_thread = s /\ Pointed = s
         /\ thread_it \in 1 .. Len(runlist) /\ runlist[thread_it] = s
         /\ s \in Range(runlist)
<1>1. fault = "none" /\ running = s /\ Top(s) = 0 /\ pc[s][0] = p /\ pc[s][1] = "none"
  BY DEF Executes, Top
<1>2. current_thread = s /\ Pointed = s /\ thread_it \in 1 .. Len(runlist)
  BY <1>1 DEF SwitchInv, TopInv, TypeInv, ItInList
<1>3. s \in Range(runlist)
  BY <1>2, QueueTypes DEF Pointed, Range
<1>. QED BY <1>1, <1>2, <1>3 DEF Pointed

LEMMA LeastNat ==
  ASSUME NEW S \in SUBSET Nat, S # {}
  PROVE  \E x \in S : \A y \in S : x <= y
<1>. DEFINE R == OpToRel(<, Nat)
<1>1. PICK x \in S : \A y \in S : <<y, x>> \notin R
  <2>1. IsWellFoundedOn(R, Nat)
    BY NatLessThanWellFounded
  <2>. HIDE DEF R
  <2>. QED BY <2>1, WFMin
<1>2. ASSUME NEW y \in S PROVE x <= y
  <2>1. ~(y < x)
    BY <1>1 DEF OpToRel
  <2>. QED BY <2>1
<1>. QED BY <1>2

LEMMA GreatestIn ==
  ASSUME NEW W \in SUBSET Thread, W # {}
  PROVE  \E m \in W : \A t \in W : t <= m
<1>. DEFINE V == {MaxThread - t : t \in W}
<1>1. MaxThread \in Nat /\ \A t \in W : t \in Nat /\ MaxThread - t \in Nat
  <2>1. \A t \in W : t \in 0 .. MaxThread - 1
    BY DEF Thread
  <2>. QED BY <2>1, MaxThreadAssumption
<1>2. V \in SUBSET Nat /\ V # {}
  BY <1>1
<1>3. PICK n \in V : \A k \in V : n <= k
  <2>. HIDE DEF V
  <2>. QED BY <1>2, LeastNat
<1>4. PICK m \in W : n = MaxThread - m
  OBVIOUS
<1>5. ASSUME NEW t \in W PROVE t <= m
  <2>1. MaxThread - t \in V
    OBVIOUS
  <2>2. MaxThread - m <= MaxThread - t
    BY <1>3, <1>4, <2>1
  <2>. QED BY <1>1, <2>2
<1>. QED BY <1>5

\* Whoever is alive runs, or the chain of threads it waits for ends at a
\* younger one that does: not everybody waits.
LEMMA SomebodyRuns ==
  ASSUME TypeInv, QueueInv, NEW u \in thread_map, ~Dead(u)
  PROVE  \E w \in Range(runlist) : w = u \/ (w > u /\ wait_list[w] # <<>>)
<1>. DEFINE W == {t \in waiting_threads : t >= u}
<1>0. u \in Thread
  BY QueueTypes
<1>1. CASE ~OnWaitList(u)
  BY <1>1 DEF QueueInv, PlaceInv
<1>2. CASE OnWaitList(u)
  <2>1. u \in W
    BY <1>0, <1>2, ThreadFacts DEF QueueInv, PlaceInv
  <2>2. W \in SUBSET Thread
    BY QueueTypes
  <2>3. PICK m \in W : \A t \in W : t <= m
    <3>. HIDE DEF W
    <3>. QED BY <2>1, <2>2, GreatestIn
  <2>4. m \in Thread /\ m \in waiting_threads /\ m >= u
    BY <2>2
  <2>5. PICK w \in Thread : Joins(m, w)
    BY <2>4 DEF QueueInv, PlaceInv, OnWaitList, Joins
  <2>6. m < w /\ w \in thread_map /\ ~Dead(w)
    BY <2>4, <2>5 DEF QueueInv, WaitInv
  <2>7. w > u /\ ~(w <= m)
    BY <1>0, <2>4, <2>6, ThreadFacts
  <2>8. ~OnWaitList(w)
    <3>1. w \notin W
      BY <2>3, <2>7
    <3>2. w \notin waiting_threads
      BY <1>0, <2>7, <3>1, ThreadFacts
    <3>. QED BY <3>2 DEF QueueInv, PlaceInv
  <2>9. w \in Range(runlist)
    BY <2>6, <2>8 DEF QueueInv, PlaceInv
  <2>10. wait_list[w] # <<>>
    <3>1. wait_list[w] = <<>> => Range(wait_list[w]) = {}
      BY DEF Range
    <3>. QED BY <2>5, <3>1 DEF Joins
  <2>. QED BY <2>7, <2>9, <2>10
<1>. QED BY <1>1, <1>2

-----------------------------------------------------------------------------
\* Steps that leave the queues alone, and those that leave the ids alone.
LEMMA PlacesStill ==
  ASSUME QueueInv,
         UNCHANGED <<runlist, wait_list, waiting_threads, thread_map, freed,
                     threads_to_reap>>,
         freed \subseteq Thread, Range(threads_to_reap) \subseteq Thread,
         thread_map \subseteq Thread,
         \A t \in Thread : Dead(t)' <=> Dead(t)
  PROVE  (QueuesInv /\ PlaceInv /\ WaitInv /\ DeadInv)'
<1>1. \A t, u \in Thread : Joins(t, u)' <=> Joins(t, u)
  BY DEF Joins
<1>2. \A t \in Thread : OnWaitList(t)' <=> OnWaitList(t)
  BY DEF OnWaitList
<1>3. QueuesInv'
  BY <1>1 DEF QueueInv, QueuesInv, Distinct
<1>4. PlaceInv'
  BY <1>2 DEF QueueInv, PlaceInv
<1>5. WaitInv'
  BY <1>1 DEF QueueInv, WaitInv
<1>6. DeadInv'
  BY DEF QueueInv, DeadInv, Distinct
<1>. QED BY <1>3, <1>4, <1>5, <1>6

LEMMA IdsStill ==
  ASSUME TypeInv, IdInv, UNCHANGED <<thread_map, tid_counter>>,
         \A k \in Thread : Making(k)' => Making(k) /\ arg'[k] = arg[k]
  PROVE  IdInv'
BY DEF IdInv

LEMMA DeadStill ==
  ASSUME status' = status
  PROVE  \A t \in Thread : Dead(t)' <=> Dead(t)
BY DEF Dead

LEMMA QueueInit == Init => QueueInv
<1>. SUFFICES ASSUME Init PROVE QueueInv
  OBVIOUS
<1>1. /\ runlist = <<Main>> /\ thread_map = {Main} /\ waiting_threads = {}
      /\ threads_to_reap = <<>> /\ freed = {} /\ tid_counter = 1
      /\ \A t \in Thread : wait_list[t] = <<>>
  BY DEF Init
<1>2. \A t \in Thread : ~Making(t)
  BY DEF Init, Making, Frame
<1>3. \A t \in Thread : ~Dead(t)
  BY DEF Init, Dead
<1>4. \A t, u \in Thread : ~Joins(t, u) /\ ~OnWaitList(t)
  BY <1>1 DEF Joins, OnWaitList, Range
<1>5. QueuesInv
  BY <1>1, <1>4 DEF QueuesInv, Distinct
<1>6. PlaceInv
  BY <1>1, <1>3, <1>4, ThreadFacts DEF PlaceInv, Range
<1>7. WaitInv /\ IdInv
  BY <1>1, <1>2, <1>4 DEF WaitInv, IdInv, Main
<1>8. DeadInv
  BY <1>1, <1>3 DEF DeadInv, Distinct, Range
<1>. QED BY <1>5, <1>6, <1>7, <1>8 DEF QueueInv

-----------------------------------------------------------------------------
\* register_thread_current: the new thread is on no queue yet.
LEMMA RegisterQueue ==
  ASSUME TypeInv, QueueInv, NEW s \in Thread, Register(s)
  PROVE  QueueInv' /\ \A t \in Thread : Dead(t)' <=> Dead(t)
<1>1. PICK n \in Thread : n = arg[s]
  BY QueueTypes
<1>2. /\ thread_map' = thread_map \cup {n}
      /\ status' = [status EXCEPT ![n] = "RUNNING"]
      /\ runlist' = Append(runlist, n)
      /\ pc' = [pc EXCEPT ![s][0] = "idle"]
      /\ UNCHANGED <<waiting_threads, wait_list, threads_to_reap, freed,
                     tid_counter, arg>>
      /\ Making(s)
  BY <1>1 DEF Register, Executes, Making
<1>3. n \notin thread_map /\ n < tid_counter
  BY <1>1, <1>2 DEF QueueInv, IdInv
<1>4. n \notin Range(runlist) /\ ~OnWaitList(n) /\ ~Dead(n) /\ n # Main
  BY <1>3 DEF QueueInv, PlaceInv, DeadInv, IdInv
<1>5. Distinct(runlist') /\ Range(runlist') = Range(runlist) \cup {n}
  BY <1>2, <1>4, QueueTypes, AppendDistinct DEF QueueInv, QueuesInv
<1>6. \A t \in Thread : Dead(t)' <=> Dead(t)
  BY <1>2, <1>4, QueueTypes DEF Dead
<1>7. /\ \A t, u \in Thread : Joins(t, u)' <=> Joins(t, u)
      /\ \A t \in Thread : OnWaitList(t)' <=> OnWaitList(t)
  BY <1>2 DEF Joins, OnWaitList
<1>8. QueuesInv'
  BY <1>2, <1>5, <1>7 DEF QueueInv, QueuesInv
<1>9. PlaceInv'
  BY <1>2, <1>3, <1>4, <1>5, <1>6, <1>7, QueueTypes DEF QueueInv, PlaceInv
<1>10. WaitInv'
  BY <1>2, <1>6, <1>7 DEF QueueInv, WaitInv
<1>11. DeadInv'
  <2>1. freed \subseteq Thread /\ Range(threads_to_reap) \subseteq Thread
    BY QueueTypes DEF Range
  <2>. QED BY <1>2, <1>6, <2>1 DEF QueueInv, DeadInv, Distinct
<1>12. IdInv'
  <2>1. \A k \in Thread : Making(k)' <=> Making(k) /\ k # s
    BY <1>2, SwitchTypes, FrameRead DEF Making
  <2>. QED BY <1>1, <1>2, <1>3, <2>1 DEF QueueInv, IdInv
<1>. QED BY <1>6, <1>8, <1>9, <1>10, <1>11, <1>12 DEF QueueInv

\* sched_yield frees what was queued for the reaper, or leaves it queued.
LEMMA YieldQueue ==
  ASSUME TypeInv, QueueInv, NEW s \in Thread, NEW f \in Frame, SchedYield(s, f)
  PROVE  QueueInv'
<1>1. /\ UNCHANGED <<runlist, waiting_threads, wait_list, thread_map, status,
                     tid_counter, arg>>
      /\ pc' = pc \/ pc' = [pc EXCEPT ![s][f] = "switch"]
  BY DEF SchedYield, records
<1>2. \/ /\ freed' = freed \cup Range(threads_to_reap)
         /\ threads_to_reap' = <<>>
      \/ freed' = freed /\ threads_to_reap' = threads_to_reap
  BY DEF SchedYield, Unreaped
<1>3. \A t \in Thread : Dead(t)' <=> Dead(t)
  BY <1>1, DeadStill
<1>4. /\ \A t, u \in Thread : Joins(t, u)' <=> Joins(t, u)
      /\ \A t \in Thread : OnWaitList(t)' <=> OnWaitList(t)
  BY <1>1 DEF Joins, OnWaitList
<1>5. QueuesInv'
  BY <1>1, <1>4 DEF QueueInv, QueuesInv
<1>6. PlaceInv'
  BY <1>1, <1>3, <1>4, QueueTypes DEF QueueInv, PlaceInv
<1>7. WaitInv'
  BY <1>1, <1>3, <1>4 DEF QueueInv, WaitInv
<1>8. DeadInv'
  <2>1. freed \subseteq Thread /\ Range(threads_to_reap) \subseteq Thread
    BY QueueTypes DEF Range
  <2>2. CASE freed' = freed \cup Range(threads_to_reap) /\ threads_to_reap' = <<>>
    <3>1. Distinct(threads_to_reap') /\ Range(threads_to_reap') = {}
      BY <2>2 DEF Distinct, Range
    <3>. QED BY <1>1, <1>3, <2>1, <2>2, <3>1 DEF QueueInv, DeadInv
  <2>3. CASE freed' = freed /\ threads_to_reap' = threads_to_reap
    BY <1>1, <1>3, <2>1, <2>3 DEF QueueInv, DeadInv, Distinct
  <2>. QED BY <1>2, <2>2, <2>3
<1>9. IdInv'
  <2>1. \A k \in Thread : Making(k)' => Making(k)
    <3>1. CASE pc' = pc
      BY <3>1 DEF Making
    <3>2. CASE pc' = [pc EXCEPT ![s][f] = "switch"]
      BY <3>2, SwitchTypes, FrameRead DEF Making
    <3>. QED BY <1>1, <3>1, <3>2
  <2>. QED BY <1>1, <2>1, IdsStill DEF QueueInv
<1>. QED BY <1>5, <1>6, <1>7, <1>8, <1>9 DEF QueueInv

\* thread_join: the caller moves from the run list to the wait list of u.  The
\* assert on the size of the run list holds: u runs, or the thread at the end
\* of the chain u waits in does, and both are younger than the caller.
LEMMA JoinWaitQueue ==
  ASSUME TypeInv, SwitchInv, QueueInv, NEW s \in Thread, NEW u \in Thread,
         JoinWait(s, u)
  PROVE  /\ QueueInv' /\ fault' = "none"
         /\ arg' = [arg EXCEPT ![s] = u] /\ Joins(s, u)'
         /\ \A t, w \in Thread :
              Joins(t, w)' <=> Joins(t, w) \/ (t = s /\ w = u)
         /\ \A t \in Thread : Dead(t)' <=> Dead(t)
<1>. DEFINE rest == RemoveAt(runlist, thread_it)
<1>1. /\ fault = "none" /\ current_thread = s /\ Pointed = s
      /\ thread_it \in 1 .. Len(runlist) /\ runlist[thread_it] = s
      /\ s \in Range(runlist) /\ pc[s][0] = "idle"
  BY OnList DEF JoinWait, OutsidePc
<1>2. u \in thread_map /\ u > s /\ status[u] # "DONE" /\ s \in thread_map
      /\ s \in Nat /\ u \in Nat
  BY <1>1, ThreadFacts DEF JoinWait, MayJoin, IsDone, QueueInv, PlaceInv
<1>3. ~Dead(u) /\ ~Dead(s) /\ ~OnWaitList(s)
  BY <1>1, <1>2 DEF QueueInv, PlaceInv, Dead
<1>4. Len(runlist) > 1
  <2>1. PICK w \in Range(runlist) : w = u \/ w > u
    BY <1>2, <1>3, SomebodyRuns
  <2>2. w # s
    BY <1>2, <2>1, RangeIn, ThreadFacts
  <2>3. PICK i \in 1 .. Len(runlist) : runlist[i] = w
    BY QueueTypes DEF Range
  <2>4. i # thread_it
    BY <1>1, <2>2, <2>3
  <2>5. Len(runlist) \in Nat
    BY QueueTypes
  <2>. QED BY <1>1, <2>3, <2>4, <2>5
<1>5. /\ waiting_threads' = waiting_threads \cup {s}
      /\ runlist' = rest
      /\ wait_list' = [wait_list EXCEPT ![u] = Append(wait_list[u], s)]
      /\ status' = [status EXCEPT ![s] = "WAITING"]
      /\ pc' = [pc EXCEPT ![s][0] = "parking"]
      /\ arg' = [arg EXCEPT ![s] = u]
      /\ fault' = "none"
      /\ UNCHANGED <<threads_to_reap, thread_map, tid_counter, freed>>
  BY <1>1, <1>2, <1>4 DEF JoinWait, cpu
<1>6. Distinct(runlist') /\ Range(runlist') = Range(runlist) \ {s}
  <2>1. /\ Distinct(rest)
        /\ Range(rest) = Range(runlist) \ {runlist[thread_it]}
    BY <1>1, QueueTypes, RemoveAtDistinct DEF QueueInv, QueuesInv
  <2>. QED BY <1>1, <1>5, <2>1
<1>. HIDE DEF rest
<1>7. s \notin Range(wait_list[u])
  BY <1>3 DEF OnWaitList
<1>8. /\ Distinct(Append(wait_list[u], s))
      /\ Range(Append(wait_list[u], s)) = Range(wait_list[u]) \cup {s}
  BY <1>7, QueueTypes, AppendDistinct DEF QueueInv, QueuesInv
<1>9. /\ \A w \in Thread : w # u => wait_list'[w] = wait_list[w]
      /\ wait_list'[u] = Append(wait_list[u], s)
  BY <1>5, QueueTypes
<1>10. \A t, w \in Thread : Joins(t, w)' <=> Joins(t, w) \/ (t = s /\ w = u)
  BY <1>8, <1>9 DEF Joins
<1>11. \A t \in Thread : OnWaitList(t)' <=> OnWaitList(t) \/ t = s
  BY <1>10 DEF OnWaitList, Joins
<1>12. \A t \in Thread : Dead(t)' <=> Dead(t)
  BY <1>3, <1>5, QueueTypes DEF Dead
<1>13. QueuesInv'
  <2>1. \A w \in Thread : Distinct(wait_list'[w])
    BY <1>8, <1>9 DEF QueueInv, QueuesInv
  <2>2. \A t, w, x \in Thread : Joins(t, w)' /\ Joins(t, x)' => w = x
    <3>1. \A w \in Thread : ~Joins(s, w)
      BY <1>3 DEF OnWaitList, Joins
    <3>. QED BY <1>10, <3>1 DEF QueueInv, QueuesInv
  <2>. QED BY <1>6, <2>1, <2>2 DEF QueuesInv
<1>14. PlaceInv'
  <2>1. \A t \in Thread : OnWaitList(t)' <=> t \in waiting_threads'
    BY <1>5, <1>11 DEF QueueInv, PlaceInv
  <2>2. Range(runlist)' \subseteq thread_map' /\ waiting_threads' \subseteq thread_map'
    BY <1>2, <1>5, <1>6 DEF QueueInv, PlaceInv
  <2>3. ASSUME NEW t \in thread_map
        PROVE  /\ t \in Range(runlist)' <=> ~Dead(t)' /\ ~OnWaitList(t)'
               /\ ~(Dead(t)' /\ OnWaitList(t)')
    <3>1. t \in Thread
      BY QueueTypes
    <3>. QED BY <1>3, <1>6, <1>11, <1>12, <3>1 DEF QueueInv, PlaceInv
  <2>. QED BY <1>5, <2>1, <2>2, <2>3 DEF PlaceInv
<1>15. WaitInv'
  BY <1>2, <1>3, <1>5, <1>10, <1>12 DEF QueueInv, WaitInv
<1>16. DeadInv'
  <2>1. freed \subseteq Thread /\ Range(threads_to_reap) \subseteq Thread
    BY QueueTypes DEF Range
  <2>. QED BY <1>5, <1>12, <2>1 DEF QueueInv, DeadInv, Distinct
<1>17. IdInv'
  <2>1. \A k \in Thread : Making(k)' <=> Making(k) /\ k # s
    BY <1>1, <1>5, SwitchTypes, FrameRead DEF Making
  <2>2. \A k \in Thread : k # s => arg'[k] = arg[k]
    BY <1>5, QueueTypes
  <2>. QED BY <1>5, <2>1, <2>2 DEF QueueInv, IdInv
<1>. QED BY <1>5, <1>10, <1>12, <1>13, <1>14, <1>15, <1>16, <1>17 DEF QueueInv

\* thread_exit: the joiners move from the wait list to the run list, and the
\* caller leaves it.  It is not left empty: the chain of waiting threads that
\* starts at the main thread ends at a thread that runs, and if that is the
\* caller, the last joiner of the chain is pushed now.
LEMMA ExitQueue ==
  ASSUME TypeInv, SwitchInv, QueueInv, NEW s \in Thread,
         NEW val \in Value \cup {"null"}, Exit(s, val)
  PROVE  /\ QueueInv' /\ fault' = "none" /\ arg' = arg
         /\ current_thread = s /\ ~Dead(s) /\ Dead(s)'
         /\ \A t, w \in Thread : Joins(t, w)' <=> Joins(t, w) /\ w # s
         /\ \A t \in Thread : Dead(t)' <=> Dead(t) \/ t = s
<1>. DEFINE list == WithWoken(s)
            rest == RemoveAt(list, thread_it)
<1>1. /\ fault = "none" /\ current_thread = s
      /\ thread_it \in 1 .. Len(runlist) /\ runlist[thread_it] = s
      /\ s \in Range(runlist) /\ pc[s][0] = "idle" /\ s # Main
  BY OnList DEF Exit, OutsidePc
<1>2. s \in thread_map /\ ~Dead(s) /\ ~OnWaitList(s)
  BY <1>1 DEF QueueInv, PlaceInv
<1>3. /\ list \in Seq(Thread) /\ Distinct(list)
      /\ Range(list) = Range(runlist) \cup Range(wait_list[s])
      /\ thread_it \in 1 .. Len(list) /\ list[thread_it] = s
  <2>1. Range(runlist) \cap Range(wait_list[s]) = {}
    <3>1. ASSUME NEW t \in Range(runlist), t \in Range(wait_list[s]) PROVE FALSE
      <4>1. t \in Thread /\ t \in thread_map /\ OnWaitList(t)
        BY <3>1, RangeIn DEF QueueInv, PlaceInv, OnWaitList
      <4>. QED BY <3>1, <4>1 DEF QueueInv, PlaceInv
    <3>. QED BY <3>1
  <2>2. /\ list \in Seq(Thread) /\ Distinct(list)
        /\ Range(list) = Range(runlist) \cup Range(wait_list[s])
        /\ Len(list) = Len(runlist) + Len(wait_list[s])
        /\ \A i \in 1 .. Len(runlist) : list[i] = runlist[i]
    BY <2>1, QueueTypes, ConcatDistinct DEF QueueInv, QueuesInv, WithWoken
  <2>3. Len(runlist) \in Nat /\ Len(wait_list[s]) \in Nat
    BY QueueTypes
  <2>. HIDE DEF list
  <2>. QED BY <1>1, <2>2, <2>3
<1>. HIDE DEF list
<1>4. Distinct(rest) /\ Range(rest) = Range(list) \ {s}
  BY <1>3, RemoveAtDistinct
<1>. HIDE DEF rest
<1>5. rest # <<>>
  <2>1. PICK w \in Range(runlist) : w = Main \/ wait_list[w] # <<>>
    <3>1. Main \in thread_map /\ ~Dead(Main)
      BY DEF QueueInv, IdInv, Dead
    <3>. QED BY <3>1, SomebodyRuns
  <2>2. CASE w # s
    <3>1. w \in Range(rest)
      BY <1>3, <1>4, <2>2
    <3>. QED BY <3>1 DEF Range
  <2>3. CASE w = s
    <3>1. wait_list[s] # <<>> /\ wait_list[s] \in Seq(Thread)
      BY <1>1, <2>1, <2>3, QueueTypes
    <3>2. wait_list[s][1] \in Range(wait_list[s])
      BY <3>1 DEF Range
    <3>3. wait_list[s][1] # s
      BY <1>2, <3>2 DEF OnWaitList
    <3>4. wait_list[s][1] \in Range(rest)
      BY <1>3, <1>4, <3>2, <3>3
    <3>. QED BY <3>4 DEF Range
  <2>. QED BY <2>2, <2>3
<1>6. /\ waiting_threads' = waiting_threads \ Range(wait_list[s])
      /\ wait_list' = [wait_list EXCEPT ![s] = <<>>]
      /\ runlist' = rest
      /\ status' = [status EXCEPT ![s] = "DONE"]
      /\ threads_to_reap' = Append(threads_to_reap, s)
      /\ pc' = [pc EXCEPT ![s][0] = "switch"]
      /\ fault' = "none"
      /\ UNCHANGED <<thread_map, tid_counter, freed, arg>>
  BY <1>1, <1>5 DEF Exit, cpu, list, rest
<1>7. /\ \A w \in Thread : w # s => wait_list'[w] = wait_list[w]
      /\ wait_list'[s] = <<>>
  BY <1>6, QueueTypes
<1>8. \A t, w \in Thread : Joins(t, w)' <=> Joins(t, w) /\ w # s
  <2>1. Range(<<>>) = {}
    BY DEF Range
  <2>. QED BY <1>7, <2>1 DEF Joins
<1>9. \A t \in Thread : OnWaitList(t)' <=> OnWaitList(t) /\ ~Joins(t, s)
  <2>1. \A t, w \in Thread : Joins(t, w) /\ Joins(t, s) => w = s
    BY DEF QueueInv, QueuesInv
  <2>2. \A t \in Thread : OnWaitList(t) <=> \E w \in Thread : Joins(t, w)
    BY DEF OnWaitList, Joins
  <2>3. \A t \in Thread : OnWaitList(t)' <=> \E w \in Thread : Joins(t, w)'
    BY DEF OnWaitList, Joins
  <2>. QED BY <1>8, <2>1, <2>2, <2>3
<1>10. \A t \in Thread : Dead(t)' <=> Dead(t) \/ t = s
  BY <1>1, <1>6, QueueTypes DEF Dead
<1>11. QueuesInv'
  <2>1. \A w \in Thread : Distinct(wait_list'[w])
    <3>1. Distinct(<<>>)
      BY DEF Distinct
    <3>. QED BY <1>7, <3>1 DEF QueueInv, QueuesInv
  <2>. QED BY <1>4, <1>6, <1>8, <2>1 DEF QueueInv, QueuesInv
<1>12. PlaceInv'
  <2>1. \A t \in Thread : OnWaitList(t)' <=> t \in waiting_threads'
    BY <1>6, <1>9 DEF QueueInv, PlaceInv, Joins
  <2>2. Range(wait_list[s]) \subseteq waiting_threads
    BY RangeIn DEF QueueInv, PlaceInv, OnWaitList
  <2>3. Range(runlist)' = (Range(runlist) \cup Range(wait_list[s])) \ {s}
    BY <1>3, <1>4, <1>6
  <2>4. Range(runlist)' \subseteq thread_map' /\ waiting_threads' \subseteq thread_map'
    BY <1>6, <2>2, <2>3 DEF QueueInv, PlaceInv
  <2>5. ASSUME NEW t \in thread_map
        PROVE  /\ t \in Range(runlist)' <=> ~Dead(t)' /\ ~OnWaitList(t)'
               /\ ~(Dead(t)' /\ OnWaitList(t)')
    <3>1. t \in Thread
      BY QueueTypes
    <3>2. Joins(t, s) => OnWaitList(t)
      BY DEF OnWaitList, Joins
    <3>3. t \in Range(runlist)' <=> (t \in Range(runlist) \/ Joins(t, s)) /\ t # s
      BY <2>3 DEF Joins
    <3>. QED BY <1>2, <1>9, <1>10, <3>1, <3>2, <3>3 DEF QueueInv, PlaceInv
  <2>. QED BY <1>6, <2>1, <2>4, <2>5 DEF PlaceInv
<1>13. WaitInv'
  BY <1>6, <1>8, <1>10 DEF QueueInv, WaitInv
<1>14. DeadInv'
  <2>1. freed \subseteq Thread /\ Range(threads_to_reap) \subseteq Thread
    BY QueueTypes DEF Range
  <2>2. s \notin Range(threads_to_reap) /\ s \notin freed
    BY <1>2 DEF QueueInv, DeadInv
  <2>3. /\ Distinct(threads_to_reap')
        /\ Range(threads_to_reap') = Range(threads_to_reap) \cup {s}
    BY <1>6, <2>2, QueueTypes, AppendDistinct DEF QueueInv, DeadInv
  <2>. QED BY <1>2, <1>6, <1>10, <2>1, <2>2, <2>3 DEF QueueInv, DeadInv
<1>15. IdInv'
  <2>1. \A k \in Thread : Making(k)' => Making(k)
    BY <1>6, SwitchTypes, FrameRead DEF Making
  <2>. QED BY <1>6, <2>1, IdsStill DEF QueueInv
<1>. QED BY <1>1, <1>2, <1>6, <1>8, <1>10, <1>11, <1>12, <1>13, <1>14, <1>15
         DEF QueueInv

\* The joiner that is back was on the run list, so it was not dead before it
\* is RUNNING.
LEMMA ReturnDead ==
  ASSUME TypeInv, SwitchInv, QueueInv, NEW s \in Thread, JoinReturn(s)
  PROVE  \A t \in Thread : Dead(t)' <=> Dead(t)
<1>1. s \in Range(runlist) /\ status' = [status EXCEPT ![s] = "RUNNING"]
  BY OnList DEF JoinReturn, OutsidePc
<1>2. ~Dead(s)
  BY <1>1 DEF QueueInv, PlaceInv
<1>. QED BY <1>1, <1>2, QueueTypes DEF Dead

\* What load_destroy_context leaves of the program counters.
LEMMA LoadPc ==
  ASSUME TypeInv, NEW s \in Thread, NEW f \in Frame, Load(s, f)
  PROVE  \A k \in Thread :
           \/ pc'[k][0] = pc[k][0]
           \/ \E n \in Thread :
                /\ n = next[s][f] /\ k = context[n].stk /\ context[n].frm = 0
                /\ context[n].at # "none" /\ fault' # "dead context"
                /\ pc'[k][0] = ResumesAt(context[n])
<1>1. PICK n \in Thread : n = next[s][f]
  BY SwitchTypes
<1>2. PICK c \in Context : c = context[n]
  BY SwitchTypes
<1>3. c.stk \in Thread /\ c.frm \in {0, 1}
  BY <1>2 DEF Context, Frame
<1>4. CASE fault' = "dead context"
  <2>1. pc' = pc
    BY <1>4 DEF Load, Executes
  <2>. QED BY <2>1
<1>5. CASE fault' # "dead context"
  <2>. DEFINE back == [g \in Frame |->
                        IF g = 1 THEN "none"
                        ELSE IF c.frm = 1 THEN pc[c.stk][0] ELSE ResumesAt(c)]
  <2>1. pc' = [pc EXCEPT ![c.stk] = back] /\ c.at # "none"
    BY <1>1, <1>2, <1>5 DEF Load
  <2>2. back[0] = IF c.frm = 1 THEN pc[c.stk][0] ELSE ResumesAt(c)
    BY SwitchTypes
  <2>. HIDE DEF back
  <2>3. \A k \in Thread : pc'[k][0] = IF k = c.stk THEN back[0] ELSE pc[k][0]
    BY <1>3, <2>1, SwitchTypes
  <2>. QED BY <1>1, <1>2, <1>3, <1>5, <2>1, <2>2, <2>3, ZenonT(40)
<1>. QED BY <1>4, <1>5

\* The steps that leave every queue as it is.
LEMMA RestQueue ==
  ASSUME TypeInv, SwitchInv, QueueInv, NEW s \in Thread,
         \/ LoadId(s) \/ GiveId(s) \/ StopId(s)
         \/ Enter(s) \/ Park(s) \/ Pick(s) \/ JoinReturn(s)
         \/ \E f \in Frame : SwitchTo(s, f) \/ Load(s, f)
         \/ \E u \in Thread : JoinDone(s, u)
  PROVE  /\ QueueInv'
         /\ wait_list' = wait_list /\ \A t \in Thread : Dead(t)' <=> Dead(t)
<1>1. UNCHANGED <<runlist, wait_list, waiting_threads, thread_map, freed,
                  threads_to_reap>>
  BY DEF LoadId, GiveId, StopId, Enter, Park, Pick, JoinReturn, SwitchTo, Load,
         JoinDone, queues, records, cpu
<1>2. \A t \in Thread : Dead(t)' <=> Dead(t)
  <2>1. CASE JoinReturn(s)
    BY <2>1, ReturnDead
  <2>2. CASE ~JoinReturn(s)
    <3>1. status' = status
      BY <2>2 DEF LoadId, GiveId, StopId, Enter, Park, Pick, SwitchTo, Load,
                  JoinDone, records
    <3>. QED BY <3>1, DeadStill, SMTT(30)
  <2>. QED BY <2>1, <2>2
<1>3. (QueuesInv /\ PlaceInv /\ WaitInv /\ DeadInv)'
  <2>1. freed \subseteq Thread /\ Range(threads_to_reap) \subseteq Thread
        /\ thread_map \subseteq Thread
    BY QueueTypes DEF Range
  <2>. QED BY <1>1, <1>2, <2>1, PlacesStill
<1>4. IdInv'
  <2>1. CASE GiveId(s)
    <3>1. /\ arg' = [arg EXCEPT ![s] = tid_counter]
          /\ tid_counter' = tid_counter + 1
          /\ pc' = [pc EXCEPT ![s][0] = "creating"]
      BY <2>1 DEF GiveId
    <3>2. \A k \in Thread : Making(k)' <=> Making(k) \/ k = s
      BY <3>1, SwitchTypes, FrameRead DEF Making
    <3>3. \A k \in Thread : arg'[k] = IF k = s THEN tid_counter ELSE arg[k]
      BY <3>1, QueueTypes
    <3>4. tid_counter \notin thread_map /\ \A k \in Thread : Making(k) => arg[k] # tid_counter
      BY QueueTypes DEF QueueInv, IdInv
    <3>5. \A k \in Thread : Making(k)' => arg'[k] < tid_counter' /\ arg'[k] \notin thread_map
      <4>1. \A k \in Thread : arg[k] \in Nat /\ tid_counter \in Nat
        BY QueueTypes, ThreadFacts
      <4>2. \A k \in Thread : arg[k] < tid_counter => arg[k] < tid_counter'
        BY <3>1, <4>1
      <4>3. tid_counter < tid_counter'
        BY <3>1, <4>1
      <4>. QED BY <3>2, <3>3, <3>4, <4>2, <4>3 DEF QueueInv, IdInv
    <3>6. \A t \in thread_map : t < tid_counter'
      <4>1. \A t \in thread_map : t \in Nat /\ t < tid_counter /\ tid_counter \in Nat
        BY QueueTypes, ThreadFacts DEF QueueInv, IdInv
      <4>. QED BY <3>1, <4>1
    <3>. QED BY <1>1, <3>2, <3>3, <3>4, <3>5, <3>6 DEF QueueInv, IdInv
  <2>6. CASE StopId(s)
    BY <1>1, <2>6, IdsStill DEF StopId, QueueInv, records, locals, Making
  <2>2. CASE LoadId(s) \/ Enter(s) \/ Park(s) \/ Pick(s) \/ JoinReturn(s)
    <3>1. UNCHANGED <<tid_counter, arg>>
      BY <2>2 DEF LoadId, Enter, Park, Pick, JoinReturn, records
    <3>2. PICK p \in {"counting", "idle", "picking", "switch"} :
            pc' = [pc EXCEPT ![s][0] = p]
      BY <2>2 DEF LoadId, Enter, Park, Pick, JoinReturn
    <3>3. \A k \in Thread : Making(k)' => Making(k)
      BY <3>2, SwitchTypes, FrameRead DEF Making
    <3>. QED BY <1>1, <3>1, <3>3, IdsStill DEF QueueInv
  <2>3. ASSUME NEW f \in Frame, SwitchTo(s, f) PROVE IdInv'
    <3>1. UNCHANGED <<tid_counter, arg>> /\ pc' = [pc EXCEPT ![s][f] = "load"]
      BY <2>3 DEF SwitchTo, records
    <3>2. \A k \in Thread : Making(k)' => Making(k)
      BY <3>1, SwitchTypes, FrameRead DEF Making
    <3>. QED BY <1>1, <3>1, <3>2, IdsStill DEF QueueInv
  <2>4. ASSUME NEW f \in Frame, Load(s, f) PROVE IdInv'
    <3>1. UNCHANGED <<tid_counter, arg>>
      BY <2>4 DEF Load, records
    <3>2. \A k \in Thread : Making(k)' => Making(k)
      BY <2>4, LoadPc DEF Making, ResumesAt
    <3>. QED BY <1>1, <3>1, <3>2, IdsStill, SMTT(30) DEF QueueInv
  <2>5. ASSUME NEW u \in Thread, JoinDone(s, u) PROVE IdInv'
    <3>1. /\ UNCHANGED <<tid_counter, pc>> /\ arg' = [arg EXCEPT ![s] = u]
          /\ pc[s][0] = "idle"
      BY <2>5 DEF JoinDone, records, Executes
    <3>2. \A k \in Thread : Making(k)' => Making(k) /\ k # s
      BY <3>1 DEF Making
    <3>3. \A k \in Thread : Making(k)' => Making(k) /\ arg'[k] = arg[k]
      BY <3>1, <3>2, QueueTypes
    <3>. QED BY <1>1, <3>1, <3>3, IdsStill DEF QueueInv
  <2>. QED BY <2>1, <2>2, <2>3, <2>4, <2>5, <2>6
<1>. QED BY <1>1, <1>2, <1>3, <1>4 DEF QueueInv

LEMMA QueueStep == TypeInv /\ SwitchInv /\ QueueInv /\ [Next]_vars => QueueInv'
<1>. SUFFICES ASSUME TypeInv, SwitchInv, QueueInv, [Next]_vars PROVE QueueInv'
  OBVIOUS
<1>1. CASE UNCHANGED vars
  BY <1>1 DEF QueueInv, QueuesInv, PlaceInv, WaitInv, DeadInv, IdInv, Joins,
              OnWaitList, Dead, Making, Distinct, vars, queues, records, cpu,
              locals
<1>2. ASSUME NEW s \in Thread, Step(s) PROVE QueueInv'
  <2>1. CASE Yield(s) \/ TimerHook(s)
    <3>1. 0 \in Frame /\ 1 \in Frame
      BY DEF Frame
    <3>. QED BY <2>1, <3>1, YieldQueue DEF Yield, TimerHook
  <2>2. ASSUME NEW u \in Thread, JoinWait(s, u) PROVE QueueInv'
    BY <2>2, JoinWaitQueue
  <2>3. ASSUME NEW val \in Value \cup {"null"}, Exit(s, val) PROVE QueueInv'
    BY <2>3, ExitQueue
  <2>4. CASE StoreId(s)
    BY <2>4, StoreCases, RestQueue
  <2>. QED BY <1>2, <2>1, <2>2, <2>3, <2>4, RegisterQueue, RestQueue
           DEF Step, Switch
<1>. QED BY <1>1, <1>2 DEF Next

\* The queues, in the words of the runs.
LEMMA QueueFacts ==
  ASSUME TypeInv, QueueInv
  PROVE  NoThreadLost /\ NoLostWakeup /\ ReapedOnce
<1>1. NoneTwice
  <2>1. ASSUME NEW t \in Thread, NEW u \in Thread,
               NEW i \in DOMAIN wait_list[t], NEW j \in DOMAIN wait_list[u],
               wait_list[t][i] = wait_list[u][j]
        PROVE  t = u /\ i = j
    <3>1. /\ wait_list[t][i] \in Range(wait_list[t])
          /\ wait_list[t][i] \in Range(wait_list[u])
      BY <2>1 DEF Range
    <3>2. PICK x \in Thread : x = wait_list[t][i]
      BY <3>1, RangeIn
    <3>3. t = u
      BY <3>1, <3>2 DEF QueueInv, QueuesInv, Joins
    <3>. QED BY <2>1, <3>3 DEF QueueInv, QueuesInv, Distinct
  <2>. QED BY <2>1 DEF NoneTwice, QueueInv, QueuesInv, Distinct
<1>2. NoThreadLost
  BY <1>1 DEF NoThreadLost, QueueInv, PlaceInv
<1>3. NoLostWakeup
  <2>1. ASSUME NEW u \in Thread, Dead(u), wait_list[u] # <<>> PROVE FALSE
    <3>1. wait_list[u] \in Seq(Thread)
      BY QueueTypes
    <3>2. PICK t \in Thread : t = wait_list[u][1]
      BY <2>1, <3>1
    <3>3. Joins(t, u)
      BY <2>1, <3>1, <3>2 DEF Joins, Range
    <3>. QED BY <2>1, <3>3 DEF QueueInv, WaitInv
  <2>. QED BY <2>1 DEF NoLostWakeup
<1>4. ReapedOnce
  BY DEF ReapedOnce, QueueInv, DeadInv, Distinct
<1>. QED BY <1>2, <1>3, <1>4

\* A list that names nobody twice is no longer than the set it draws from.
LEMMA NoLonger ==
  ASSUME NEW S, IsFiniteSet(S), NEW q \in Seq(S), Distinct(q)
  PROVE  Len(q) <= Cardinality(S)
<1>1. Len(q) \in Nat /\ DOMAIN q = 1 .. Len(q)
  OBVIOUS
<1>2. Range(q) \subseteq S
  BY <1>1 DEF Range
<1>3. q \in Bijection(1 .. Len(q), Range(q))
  BY <1>1 DEF Distinct, Range, Bijection, Injection, Surjection, IsInjective
<1>4. Cardinality(Range(q)) = Len(q)
  BY <1>1, <1>3, FS_CountingElements DEF ExistsBijection
<1>. QED BY <1>2, <1>4, FS_Subset

\* The asserts of sched_yield and reap_threads hold.
LEMMA YieldAsserts ==
  ASSUME TypeInv, QueueInv, NEW wraps
  PROVE  AssertsOfYield(wraps)
<1>1. Len(runlist) <= Cardinality(thread_map)
  <2>1. IsFiniteSet(thread_map) /\ runlist \in Seq(thread_map)
    <3>1. IsFiniteSet(Thread)
      BY FS_Interval, MaxThreadAssumption DEF Thread
    <3>2. \A i \in 1 .. Len(runlist) : runlist[i] \in thread_map
      BY QueueTypes DEF QueueInv, PlaceInv, Range
    <3>3. IsFiniteSet(thread_map)
      BY <3>1, FS_Subset, QueueTypes
    <3>4. runlist \in [1 .. Len(runlist) -> thread_map] /\ Len(runlist) \in Nat
      BY <3>2, QueueTypes
    <3>. QED BY <3>3, <3>4
  <2>. QED BY <2>1, NoLonger DEF QueueInv, QueuesInv
<1>2. IsInjective(threads_to_reap)
  BY DEF QueueInv, DeadInv, Distinct, IsInjective
<1>3. \A t \in Range(threads_to_reap) :
        t \in thread_map \ freed /\ t # Main /\ status[t] = "DONE"
  <2>1. Range(threads_to_reap) \subseteq Thread
    BY QueueTypes DEF Range
  <2>. QED BY <2>1 DEF QueueInv, DeadInv, Dead
<1>4. ~(Len(runlist) > Cardinality(thread_map))
  <2>1. Len(runlist) \in Nat /\ Cardinality(thread_map) \in Nat
    <3>1. IsFiniteSet(Thread)
      BY FS_Interval, MaxThreadAssumption DEF Thread
    <3>. QED BY <3>1, FS_Subset, FS_CardinalityType, QueueTypes
  <2>. QED BY <1>1, <2>1
<1>. QED BY <1>2, <1>3, <1>4 DEF AssertsOfYield

-----------------------------------------------------------------------------
\* thread_join: the caller sleeps on the list of the thread it names, or that
\* thread is dead.
Joined(k) == Joins(k, arg[k]) \/ Dead(arg[k])

JoinPc == {"parking", "picking", "woken"}
LeavePc == {"picking", "switch", "load"}
JoinerInv ==
  \A k \in Thread :
    /\ pc[k][0] \in JoinPc \/ context[k].at = "join" => Joined(k)
    /\ context[k].at = "join" => /\ context[k].frm = 0 /\ context[k].stk = k
                                 /\ pc[k][0] \in LeavePc

\* thread_data_t.ret keeps what the thread handed to thread_exit.
RetInv ==
  \A u \in Thread :
    exit_value[u] \in Value => Dead(u) /\ ret[u] = exit_value[u]

\* ... and what a joiner has read stays true of the thread it names.
GotInv ==
  \A s \in Thread : got[s] # "none" =>
    /\ Dead(arg[s])
    /\ exit_value[arg[s]] \in Value => got[s] = exit_value[arg[s]]

JoinInv == JoinerInv /\ RetInv /\ GotInv

\* No step revives a dead thread or loses one that sleeps for a live one.
Onward ==
  /\ \A t \in Thread : Dead(t) => Dead(t)'
  /\ \A t, u \in Thread : Joins(t, u) => Joins(t, u)' \/ Dead(u)'

LEMMA JoinInit == Init => JoinInv
<1>. SUFFICES ASSUME Init PROVE JoinInv
  OBVIOUS
<1>1. /\ \A k \in Thread : context[k].at = "none" /\ got[k] = "none"
      /\ \A k \in Thread : exit_value[k] = "none"
      /\ \A k \in Thread : pc[k][0] \in {"idle", "none"}
  BY DEF Init, NoContext, Frame
<1>2. JoinerInv
  BY <1>1 DEF JoinerInv, JoinPc
<1>3. RetInv /\ GotInv
  BY <1>1, ValueAssumption DEF RetInv, GotInv
<1>. QED BY <1>2, <1>3 DEF JoinInv

LEMMA JoinedKept ==
  ASSUME TypeInv, Onward, NEW k \in Thread, arg'[k] = arg[k], Joined(k)
  PROVE  Joined(k)'
<1>1. PICK u \in Thread : u = arg[k] /\ u = arg'[k]
  BY QueueTypes
<1>. QED BY <1>1 DEF Onward, Joined

\* A step of stack s that moves at most its own frame's pc and arg.
LEMMA MoveJoin ==
  ASSUME TypeInv, JoinerInv, Onward, NEW s \in Thread,
         \A k \in Thread \ {s} : arg'[k] = arg[k] /\ pc'[k][0] = pc[k][0],
         \/ pc'[s][0] = pc[s][0] /\ arg'[s] = arg[s]
         \/ /\ pc'[s][0] \in JoinPc => Joined(s)'
            /\ pc[s][0] \in LeavePc => pc'[s][0] \in LeavePc /\ arg'[s] = arg[s],
         \A k \in Thread :
           \/ context'[k] = context[k] \/ context'[k].at # "join"
           \/ /\ k = s /\ context'[s].frm = 0 /\ context'[s].stk = s
              /\ pc'[s][0] \in LeavePc /\ Joined(s)'
  PROVE  JoinerInv'
<1>1. ASSUME NEW k \in Thread \ {s}
      PROVE  /\ pc'[k][0] \in JoinPc \/ context'[k].at = "join" => Joined(k)'
             /\ context'[k].at = "join" => /\ context'[k].frm = 0 /\ context'[k].stk = k
                                           /\ pc'[k][0] \in LeavePc
  BY JoinedKept DEF JoinerInv
<1>2. CASE pc'[s][0] = pc[s][0] /\ arg'[s] = arg[s]
  <2>1. /\ pc'[s][0] \in JoinPc \/ context'[s].at = "join" => Joined(s)'
        /\ context'[s].at = "join" => /\ context'[s].frm = 0 /\ context'[s].stk = s
                                      /\ pc'[s][0] \in LeavePc
    BY <1>2, JoinedKept DEF JoinerInv
  <2>. QED BY <1>1, <2>1 DEF JoinerInv
<1>3. CASE /\ pc'[s][0] \in JoinPc => Joined(s)'
           /\ pc[s][0] \in LeavePc => pc'[s][0] \in LeavePc /\ arg'[s] = arg[s]
  <2>1. /\ pc'[s][0] \in JoinPc \/ context'[s].at = "join" => Joined(s)'
        /\ context'[s].at = "join" => /\ context'[s].frm = 0 /\ context'[s].stk = s
                                      /\ pc'[s][0] \in LeavePc
    BY <1>3, JoinedKept DEF JoinerInv
  <2>. QED BY <1>1, <2>1 DEF JoinerInv
<1>. QED BY <1>2, <1>3

\* Loading a context saved in a join, the one place that leads back into it.
LEMMA LoadJoin ==
  ASSUME TypeInv, JoinerInv, Onward, NEW s \in Thread, NEW f \in Frame, Load(s, f)
  PROVE  JoinerInv'
<1>1. arg' = arg
  BY DEF Load
<1>0. \A k \in Thread :
        \/ pc'[k][0] = pc[k][0]
        \/ \E n \in Thread :
             /\ n = next[s][f] /\ k = context[n].stk /\ context[n].frm = 0
             /\ context[n].at # "none" /\ fault' # "dead context"
             /\ pc'[k][0] = ResumesAt(context[n])
  BY LoadPc
<1>2. ASSUME NEW k \in Thread, pc'[k][0] \in JoinPc PROVE Joined(k)
  <2>1. CASE pc'[k][0] = pc[k][0]
    BY <1>2, <2>1 DEF JoinerInv
  <2>2. ASSUME NEW n \in Thread, k = context[n].stk,
               pc'[k][0] = ResumesAt(context[n])
        PROVE  Joined(k)
    <3>1. context[n].at = "join"
      BY <1>2, <2>2 DEF ResumesAt, JoinPc
    <3>. QED BY <2>2, <3>1 DEF JoinerInv
  <2>. QED BY <1>0, <2>1, <2>2
<1>3. ASSUME NEW k \in Thread, context'[k].at = "join"
      PROVE  context'[k] = context[k] /\ pc'[k][0] = pc[k][0]
  <2>1. CASE fault' = "dead context"
    <3>1. UNCHANGED <<context, pc>>
      BY <2>1 DEF Load, Executes
    <3>. QED BY <3>1
  <2>2. CASE fault' # "dead context"
    <3>1. PICK n \in Thread : n = next[s][f]
      BY SwitchTypes
    <3>2. PICK c \in Context : c = context[n]
      BY SwitchTypes
    <3>3. context' = [t \in Thread |->
             IF context[t].stk = c.stk /\ context[t].frm >= c.frm
               THEN NoContext ELSE context[t]]
      BY <2>2, <3>1, <3>2 DEF Load
    <3>4. /\ context'[k] = context[k]
          /\ ~(context[k].stk = c.stk /\ context[k].frm >= c.frm)
      BY <1>3, <3>3 DEF NoContext
    <3>5. context[k].stk = k /\ context[k].frm = 0
      BY <1>3, <3>4 DEF JoinerInv
    <3>6. ~(c.stk = k /\ c.frm = 0)
      BY <3>4, <3>5
    <3>7. pc'[k][0] = pc[k][0]
      <4>1. \/ pc'[k][0] = pc[k][0]
            \/ \E m \in Thread : /\ m = next[s][f] /\ k = context[m].stk
                                /\ context[m].frm = 0
        BY <1>0
      <4>. QED BY <3>1, <3>2, <3>6, <4>1
    <3>. QED BY <3>4, <3>7
  <2>. QED BY <2>1, <2>2
<1>4. \A k \in Thread : Joined(k) => Joined(k)'
  BY <1>1, JoinedKept
<1>. QED BY <1>2, <1>3, <1>4 DEF JoinerInv

LEMMA OnwardStep ==
  ASSUME TypeInv, SwitchInv, QueueInv, NEW s \in Thread, Step(s)
  PROVE  Onward
<1>1. CASE Register(s)
  <2>1. \A t \in Thread : Dead(t)' <=> Dead(t)
    BY <1>1, RegisterQueue
  <2>2. wait_list' = wait_list
    BY <1>1 DEF Register
  <2>. QED BY <2>1, <2>2 DEF Onward, Joins
<1>2. CASE Yield(s) \/ TimerHook(s)
  <2>1. status' = status /\ wait_list' = wait_list
    BY <1>2 DEF Yield, TimerHook, SchedYield, records
  <2>. QED BY <2>1, DeadStill DEF Onward, Joins
<1>3. ASSUME NEW u \in Thread, JoinWait(s, u) PROVE Onward
  <2>1. /\ \A t, w \in Thread : Joins(t, w) => Joins(t, w)'
        /\ \A t \in Thread : Dead(t)' <=> Dead(t)
    BY <1>3, JoinWaitQueue
  <2>. QED BY <2>1 DEF Onward
<1>4. ASSUME NEW val \in Value \cup {"null"}, Exit(s, val) PROVE Onward
  <2>1. /\ \A t, w \in Thread : Joins(t, w) => Joins(t, w)' \/ w = s
        /\ \A t \in Thread : Dead(t)' <=> Dead(t) \/ t = s
    BY <1>4, ExitQueue
  <2>. QED BY <2>1 DEF Onward
<1>5. CASE \/ LoadId(s) \/ StoreId(s)
           \/ Enter(s) \/ Park(s) \/ Pick(s) \/ JoinReturn(s)
           \/ \E f \in Frame : SwitchTo(s, f) \/ Load(s, f)
           \/ \E u \in Thread : JoinDone(s, u)
  <2>1. wait_list' = wait_list /\ \A t \in Thread : Dead(t)' <=> Dead(t)
    BY <1>5, StoreCases, RestQueue
  <2>. QED BY <2>1 DEF Onward, Joins
<1>. QED BY <1>1, <1>2, <1>3, <1>4, <1>5 DEF Step, Switch

LEMMA JoinerStep ==
  ASSUME TypeInv, SwitchInv, QueueInv, JoinerInv, NEW s \in Thread, Step(s)
  PROVE  JoinerInv'
<1>0. Onward
  BY OnwardStep
<1>1. ASSUME NEW p \in {"counting", "creating", "idle", "parking", "switch"},
             pc[s][0] \notin LeavePc, pc' = [pc EXCEPT ![s][0] = p],
             \A k \in Thread \ {s} : arg'[k] = arg[k],
             p = "parking" => Joined(s)',
             \A k \in Thread : context'[k] = context[k] \/ context'[k].at # "join"
      PROVE  JoinerInv'
  <2>1. pc'[s][0] = p /\ \A k \in Thread \ {s} : pc'[k][0] = pc[k][0]
    BY <1>1, SwitchTypes, FrameRead
  <2>2. pc'[s][0] \in JoinPc => Joined(s)'
    BY <1>1, <2>1 DEF JoinPc
  <2>. QED BY <1>0, <1>1, <2>1, <2>2, MoveJoin
<1>2. CASE LoadId(s) \/ GiveId(s) \/ Enter(s) \/ JoinReturn(s)
  <2>1. /\ pc[s][0] \notin LeavePc /\ context' = context
        /\ arg' = arg \/ arg' = [arg EXCEPT ![s] = tid_counter]
    BY <1>2 DEF LoadId, GiveId, Enter, JoinReturn, Executes, LeavePc, cpu
  <2>2. \A k \in Thread \ {s} : arg'[k] = arg[k]
    BY <2>1, QueueTypes
  <2>3. PICK p \in {"counting", "creating", "idle"} :
          pc' = [pc EXCEPT ![s][0] = p]
    BY <1>2 DEF LoadId, GiveId, Enter, JoinReturn
  <2>. QED BY <1>1, <2>1, <2>2, <2>3
<1>14. CASE StopId(s)
  BY <1>0, <1>14, MoveJoin DEF StopId, cpu, locals
<1>3. CASE Register(s)
  <2>1. /\ pc[s][0] \notin LeavePc /\ arg' = arg
        /\ pc' = [pc EXCEPT ![s][0] = "idle"]
        /\ context' = [context EXCEPT ![arg[s]] = Saved(arg[s], 0, "entry")]
    BY <1>3 DEF Register, Executes, LeavePc
  <2>2. \A k \in Thread : context'[k] = context[k] \/ context'[k].at # "join"
    BY <2>1, SwitchTypes DEF Saved
  <2>. QED BY <1>1, <2>1, <2>2
<1>4. ASSUME NEW f \in Frame, SchedYield(s, f)
      PROVE  /\ \A k \in Thread : context'[k] = context[k] \/ context'[k].at # "join"
             /\ pc' = pc \/ pc' = [pc EXCEPT ![s][f] = "switch"]
             /\ arg' = arg
  <2>. DEFINE dead == IF Reaps(After(thread_it) > Len(runlist))
                        THEN Range(threads_to_reap) ELSE {}
              kept == [t \in Thread |->
                        IF t \in dead THEN NoContext ELSE context[t]]
  <2>1. /\ context' = kept \/ context' = [kept EXCEPT ![Pointed] = Saved(s, f, "yield")]
        /\ pc' = pc \/ pc' = [pc EXCEPT ![s][f] = "switch"]
        /\ arg' = arg
    BY <1>4 DEF SchedYield
  <2>2. NoContext.at # "join" /\ Saved(s, f, "yield").at # "join"
    BY DEF NoContext, Saved
  <2>. HIDE DEF dead
  <2>3. \A k \in Thread : context'[k] = context[k] \/ context'[k].at # "join"
    BY <2>1, <2>2
  <2>. QED BY <2>1, <2>3
<1>5. CASE Yield(s)
  <2>1. /\ \A k \in Thread : context'[k] = context[k] \/ context'[k].at # "join"
        /\ pc' = pc \/ pc' = [pc EXCEPT ![s][0] = "switch"]
        /\ arg' = arg /\ pc[s][0] \notin LeavePc
    BY <1>4, <1>5, SwitchTypes DEF Yield, Executes, LeavePc
  <2>2. CASE pc' = pc
    BY <1>0, <2>1, <2>2, MoveJoin
  <2>3. CASE pc' = [pc EXCEPT ![s][0] = "switch"]
    BY <1>1, <2>1, <2>3
  <2>. QED BY <2>1, <2>2, <2>3
<1>6. CASE TimerHook(s)
  <2>1. /\ \A k \in Thread : context'[k] = context[k] \/ context'[k].at # "join"
        /\ pc' = pc \/ pc' = [pc EXCEPT ![s][1] = "switch"]
        /\ arg' = arg
    BY <1>4, <1>6, SwitchTypes DEF TimerHook
  <2>2. \A k \in Thread : pc'[k][0] = pc[k][0]
    <3>1. CASE pc' = pc
      BY <3>1
    <3>2. CASE pc' = [pc EXCEPT ![s][1] = "switch"]
      BY <3>2, SwitchTypes, FrameRead
    <3>. QED BY <2>1, <3>1, <3>2
  <2>. QED BY <1>0, <2>1, <2>2, MoveJoin
<1>7. ASSUME NEW f \in Frame, SwitchTo(s, f) PROVE JoinerInv'
  <2>1. /\ arg' = arg /\ context' = context /\ pc' = [pc EXCEPT ![s][f] = "load"]
    BY <1>7 DEF SwitchTo
  <2>2. CASE f = 0
    <3>1. pc' = [pc EXCEPT ![s][0] = "load"]
      BY <2>1, <2>2
    <3>2. pc'[s][0] = "load" /\ \A k \in Thread \ {s} : pc'[k][0] = pc[k][0]
      BY <3>1, SwitchTypes, FrameRead
    <3>. QED BY <1>0, <2>1, <3>2, MoveJoin DEF JoinPc, LeavePc
  <2>3. CASE f = 1
    <3>1. pc' = [pc EXCEPT ![s][1] = "load"]
      BY <2>1, <2>3
    <3>2. \A k \in Thread : pc'[k][0] = pc[k][0]
      BY <3>1, SwitchTypes, FrameRead
    <3>. QED BY <1>0, <2>1, <3>2, MoveJoin
  <2>. QED BY <2>2, <2>3 DEF Frame
<1>8. ASSUME NEW f \in Frame, Load(s, f) PROVE JoinerInv'
  BY <1>0, <1>8, LoadJoin
<1>9. ASSUME NEW u \in Thread, JoinDone(s, u) PROVE JoinerInv'
  <2>1. /\ pc[s][0] = "idle" /\ pc' = pc /\ context' = context
        /\ arg' = [arg EXCEPT ![s] = u]
    BY <1>9 DEF JoinDone, Executes, cpu
  <2>2. \A k \in Thread \ {s} : arg'[k] = arg[k]
    BY <2>1, QueueTypes
  <2>3. pc'[s][0] \notin JoinPc /\ pc[s][0] \notin LeavePc
    BY <2>1 DEF JoinPc, LeavePc
  <2>. QED BY <1>0, <2>1, <2>2, <2>3, MoveJoin
<1>10. ASSUME NEW u \in Thread, JoinWait(s, u) PROVE JoinerInv'
  <2>1. fault' = "none" /\ arg' = [arg EXCEPT ![s] = u] /\ Joins(s, u)'
    BY <1>10, JoinWaitQueue
  <2>2. /\ pc[s][0] \notin LeavePc /\ context' = context
        /\ pc' = [pc EXCEPT ![s][0] = "parking"]
    BY <1>10, <2>1 DEF JoinWait, Executes, LeavePc, cpu
  <2>3. arg'[s] = u /\ \A k \in Thread \ {s} : arg'[k] = arg[k]
    BY <2>1, QueueTypes
  <2>4. Joined(s)'
    BY <2>1, <2>3 DEF Joined
  <2>. QED BY <1>1, <2>2, <2>3, <2>4
<1>11. CASE Park(s)
  <2>1. /\ pc[s][0] = "parking" /\ arg' = arg
        /\ pc' = [pc EXCEPT ![s][0] = "picking"]
        /\ context' = [context EXCEPT ![s] = Saved(s, 0, "join")]
    BY <1>11 DEF Park, Executes
  <2>2. pc'[s][0] = "picking" /\ \A k \in Thread \ {s} : pc'[k][0] = pc[k][0]
    BY <2>1, SwitchTypes, FrameRead
  <2>3. Joined(s)'
    BY <1>0, <2>1, JoinedKept DEF JoinerInv, JoinPc
  <2>4. /\ \A k \in Thread \ {s} : context'[k] = context[k]
        /\ context'[s].frm = 0 /\ context'[s].stk = s
    BY <2>1, SwitchTypes DEF Saved
  <2>5. "picking" \in LeavePc
    BY DEF LeavePc
  <2>. QED BY <1>0, <2>1, <2>2, <2>3, <2>4, <2>5, MoveJoin
<1>12. CASE Pick(s)
  <2>1. /\ arg' = arg /\ context' = context /\ pc' = [pc EXCEPT ![s][0] = "switch"]
    BY <1>12 DEF Pick, cpu
  <2>2. pc'[s][0] = "switch" /\ \A k \in Thread \ {s} : pc'[k][0] = pc[k][0]
    BY <2>1, SwitchTypes, FrameRead
  <2>3. "switch" \in LeavePc /\ "switch" \notin JoinPc
    BY DEF LeavePc, JoinPc
  <2>. QED BY <1>0, <2>1, <2>2, <2>3, MoveJoin
<1>13. ASSUME NEW val \in Value \cup {"null"}, Exit(s, val) PROVE JoinerInv'
  <2>1. fault' = "none" /\ arg' = arg
    BY <1>13, ExitQueue
  <2>2. /\ pc[s][0] \notin LeavePc /\ context' = context
        /\ pc' = [pc EXCEPT ![s][0] = "switch"]
    BY <1>13, <2>1 DEF Exit, Executes, LeavePc, cpu
  <2>. QED BY <1>1, <2>1, <2>2
<1>. QED BY <1>2, <1>3, <1>5, <1>6, <1>7, <1>8, <1>9, <1>10, <1>11, <1>12,
            <1>13, <1>14, StoreCases DEF Step, Switch

LEMMA JoinTypes ==
  ASSUME TypeInv
  PROVE  /\ got \in [Thread -> Result \cup {"none"}] /\ arg \in [Thread -> Thread]
         /\ ret \in [Thread -> Value \cup {NoData, Uninit}]
         /\ exit_value \in [Thread -> Value \cup {"null", "none"}]
         /\ status \in [Thread -> Status]
BY DEF TypeInv, TypeOK

\* Reading ret of a dead thread returns the value it exited with.
LEMMA ReadDead ==
  ASSUME RetInv, NEW u \in Thread, exit_value[u] \in Value, NEW r \in ReadRet(u)
  PROVE  r = exit_value[u]
<1>1. ret[u] = exit_value[u] /\ ret[u] # NoData /\ ret[u] # Uninit
  BY ValueAssumption DEF RetInv
<1>. QED BY <1>1 DEF ReadRet

\* The results of dead threads never change again.
LEMMA RetStep ==
  ASSUME TypeInv, SwitchInv, QueueInv, RetInv, NEW s \in Thread, Step(s)
  PROVE  RetInv' /\ \A u \in Thread : Dead(u) => exit_value'[u] = exit_value[u]
<1>0. Onward
  BY OnwardStep
<1>1. ASSUME NEW u \in Thread, JoinWait(s, u)
      PROVE  /\ exit_value' = exit_value
             /\ \A w \in Thread : ret'[w] = ret[w] \/ ~Dead(w)
  <2>1. /\ exit_value' = exit_value /\ status[u] # "DONE"
        /\ ret' = ret \/ ret' = [ret EXCEPT ![u] = IF @ = NoData THEN Uninit ELSE @]
    BY <1>1 DEF JoinWait, IsDone
  <2>2. ~Dead(u)
    BY <2>1 DEF Dead
  <2>3. \A w \in Thread : ret'[w] = ret[w] \/ w = u
    BY <2>1, JoinTypes
  <2>. QED BY <2>1, <2>2, <2>3
<1>2. ASSUME NEW val \in Value \cup {"null"}, Exit(s, val)
      PROVE  RetInv' /\ \A u \in Thread : Dead(u) => exit_value'[u] = exit_value[u]
  <2>1. current_thread = s /\ ~Dead(s) /\ Dead(s)'
    BY <1>2, ExitQueue
  <2>2. /\ ret' = [ret EXCEPT ![s] = Stored(s, val)]
        /\ exit_value' = [exit_value EXCEPT ![s] = val]
    BY <1>2, <2>1 DEF Exit
  <2>3. \A u \in Thread : u # s => ret'[u] = ret[u] /\ exit_value'[u] = exit_value[u]
    BY <2>2, JoinTypes
  <2>4. exit_value'[s] = val /\ ret'[s] = Stored(s, val)
    BY <2>2, JoinTypes
  <2>5. val \in Value => Stored(s, val) = val
    BY ValueAssumption DEF Stored
  <2>6. RetInv'
    BY <1>0, <2>1, <2>3, <2>4, <2>5 DEF RetInv, Onward
  <2>. QED BY <2>1, <2>3, <2>6
<1>3. CASE ~\E val \in Value \cup {"null"} : Exit(s, val)
  <2>1. /\ exit_value' = exit_value
        /\ \A w \in Thread : ret'[w] = ret[w] \/ ~Dead(w)
    <3>1. CASE \E u \in Thread : JoinWait(s, u)
      BY <1>1, <3>1
    <3>2. CASE ~\E u \in Thread : JoinWait(s, u)
      <4>1. exit_value' = exit_value /\ ret' = ret
        BY <1>3, <3>2 DEF Step, Switch, LoadId, StoreId, Register, Enter, Yield,
           TimerHook, SchedYield, SwitchTo, Load, JoinDone, Park, Pick,
           JoinReturn, records
      <4>. QED BY <4>1, SMTT(30)
    <3>. QED BY <3>1, <3>2
  <2>2. RetInv'
    BY <1>0, <2>1 DEF RetInv, Onward
  <2>. QED BY <2>1, <2>2
<1>. QED BY <1>2, <1>3

LEMMA GotStep ==
  ASSUME TypeInv, SwitchInv, QueueInv, JoinInv, NEW s \in Thread, Step(s)
  PROVE  GotInv'
<1>0. Onward /\ \A u \in Thread : Dead(u) => exit_value'[u] = exit_value[u]
  BY OnwardStep, RetStep DEF JoinInv
<1>. DEFINE Good(k) == /\ Dead(arg[k])'
                       /\ (exit_value[arg[k]] \in Value => got[k] = exit_value[arg[k]])'
\* A local read now, or before and not touched since, or forgotten.
<1>1. ASSUME \A k \in Thread \ {s} : got'[k] = got[k] /\ arg'[k] = arg[k],
             \/ got'[s] = got[s] /\ arg'[s] = arg[s]
             \/ got'[s] = "none"
             \/ \E u \in Thread :
                  /\ arg'[s] = u /\ Dead(u)
                  /\ exit_value[u] \in Value => got'[s] = exit_value[u]
      PROVE  GotInv'
  <2>1. ASSUME NEW k \in Thread, got'[k] = got[k], arg'[k] = arg[k], got'[k] # "none"
        PROVE  /\ Dead(arg[k])'
               /\ exit_value'[arg'[k]] \in Value => got'[k] = exit_value'[arg'[k]]
    <3>1. PICK u \in Thread : u = arg[k] /\ u = arg'[k]
      BY <2>1, JoinTypes
    <3>2. Dead(u) /\ (exit_value[u] \in Value => got[k] = exit_value[u])
      BY <2>1, <3>1 DEF JoinInv, GotInv
    <3>. QED BY <1>0, <2>1, <3>1, <3>2 DEF Onward
  <2>2. ASSUME NEW u \in Thread, arg'[s] = u, Dead(u),
               exit_value[u] \in Value => got'[s] = exit_value[u]
        PROVE  /\ Dead(arg[s])'
               /\ exit_value'[arg'[s]] \in Value => got'[s] = exit_value'[arg'[s]]
    BY <1>0, <2>2 DEF Onward
  <2>. QED BY <1>1, <2>1, <2>2 DEF GotInv
<1>2. ASSUME NEW u \in Thread, NEW r \in ReadRet(u), Dead(u),
             got' = [got EXCEPT ![s] = r], arg'[s] = u,
             \A k \in Thread \ {s} : arg'[k] = arg[k]
      PROVE  GotInv'
  <2>1. exit_value[u] \in Value => r = exit_value[u]
    BY ReadDead DEF JoinInv
  <2>2. got'[s] = r /\ \A k \in Thread \ {s} : got'[k] = got[k]
    BY <1>2, JoinTypes
  <2>. QED BY <1>1, <1>2, <2>1, <2>2
<1>3. ASSUME NEW u \in Thread, JoinDone(s, u) PROVE GotInv'
  <2>1. PICK r \in ReadRet(u) : got' = [got EXCEPT ![s] = r]
    BY <1>3 DEF JoinDone
  <2>2. arg' = [arg EXCEPT ![s] = u] /\ u > s /\ status[u] = "DONE"
    BY <1>3 DEF JoinDone, MayJoin, IsDone
  <2>3. Dead(u)
    BY <2>2, ThreadFacts DEF Dead, Main
  <2>4. arg'[s] = u /\ \A k \in Thread \ {s} : arg'[k] = arg[k]
    BY <2>2, JoinTypes
  <2>. QED BY <1>2, <2>1, <2>3, <2>4
<1>4. CASE JoinReturn(s)
  <2>1. PICK u \in Thread : u = arg[s]
    BY JoinTypes
  <2>2. PICK r \in ReadRet(u) : got' = [got EXCEPT ![s] = r]
    BY <1>4, <2>1 DEF JoinReturn
  <2>3. arg' = arg
    BY <1>4 DEF JoinReturn
  <2>4. Dead(u)
    <3>1. pc[s][0] = "woken" /\ s \in Range(runlist)
      BY <1>4, OnList DEF JoinReturn, OutsidePc
    <3>2. Joins(s, u) \/ Dead(u)
      BY <2>1, <3>1 DEF JoinInv, JoinerInv, JoinPc, Joined
    <3>3. Joins(s, u) => OnWaitList(s)
      BY DEF Joins, OnWaitList
    <3>. QED BY <3>1, <3>2, <3>3 DEF QueueInv, PlaceInv
  <2>. QED BY <1>2, <2>1, <2>2, <2>3, <2>4
<1>5. CASE GiveId(s) \/ \E u \in Thread : JoinWait(s, u)
  <2>1. PICK u : arg' = [arg EXCEPT ![s] = u] /\ got' = [got EXCEPT ![s] = "none"]
    <3>1. CASE GiveId(s)
      BY <3>1 DEF GiveId
    <3>2. ASSUME NEW u \in Thread, JoinWait(s, u)
          PROVE  arg' = [arg EXCEPT ![s] = u] /\ got' = [got EXCEPT ![s] = "none"]
      <4>1. fault' = "none"
        BY <3>2, JoinWaitQueue
      <4>. QED BY <3>2, <4>1 DEF JoinWait
    <3>. QED BY <1>5, <3>1, <3>2
  <2>2. /\ got'[s] = "none"
        /\ \A k \in Thread \ {s} : got'[k] = got[k] /\ arg'[k] = arg[k]
    BY <2>1, JoinTypes
  <2>. QED BY <1>1, <2>2
<1>6. CASE UNCHANGED <<got, arg>>
  BY <1>1, <1>6, SMTT(30)
<1>7. \/ GiveId(s) \/ JoinReturn(s)
      \/ \E u \in Thread : JoinWait(s, u) \/ JoinDone(s, u)
      \/ UNCHANGED <<got, arg>>
  <2>1. StoreId(s) => GiveId(s) \/ UNCHANGED <<got, arg>>
    BY StoreCases DEF StopId, locals
  <2>. QED BY <2>1 DEF Step, Switch, LoadId, Register, Enter, Yield, TimerHook,
                       SchedYield, SwitchTo, Load, Park, Pick, Exit
<1>. QED BY <1>3, <1>4, <1>5, <1>6, <1>7

LEMMA JoinStep ==
  TypeInv /\ SwitchInv /\ QueueInv /\ JoinInv /\ [Next]_vars => JoinInv'
<1>. SUFFICES ASSUME TypeInv, SwitchInv, QueueInv, JoinInv, [Next]_vars
              PROVE  JoinInv'
  OBVIOUS
<1>1. CASE UNCHANGED vars
  BY <1>1 DEF JoinInv, JoinerInv, RetInv, GotInv, Joined, Joins, Dead, vars,
              queues, records, cpu, locals
<1>2. ASSUME NEW s \in Thread, Step(s) PROVE JoinInv'
  BY <1>2, JoinerStep, RetStep, GotStep DEF JoinInv
<1>. QED BY <1>1, <1>2 DEF Next

\* No assert of the scheduler fails in a step.
LEMMA AssertStep ==
  ASSUME TypeInv, SwitchInv, QueueInv, fault # "assert", [Next]_vars
  PROVE  fault' # "assert"
<1>1. CASE UNCHANGED vars
  BY <1>1 DEF vars
<1>2. ASSUME NEW s \in Thread, Step(s) PROVE fault' # "assert"
  <2>1. ASSUME NEW u \in Thread, JoinWait(s, u) PROVE fault' # "assert"
    BY <2>1, JoinWaitQueue
  <2>2. ASSUME NEW val \in Value \cup {"null"}, Exit(s, val) PROVE fault' # "assert"
    BY <2>2, ExitQueue
  <2>3. ASSUME NEW f \in Frame, Load(s, f) PROVE fault' # "assert"
    <3>1. /\ fault = "none" /\ running = s /\ Top(s) = f /\ pc[s][f] = "load"
      BY <2>3 DEF Load, Executes
    <3>2. PICK n \in Thread : n = next[s][f]
      BY SwitchTypes
    <3>3. current_thread = n
      BY <3>1, <3>2 DEF SwitchInv, TopInv, SwitchPc
    <3>. QED BY <2>3, <3>2, <3>3 DEF Load
  <2>4. CASE UNCHANGED fault
    BY <2>4
  <2>5. CASE StoreId(s)
    BY <2>5, StoreCases DEF GiveId, StopId
  <2>6. CASE Yield(s) \/ TimerHook(s)
    BY <2>6, YieldAsserts DEF Yield, TimerHook, SchedYield
  <2>. QED BY <1>2, <2>1, <2>2, <2>3, <2>4, <2>5, <2>6 DEF Step, Switch, LoadId,
           Register, Enter, SwitchTo, JoinDone, Park, Pick, JoinReturn
<1>. QED BY <1>1, <1>2 DEF Next

KernelInv == TypeInv /\ SwitchInv /\ QueueInv /\ JoinInv /\ fault # "assert"

LEMMA KernelInvariant == Spec => []KernelInv
<1>1. Init => KernelInv
  BY TypeInit, SwitchInit, QueueInit, JoinInit DEF KernelInv, Init
<1>2. KernelInv /\ [Next]_vars => KernelInv'
  BY TypeStep, SwitchStep, QueueStep, JoinStep, AssertStep DEF KernelInv
<1>. QED BY <1>1, <1>2, PTL DEF Spec

\* thread_join, thread_exit, register_thread_current: whatever the timer
\* interrupts, and until get_inc_tid gives an id twice, every registered thread
\* is on the run list once, on one wait list once, or dead.
THEOREM NoThreadLostAlways == Spec => []NoThreadLost
<1>1. KernelInv => NoThreadLost
  BY QueueFacts DEF KernelInv
<1>. QED BY <1>1, KernelInvariant, PTL

\* thread_exit: until get_inc_tid gives an id twice, no joiner sleeps on the
\* wait list of a dead thread.
THEOREM NoLostWakeupAlways == Spec => []NoLostWakeup
<1>1. KernelInv => NoLostWakeup
  BY QueueFacts DEF KernelInv
<1>. QED BY <1>1, KernelInvariant, PTL

\* thread_exit, reap_threads: until get_inc_tid gives an id twice, a dead thread
\* is queued for the reaper at most once, and never after its stack was freed.
THEOREM ReapedOnceAlways == Spec => []ReapedOnce
<1>1. KernelInv => ReapedOnce
  BY QueueFacts DEF KernelInv
<1>. QED BY <1>1, KernelInvariant, PTL

\* thread_join: until get_inc_tid gives an id twice, the joiner's *retval is what
\* the joined thread handed to thread_exit, however long the joiner slept and
\* whatever ran in between.
THEOREM JoinValueAlways == Spec => []JoinValue
<1>1. KernelInv => JoinValue
  BY DEF KernelInv, JoinInv, GotInv, JoinValue
<1>. QED BY <1>1, KernelInvariant, PTL

\* The asserts of thread_join (somebody else runs, the caller is *thread_it),
\* of thread_exit (the run list is not left empty), of sched_yield (current ==
\* old; a run list larger than the map has its dead queued) and of reap_threads
\* (who is reaped is registered, not the first thread, dead, and was not reaped
\* before) never fail, with or without the timer, as long as no dead context was
\* loaded and no id was given twice (nothing is said of what runs after that).
THEOREM AssertsHold == Spec => [](fault # "assert")
<1>1. KernelInv => fault # "assert"
  BY DEF KernelInv
<1>. QED BY <1>1, KernelInvariant, PTL
-----------------------------------------------------------------------------
\* Who sleeps does so for the thread it named in thread_join.
SleepInv == \A t, u \in Thread : Joins(t, u) => arg[t] = u

LEMMA SleepInit == Init => SleepInv
<1>. SUFFICES ASSUME Init, NEW t \in Thread, NEW u \in Thread, Joins(t, u)
              PROVE  FALSE
  BY DEF SleepInv
<1>1. wait_list[u] = <<>> BY DEF Init
<1>. QED BY <1>1 DEF Joins, Range

LEMMA SleepStep ==
  ASSUME TypeInv, SwitchInv, QueueInv, SleepInv, NEW s \in Thread, Step(s)
  PROVE  SleepInv'
<1>1. ASSUME NEW u \in Thread, JoinWait(s, u) PROVE SleepInv'
  <2>1. /\ arg' = [arg EXCEPT ![s] = u]
        /\ \A t, w \in Thread : Joins(t, w)' <=> Joins(t, w) \/ (t = s /\ w = u)
    BY <1>1, JoinWaitQueue
  <2>2. \A w \in Thread : ~Joins(s, w)
    <3>1. s \in Range(runlist)
      BY <1>1, OnList DEF JoinWait, OutsidePc
    <3>. QED BY <3>1 DEF QueueInv, PlaceInv, OnWaitList, Joins
  <2>. QED BY <2>1, <2>2, QueueTypes DEF SleepInv
<1>2. ASSUME NEW val \in Value \cup {"null"}, Exit(s, val) PROVE SleepInv'
  BY <1>2, ExitQueue DEF SleepInv
<1>3. CASE GiveId(s) \/ \E u \in Thread : JoinDone(s, u)
  <2>1. PICK u : arg' = [arg EXCEPT ![s] = u]
    BY <1>3 DEF GiveId, JoinDone
  <2>2. wait_list' = wait_list
    BY <1>3 DEF GiveId, JoinDone, queues
  <2>3. \A w \in Thread : ~Joins(s, w)
    <3>1. s \in Range(runlist)
      BY <1>3, OnList DEF GiveId, JoinDone, OutsidePc
    <3>. QED BY <3>1 DEF QueueInv, PlaceInv, OnWaitList, Joins
  <2>. QED BY <2>1, <2>2, <2>3, QueueTypes DEF SleepInv, Joins
<1>4. CASE UNCHANGED <<arg, wait_list>>
  BY <1>4, SMTT(30) DEF SleepInv, Joins
<1>5. \/ GiveId(s) \/ \E u \in Thread : JoinWait(s, u) \/ JoinDone(s, u)
      \/ \E val \in Value \cup {"null"} : Exit(s, val)
      \/ UNCHANGED <<arg, wait_list>>
  <2>1. StoreId(s) => GiveId(s) \/ UNCHANGED <<arg, wait_list>>
    BY StoreCases DEF StopId, locals, queues
  <2>. QED BY <2>1 DEF Step, Switch, LoadId, Register, Enter, Yield, TimerHook,
                   SchedYield, SwitchTo, Load, Park, Pick, JoinReturn, queues
<1>. QED BY <1>1, <1>2, <1>3, <1>4, <1>5

-----------------------------------------------------------------------------
\* The life of a thread in the words of its queues.
LEMMA LifeIs ==
  ASSUME TypeInv, QueueInv, NEW t \in Thread
  PROVE  /\ Life(t) = "unborn" <=> t \notin thread_map /\ t >= tid_counter
         /\ Life(t) = "taken" <=> t \notin thread_map /\ t < tid_counter
         /\ Life(t) = "freed" <=> t \in freed
         /\ Life(t) = "dead" <=> Dead(t) /\ t \notin freed
         /\ Life(t) = "asleep" <=> t \in waiting_threads
         /\ Life(t) = "alive" <=> t \in thread_map /\ ~Dead(t) /\ t \notin waiting_threads
         /\ Life(t) \in {"unborn", "taken", "freed", "dead", "asleep", "alive"}
<1>1. t \in Nat /\ tid_counter \in Nat
  BY QueueTypes, ThreadFacts
<1>2. /\ t \in freed => Dead(t)
      /\ Dead(t) => t \in thread_map
      /\ t \in waiting_threads => t \in thread_map /\ ~Dead(t)
  BY DEF QueueInv, PlaceInv, DeadInv
<1>. QED BY <1>1, <1>2 DEF Life

\* Who executes its own code is alive.
LEMMA ActsAlive ==
  ASSUME TypeInv, SwitchInv, QueueInv, NEW s \in Thread, NEW p \in OutsidePc,
         Executes(s, 0, p)
  PROVE  Lives[s] = "alive"
<1>1. s \in Range(runlist) BY OnList
<1>2. s \in thread_map /\ ~Dead(s) /\ s \notin waiting_threads
  BY <1>1 DEF QueueInv, PlaceInv
<1>. QED BY <1>2, LifeIs DEF Lives

\* A step that leaves the lives of all.
LEMMA LivesStay ==
  ASSUME UNCHANGED <<thread_map, tid_counter, freed, waiting_threads>>,
         \A t \in Thread : Dead(t)' <=> Dead(t)
  PROVE  Lives' = Lives
<1>1. ASSUME NEW t \in Thread PROVE Life(t)' = Life(t)
  BY DEF Life
<1>. QED BY <1>1 DEF Lives

-----------------------------------------------------------------------------
\* Each step of the scheduler that a thread can notice is one of ThreadSpec.
LEMMA GiveIdLife ==
  ASSUME TypeInv, SwitchInv, QueueInv, NEW s \in Thread, GiveId(s)
  PROVE  threads!Takes(s)
<1>1. Lives[s] = "alive" BY ActsAlive DEF GiveId, OutsidePc
<1>2. PICK u \in Thread : u = tid_counter
  BY DEF GiveId, TypeInv, TypeOK
<1>3. /\ tid_counter' = u + 1 /\ arg' = [arg EXCEPT ![s] = u]
      /\ got' = [got EXCEPT ![s] = "none"]
      /\ UNCHANGED <<thread_map, freed, waiting_threads, status, exit_value>>
  BY <1>2 DEF GiveId, queues, cpu
<1>4. u \notin thread_map /\ u \in Nat
  BY <1>2, QueueTypes DEF QueueInv, IdInv
<1>5. Life(u) = "unborn" /\ Life(u)' = "taken"
  BY <1>2, <1>3, <1>4 DEF Life
<1>6. ASSUME NEW t \in Thread, t # u PROVE Life(t)' = Life(t)
  <2>1. t \in Nat /\ (t < u <=> t < u + 1) BY <1>4, <1>6, ThreadFacts
  <2>. QED BY <1>2, <1>3, <2>1, DeadStill DEF Life
<1>7. Lives[u] = "unborn" /\ Lives' = [Lives EXCEPT ![u] = "taken"]
  BY <1>5, <1>6 DEF Lives
<1>. QED BY <1>1, <1>3, <1>7 DEF threads!Takes

LEMMA RegisterLife ==
  ASSUME TypeInv, SwitchInv, QueueInv, NEW s \in Thread, Register(s)
  PROVE  threads!Creates(s)
<1>1. Lives[s] = "alive" BY ActsAlive DEF Register, OutsidePc
<1>2. PICK u \in Thread : u = arg[s] BY QueueTypes
<1>3. /\ thread_map' = thread_map \cup {u}
      /\ UNCHANGED <<tid_counter, arg, got, freed, waiting_threads, exit_value>>
      /\ Making(s)
  BY <1>2 DEF Register, Executes, Making
<1>4. u \notin thread_map /\ u < tid_counter
  BY <1>2, <1>3 DEF QueueInv, IdInv
<1>5. \A t \in Thread : Dead(t)' <=> Dead(t) BY RegisterQueue
<1>6. u \notin freed /\ ~Dead(u) /\ u \notin waiting_threads
  BY <1>4 DEF QueueInv, PlaceInv, DeadInv
<1>7. Life(u) = "taken" /\ Life(u)' = "alive"
  BY <1>3, <1>4, <1>5, <1>6 DEF Life
<1>8. ASSUME NEW t \in Thread, t # u PROVE Life(t)' = Life(t)
  BY <1>3, <1>5, <1>8 DEF Life
<1>9. Lives[u] = "taken" /\ Lives' = [Lives EXCEPT ![u] = "alive"]
  BY <1>7, <1>8 DEF Lives
<1>. QED BY <1>1, <1>2, <1>3, <1>9 DEF threads!Creates

\* sched_yield frees stacks of the dead, or none.
LEMMA YieldLife ==
  ASSUME TypeInv, QueueInv, NEW s \in Thread, NEW f \in Frame, SchedYield(s, f)
  PROVE  \E S \in SUBSET Thread : threads!Reaps(S)
<1>1. /\ UNCHANGED <<thread_map, tid_counter, waiting_threads, status, exit_value,
                     arg, got>>
      /\ freed' = freed \cup Range(threads_to_reap) \/ freed' = freed
  BY DEF SchedYield, records
<1>2. PICK S \in SUBSET Thread :
        freed' = freed \cup S /\ \A t \in S : Dead(t) /\ t \notin freed
  <2>1. CASE freed' = freed
    <3>1. {} \in SUBSET Thread OBVIOUS
    <3>. QED BY <2>1, <3>1
  <2>2. CASE freed' = freed \cup Range(threads_to_reap)
    <3>1. Range(threads_to_reap) \in SUBSET Thread BY QueueTypes DEF Range
    <3>. QED BY <2>2, <3>1 DEF QueueInv, DeadInv
  <2>. QED BY <1>1, <2>1, <2>2
<1>3. \A t \in Thread : Dead(t)' <=> Dead(t) BY <1>1, DeadStill
<1>4. ASSUME NEW t \in S PROVE Life(t) = "dead" /\ Life(t)' = "freed"
  <2>1. t \in Thread /\ Dead(t) /\ t \notin freed /\ t \in thread_map
    BY <1>2 DEF QueueInv, DeadInv
  <2>. QED BY <1>1, <1>2, <2>1 DEF Life
<1>5. ASSUME NEW t \in Thread \ S PROVE Life(t)' = Life(t)
  BY <1>1, <1>2, <1>3 DEF Life
<1>6. /\ \A t \in S : Lives[t] = "dead"
      /\ Lives' = [t \in Thread |-> IF t \in S THEN "freed" ELSE Lives[t]]
  BY <1>2, <1>4, <1>5 DEF Lives
<1>. QED BY <1>1, <1>2, <1>6 DEF threads!Reaps

LEMMA ReadOutcome ==
  ASSUME TypeInv, JoinInv, NEW u \in Thread, NEW r \in ReadRet(u)
  PROVE  r \in threads!Outcome(u)
<1>1. CASE exit_value[u] \in Value
  BY <1>1, ReadDead DEF JoinInv, threads!Outcome
<1>2. CASE exit_value[u] \notin Value
  <2>1. r \in Result BY JoinTypes DEF ReadRet, Result
  <2>. QED BY <1>2, <2>1 DEF Result, threads!Outcome
<1>. QED BY <1>1, <1>2

\* thread_join returns, at once or after it slept: the thread it named is dead.
LEMMA ReturnsLife ==
  ASSUME TypeInv, SwitchInv, QueueInv, JoinInv, NEW s \in Thread,
         NEW u \in Thread, JoinDone(s, u) \/ (JoinReturn(s) /\ arg[s] = u)
  PROVE  threads!Joins(s, u)
<1>1. Lives[s] = "alive" /\ s \in Range(runlist)
  BY ActsAlive, OnList DEF JoinDone, JoinReturn, OutsidePc
<1>2. /\ UNCHANGED <<thread_map, tid_counter, waiting_threads, freed, exit_value>>
      /\ arg' = [arg EXCEPT ![s] = u]
      /\ \E r \in ReadRet(u) : got' = [got EXCEPT ![s] = r]
  <2>1. CASE JoinDone(s, u) BY <2>1 DEF JoinDone, queues, records, cpu
  <2>2. CASE JoinReturn(s) /\ arg[s] = u
    BY <2>2, QueueTypes DEF JoinReturn, queues
  <2>. QED BY <2>1, <2>2
<1>3. Dead(u)
  <2>1. CASE JoinDone(s, u)
    BY <2>1, ThreadFacts DEF JoinDone, MayJoin, IsDone, Dead, Main
  <2>2. CASE JoinReturn(s) /\ arg[s] = u
    <3>1. pc[s][0] = "woken" BY <2>2 DEF JoinReturn, Executes
    <3>2. Joins(s, u) \/ Dead(u)
      BY <2>2, <3>1 DEF JoinInv, JoinerInv, JoinPc, Joined
    <3>. QED BY <1>1, <3>2 DEF QueueInv, PlaceInv, OnWaitList, Joins
  <2>. QED BY <2>1, <2>2
<1>4. \A t \in Thread : Dead(t)' <=> Dead(t)
  <2>1. CASE JoinDone(s, u) BY <2>1, RestQueue
  <2>2. CASE JoinReturn(s) BY <2>2, ReturnDead
  <2>. QED BY <2>1, <2>2
<1>5. Lives' = Lives BY <1>2, <1>4, LivesStay
<1>6. Lives[u] \in {"dead", "freed"} BY <1>3, LifeIs DEF Lives
<1>. QED BY <1>1, <1>2, <1>5, <1>6, ReadOutcome DEF threads!Joins

LEMMA SleepsLife ==
  ASSUME TypeInv, SwitchInv, QueueInv, NEW s \in Thread, NEW u \in Thread,
         JoinWait(s, u)
  PROVE  threads!Sleeps(s, u)
<1>1. Lives[s] = "alive" /\ current_thread = s
  BY ActsAlive, OnList DEF JoinWait, OutsidePc
<1>2. /\ fault' = "none" /\ arg' = [arg EXCEPT ![s] = u]
      /\ \A t \in Thread : Dead(t)' <=> Dead(t)
  BY JoinWaitQueue
<1>3. /\ waiting_threads' = waiting_threads \cup {s}
      /\ got' = [got EXCEPT ![s] = "none"]
      /\ UNCHANGED <<thread_map, tid_counter, freed, exit_value>>
  BY <1>1, <1>2 DEF JoinWait, cpu
<1>4. u \in thread_map /\ u # s /\ ~Dead(u) /\ u \notin freed
  BY ThreadFacts DEF JoinWait, MayJoin, IsDone, Dead, QueueInv, DeadInv
<1>5. s \in thread_map /\ ~Dead(s) /\ s \notin freed
  BY <1>1, LifeIs DEF Lives, QueueInv, DeadInv
<1>6. Lives[u] \in {"alive", "asleep"} BY <1>4, LifeIs DEF Lives
<1>7. Life(s)' = "asleep" BY <1>2, <1>3, <1>5 DEF Life
<1>8. ASSUME NEW t \in Thread, t # s PROVE Life(t)' = Life(t)
  BY <1>2, <1>3, <1>8 DEF Life
<1>9. Lives' = [Lives EXCEPT ![s] = "asleep"] BY <1>7, <1>8 DEF Lives
<1>. QED BY <1>1, <1>2, <1>3, <1>4, <1>6, <1>9 DEF threads!Sleeps

\* thread_exit: the joiners on the wait list of s are those that sleep for it.
LEMMA ExitsLife ==
  ASSUME TypeInv, SwitchInv, QueueInv, SleepInv, NEW s \in Thread,
         NEW val \in Value \cup {"null"}, Exit(s, val)
  PROVE  threads!Exits(s, val)
<1>1. Lives[s] = "alive" /\ s # Main /\ current_thread = s
  BY ActsAlive, OnList DEF Exit, OutsidePc
<1>2. /\ fault' = "none" /\ arg' = arg
      /\ \A t \in Thread : Dead(t)' <=> Dead(t) \/ t = s
  BY ExitQueue
<1>3. /\ waiting_threads' = waiting_threads \ Range(wait_list[s])
      /\ exit_value' = [exit_value EXCEPT ![s] = val]
      /\ UNCHANGED <<thread_map, tid_counter, freed, got>>
  BY <1>1 DEF Exit, cpu
<1>4. s \in thread_map /\ s \notin freed /\ s \notin waiting_threads
  BY <1>1, LifeIs DEF Lives, QueueInv, DeadInv
<1>5. ASSUME NEW t \in Thread, t \in waiting_threads
      PROVE  t \in Range(wait_list[s]) <=> arg[t] = s
  <2>1. PICK u \in Thread : Joins(t, u)
    BY <1>5 DEF QueueInv, PlaceInv, OnWaitList, Joins
  <2>2. arg[t] = u /\ (Joins(t, s) => arg[t] = s) BY <2>1 DEF SleepInv
  <2>. QED BY <2>1, <2>2 DEF Joins
<1>6. Life(s)' = "dead" BY <1>2, <1>3, <1>4 DEF Life
<1>7. ASSUME NEW t \in Thread, t # s
      PROVE  Life(t)' = IF Life(t) = "asleep" /\ arg[t] = s THEN "alive" ELSE Life(t)
  <2>1. Life(t) = "asleep" <=> t \in waiting_threads BY LifeIs
  <2>2. t \in waiting_threads => t \in thread_map /\ ~Dead(t) /\ t \notin freed
    BY DEF QueueInv, PlaceInv, DeadInv
  <2>. QED BY <1>2, <1>3, <1>5, <1>7, <2>1, <2>2 DEF Life
<1>8. Lives' = [t \in Thread |-> IF t = s THEN "dead"
                 ELSE IF Lives[t] = "asleep" /\ arg[t] = s THEN "alive" ELSE Lives[t]]
  BY <1>6, <1>7 DEF Lives
<1>. QED BY <1>1, <1>2, <1>3, <1>8 DEF threads!Exits

\* The other steps are about contexts and places in the code.
LEMMA RestLife ==
  ASSUME TypeInv, SwitchInv, QueueInv, NEW s \in Thread,
         LoadId(s) \/ StopId(s) \/ Enter(s) \/ Park(s) \/ Pick(s) \/ Switch(s)
  PROVE  UNCHANGED threads!vars
<1>1. UNCHANGED <<thread_map, tid_counter, freed, waiting_threads, status,
                  exit_value, arg, got>>
  BY DEF LoadId, StopId, Enter, Park, Pick, Switch, SwitchTo, Load, queues,
         records, cpu, locals
<1>2. Lives' = Lives BY <1>1, DeadStill, LivesStay
<1>. QED BY <1>1, <1>2, SMTT(30) DEF threads!vars

\* What the refinement rests on.
LifeInv == KernelInv /\ SleepInv

LEMMA LifeAlways == Spec => []LifeInv
<1>1. Init => LifeInv
  BY TypeInit, SwitchInit, QueueInit, JoinInit, SleepInit
  DEF KernelInv, LifeInv, Init
<1>2. LifeInv /\ [Next]_vars => LifeInv'
  <2>. SUFFICES ASSUME LifeInv, [Next]_vars PROVE LifeInv'
    OBVIOUS
  <2>1. KernelInv'
    BY TypeStep, SwitchStep, QueueStep, JoinStep, AssertStep DEF KernelInv, LifeInv
  <2>2. CASE UNCHANGED vars
    BY <2>1, <2>2 DEF LifeInv, SleepInv, Joins, vars, queues, locals
  <2>3. CASE Next
    BY <2>1, <2>3, SleepStep DEF LifeInv, KernelInv, Next
  <2>. QED BY <2>2, <2>3
<1>. QED BY <1>1, <1>2, PTL DEF Spec

LEMMA LifeInit == Init => threads!Init
<1>. SUFFICES ASSUME Init PROVE threads!Init
  OBVIOUS
<1>1. /\ thread_map = {Main} /\ freed = {} /\ waiting_threads = {} /\ tid_counter = 1
      /\ exit_value = [t \in Thread |-> "none"] /\ got = [t \in Thread |-> "none"]
      /\ arg = [t \in Thread |-> Main]
  BY DEF Init
<1>2. ASSUME NEW t \in Thread
      PROVE  Life(t) = IF t = Main THEN "alive" ELSE "unborn"
  BY <1>1, ThreadFacts DEF Life, Dead, Main
<1>. QED BY <1>1, <1>2 DEF Lives, threads!Init

LEMMA LifeStep ==
  ASSUME LifeInv, [Next]_vars
  PROVE  [threads!Next]_(threads!vars)
<1>1. TypeInv /\ SwitchInv /\ QueueInv /\ JoinInv /\ SleepInv
  BY DEF LifeInv, KernelInv
<1>2. CASE UNCHANGED vars
  <2>1. Lives' = Lives
    BY <1>2, DeadStill, LivesStay DEF vars, queues, records, cpu
  <2>. QED BY <1>2, <2>1 DEF threads!vars, vars, records, locals
<1>3. ASSUME NEW s \in Thread, Step(s) PROVE [threads!Next]_(threads!vars)
  <2>1. CASE GiveId(s) BY <1>1, <2>1, GiveIdLife DEF threads!Next
  <2>2. CASE Register(s) BY <1>1, <2>2, RegisterLife DEF threads!Next
  <2>3. CASE Yield(s) \/ TimerHook(s)
    <3>1. PICK f \in Frame : SchedYield(s, f)
      BY <2>3 DEF Yield, TimerHook, Frame
    <3>. QED BY <1>1, <3>1, YieldLife DEF threads!Next
  <2>4. ASSUME NEW u \in Thread, JoinDone(s, u) PROVE threads!Next
    BY <1>1, <2>4, ReturnsLife DEF threads!Next
  <2>5. ASSUME NEW u \in Thread, JoinWait(s, u) PROVE threads!Next
    BY <1>1, <2>5, SleepsLife DEF threads!Next
  <2>6. CASE JoinReturn(s)
    <3>1. arg[s] \in Thread BY <1>1, QueueTypes
    <3>. QED BY <1>1, <2>6, <3>1, ReturnsLife DEF threads!Next
  <2>7. ASSUME NEW val \in Value \cup {"null"}, Exit(s, val) PROVE threads!Next
    BY <1>1, <2>7, ExitsLife DEF threads!Next
  <2>8. CASE LoadId(s) \/ StopId(s) \/ Enter(s) \/ Park(s) \/ Pick(s) \/ Switch(s)
    BY <1>1, <2>8, RestLife
  <2>. QED BY <1>3, <2>1, <2>2, <2>3, <2>4, <2>5, <2>6, <2>7, <2>8, StoreCases
           DEF Step
<1>. QED BY <1>2, <1>3 DEF Next

\* The scheduler implements the life of its threads as those see it who create
\* and join them, with and without the timer, also once a continuation is lost,
\* until get_inc_tid gives an id twice: every step is one of ThreadSpec or a
\* stutter.
THEOREM Implements == Spec => ImplementsThreads
<1>1. LifeInv /\ [Next]_vars => [threads!Next]_(threads!vars) BY LifeStep
<1>. QED BY <1>1, LifeAlways, LifeInit, PTL DEF Spec, ImplementsThreads, threads!Spec

-----------------------------------------------------------------------------
\* The steps of a thread and of the scheduler, without the timer's.
Move(s) ==
  \/ LoadId(s) \/ StoreId(s) \/ Register(s) \/ Enter(s)
  \/ Yield(s) \/ Switch(s)
  \/ \E u \in Thread : JoinDone(s, u) \/ JoinWait(s, u)
  \/ Park(s) \/ Pick(s) \/ JoinReturn(s)
  \/ \E w \in Value \cup {"null"} : Exit(s, w)

\* A saved context is its owner's own frame on a stack that is not freed, and
\* whoever is alive has one, unless it is running and has not yet left.
CoopInv ==
  /\ fault = "none"
  /\ \A k \in Thread : pc[k][1] = "none"
  /\ \A n \in Thread : context[n].at # "none" =>
       context[n].stk = n /\ context[n].frm = 0 /\ n \notin freed
  /\ \A n \in thread_map : ~Dead(n) =>
       (n = running /\ pc[n][0] \notin LeavePc) \/ context[n].at # "none"
  /\ pc[running][0] = "parking" => ~Dead(running)
  /\ \A k \in Thread : pc[k][0] = "counting" => k = running /\ loaded[k] = tid_counter

LEMMA CoopInit == Init => CoopInv
<1>. SUFFICES ASSUME Init PROVE CoopInv
  OBVIOUS
<1>1. /\ fault = "none" /\ running = Main /\ thread_map = {Main}
      /\ pc[Main][0] = "idle" /\ \A k \in Thread : pc[k][1] = "none"
      /\ \A n \in Thread : context[n].at = "none" /\ pc[n][0] # "counting"
  BY ThreadFacts DEF Init, NoContext, Frame
<1>. QED BY <1>1 DEF CoopInv, LeavePc, Dead

\* Every context stays or is newly saved, by its owner, on a stack in use.
SavesOwn ==
  \A n \in Thread :
    \/ context'[n] = context[n]
    \/ /\ context'[n].at # "none" /\ context'[n].stk = n
       /\ context'[n].frm = 0 /\ n \notin freed

\* Whoever is alive after the step was so before, or has a context now.
KeepsAlive ==
  \A n \in thread_map' : ~Dead(n)' =>
    (n \in thread_map /\ ~Dead(n)) \/ context'[n].at # "none"

\* A step of the running thread's frame that may save its own context.
LEMMA CoopOwn ==
  ASSUME TypeInv, CoopInv, NEW s \in Thread, running = s, running' = s,
         fault' = "none", NEW p, pc' = [pc EXCEPT ![s][0] = p],
         freed' = freed, SavesOwn, KeepsAlive, thread_map' \subseteq Thread,
         p \in LeavePc =>
           pc[s][0] \in LeavePc \/ Dead(s)' \/ context'[s].at # "none",
         p = "parking" => ~Dead(s)',
         p = "counting" => loaded'[s] = tid_counter'
  PROVE  CoopInv'
<1>1. /\ pc'[s][0] = p /\ \A k \in Thread : pc'[k][1] = pc[k][1]
      /\ \A k \in Thread \ {s} : pc'[k][0] = pc[k][0]
  BY SwitchTypes, FrameRead
<1>2. \A n \in Thread : context'[n].at # "none" =>
        context'[n].stk = n /\ context'[n].frm = 0 /\ n \notin freed'
  BY DEF CoopInv, SavesOwn
<1>3. ASSUME NEW n \in thread_map', ~Dead(n)', context'[n].at = "none"
      PROVE  n = s /\ p \notin LeavePc
  <2>1. n \in Thread /\ n \in thread_map /\ ~Dead(n) /\ context'[n] = context[n]
    BY <1>3 DEF SavesOwn, KeepsAlive
  <2>2. n = s /\ pc[n][0] \notin LeavePc
    BY <1>3, <2>1 DEF CoopInv
  <2>. QED BY <1>3, <2>2
<1>4. \A k \in Thread : pc'[k][0] = "counting" =>
                          k = running' /\ loaded'[k] = tid_counter'
  BY <1>1 DEF CoopInv
<1>. QED BY <1>1, <1>2, <1>3, <1>4 DEF CoopInv

LEMMA CoopYield ==
  ASSUME TypeInv, SwitchInv, QueueInv, CoopInv, NEW s \in Thread, Yield(s)
  PROVE  CoopInv'
<1>. DEFINE dead == IF Reaps(After(thread_it) > Len(runlist))
                      THEN Range(threads_to_reap) ELSE {}
            kept == [t \in Thread |->
                      IF t \in dead THEN NoContext ELSE context[t]]
<1>1. /\ running = s /\ Pointed = s /\ s \in Range(runlist) /\ pc[s][0] = "idle"
  BY OnList DEF Yield, OutsidePc
<1>2. /\ running' = s /\ fault' = "none" /\ thread_map' = thread_map
      /\ status' = status /\ freed' = freed \cup dead
      /\ \/ context' = kept /\ pc' = pc
         \/ /\ context' = [kept EXCEPT ![s] = Saved(s, 0, "yield")]
            /\ pc' = [pc EXCEPT ![s][0] = "switch"]
  BY <1>1, YieldAsserts DEF Yield, SchedYield, records
<1>3. \A t \in dead : Dead(t)
  BY DEF QueueInv, DeadInv
<1>. HIDE DEF dead
<1>4. ~Dead(s) /\ s \notin freed'
  BY <1>1, <1>2, <1>3 DEF QueueInv, PlaceInv, DeadInv
<1>5. \A n \in Thread : kept[n] = IF n \in dead THEN NoContext ELSE context[n]
  OBVIOUS
<1>6. /\ NoContext.at = "none" /\ Saved(s, 0, "yield").at = "yield"
      /\ Saved(s, 0, "yield").stk = s /\ Saved(s, 0, "yield").frm = 0
  BY DEF NoContext, Saved
<1>7. \A n \in Thread : \/ context'[n] = IF n \in dead THEN NoContext ELSE context[n]
                        \/ n = s /\ context'[n] = Saved(s, 0, "yield")
  <2>1. CASE context' = kept
    BY <1>5, <2>1
  <2>2. CASE context' = [kept EXCEPT ![s] = Saved(s, 0, "yield")]
    BY <1>5, <2>2
  <2>. QED BY <1>2, <2>1, <2>2
<1>8. \A n \in Thread : context'[n].at # "none" =>
        context'[n].stk = n /\ context'[n].frm = 0 /\ n \notin freed'
  BY <1>2, <1>4, <1>6, <1>7 DEF CoopInv
<1>9. \A n \in thread_map : ~Dead(n) =>
        n = s \/ context'[n].at # "none"
  <2>1. \A n \in thread_map : ~Dead(n) => n = s \/ context[n].at # "none"
    BY <1>1 DEF CoopInv
  <2>2. thread_map \subseteq Thread
    BY QueueTypes
  <2>. QED BY <1>3, <1>6, <1>7, <2>1, <2>2
<1>10. \A t \in Thread : Dead(t)' <=> Dead(t)
  BY <1>2, DeadStill
<1>11. \/ pc'[s][0] = "idle"
       \/ pc'[s][0] = "switch" /\ context'[s].at # "none"
  <2>1. CASE pc' = pc
    BY <1>1, <2>1
  <2>2. CASE /\ context' = [kept EXCEPT ![s] = Saved(s, 0, "yield")]
             /\ pc' = [pc EXCEPT ![s][0] = "switch"]
    <3>1. context'[s] = Saved(s, 0, "yield")
      BY <2>2
    <3>. QED BY <1>6, <2>2, <3>1, SwitchTypes, FrameRead
  <2>. QED BY <1>2, <2>1, <2>2
<1>12. \A k \in Thread : pc'[k][1] = pc[k][1]
  <2>1. CASE pc' = pc
    BY <2>1
  <2>2. CASE pc' = [pc EXCEPT ![s][0] = "switch"]
    BY <2>2, SwitchTypes, FrameRead
  <2>. QED BY <1>2, <2>1, <2>2
<1>13. \A n \in thread_map' : ~Dead(n)' =>
         (n = running' /\ pc'[n][0] \notin LeavePc) \/ context'[n].at # "none"
  BY <1>2, <1>9, <1>10, <1>11, QueueTypes DEF LeavePc
<1>14. \A k \in Thread : pc'[k][0] # "counting"
  <2>1. \A k \in Thread : pc[k][0] # "counting"
    BY <1>1 DEF CoopInv
  <2>2. CASE pc' = pc
    BY <2>1, <2>2
  <2>3. CASE pc' = [pc EXCEPT ![s][0] = "switch"]
    BY <2>1, <2>3, SwitchTypes, FrameRead
  <2>. QED BY <1>2, <2>2, <2>3
<1>. QED BY <1>2, <1>8, <1>11, <1>12, <1>13, <1>14 DEF CoopInv

\* load_destroy_context: *thread_it is alive, so it has a context, and that is
\* its own.
LEMMA CoopLoad ==
  ASSUME TypeInv, SwitchInv, QueueInv, CoopInv, NEW s \in Thread,
         NEW f \in Frame, Load(s, f)
  PROVE  CoopInv'
<1>1. /\ fault = "none" /\ running = s /\ Top(s) = f /\ f = 0
      /\ pc[s][0] = "load"
  BY DEF Load, Executes, Top, CoopInv
<1>2. PICK n \in Thread : n = next[s][0] /\ n = next[s][f]
  BY <1>1, SwitchTypes
<1>3. n = Pointed /\ current_thread = n
  BY <1>1, <1>2 DEF SwitchInv, TopInv, SwitchPc
<1>4. n \in Range(runlist)
  BY <1>1, <1>3, QueueTypes DEF TypeInv, ItInList, Pointed, Range
<1>5. n \in thread_map /\ ~Dead(n)
  BY <1>4 DEF QueueInv, PlaceInv
<1>6. /\ context[n].at # "none" /\ context[n].stk = n /\ context[n].frm = 0
      /\ n \notin freed
  BY <1>1, <1>5 DEF CoopInv, LeavePc
<1>7. PICK c \in Context : c = context[n]
  BY SwitchTypes
<1>. DEFINE back == [g \in Frame |->
                      IF g = 1 THEN "none"
                      ELSE IF c.frm = 1 THEN pc[c.stk][0] ELSE ResumesAt(c)]
<1>8. /\ running' = n
      /\ context' = [t \in Thread |->
           IF context[t].stk = n /\ context[t].frm >= 0
             THEN NoContext ELSE context[t]]
      /\ pc' = [pc EXCEPT ![n] = back]
      /\ fault' = "none"
      /\ UNCHANGED <<thread_map, status, freed>>
  BY <1>2, <1>3, <1>6, <1>7, ZenonT(40) DEF Load, queues, records
<1>9. back[0] = ResumesAt(c) /\ back[1] = "none"
  <2>1. c.frm # 1
    BY <1>6, <1>7
  <2>2. 0 \in Frame /\ 1 \in Frame
    BY DEF Frame
  <2>. QED BY <2>1, <2>2
<1>. HIDE DEF back
<1>10. /\ pc'[n][0] = ResumesAt(c) /\ pc'[n][1] = "none"
       /\ \A k \in Thread \ {n} : pc'[k] = pc[k]
  BY <1>8, <1>9, SwitchTypes
<1>11. /\ \A t \in Thread : context'[t] = NoContext \/ context'[t] = context[t]
       /\ \A t \in Thread \ {n} : context[t].at # "none" => context'[t] = context[t]
  BY <1>8 DEF CoopInv
<1>12. \A t \in Thread : Dead(t)' <=> Dead(t)
  BY <1>8, DeadStill
<1>13. \A t \in Thread : context'[t].at # "none" =>
         context'[t].stk = t /\ context'[t].frm = 0 /\ t \notin freed'
  BY <1>8, <1>11 DEF CoopInv, NoContext
<1>14. \A t \in thread_map' : ~Dead(t)' =>
         (t = running' /\ pc'[t][0] \notin LeavePc) \/ context'[t].at # "none"
  <2>1. pc'[n][0] \notin LeavePc
    BY <1>10 DEF ResumesAt, LeavePc
  <2>2. \A t \in thread_map : ~Dead(t) => context[t].at # "none"
    BY <1>1 DEF CoopInv, LeavePc
  <2>. QED BY <1>8, <1>11, <1>12, <2>1, <2>2, QueueTypes
<1>15. \A k \in Thread : pc'[k][1] = "none"
  BY <1>10 DEF CoopInv
<1>16. pc'[running'][0] # "parking"
  BY <1>8, <1>10 DEF ResumesAt
<1>17. \A k \in Thread : pc'[k][0] # "counting"
  <2>1. \A k \in Thread : pc[k][0] # "counting"
    BY <1>1 DEF CoopInv
  <2>. QED BY <1>10, <2>1 DEF ResumesAt
<1>. QED BY <1>8, <1>13, <1>14, <1>15, <1>16, <1>17 DEF CoopInv

LEMMA CoopMove ==
  ASSUME TypeInv, SwitchInv, QueueInv, CoopInv, NEW s \in Thread, Move(s)
  PROVE  CoopInv'
<1>0. fault = "none" /\ \A t \in freed : Dead(t)
  BY DEF CoopInv, QueueInv, DeadInv
<1>9. StoreId(s) => GiveId(s)
  BY DEF StoreId, GiveId, Executes, CoopInv
<1>1. CASE LoadId(s) \/ GiveId(s) \/ Enter(s) \/ JoinReturn(s)
  <2>1. /\ running = s /\ running' = s /\ fault' = "none"
        /\ context' = context /\ freed' = freed /\ thread_map' = thread_map
    BY <1>0, <1>1 DEF LoadId, GiveId, Enter, JoinReturn, Executes, cpu, records
  <2>2. \A t \in Thread : Dead(t)' <=> Dead(t)
    BY <1>1, RestQueue
  <2>3. PICK p \in {"counting", "creating", "idle"} :
          /\ pc' = [pc EXCEPT ![s][0] = p]
          /\ p = "counting" => loaded'[s] = tid_counter'
    <3>1. CASE LoadId(s)
      <4>1. loaded' = [loaded EXCEPT ![s] = tid_counter] /\ tid_counter' = tid_counter
            /\ pc' = [pc EXCEPT ![s][0] = "counting"]
        BY <3>1 DEF LoadId, records
      <4>2. loaded \in [Thread -> Thread]
        BY DEF TypeInv, TypeOK
      <4>. QED BY <4>1, <4>2
    <3>2. CASE GiveId(s) \/ Enter(s) \/ JoinReturn(s)
      BY <3>2 DEF GiveId, Enter, JoinReturn
    <3>. QED BY <1>1, <3>1, <3>2
  <2>4. p \notin LeavePc /\ p # "parking" /\ thread_map \subseteq Thread
    BY QueueTypes DEF LeavePc
  <2>5. SavesOwn /\ KeepsAlive
    BY <2>1, <2>2, <2>3, <2>4 DEF SavesOwn, KeepsAlive
  <2>. QED BY <2>1, <2>2, <2>3, <2>4, <2>5, CoopOwn
<1>2. CASE Register(s)
  <2>1. PICK n \in Thread : n = arg[s]
    BY QueueTypes
  <2>2. /\ running = s /\ running' = s /\ fault' = "none" /\ freed' = freed
        /\ context' = [context EXCEPT ![n] = Saved(n, 0, "entry")]
        /\ thread_map' = thread_map \cup {n} /\ Making(s)
        /\ pc' = [pc EXCEPT ![s][0] = "idle"]
    BY <1>0, <1>2, <2>1 DEF Register, Executes, Making
  <2>3. n \notin freed
    BY <1>0, <2>1, <2>2 DEF QueueInv, IdInv, DeadInv
  <2>4. \A t \in Thread : Dead(t)' <=> Dead(t)
    BY <1>2, RegisterQueue
  <2>5. /\ context'[n].at # "none" /\ context'[n].stk = n /\ context'[n].frm = 0
        /\ \A t \in Thread : t # n => context'[t] = context[t]
    BY <2>2, SwitchTypes DEF Saved
  <2>6. "idle" \notin LeavePc /\ "idle" # "parking" /\ thread_map' \subseteq Thread
    BY <2>2, QueueTypes DEF LeavePc
  <2>7. SavesOwn /\ KeepsAlive
    BY <2>2, <2>3, <2>4, <2>5, <2>6 DEF SavesOwn, KeepsAlive
  <2>. QED BY <2>2, <2>3, <2>4, <2>5, <2>6, <2>7, CoopOwn
<1>3. ASSUME NEW f \in Frame, SwitchTo(s, f) PROVE CoopInv'
  <2>1. f = 0 /\ pc[s][0] = "switch" /\ running = s
    BY <1>3 DEF SwitchTo, Executes, Top, CoopInv
  <2>2. /\ running' = s /\ fault' = "none" /\ freed' = freed
        /\ context' = context /\ thread_map' = thread_map /\ status' = status
        /\ pc' = [pc EXCEPT ![s][0] = "load"]
    BY <1>0, <1>3, <2>1 DEF SwitchTo, records
  <2>3. \A t \in Thread : Dead(t)' <=> Dead(t)
    BY <2>2, DeadStill
  <2>4. pc[s][0] \in LeavePc /\ "load" # "parking" /\ thread_map \subseteq Thread
    BY <2>1, QueueTypes DEF LeavePc
  <2>5. SavesOwn /\ KeepsAlive
    BY <2>1, <2>2, <2>3, <2>4 DEF SavesOwn, KeepsAlive
  <2>. QED BY <2>1, <2>2, <2>3, <2>4, <2>5, CoopOwn
<1>4. ASSUME NEW u \in Thread, JoinDone(s, u) PROVE CoopInv'
  <2>1. /\ UNCHANGED <<fault, pc, context, freed, running, thread_map, status>>
    BY <1>4 DEF JoinDone, cpu, records
  <2>2. \A t \in Thread : Dead(t)' <=> Dead(t)
    BY <2>1, DeadStill
  <2>3. UNCHANGED <<loaded, tid_counter>>
    BY <1>4 DEF JoinDone, records
  <2>4. running \in Thread /\ thread_map \subseteq Thread
    BY DEF TypeInv, TypeOK
  <2>. QED BY <2>1, <2>2, <2>3, <2>4 DEF CoopInv
<1>5. ASSUME NEW u \in Thread, JoinWait(s, u) PROVE CoopInv'
  <2>1. fault' = "none" /\ \A t \in Thread : Dead(t)' <=> Dead(t)
    BY <1>5, JoinWaitQueue
  <2>2. /\ running = s /\ running' = s /\ context' = context /\ freed' = freed
        /\ thread_map' = thread_map /\ pc' = [pc EXCEPT ![s][0] = "parking"]
    BY <1>5, <2>1 DEF JoinWait, Executes, cpu
  <2>3. s \in Range(runlist)
    BY <1>5, OnList DEF JoinWait, OutsidePc
  <2>4. ~Dead(s) /\ "parking" \notin LeavePc /\ thread_map \subseteq Thread
    BY <2>3, QueueTypes DEF QueueInv, PlaceInv, LeavePc
  <2>5. SavesOwn /\ KeepsAlive
    BY <2>1, <2>2, <2>4 DEF SavesOwn, KeepsAlive
  <2>. QED BY <2>1, <2>2, <2>4, <2>5, CoopOwn
<1>6. CASE Park(s)
  <2>1. /\ running = s /\ running' = s /\ fault' = "none" /\ freed' = freed
        /\ context' = [context EXCEPT ![s] = Saved(s, 0, "join")]
        /\ thread_map' = thread_map /\ status' = status
        /\ pc' = [pc EXCEPT ![s][0] = "picking"] /\ pc[s][0] = "parking"
    BY <1>0, <1>6 DEF Park, Executes, records
  <2>2. s \notin freed
    BY <1>0, <2>1 DEF CoopInv
  <2>3. /\ context'[s].at # "none" /\ context'[s].stk = s /\ context'[s].frm = 0
        /\ \A t \in Thread : t # s => context'[t] = context[t]
    BY <2>1, SwitchTypes DEF Saved
  <2>4. \A t \in Thread : Dead(t)' <=> Dead(t)
    BY <2>1, DeadStill
  <2>5. "picking" # "parking" /\ thread_map \subseteq Thread
    BY QueueTypes
  <2>6. SavesOwn /\ KeepsAlive
    BY <2>1, <2>2, <2>3, <2>4, <2>5 DEF SavesOwn, KeepsAlive
  <2>. QED BY <2>1, <2>2, <2>3, <2>4, <2>5, <2>6, CoopOwn
<1>7. CASE Pick(s)
  <2>1. /\ running = s /\ running' = s /\ fault' = "none" /\ freed' = freed
        /\ context' = context /\ thread_map' = thread_map /\ status' = status
        /\ pc' = [pc EXCEPT ![s][0] = "switch"] /\ pc[s][0] = "picking"
    BY <1>0, <1>7 DEF Pick, Executes, cpu, records
  <2>2. \A t \in Thread : Dead(t)' <=> Dead(t)
    BY <2>1, DeadStill
  <2>3. pc[s][0] \in LeavePc /\ "switch" # "parking" /\ thread_map \subseteq Thread
    BY <2>1, QueueTypes DEF LeavePc
  <2>4. SavesOwn /\ KeepsAlive
    BY <2>1, <2>2, <2>3 DEF SavesOwn, KeepsAlive
  <2>. QED BY <2>1, <2>2, <2>3, <2>4, CoopOwn
<1>8. ASSUME NEW w \in Value \cup {"null"}, Exit(s, w) PROVE CoopInv'
  <2>1. /\ fault' = "none" /\ Dead(s)'
        /\ \A t \in Thread : Dead(t)' <=> Dead(t) \/ t = s
    BY <1>8, ExitQueue
  <2>2. /\ running = s /\ running' = s /\ freed' = freed /\ context' = context
        /\ thread_map' = thread_map /\ pc' = [pc EXCEPT ![s][0] = "switch"]
    BY <1>8, <2>1 DEF Exit, Executes, cpu
  <2>3. "switch" # "parking" /\ thread_map \subseteq Thread
    BY QueueTypes
  <2>4. SavesOwn /\ KeepsAlive
    BY <2>1, <2>2, <2>3 DEF SavesOwn, KeepsAlive
  <2>. QED BY <2>1, <2>2, <2>3, <2>4, CoopOwn
<1>. QED BY <1>1, <1>2, <1>3, <1>4, <1>5, <1>6, <1>7, <1>8, <1>9, CoopYield, CoopLoad
         DEF Move, Switch

-----------------------------------------------------------------------------
\* The scheduler with Preemptive = FALSE takes the steps of Scheduler but for
\* the timer's.
LEMMA CoopNext == coop!Next => \E s \in Thread : Move(s)
<1>0. coop!Thread = Thread /\ coop!Frame = Frame
  BY DEF coop!Thread, Thread, coop!Frame, Frame
<1>1. ASSUME NEW s \in Thread
      PROVE  /\ coop!LoadId(s) => LoadId(s)
             /\ coop!StoreId(s) => StoreId(s)
             /\ coop!Register(s) => Register(s)
             /\ coop!Enter(s) => Enter(s)
             /\ coop!Park(s) => Park(s)
             /\ coop!Pick(s) => Pick(s)
  BY DEF coop!LoadId, LoadId, coop!StoreId, StoreId, coop!Register, Register,
         coop!Enter, Enter, coop!Main, Main, coop!Park, Park, coop!Pick, Pick, coop!Executes, Executes, coop!Top, Top,
         coop!Saved, Saved, coop!Pointed, Pointed, coop!queues, queues,
         coop!records, records, coop!cpu, cpu
<1>2. ASSUME NEW s \in Thread, coop!Yield(s) PROVE Yield(s)
  <2>1. /\ coop!Cardinality(thread_map) = Cardinality(thread_map)
        /\ coop!Range(threads_to_reap) = Range(threads_to_reap)
        /\ coop!IsInjective(threads_to_reap) <=> IsInjective(threads_to_reap)
    BY DEF coop!Cardinality, Cardinality, coop!IsInjective, IsInjective,
       coop!Range, Range
  <2>2. ASSUME NEW w PROVE coop!AssertsOfYield(w) <=> AssertsOfYield(w)
    BY <2>1 DEF coop!AssertsOfYield, AssertsOfYield, coop!Reaps, Reaps,
       coop!Main, Main
  <2>3. ASSUME NEW w PROVE coop!Reaps(w) <=> Reaps(w)
    BY DEF coop!Reaps, Reaps
  <2>. QED BY <1>2, <2>1, <2>2, <2>3 DEF coop!Yield, Yield, coop!SchedYield, SchedYield, coop!Executes,
     Executes, coop!Top, Top, coop!Saved, Saved, coop!Pointed, Pointed,
     coop!records, records, coop!Wrapped, Wrapped, coop!After, After,
     coop!Unreaped, Unreaped, coop!NoContext, NoContext,
     coop!Thread, Thread, coop!Main, Main
<1>3. ASSUME NEW s \in Thread PROVE ~coop!TimerHook(s)
  BY SMTT(30) DEF coop!TimerHook
<1>4. ASSUME NEW s \in Thread, coop!Switch(s) PROVE Switch(s)
  BY <1>0, <1>4 DEF coop!Switch, Switch, coop!SwitchTo, SwitchTo, coop!Load, Load,
     coop!Executes, Executes, coop!Top, Top, coop!queues, queues,
     coop!records, records, coop!NoContext, NoContext, coop!ResumesAt, ResumesAt,
     coop!Thread, Thread, coop!Frame, Frame, coop!Main, Main
<1>5. ASSUME NEW s \in Thread, coop!JoinReturn(s) PROVE JoinReturn(s)
  BY <1>5 DEF coop!JoinReturn, JoinReturn, coop!Executes, Executes, coop!Top, Top,
     coop!ReadRet, ReadRet, coop!NoData, NoData, coop!Uninit, Uninit,
     coop!Result, Result, coop!queues, queues
<1>6. ASSUME NEW s \in Thread, NEW u \in Thread, coop!JoinDone(s, u)
      PROVE  JoinDone(s, u)
  BY <1>6 DEF coop!JoinDone, JoinDone, coop!Executes, Executes, coop!Top, Top,
     coop!MayJoin, MayJoin, coop!IsDone, IsDone,
     coop!ReadRet, ReadRet, coop!NoData, NoData, coop!Uninit, Uninit,
     coop!Result, Result, coop!queues, queues, coop!records, records,
     coop!cpu, cpu
<1>7. ASSUME NEW s \in Thread, NEW u \in Thread, coop!JoinWait(s, u)
      PROVE  JoinWait(s, u)
  BY <1>7 DEF coop!JoinWait, JoinWait, coop!Executes, Executes, coop!Top, Top,
     coop!MayJoin, MayJoin, coop!IsDone, IsDone, coop!Pointed, Pointed,
     coop!Wrapped, Wrapped, coop!NoData, NoData, coop!Uninit, Uninit,
     coop!cpu, cpu, coop!RemoveAt, RemoveAt
<1>8. ASSUME NEW s \in Thread, NEW w \in Value \cup {"null"}, coop!Exit(s, w)
      PROVE  Exit(s, w)
  BY <1>8 DEF coop!Exit, Exit, coop!Executes, Executes, coop!Top, Top,
     coop!WithWoken, WithWoken, coop!Wrapped, Wrapped, coop!Stored, Stored,
     coop!Main, Main, coop!cpu, cpu,
     coop!Range, Range, coop!RemoveAt, RemoveAt
<1>9. ASSUME NEW s \in Thread, coop!Step(s) PROVE Move(s)
  BY <1>0, <1>1, <1>2, <1>3, <1>4, <1>5, <1>6, <1>7, <1>8, <1>9 DEF coop!Step, Move
<1>. QED BY <1>0, <1>9 DEF coop!Next

ThreadsInv == TypeInv /\ SwitchInv /\ QueueInv /\ (~timer => CoopInv)

LEMMA CoopFacts == ASSUME TypeInv, QueueInv, CoopInv PROVE NoFault /\ ContextsUsable
<1>1. NoFault
  BY DEF CoopInv, NoFault
<1>2. ASSUME NEW t \in Range(runlist)
      PROVE  Resumable(t) \/ (running = t /\ pc[t][0] # "load")
  <2>1. t \in thread_map /\ ~Dead(t) /\ t \in Thread
    BY QueueTypes DEF QueueInv, PlaceInv
  <2>. QED BY <2>1 DEF CoopInv, Resumable, LeavePc
<1>. QED BY <1>1, <1>2 DEF ContextsUsable

LEMMA ThreadsStep == ThreadsInv /\ [ThreadsNext]_<<timer, vars>> => ThreadsInv'
<1>. SUFFICES ASSUME ThreadsInv, [ThreadsNext]_<<timer, vars>> PROVE ThreadsInv'
  OBVIOUS
<1>1. CASE UNCHANGED <<timer, vars>>
  <2>1. (TypeInv /\ SwitchInv /\ QueueInv)'
    BY <1>1, TypeStep, SwitchStep, QueueStep DEF ThreadsInv
  <2>2. CoopInv => CoopInv'
    BY <1>1 DEF CoopInv, Dead, vars, queues, records, cpu, locals
  <2>. QED BY <1>1, <2>1, <2>2 DEF ThreadsInv
<1>2. CASE timer /\ timer' = timer /\ Next
  BY <1>2, TypeStep, SwitchStep, QueueStep DEF ThreadsInv
<1>3. CASE ~timer /\ timer' = timer /\ coop!Next
  <2>1. PICK s \in Thread : Move(s)
    BY <1>3, CoopNext
  <2>2. Next
    BY <2>1 DEF Next, Step, Move
  <2>3. (TypeInv /\ SwitchInv /\ QueueInv)'
    BY <2>2, TypeStep, SwitchStep, QueueStep DEF ThreadsInv
  <2>4. CoopInv'
    BY <1>3, <2>1, CoopMove DEF ThreadsInv
  <2>. QED BY <1>3, <2>3, <2>4 DEF ThreadsInv
<1>. QED BY <1>1, <1>2, <1>3 DEF ThreadsNext

\* Without the hook (sched_yield, thread_join, thread_exit): no assert fails, no
\* id is given twice, no context is loaded whose frame is gone, and every thread
\* on the run list can be resumed on its own stack.
THEOREM CoopSoundAlways == ThreadsSpec => []CoopSound
<1>1. ThreadsInit => ThreadsInv
  BY TypeInit, SwitchInit, QueueInit, CoopInit DEF ThreadsInit, ThreadsInv
<1>2. ThreadsInv => CoopSound
  BY CoopFacts DEF ThreadsInv, CoopSound
<1>. QED BY <1>1, <1>2, ThreadsStep, PTL DEF ThreadsSpec
=============================================================================
