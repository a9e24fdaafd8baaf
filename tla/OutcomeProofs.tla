--------------------------- MODULE OutcomeProofs ---------------------------
(***************************************************************************)
(* What the waits of the kernel promise, for any number of tasks, objects  *)
(* and messages: what a task finds when it goes on after a wait, when a    *)
(* time limit ends one, when the idle task halts, how the wait queues      *)
(* move, and what event flags, mailboxes and semaphores do for their       *)
(* waiters.  The invariants here are inductive together with KernelInv and *)
(* WaitInv of module Kernel.                                               *)
(***************************************************************************)
EXTENDS Kernel, KernelProofs, FiniteSetTheorems

-----------------------------------------------------------------------------
(* Where a task stands in its own code. *)

\* A wait of kind k of task t was ended by what it was for, and the call has not
\* returned yet.
Ended(t, k) == pc[t] = k /\ tskstat[t] # "WAI" /\ wupcause[t] = "E_OK"

\* The wakeups of t that no sleep has returned for.
Wakeups(t) == wupcnt[t] + (IF Ended(t, "SLP") THEN 1 ELSE 0)

\* A task that waits stands inside the call of its wait, one that does not exist
\* or is dormant in none, and a task that was switched out inside a call goes on
\* from there; then its cause and its wakeups are right.
Stands(t) ==
  /\ tskstat[t] = "WAI" => pc[t] = tskwait[t] /\ pc[t] \in WaitKind
  /\ tskstat[t] \in {"NOEXS", "DMT"} => pc[t] \notin WaitKind
  /\ pc[t] \in WaitKind /\ t # current => sp[t] = "live"
  /\ tskstat[t] = "WAI" => wupcause[t] = "E_OK"
  /\ tskstat[t] \in {"RDY", "RUN"} /\ pc[t] \notin WaitKind => wupcause[t] = "E_OK"
  /\ tskstat[t] \in {"RDY", "RUN", "WAI"} => credit[t] = Wakeups(t)

StandInv == \A t \in TSKID : Stands(t)

\* The step leaves alone how the waits of kind k ended.
Keeps(k) == \A t \in TSKID : Ended(t, k)' <=> Ended(t, k)

\* A step that leaves the fields of t alone.
LEMMA TaskStays ==
  ASSUME NEW t \in TSKID, Stands(t),
         tskstat'[t] = tskstat[t], tskwait'[t] = tskwait[t], wupcause'[t] = wupcause[t],
         wupcnt'[t] = wupcnt[t], credit'[t] = credit[t], pc'[t] = pc[t], sp'[t] = sp[t],
         current' = current \/ (t # current' /\ (t # current \/ sp[t] = "live"))
  PROVE  Stands(t)' /\ \A k \in WaitKind : Ended(t, k)' <=> Ended(t, k)
<1>1. \A k : Ended(t, k)' <=> Ended(t, k)
  BY DEF Ended
<1>2. Wakeups(t)' = Wakeups(t)
  BY <1>1 DEF Wakeups
<1> QED
  BY <1>1, <1>2 DEF Stands

\* A step that leaves the fields of all tasks alone.
LEMMA TasksStay ==
  ASSUME StandInv,
         UNCHANGED <<tskstat, tskwait, wupcause, wupcnt, credit, pc, sp, current>>
  PROVE  StandInv' /\ \A k \in WaitKind : Keeps(k)
<1>1. ASSUME NEW t \in TSKID
      PROVE  Stands(t)' /\ \A k \in WaitKind : Ended(t, k)' <=> Ended(t, k)
  <2>1. Stands(t)
    BY DEF StandInv
  <2> QED
    BY <2>1, TaskStays DEF Stands, Ended, Wakeups
<1> QED
  BY <1>1 DEF StandInv, Keeps

\* A step that moves only the task t, and t is in no wait and finds none behind
\* it: it is created, started or ended, or it goes on in its own code.
LEMMA TaskMoves ==
  ASSUME KernelInv, StandInv, NEW t \in TSKID, UNCHANGED current,
         \A x \in TSKID \ {t} :
           /\ tskstat'[x] = tskstat[x] /\ tskwait'[x] = tskwait[x]
           /\ wupcause'[x] = wupcause[x] /\ wupcnt'[x] = wupcnt[x]
           /\ credit'[x] = credit[x] /\ pc'[x] = pc[x] /\ sp'[x] = sp[x],
         pc[t] \notin WaitKind, pc'[t] \notin WaitKind, tskstat'[t] # "WAI",
         wupcnt'[t] \in Nat,
         tskstat'[t] \in {"RDY", "RUN"} => wupcause'[t] = "E_OK" /\ credit'[t] = wupcnt'[t]
  PROVE  StandInv' /\ \A k \in WaitKind : Keeps(k)
<1>1. ASSUME NEW x \in TSKID, x # t
      PROVE  Stands(x)' /\ \A k \in WaitKind : Ended(x, k)' <=> Ended(x, k)
  <2>1. Stands(x)
    BY DEF StandInv
  <2>2. x \in TSKID \ {t}
    BY <1>1
  <2> QED
    BY <2>1, <2>2, TaskStays DEF Stands, Ended, Wakeups
<1>2. \A k \in WaitKind : ~Ended(t, k) /\ ~Ended(t, k)'
  BY DEF Ended
<1>3. Wakeups(t)' = wupcnt'[t]
  <2>1. ~Ended(t, "SLP")'
    BY <1>2 DEF WaitKind
  <2> QED
    BY <2>1 DEF Wakeups
<1>4. Stands(t)'
  BY <1>3 DEF Stands
<1> QED
  BY <1>1, <1>2, <1>4 DEF StandInv, Keeps

\* The current task begins a wait: the wait before has left no cause behind.
LEMMA BeginStands ==
  ASSUME KernelInv, StandInv, Caller, tkmc_can_block, NEW wkind \in WaitKind, NEW ticks,
         NEW elapsed, BeginWait(wkind, ticks, elapsed)
  PROVE  StandInv' /\ \A k \in WaitKind : Keeps(k)
<1>1. current \in TSKID /\ tskstat[current] = "RUN" /\ pc[current] = "run"
  BY BlockingCaller
<1>2. /\ tskstat' = [tskstat EXCEPT ![current] = "WAI"]
      /\ tskwait' = [tskwait EXCEPT ![current] = wkind]
      /\ pc' = [pc EXCEPT ![current] = wkind]
      /\ UNCHANGED <<wupcause, wupcnt, sp, current, credit>>
  BY DEF BeginWait
<1>3. /\ tskstat \in [TSKID -> TskStat] /\ pc \in [TSKID -> PC]
      /\ tskwait \in [TSKID -> WaitKind \cup {"none"}] /\ wupcnt[current] \in Nat
  BY <1>1 DEF KernelInv, TaskTypes, TcbTypes
<1>4. ASSUME NEW x \in TSKID, x # current
      PROVE  Stands(x)' /\ \A k \in WaitKind : Ended(x, k)' <=> Ended(x, k)
  <2>1. Stands(x)
    BY DEF StandInv
  <2>2. tskstat'[x] = tskstat[x] /\ tskwait'[x] = tskwait[x] /\ pc'[x] = pc[x]
    BY <1>2, <1>3, <1>4
  <2> QED
    BY <1>2, <2>1, <2>2, TaskStays DEF Stands, Ended, Wakeups
<1>5. tskstat'[current] = "WAI" /\ tskwait'[current] = wkind /\ pc'[current] = wkind
  BY <1>1, <1>2, <1>3
<1>6. ASSUME NEW x \in TSKID, x = current
      PROVE  Stands(x)' /\ \A k \in WaitKind : Ended(x, k)' <=> Ended(x, k)
  <2>1. pc[x] \notin WaitKind
    BY <1>1, <1>6 DEF WaitKind
  <2>2. wupcause[x] = "E_OK" /\ credit[x] = Wakeups(x)
    BY <1>1, <1>6, <2>1 DEF StandInv, Stands
  <2>3. \A k \in WaitKind : ~Ended(x, k) /\ ~Ended(x, k)'
    BY <1>5, <1>6, <2>1 DEF Ended
  <2>4. ~Ended(x, "SLP") /\ ~Ended(x, "SLP")'
    BY <2>3 DEF WaitKind
  <2>5. Wakeups(x)' = Wakeups(x)
    BY <1>2, <2>4 DEF Wakeups
  <2>6. Stands(x)'
    BY <1>2, <1>5, <1>6, <2>2, <2>5 DEF Stands
  <2> QED
    BY <2>3, <2>6
<1> QED
  BY <1>4, <1>6 DEF StandInv, Keeps

\* tkmc_complete_wait(): the waits end with their causes, and a sleep that ends
\* with E_OK is paid for by a wakeup.
LEMMA CompleteStands ==
  ASSUME KernelInv, StandInv, NEW ts \in Seq(TSKID), NEW cause \in [TSKID -> Ercd],
         NEW elapsed, \A t \in Elems(ts) : tskstat[t] = "WAI",
         CompleteWaits(ts, cause, elapsed), UNCHANGED <<wupcnt, pc, sp, current>>,
         \A t \in TSKID :
           credit'[t] = credit[t] + (IF t \in Elems(ts) /\ tskwait[t] = "SLP" /\ cause[t] = "E_OK"
                                     THEN 1 ELSE 0)
  PROVE  /\ StandInv'
         /\ \A t \in TSKID, k \in WaitKind :
              Ended(t, k)' <=> \/ Ended(t, k)
                               \/ t \in Elems(ts) /\ tskwait[t] = k /\ cause[t] = "E_OK"
<1> DEFINE done == Elems(ts)
<1>1. /\ tskstat' = [t \in TSKID |-> IF t \in done THEN "RDY" ELSE tskstat[t]]
      /\ tskwait' = [t \in TSKID |-> IF t \in done THEN "none" ELSE tskwait[t]]
      /\ wupcause' = [t \in TSKID |-> IF t \in done THEN cause[t] ELSE wupcause[t]]
  BY DEF CompleteWaits
<1>2. \A t \in TSKID : credit[t] \in Int /\ wupcnt[t] \in Int
  BY DEF KernelInv, TaskTypes, TcbTypes
<1> HIDE DEF done
<1>3. ASSUME NEW t \in TSKID, t \notin done
      PROVE  Stands(t)' /\ \A k \in WaitKind : Ended(t, k)' <=> Ended(t, k)
  <2>1. Stands(t) /\ credit'[t] = credit[t]
    BY <1>2, <1>3 DEF StandInv, done
  <2>2. tskstat'[t] = tskstat[t] /\ tskwait'[t] = tskwait[t] /\ wupcause'[t] = wupcause[t]
    BY <1>1, <1>3
  <2> QED
    BY <2>1, <2>2, TaskStays DEF Stands, Ended, Wakeups
<1>4. ASSUME NEW t \in TSKID, t \in done
      PROVE  /\ Stands(t)'
             /\ \A k \in WaitKind : ~Ended(t, k) /\ (Ended(t, k)' <=> tskwait[t] = k /\ cause[t] = "E_OK")
  <2>1. tskstat[t] = "WAI" /\ pc[t] = tskwait[t] /\ pc[t] \in WaitKind
    BY <1>4 DEF StandInv, Stands, done
  <2>2. tskstat'[t] = "RDY" /\ wupcause'[t] = cause[t] /\ pc'[t] = pc[t]
    BY <1>1, <1>4
  <2>3. \A k \in WaitKind : ~Ended(t, k) /\ (Ended(t, k)' <=> tskwait[t] = k /\ cause[t] = "E_OK")
    BY <2>1, <2>2 DEF Ended
  <2>4. ~Ended(t, "SLP") /\ (Ended(t, "SLP")' <=> tskwait[t] = "SLP" /\ cause[t] = "E_OK")
    BY <2>3 DEF WaitKind
  <2>5. credit[t] = Wakeups(t)
    BY <2>1 DEF StandInv, Stands
  <2>6. credit[t] = wupcnt[t]
    BY <1>2, <2>4, <2>5 DEF Wakeups
  <2>7. credit'[t] = wupcnt'[t] + (IF tskwait[t] = "SLP" /\ cause[t] = "E_OK" THEN 1 ELSE 0)
    BY <1>4, <2>6 DEF done
  <2>8. credit'[t] = Wakeups(t)'
    BY <2>4, <2>7 DEF Wakeups
  <2>9. t # current => sp'[t] = "live"
    BY <2>1 DEF StandInv, Stands
  <2>10. Stands(t)'
    BY <2>1, <2>2, <2>8, <2>9 DEF Stands
  <2> QED
    BY <2>3, <2>10
<1>5. StandInv'
  BY <1>3, <1>4 DEF StandInv
<1>6. ASSUME NEW t \in TSKID, NEW k \in WaitKind
      PROVE  Ended(t, k)' <=> Ended(t, k) \/ (t \in Elems(ts) /\ tskwait[t] = k /\ cause[t] = "E_OK")
  <2>1. CASE t \in done
    BY <1>4, <2>1 DEF done
  <2>2. CASE t \notin done
    BY <1>3, <2>2 DEF done
  <2> QED
    BY <2>1, <2>2
<1> QED
  BY <1>5, <1>6

\* schedule() leaves a task that stands inside a call where it stands: the frame
\* that it was switched out with is its saved stack pointer.
LEMMA ScheduleStands ==
  ASSUME KernelInv, StandInv, msip, schedule,
         UNCHANGED <<tskwait, wupcause, wupcnt, credit>>
  PROVE  StandInv' /\ \A k \in WaitKind : Keeps(k)
<1>1. /\ next \in TSKID /\ current \in TSKID /\ tskstat[next] \in {"RDY", "RUN"}
      /\ tskstat \in [TSKID -> TskStat] /\ pc \in [TSKID -> PC]
      /\ sp \in [TSKID -> {"null", "init", "live"}]
  BY IdleIsReady DEF KernelInv, DispatchRight, TaskTypes, CpuTypes, TcbTypes
<1> DEFINE saved == [sp EXCEPT ![current] = "live"]
<1>2. /\ sp' = saved /\ current' = next
      /\ pc' = IF saved[next] = "init" THEN [pc EXCEPT ![next] = Entry(next)] ELSE pc
  BY DEF schedule
<1>3. \A t \in TSKID : /\ tskstat'[t] = "WAI" <=> tskstat[t] = "WAI"
                       /\ tskstat'[t] = "DMT" <=> tskstat[t] = "DMT"
                       /\ tskstat'[t] = "NOEXS" <=> tskstat[t] = "NOEXS"
                       /\ tskstat'[t] \in {"RDY", "RUN"} <=> tskstat[t] \in {"RDY", "RUN"}
  BY <1>1 DEF schedule, TskStat
<1>4. /\ saved[current] = "live"
      /\ \A t \in TSKID : t # current => saved[t] = sp[t]
  BY <1>1
<1> HIDE DEF saved
<1>5. Entry(next) \notin WaitKind
  BY DEF Entry, WaitKind
<1>6. ASSUME NEW t \in TSKID
      PROVE  /\ pc[t] \in WaitKind => pc'[t] = pc[t] /\ saved[t] = "live"
             /\ pc[t] \notin WaitKind => pc'[t] \notin WaitKind
  <2>1. pc[t] \in WaitKind => saved[t] = "live"
    BY <1>4 DEF StandInv, Stands
  <2>2. pc'[t] = pc[t] \/ (t = next /\ saved[t] = "init" /\ pc'[t] = Entry(next))
    BY <1>1, <1>2
  <2> QED
    BY <1>5, <2>1, <2>2
<1>7. ASSUME NEW t \in TSKID
      PROVE  Stands(t)' /\ \A k \in WaitKind : Ended(t, k)' <=> Ended(t, k)
  <2>1. Stands(t)
    BY DEF StandInv
  <2>2. \A k \in WaitKind : Ended(t, k)' <=> Ended(t, k)
    BY <1>3, <1>6 DEF Ended
  <2>3. Ended(t, "SLP")' <=> Ended(t, "SLP")
    BY <2>2 DEF WaitKind
  <2>4. Wakeups(t)' = Wakeups(t)
    BY <2>3 DEF Wakeups
  <2>5. Stands(t)'
    BY <1>2, <1>3, <1>6, <2>1, <2>4 DEF Stands
  <2> QED
    BY <2>2, <2>5
<1> QED
  BY <1>7 DEF StandInv, Keeps

\* The second half of a call that waited: the task takes the cause.
LEMMA ReturnStands ==
  ASSUME KernelInv, StandInv, TaskRuns, NEW wkind \in WaitKind, pc[current] = wkind,
         pc' = [pc EXCEPT ![current] = "run"], CauseTaken,
         credit' = IF wkind = "SLP" /\ wupcause[current] = "E_OK"
                   THEN [credit EXCEPT ![current] = @ - 1] ELSE credit,
         \A t \in TSKID : t # current => tskwait'[t] = tskwait[t],
         UNCHANGED <<tskstat, wupcnt, sp, current>>
  PROVE  /\ StandInv'
         /\ \A k \in WaitKind : k # wkind => Keeps(k)
         /\ \A t \in TSKID : Ended(t, wkind)' <=> Ended(t, wkind) /\ t # current
<1>1. current \in TSKID /\ tskstat[current] = "RUN"
  BY RunningTask
<1>2. /\ pc \in [TSKID -> PC] /\ wupcause \in [TSKID -> Ercd] /\ credit \in [TSKID -> Int]
      /\ wupcnt[current] \in Int
  BY <1>1 DEF KernelInv, TaskTypes, TcbTypes
<1>3. ASSUME NEW t \in TSKID, t # current
      PROVE  Stands(t)' /\ \A k \in WaitKind : Ended(t, k)' <=> Ended(t, k)
  <2>1. Stands(t)
    BY DEF StandInv
  <2>2. /\ tskwait'[t] = tskwait[t] /\ pc'[t] = pc[t] /\ wupcause'[t] = wupcause[t]
        /\ credit'[t] = credit[t]
    BY <1>1, <1>2, <1>3 DEF CauseTaken
  <2> QED
    BY <2>1, <2>2, TaskStays DEF Stands, Ended, Wakeups
<1>4. pc'[current] = "run" /\ wupcause'[current] = "E_OK"
  BY <1>1, <1>2 DEF CauseTaken
<1>5. "run" \notin WaitKind
  BY DEF WaitKind
<1>6. ASSUME NEW t \in TSKID, t = current
      PROVE  Stands(t)' /\ \A k \in WaitKind : ~Ended(t, k)' /\ (k # wkind => ~Ended(t, k))
  <2>1. \A k \in WaitKind : ~Ended(t, k)' /\ (k # wkind => ~Ended(t, k))
    BY <1>4, <1>5, <1>6 DEF Ended
  <2>2. credit[t] = Wakeups(t)
    BY <1>1, <1>6 DEF StandInv, Stands
  <2>3. Ended(t, "SLP") <=> wkind = "SLP" /\ wupcause[t] = "E_OK"
    BY <1>1, <1>6 DEF Ended
  <2>4. ~Ended(t, "SLP")'
    BY <2>1 DEF WaitKind
  <2>5. credit[t] = wupcnt[t] + (IF wkind = "SLP" /\ wupcause[t] = "E_OK" THEN 1 ELSE 0)
    BY <2>2, <2>3 DEF Wakeups
  <2>6. credit'[t] = wupcnt[t]
    BY <1>2, <1>6, <2>5
  <2>7. credit'[t] = Wakeups(t)'
    BY <1>2, <1>6, <2>4, <2>6 DEF Wakeups
  <2>8. Stands(t)'
    BY <1>1, <1>4, <1>5, <1>6, <2>7 DEF Stands
  <2> QED
    BY <2>1, <2>8
<1>7. StandInv'
  BY <1>3, <1>6 DEF StandInv
<1>8. \A k \in WaitKind : k # wkind => Keeps(k)
  BY <1>3, <1>6 DEF Keeps
<1>9. \A t \in TSKID : Ended(t, wkind)' <=> Ended(t, wkind) /\ t # current
  BY <1>3, <1>6
<1> QED
  BY <1>7, <1>8, <1>9

-----------------------------------------------------------------------------
(* The same with the counts of the waits with a time limit. *)

OutcomeInv == StandInv /\ TimersExact

\* A step that leaves the waits on the timer queue alone.
LEMMA TimersStay ==
  ASSUME KernelInv, TimersExact, UNCHANGED <<timer_queue, edges>>,
         \A t \in TSKID : tskstat[t] = "WAI" => delay_ticks'[t] = delay_ticks[t] /\ left'[t] = left[t]
  PROVE  TimersExact'
<1>1. \A t \in Elems(timer_queue) : t \in TSKID /\ tskstat[t] = "WAI"
  BY SmallQueues DEF KernelInv, TaskTypes, QueueTypes, QueuesConsistent
<1>2. \A t \in Elems(timer_queue) : delay_ticks'[t] = left'[t] + edges
  BY <1>1 DEF TimersExact
<1> QED
  BY <1>2 DEF TimersExact

\* A call that changes nothing of the tasks.
LEMMA StillOutcome ==
  ASSUME KernelInv, OutcomeInv, UNCHANGED taskVars, UNCHANGED edges
  PROVE  OutcomeInv' /\ \A k \in WaitKind : Keeps(k)
<1>1. /\ UNCHANGED <<tskstat, tskwait, wupcause, wupcnt, credit, pc, sp, current>>
      /\ UNCHANGED <<timer_queue, delay_ticks, left>>
  BY DEF taskVars, tcbVars, queueVars
<1>2. StandInv' /\ \A k \in WaitKind : Keeps(k)
  BY <1>1, TasksStay DEF OutcomeInv
<1>3. TimersExact'
  BY <1>1, TimersStay DEF OutcomeInv
<1> QED
  BY <1>2, <1>3 DEF OutcomeInv

\* tkmc_schedule_timer() adds the edges that the handler will take off again.
LEMMA BeginOutcome ==
  ASSUME KernelInv, OutcomeInv, Caller, tkmc_can_block, NEW wkind \in WaitKind,
         NEW ticks \in Nat, NEW elapsed, ticks = 0 \/ elapsed = edges,
         BeginWait(wkind, ticks, elapsed), UNCHANGED edges
  PROVE  OutcomeInv' /\ \A k \in WaitKind : Keeps(k)
<1>1. StandInv' /\ \A k \in WaitKind : Keeps(k)
  BY BeginStands DEF OutcomeInv
<1>2. current \in TSKID /\ tskstat[current] = "RUN"
  BY BlockingCaller
<1>3. /\ timer_queue \in Seq(TSKID) /\ Uniq(timer_queue) /\ current \notin Elems(timer_queue)
      /\ Elems(timer_queue) \subseteq TSKID
      /\ delay_ticks \in [TSKID -> Nat] /\ left \in [TSKID -> Int] /\ edges \in Int
  BY <1>2, SmallQueues DEF KernelInv, TaskTypes, QueueTypes, TcbTypes, CpuTypes, QueuesConsistent
<1>4. Elems(timer_queue') = Elems(timer_queue) \cup (IF ticks = 0 THEN {} ELSE {current})
  <2>1. CASE ticks = 0
    BY <2>1 DEF BeginWait
  <2>2. CASE ticks # 0
    BY <1>2, <1>3, <2>2, AppendQueue DEF BeginWait
  <2> QED
    BY <2>1, <2>2
<1>5. /\ delay_ticks' = [delay_ticks EXCEPT ![current] = IF ticks = 0 THEN 0 ELSE ticks + elapsed]
      /\ left' = [left EXCEPT ![current] = ticks]
  BY DEF BeginWait
<1>6. ASSUME NEW t \in Elems(timer_queue') PROVE delay_ticks'[t] = left'[t] + edges
  <2>1. CASE t \in Elems(timer_queue)
    <3>1. t \in TSKID /\ t # current /\ delay_ticks[t] = left[t] + edges
      BY <1>3, <2>1 DEF OutcomeInv, TimersExact
    <3> QED
      BY <1>3, <1>5, <3>1
  <2>2. CASE t = current /\ ticks # 0
    BY <1>2, <1>3, <1>5, <2>2
  <2> QED
    BY <1>4, <2>1, <2>2
<1>7. TimersExact'
  BY <1>6 DEF TimersExact
<1> QED
  BY <1>1, <1>7 DEF OutcomeInv

\* tkmc_complete_wait() of tasks: the waits that go on have lost the edges that
\* the handler has counted.
LEMMA CompleteOutcome ==
  ASSUME KernelInv, OutcomeInv, NEW ts \in Seq(TSKID), NEW cause \in [TSKID -> Ercd],
         NEW elapsed \in Nat, \A t \in Elems(ts) : tskstat[t] = "WAI",
         CompleteWaits(ts, cause, elapsed), UNCHANGED <<wupcnt, pc, sp, current>>,
         edges' = edges - elapsed,
         \A t \in TSKID :
           credit'[t] = credit[t] + (IF t \in Elems(ts) /\ tskwait[t] = "SLP" /\ cause[t] = "E_OK"
                                     THEN 1 ELSE 0)
  PROVE  /\ OutcomeInv'
         /\ \A t \in TSKID, k \in WaitKind :
              Ended(t, k)' <=> \/ Ended(t, k)
                               \/ t \in Elems(ts) /\ tskwait[t] = k /\ cause[t] = "E_OK"
<1>1. /\ StandInv'
      /\ \A t \in TSKID, k \in WaitKind :
           Ended(t, k)' <=> \/ Ended(t, k)
                            \/ t \in Elems(ts) /\ tskwait[t] = k /\ cause[t] = "E_OK"
  BY CompleteStands DEF OutcomeInv
<1>2. /\ timer_queue \in Seq(TSKID) /\ Uniq(timer_queue) /\ Elems(timer_queue) \subseteq TSKID
      /\ delay_ticks \in [TSKID -> Nat] /\ left \in [TSKID -> Int] /\ edges \in Int
  BY SmallQueues DEF KernelInv, TaskTypes, QueueTypes, TcbTypes, CpuTypes, QueuesConsistent
<1>3. timer_queue' = Without(timer_queue, Elems(ts))
  BY DEF CompleteWaits
<1>4. Elems(timer_queue') = Elems(timer_queue) \ Elems(ts)
  BY <1>2, <1>3, WithoutProperties
<1>5. \A t \in TSKID : t \in Elems(timer_queue) /\ t \notin Elems(ts) =>
        delay_ticks'[t] = delay_ticks[t] - elapsed /\ left'[t] = left[t]
  BY DEF CompleteWaits
<1>6. ASSUME NEW t \in Elems(timer_queue') PROVE delay_ticks'[t] = left'[t] + edges'
  <2>1. /\ t \in TSKID /\ t \in Elems(timer_queue) /\ t \notin Elems(ts)
        /\ delay_ticks[t] = left[t] + edges
    BY <1>2, <1>4 DEF OutcomeInv, TimersExact
  <2>2. delay_ticks'[t] = delay_ticks[t] - elapsed /\ left'[t] = left[t]
    BY <1>5, <2>1
  <2>3. delay_ticks[t] \in Int /\ left[t] \in Int
    BY <1>2, <2>1
  <2> QED
    BY <1>2, <2>1, <2>2, <2>3
<1>7. TimersExact'
  BY <1>6 DEF TimersExact
<1> QED
  BY <1>1, <1>7 DEF OutcomeInv

\* A call that ends waits with one cause for all, and grants no wakeup.
LEMMA CompleteAllOutcome ==
  ASSUME KernelInv, OutcomeInv, NEW ts \in Seq(TSKID), NEW ercd \in Ercd,
         NEW kind \in WaitKind \ {"SLP"},
         \A t \in Elems(ts) : tskstat[t] = "WAI" /\ tskwait[t] = kind,
         CompleteWaits(ts, AllCause(ercd), 0),
         UNCHANGED <<wupcnt, pc, sp, current, credit, edges>>
  PROVE  /\ OutcomeInv'
         /\ \A k \in WaitKind : k # kind => Keeps(k)
         /\ \A t \in TSKID :
              Ended(t, kind)' <=> Ended(t, kind) \/ (t \in Elems(ts) /\ ercd = "E_OK")
<1> DEFINE cause == AllCause(ercd)
<1>1. cause \in [TSKID -> Ercd] /\ \A t \in TSKID : cause[t] = ercd
  BY DEF AllCause
<1>2. \A t \in TSKID : credit[t] \in Int
  BY DEF KernelInv, TaskTypes, TcbTypes
<1>3. edges' = edges - 0
  BY DEF KernelInv, TaskTypes, CpuTypes
<1>4. ASSUME NEW t \in TSKID
      PROVE  credit'[t] = credit[t] + (IF t \in Elems(ts) /\ tskwait[t] = "SLP" /\ cause[t] = "E_OK"
                                       THEN 1 ELSE 0)
  <2>1. ~(t \in Elems(ts) /\ tskwait[t] = "SLP" /\ cause[t] = "E_OK")
    OBVIOUS
  <2> HIDE DEF cause
  <2> QED
    BY <1>2, <2>1
<1> HIDE DEF cause
<1>5. CompleteWaits(ts, cause, 0)
  BY DEF cause
<1>6. /\ OutcomeInv'
      /\ \A t \in TSKID, k \in WaitKind :
           Ended(t, k)' <=> \/ Ended(t, k)
                            \/ t \in Elems(ts) /\ tskwait[t] = k /\ cause[t] = "E_OK"
  BY <1>1, <1>3, <1>4, <1>5, CompleteOutcome
<1>7. \A t \in TSKID : Ended(t, kind)' <=> Ended(t, kind) \/ (t \in Elems(ts) /\ ercd = "E_OK")
  BY <1>1, <1>6
<1>8. \A k \in WaitKind : k # kind => Keeps(k)
  BY <1>6 DEF Keeps
<1> QED
  BY <1>6, <1>7, <1>8

\* tk_cre_tsk() and tk_sta_tsk() reset a TCB that no wait is behind.
LEMMA NewTaskOutcome ==
  ASSUME KernelInv, OutcomeInv, UNCHANGED edges,
         \/ \E pri \in CrePri : tk_cre_tsk(pri)
         \/ \E tskid \in TSKID : tk_sta_tsk(tskid)
  PROVE  OutcomeInv' /\ \A k \in WaitKind : Keeps(k)
<1>1. CASE UNCHANGED taskVars
  BY <1>1, StillOutcome
<1>2. ASSUME NEW t \in TSKID, tskstat[t] \in {"NOEXS", "DMT"}, NEW stat \in {"DMT", "RDY"},
             /\ tskstat' = [tskstat EXCEPT ![t] = stat]
             /\ tskwait' = [tskwait EXCEPT ![t] = "none"]
             /\ delay_ticks' = [delay_ticks EXCEPT ![t] = 0]
             /\ wupcause' = [wupcause EXCEPT ![t] = "E_OK"]
             /\ wupcnt' = [wupcnt EXCEPT ![t] = 0]
             /\ sp' = [sp EXCEPT ![t] = "init"]
             /\ credit' = [credit EXCEPT ![t] = 0]
             /\ UNCHANGED <<pc, timer_queue, current, left>>
      PROVE  OutcomeInv' /\ \A k \in WaitKind : Keeps(k)
  <2>1. TcbTypes
    BY DEF KernelInv, TaskTypes
  <2>2. pc[t] \notin WaitKind
    BY <1>2 DEF OutcomeInv, StandInv, Stands
  <2>3. \A x \in TSKID \ {t} :
           /\ tskstat'[x] = tskstat[x] /\ tskwait'[x] = tskwait[x]
           /\ wupcause'[x] = wupcause[x] /\ wupcnt'[x] = wupcnt[x]
           /\ credit'[x] = credit[x] /\ pc'[x] = pc[x] /\ sp'[x] = sp[x]
    BY <1>2, <2>1 DEF TcbTypes
  <2>4. /\ tskstat'[t] = stat /\ wupcause'[t] = "E_OK" /\ wupcnt'[t] = 0 /\ credit'[t] = 0
        /\ pc'[t] = pc[t]
    BY <1>2, <2>1 DEF TcbTypes
  <2>5. StandInv' /\ \A k \in WaitKind : Keeps(k)
    BY <1>2, <2>2, <2>3, <2>4, TaskMoves DEF OutcomeInv
  <2>6. \A x \in TSKID : tskstat[x] = "WAI" => delay_ticks'[x] = delay_ticks[x] /\ left'[x] = left[x]
    BY <1>2, <2>1 DEF TcbTypes
  <2>7. TimersExact'
    BY <1>2, <2>6, TimersStay DEF OutcomeInv
  <2> QED
    BY <2>5, <2>7 DEF OutcomeInv
<1>3. ASSUME NEW pri \in CrePri, tk_cre_tsk(pri)
      PROVE  OutcomeInv' /\ \A k \in WaitKind : Keeps(k)
  <2>1. CASE pri \notin Pri \/ free_tcb = << >>
    BY <1>1, <1>3, <2>1 DEF tk_cre_tsk
  <2>2. CASE pri \in Pri /\ free_tcb # << >>
    <3> DEFINE t == Head(free_tcb)
    <3>1. t \in TSKID /\ t \in Elems(free_tcb)
      BY <2>2, TailQueue DEF KernelInv, TaskTypes, QueueTypes, QueuesConsistent
    <3>2. tskstat[t] = "NOEXS"
      BY <3>1 DEF KernelInv, QueuesConsistent
    <3> HIDE DEF t
    <3>3. /\ tskstat' = [tskstat EXCEPT ![t] = "DMT"]
          /\ tskwait' = [tskwait EXCEPT ![t] = "none"]
          /\ delay_ticks' = [delay_ticks EXCEPT ![t] = 0]
          /\ wupcause' = [wupcause EXCEPT ![t] = "E_OK"]
          /\ wupcnt' = [wupcnt EXCEPT ![t] = 0]
          /\ sp' = [sp EXCEPT ![t] = "init"]
          /\ credit' = [credit EXCEPT ![t] = 0]
          /\ UNCHANGED <<pc, timer_queue, current, left>>
      BY <1>3, <2>2 DEF tk_cre_tsk, t
    <3> QED
      BY <1>2, <3>1, <3>2, <3>3
  <2> QED
    BY <2>1, <2>2
<1>4. ASSUME NEW t \in TSKID, tk_sta_tsk(t)
      PROVE  OutcomeInv' /\ \A k \in WaitKind : Keeps(k)
  <2>1. CASE tskstat[t] # "DMT"
    BY <1>1, <1>4, <2>1 DEF tk_sta_tsk
  <2>2. CASE tskstat[t] = "DMT"
    <3>1. /\ tskstat' = [tskstat EXCEPT ![t] = "RDY"]
          /\ tskwait' = [tskwait EXCEPT ![t] = "none"]
          /\ delay_ticks' = [delay_ticks EXCEPT ![t] = 0]
          /\ wupcause' = [wupcause EXCEPT ![t] = "E_OK"]
          /\ wupcnt' = [wupcnt EXCEPT ![t] = 0]
          /\ sp' = [sp EXCEPT ![t] = "init"]
          /\ credit' = [credit EXCEPT ![t] = 0]
          /\ UNCHANGED <<pc, timer_queue, current, left>>
      BY <1>4, <2>2 DEF tk_sta_tsk
    <3> QED
      BY <1>2, <2>2, <3>1
  <2> QED
    BY <2>1, <2>2
<1> QED
  BY <1>3, <1>4

\* tk_wup_tsk(): a wakeup ends a sleep or is queued.
LEMMA WupTskOutcome ==
  ASSUME KernelInv, OutcomeInv, UNCHANGED edges, NEW t \in TSKID, tk_wup_tsk(t)
  PROVE  OutcomeInv' /\ \A k \in WaitKind \ {"SLP"} : Keeps(k)
<1>0. TcbTypes
  BY DEF KernelInv, TaskTypes
<1>1. CASE UNCHANGED taskVars
  BY <1>1, StillOutcome
<1>2. CASE /\ WakesSleep(t) /\ CompleteWaits(<<t>>, AllCause("E_OK"), 0)
           /\ credit' = [credit EXCEPT ![t] = @ + 1]
           /\ UNCHANGED <<wupcnt, sp, pc, current>>
  <2> DEFINE ts == <<t>>
             cause == AllCause("E_OK")
  <2>1. ts \in Seq(TSKID) /\ Elems(ts) = {t}
    BY SmallQueues
  <2>2. cause \in [TSKID -> Ercd] /\ \A x \in TSKID : cause[x] = "E_OK"
    BY DEF AllCause, Ercd
  <2>3. tskstat[t] = "WAI" /\ tskwait[t] = "SLP"
    BY <1>2 DEF WakesSleep
  <2> HIDE DEF ts, cause
  <2>4. CompleteWaits(ts, cause, 0) /\ edges' = edges - 0
    BY <1>2 DEF ts, cause, KernelInv, TaskTypes, CpuTypes
  <2>5. \A x \in TSKID :
          credit'[x] = credit[x] + (IF x \in Elems(ts) /\ tskwait[x] = "SLP" /\ cause[x] = "E_OK"
                                    THEN 1 ELSE 0)
    <3>1. \A x \in TSKID : credit[x] \in Int
      BY <1>0 DEF TcbTypes
    <3>2. credit'[t] = credit[t] + 1 /\ \A x \in TSKID : x # t => credit'[x] = credit[x]
      BY <1>0, <1>2 DEF TcbTypes
    <3> QED
      BY <2>1, <2>2, <2>3, <3>1, <3>2
  <2>6. /\ OutcomeInv'
        /\ \A x \in TSKID, k \in WaitKind :
             Ended(x, k)' <=> \/ Ended(x, k)
                              \/ x \in Elems(ts) /\ tskwait[x] = k /\ cause[x] = "E_OK"
    BY <1>2, <2>1, <2>2, <2>3, <2>4, <2>5, CompleteOutcome
  <2>7. \A k \in WaitKind \ {"SLP"} : Keeps(k)
    BY <2>1, <2>3, <2>6 DEF Keeps
  <2> QED
    BY <2>6, <2>7
<1>3. CASE /\ tskstat[t] \notin {"NOEXS", "DMT"}
           /\ wupcnt' = [wupcnt EXCEPT ![t] = @ + 1]
           /\ credit' = [credit EXCEPT ![t] = @ + 1]
           /\ UNCHANGED <<tskstat, tskwait, delay_ticks, wupcause, sp, pc, timer_queue, current,
                          left>>
  <2>1. ASSUME NEW x \in TSKID
        PROVE  Stands(x)' /\ \A k \in WaitKind : Ended(x, k)' <=> Ended(x, k)
    <3>1. Stands(x)
      BY DEF OutcomeInv, StandInv
    <3>2. \A k \in WaitKind : Ended(x, k)' <=> Ended(x, k)
      BY <1>3 DEF Ended
    <3>3. Ended(x, "SLP")' <=> Ended(x, "SLP")
      BY <1>3 DEF Ended
    <3>4. credit[x] = Wakeups(x) => credit'[x] = Wakeups(x)'
      <4>1. credit[x] \in Int /\ wupcnt[x] \in Int
        BY <1>0 DEF TcbTypes
      <4>2. \/ wupcnt'[x] = wupcnt[x] /\ credit'[x] = credit[x]
            \/ wupcnt'[x] = wupcnt[x] + 1 /\ credit'[x] = credit[x] + 1
        BY <1>0, <1>3 DEF TcbTypes
      <4> QED
        BY <3>3, <4>1, <4>2 DEF Wakeups
    <3>5. Stands(x)'
      BY <1>3, <3>1, <3>4 DEF Stands
    <3> QED
      BY <3>2, <3>5
  <2>2. StandInv' /\ \A k \in WaitKind : Keeps(k)
    BY <2>1 DEF StandInv, Keeps
  <2>3. TimersExact'
    BY <1>3, TimersStay DEF OutcomeInv
  <2> QED
    BY <2>2, <2>3 DEF OutcomeInv
<1> QED
  <2>1. CASE (t = current /\ ~tkmc_in_isr) \/ tskstat[t] \in {"NOEXS", "DMT"}
    BY <1>1, <2>1 DEF tk_wup_tsk
  <2>2. CASE ~(t = current /\ ~tkmc_in_isr) /\ tskstat[t] \notin {"NOEXS", "DMT"}
    BY <1>1, <1>2, <1>3, <2>2 DEF tk_wup_tsk, queueVars
  <2> QED
    BY <2>1, <2>2

\* tk_ext_tsk() and tk_exd_tsk(): a task that ends is in no wait.
LEMMA ExitOutcome ==
  ASSUME KernelInv, OutcomeInv, UNCHANGED edges, tk_ext_tsk \/ tk_exd_tsk
  PROVE  OutcomeInv' /\ \A k \in WaitKind : Keeps(k)
<1>0. TcbTypes
  BY DEF KernelInv, TaskTypes
<1>1. CASE ~tkmc_can_block
  <2>1. /\ UNCHANGED <<tskstat, tskwait, wupcause, wupcnt, credit, pc, sp, current>>
        /\ UNCHANGED <<timer_queue, delay_ticks, left>>
    BY <1>1 DEF tk_ext_tsk, tk_exd_tsk, tkmc_fatal_context, tcbVars, queueVars
  <2>2. StandInv' /\ \A k \in WaitKind : Keeps(k)
    BY <2>1, TasksStay DEF OutcomeInv
  <2>3. TimersExact'
    BY <2>1, TimersStay DEF OutcomeInv
  <2> QED
    BY <2>2, <2>3 DEF OutcomeInv
<1>2. CASE tkmc_can_block
  <2>1. current \in TSKID /\ tskstat[current] = "RUN" /\ pc[current] = "run"
    BY <1>2, BlockingCaller DEF tk_ext_tsk, tk_exd_tsk
  <2>2. /\ UNCHANGED <<wupcause, wupcnt, credit, sp, current, timer_queue, delay_ticks, left>>
        /\ pc' = [pc EXCEPT ![current] = "exit"]
        /\ \E stat \in {"DMT", "NOEXS"} : tskstat' = [tskstat EXCEPT ![current] = stat]
        /\ tskwait' = tskwait \/ tskwait' = [tskwait EXCEPT ![current] = "none"]
    BY <1>2 DEF tk_ext_tsk, tk_exd_tsk
  <2>3. /\ \A x \in TSKID \ {current} :
             /\ tskstat'[x] = tskstat[x] /\ tskwait'[x] = tskwait[x]
             /\ wupcause'[x] = wupcause[x] /\ wupcnt'[x] = wupcnt[x]
             /\ credit'[x] = credit[x] /\ pc'[x] = pc[x] /\ sp'[x] = sp[x]
        /\ tskstat'[current] \in {"DMT", "NOEXS"} /\ pc'[current] = "exit"
        /\ wupcnt'[current] \in Nat
    BY <1>0, <2>1, <2>2 DEF TcbTypes
  <2>4. "run" \notin WaitKind /\ "exit" \notin WaitKind
    BY DEF WaitKind
  <2>5. StandInv' /\ \A k \in WaitKind : Keeps(k)
    BY <2>1, <2>2, <2>3, <2>4, TaskMoves DEF OutcomeInv
  <2>6. TimersExact'
    BY <2>2, TimersStay DEF OutcomeInv
  <2> QED
    BY <2>5, <2>6 DEF OutcomeInv
<1> QED
  BY <1>1, <1>2

\* The task calls.
LEMMA TaskCallOutcome ==
  ASSUME KernelInv, OutcomeInv, TaskCall
  PROVE  OutcomeInv' /\ \A k \in WaitKind \ {"SLP"} : Keeps(k)
  BY NewTaskOutcome, WupTskOutcome, ExitOutcome DEF TaskCall

\* The current task goes on in its own code: tkmc_yield(), DI(), EI(), the idle
\* loop, and the return from tk_ext_tsk().
LEMMA MoveOutcome ==
  ASSUME KernelInv, OutcomeInv, TaskRuns, NEW pcAfter,
         pc[current] \notin WaitKind, pcAfter \notin WaitKind,
         pc' = [pc EXCEPT ![current] = pcAfter],
         UNCHANGED <<tskstat, tskwait, wupcause, wupcnt, credit, sp, current>>,
         UNCHANGED <<timer_queue, delay_ticks, left, edges>>
  PROVE  OutcomeInv' /\ \A k \in WaitKind : Keeps(k)
<1>0. TcbTypes
  BY DEF KernelInv, TaskTypes
<1>1. current \in TSKID /\ tskstat[current] = "RUN"
  BY RunningTask
<1>2. wupcause[current] = "E_OK" /\ credit[current] = wupcnt[current]
  <2>1. wupcause[current] = "E_OK" /\ credit[current] = Wakeups(current)
    BY <1>1 DEF OutcomeInv, StandInv, Stands
  <2>2. ~Ended(current, "SLP")
    BY DEF Ended, WaitKind
  <2>3. wupcnt[current] \in Int
    BY <1>0, <1>1 DEF TcbTypes
  <2> QED
    BY <2>1, <2>2, <2>3 DEF Wakeups
<1>3. /\ pc'[current] = pcAfter /\ wupcnt'[current] \in Nat
      /\ \A x \in TSKID \ {current} : pc'[x] = pc[x]
  BY <1>0, <1>1 DEF TcbTypes
<1>4. StandInv' /\ \A k \in WaitKind : Keeps(k)
  BY <1>1, <1>2, <1>3, TaskMoves DEF OutcomeInv
<1>5. TimersExact'
  BY TimersStay DEF OutcomeInv
<1> QED
  BY <1>4, <1>5 DEF OutcomeInv

\* The ticks of a wait.
LEMMA TicksNat ==
  ASSUME NEW ms \in Nat
  PROVE  tkmc_ms_to_ticks(ms) \in Nat
  BY DEF tkmc_ms_to_ticks

\* The timer calls.
LEMMA TimerCallOutcome ==
  ASSUME KernelInv, OutcomeInv, TimerCall
  PROVE  OutcomeInv' /\ \A k \in WaitKind \ {"SLP", "DLY"} : Keeps(k)
<1>0. TcbTypes
  BY DEF KernelInv, TaskTypes
<1>2. ASSUME NEW tmout \in Tmo, tk_slp_tsk(tmout)
      PROVE  OutcomeInv' /\ \A k \in WaitKind : Keeps(k)
  <2>0. Caller /\ UNCHANGED edges /\ "SLP" \in WaitKind /\ tmout \in Int
    BY <1>2, TimerAssumption DEF tk_slp_tsk, WaitKind
  <2>1. CASE UNCHANGED taskVars
    BY <2>0, <2>1, StillOutcome
  <2>2. CASE /\ tkmc_can_block
             /\ wupcnt' = [wupcnt EXCEPT ![current] = @ - 1]
             /\ credit' = [credit EXCEPT ![current] = @ - 1]
             /\ UNCHANGED <<tskstat, tskwait, delay_ticks, wupcause, sp, pc, timer_queue,
                            current, left>>
             /\ wupcnt[current] > 0
    <3>1. current \in TSKID /\ tskstat[current] = "RUN" /\ pc[current] \notin WaitKind
      BY <2>0, <2>2, BlockingCaller DEF WaitKind
    <3>2. wupcause[current] = "E_OK" /\ credit[current] = Wakeups(current)
      BY <3>1 DEF OutcomeInv, StandInv, Stands
    <3>3. ~Ended(current, "SLP")
      BY <3>1 DEF Ended, WaitKind
    <3>4. wupcnt[current] \in Nat /\ credit[current] = wupcnt[current]
      BY <1>0, <3>1, <3>2, <3>3 DEF TcbTypes, Wakeups
    <3>5. /\ wupcnt'[current] \in Nat /\ credit'[current] = wupcnt'[current]
          /\ \A x \in TSKID \ {current} : wupcnt'[x] = wupcnt[x] /\ credit'[x] = credit[x]
      BY <1>0, <2>2, <3>1, <3>4 DEF TcbTypes
    <3>6. StandInv' /\ \A k \in WaitKind : Keeps(k)
      BY <2>2, <3>1, <3>2, <3>5, TaskMoves DEF OutcomeInv
    <3>7. TimersExact'
      BY <2>0, <2>2, TimersStay DEF OutcomeInv
    <3> QED
      BY <3>6, <3>7 DEF OutcomeInv
  <2>3. CASE tkmc_can_block /\ tmout > 0 /\ BeginWait("SLP", tkmc_ms_to_ticks(tmout), edges)
    <3>1. tkmc_ms_to_ticks(tmout) \in Nat
      BY <2>0, <2>3, TicksNat
    <3> QED
      BY <2>0, <2>3, <3>1, BeginOutcome
  <2>4. CASE tkmc_can_block /\ BeginWait("SLP", 0, 0)
    BY <2>0, <2>4, BeginOutcome
  <2> QED
    BY <1>2, <2>1, <2>2, <2>3, <2>4 DEF tk_slp_tsk, tkmc_schedule_timer, queueVars
<1>3. ASSUME NEW dlytm \in RelTim, tk_dly_tsk(dlytm)
      PROVE  OutcomeInv' /\ \A k \in WaitKind : Keeps(k)
  <2>0. Caller /\ UNCHANGED edges /\ "DLY" \in WaitKind /\ "run" \notin WaitKind /\ dlytm \in Nat
    BY <1>3, TimerAssumption DEF tk_dly_tsk, WaitKind
  <2>1. CASE UNCHANGED taskVars
    BY <2>0, <2>1, StillOutcome
  <2>2. CASE tkmc_can_block /\ tkmc_yield("run")
    <3>1. TaskRuns /\ pc[current] = "run"
      BY <2>0, <2>2 DEF Caller, tkmc_can_block, tkmc_in_isr
    <3> QED
      BY <2>0, <2>2, <3>1, MoveOutcome DEF tkmc_yield
  <2>3. CASE tkmc_can_block /\ BeginWait("DLY", tkmc_ms_to_ticks(dlytm), edges)
    <3>1. tkmc_ms_to_ticks(dlytm) \in Nat
      BY <2>0, TicksNat
    <3> QED
      BY <2>0, <2>3, <3>1, BeginOutcome
  <2> QED
    BY <1>3, <2>1, <2>2, <2>3 DEF tk_dly_tsk, tkmc_schedule_timer
<1>4. ASSUME NEW wkind \in {"SLP", "DLY"}, WaitReturn(wkind)
      PROVE  OutcomeInv' /\ \A k \in WaitKind \ {"SLP", "DLY"} : Keeps(k)
  <2>1. wkind \in WaitKind
    BY DEF WaitKind
  <2>2. StandInv' /\ \A k \in WaitKind : k # wkind => Keeps(k)
    BY <1>4, <2>1, ReturnStands DEF WaitReturn, OutcomeInv
  <2>3. TimersExact'
    BY <1>4, TimersStay DEF WaitReturn, queueVars, OutcomeInv
  <2> QED
    BY <2>2, <2>3 DEF OutcomeInv
<1> QED
  BY <1>2, <1>3, <1>4 DEF TimerCall

-----------------------------------------------------------------------------
(* The calls of the objects. *)

\* Tasks on the wait queue of an object wait, for that kind of object.
LEMMA ObjWaitKind ==
  ASSUME WaitInv, NEW o \in Obj
  PROVE  \A t \in Elems(wait_queue[o]) :
           t \in TSKID /\ tskstat[t] = "WAI" /\ tskwait[t] = Kind(o) /\ winfo[t].obj = o
<1> SUFFICES ASSUME NEW t \in Elems(wait_queue[o])
             PROVE  t \in TSKID /\ tskstat[t] = "WAI" /\ tskwait[t] = Kind(o) /\ winfo[t].obj = o
  OBVIOUS
<1>1. t \in TSKID
  BY ObjWaiters
<1>2. Queued(t) /\ winfo[t].obj = o
  BY <1>1 DEF WaitInv, WaitQueuesConsistent, WaitersQueued
<1> QED
  BY <1>1, <1>2 DEF WaitInv, WaitQueuesConsistent, WaitersQueued, Queued

\* A call that puts the current task on the wait queue of an object.
LEMMA JoinOutcome ==
  ASSUME KernelInv, OutcomeInv, Caller, tkmc_can_block, NEW wkind \in WaitKind,
         NEW tmout \in Int, UNCHANGED edges,
         IF tmout > 0 THEN tkmc_schedule_timer(tkmc_ms_to_ticks(tmout), wkind)
                      ELSE BeginWait(wkind, 0, 0)
  PROVE  OutcomeInv' /\ \A k \in WaitKind : Keeps(k)
<1>1. CASE tmout > 0
  <2>1. tkmc_ms_to_ticks(tmout) \in Nat
    BY <1>1, TicksNat
  <2> QED
    BY <1>1, <2>1, BeginOutcome DEF tkmc_schedule_timer
<1>2. CASE ~(tmout > 0)
  BY <1>2, BeginOutcome
<1> QED
  BY <1>1, <1>2

\* Waits that end by a time limit or tk_rel_wai(): of those only the tasks that
\* were given their units find E_OK.
LEMMA EndOutcome ==
  ASSUME KernelInv, OutcomeInv, NEW b \in Ends, NEW ercd \in Ercd \ {"E_OK"},
         NEW elapsed \in Nat, EndWaits(b, ercd, elapsed), edges' = edges - elapsed,
         UNCHANGED <<wupcnt, pc, sp, current, credit>>
  PROVE  /\ OutcomeInv'
         /\ \A k \in WaitKind \ {"SEM"} : Keeps(k)
         /\ \A t \in TSKID : Ended(t, "SEM")' <=> Ended(t, "SEM") \/ t \in b.given
<1> DEFINE ts == b.ts
           cause == Causes(b, ercd)
<1>1. /\ ts \in Seq(TSKID) /\ b.given \subseteq TSKID
      /\ \A t \in Elems(ts) : tskstat[t] = "WAI"
      /\ \A t \in b.given : t \in Elems(ts) /\ tskwait[t] = "SEM"
  BY DEF Ends
<1>2. cause \in [TSKID -> Ercd]
  BY CausesType
<1>3. \A t \in TSKID : cause[t] = "E_OK" <=> t \in b.given
  BY DEF Causes
<1>4. CompleteWaits(ts, cause, elapsed)
  BY DEF EndWaits
<1> HIDE DEF ts, cause
<1>5. ASSUME NEW t \in TSKID
      PROVE  credit'[t] = credit[t] + (IF t \in Elems(ts) /\ tskwait[t] = "SLP" /\ cause[t] = "E_OK"
                                       THEN 1 ELSE 0)
  <2>1. ~(t \in Elems(ts) /\ tskwait[t] = "SLP" /\ cause[t] = "E_OK")
    BY <1>1, <1>3
  <2>2. credit[t] \in Int
    BY DEF KernelInv, TaskTypes, TcbTypes
  <2> QED
    BY <2>1, <2>2
<1>6. /\ OutcomeInv'
      /\ \A t \in TSKID, k \in WaitKind :
           Ended(t, k)' <=> \/ Ended(t, k)
                            \/ t \in Elems(ts) /\ tskwait[t] = k /\ cause[t] = "E_OK"
  BY <1>1, <1>2, <1>4, <1>5, CompleteOutcome
<1>7. \A k \in WaitKind \ {"SEM"} : Keeps(k)
  BY <1>1, <1>3, <1>6 DEF Keeps
<1>8. "SEM" \in WaitKind
  BY DEF WaitKind
<1>9. \A t \in TSKID : Ended(t, "SEM")' <=> Ended(t, "SEM") \/ t \in b.given
  BY <1>1, <1>3, <1>6, <1>8
<1> QED
  BY <1>6, <1>7, <1>9

\* The second half of a call that waited for an object.
LEMMA WaitReturnOutcome ==
  ASSUME KernelInv, OutcomeInv, NEW wkind \in WaitKind, WaitReturn(wkind)
  PROVE  /\ OutcomeInv'
         /\ \A k \in WaitKind : k # wkind => Keeps(k)
         /\ \A t \in TSKID : Ended(t, wkind)' <=> Ended(t, wkind) /\ t # current
<1>1. /\ StandInv' /\ \A k \in WaitKind : k # wkind => Keeps(k)
      /\ \A t \in TSKID : Ended(t, wkind)' <=> Ended(t, wkind) /\ t # current
  BY ReturnStands DEF WaitReturn, OutcomeInv
<1>2. TimersExact'
  BY TimersStay DEF WaitReturn, queueVars, OutcomeInv
<1> QED
  BY <1>1, <1>2 DEF OutcomeInv

\* tk_rel_wai() and the semaphore calls.
LEMMA SemaphoreCallOutcome ==
  ASSUME KernelInv, WaitInv, OutcomeInv, SemaphoreCall
  PROVE  OutcomeInv' /\ \A k \in WaitKind \ {"SEM"} : Keeps(k)
<1>0. "SEM" \in WaitKind /\ "SEM" \in WaitKind \ {"SLP"}
  BY DEF WaitKind
<1>1. CASE UNCHANGED taskVars /\ UNCHANGED edges
  BY <1>1, StillOutcome
<1>2. ASSUME NEW tskid \in TSKID, tk_rel_wai(tskid)
      PROVE  OutcomeInv' /\ \A k \in WaitKind \ {"SEM"} : Keeps(k)
  <2>1. CASE RelWaiRefused(tskid)
    BY <1>1, <1>2, <2>1 DEF tk_rel_wai
  <2>2. CASE ~RelWaiRefused(tskid)
    <3> DEFINE b == Leave(NoneLeft, tskid)
    <3>1. b \in Ends
      BY <2>2, NoneLeftEnds, LeaveProperties DEF RelWaiRefused
    <3>2. /\ EndWaits(b, "E_RLWAI", 0) /\ edges' = edges
          /\ UNCHANGED <<wupcnt, pc, sp, current, credit>>
      BY <1>2, <2>2 DEF tk_rel_wai
    <3>3. edges' = edges - 0 /\ "E_RLWAI" \in Ercd \ {"E_OK"}
      BY <3>2 DEF KernelInv, TaskTypes, CpuTypes, Ercd
    <3> HIDE DEF b
    <3> QED
      BY <3>1, <3>2, <3>3, EndOutcome
  <2> QED
    BY <2>1, <2>2
<1>3. ASSUME NEW atr, NEW isemcnt, NEW max, tk_cre_sem(atr, isemcnt, max)
      PROVE  OutcomeInv' /\ \A k \in WaitKind \ {"SEM"} : Keeps(k)
  BY <1>1, <1>3 DEF tk_cre_sem
<1>4. ASSUME NEW semid \in SEMID, tk_del_sem(semid)
      PROVE  OutcomeInv' /\ \A k \in WaitKind \ {"SEM"} : Keeps(k)
  <2>1. CASE ~semexs[semid]
    BY <1>1, <1>4, <2>1 DEF tk_del_sem
  <2>2. CASE semexs[semid]
    <3> DEFINE ts == wait_queue[Sem(semid)]
    <3>1. /\ ts \in Seq(TSKID)
          /\ \A t \in Elems(ts) : tskstat[t] = "WAI" /\ tskwait[t] = "SEM"
      BY Objects, ObjWaiters, ObjWaitKind
    <3>2. /\ CompleteWaits(ts, AllCause("E_DLT"), 0)
          /\ UNCHANGED <<wupcnt, pc, sp, current, credit, edges>>
      BY <1>4, <2>2 DEF tk_del_sem, Released
    <3>3. "E_DLT" \in Ercd
      BY DEF Ercd
    <3> HIDE DEF ts
    <3> QED
      BY <1>0, <3>1, <3>2, <3>3, CompleteAllOutcome
  <2> QED
    BY <2>1, <2>2
<1>5. ASSUME NEW semid \in SEMID, NEW cnt \in SemCnt, NEW tmout \in SemTmo,
             tk_wai_sem(semid, cnt, tmout)
      PROVE  OutcomeInv' /\ \A k \in WaitKind \ {"SEM"} : Keeps(k)
  <2>1. Caller /\ UNCHANGED edges /\ tmout \in Int
    BY <1>5, SemaphoreAssumption DEF tk_wai_sem
  <2>2. CASE UNCHANGED taskVars
    BY <1>1, <2>1, <2>2
  <2>3. CASE /\ tkmc_can_block
             /\ IF tmout > 0 THEN tkmc_schedule_timer(tkmc_ms_to_ticks(tmout), "SEM")
                             ELSE BeginWait("SEM", 0, 0)
    BY <1>0, <2>1, <2>3, JoinOutcome
  <2> QED
    BY <1>5, <2>2, <2>3 DEF tk_wai_sem
<1>6. ASSUME NEW semid \in SEMID, NEW cnt \in SemCnt, tk_sig_sem(semid, cnt)
      PROVE  OutcomeInv' /\ \A k \in WaitKind \ {"SEM"} : Keeps(k)
  <2>1. CASE cnt <= 0 \/ ~semexs[semid] \/ ~SigRoom(semid, cnt)
    BY <1>1, <1>6, <2>1 DEF tk_sig_sem
  <2>2. CASE ~(cnt <= 0 \/ ~semexs[semid] \/ ~SigRoom(semid, cnt))
    <3> DEFINE q == wait_queue[Sem(semid)]
               u == semcnt[semid] + cnt
               ts == Serve(semid, q, u).served
    <3>1. u \in Nat /\ \A t \in TSKID : winfo[t].req \in Nat
      BY <2>2, SemaphoreAssumption DEF WaitInv, WaitTypes, SemTypes
    <3>2. /\ q \in Seq(TSKID) /\ Uniq(q)
          /\ \A t \in Elems(q) : tskstat[t] = "WAI" /\ tskwait[t] = "SEM"
      BY Objects, ObjWaiters, ObjWaitKind
    <3>3. /\ CompleteWaits(ts, AllCause("E_OK"), 0)
          /\ UNCHANGED <<wupcnt, pc, sp, current, credit, edges>>
      BY <1>6, <2>2 DEF tk_sig_sem
    <3> HIDE DEF q, u
    <3>4. ts \in Seq(TSKID) /\ Elems(ts) \subseteq Elems(q)
      BY <3>1, <3>2, ServeProperties
    <3>5. "E_OK" \in Ercd
      BY DEF Ercd
    <3> HIDE DEF ts
    <3> QED
      BY <1>0, <3>2, <3>3, <3>4, <3>5, CompleteAllOutcome
  <2> QED
    BY <2>1, <2>2
<1>7. ASSUME SemReturn
      PROVE  OutcomeInv' /\ \A k \in WaitKind \ {"SEM"} : Keeps(k)
  BY <1>0, <1>7, WaitReturnOutcome DEF SemReturn
<1> QED
  BY <1>2, <1>3, <1>4, <1>5, <1>6, <1>7 DEF SemaphoreCall

\* The event flag calls.
LEMMA FlagCallOutcome ==
  ASSUME KernelInv, WaitInv, OutcomeInv, FlagCall
  PROVE  OutcomeInv' /\ \A k \in WaitKind \ {"FLG"} : Keeps(k)
<1>0. "FLG" \in WaitKind /\ "FLG" \in WaitKind \ {"SLP"}
  BY DEF WaitKind
<1>1. CASE UNCHANGED taskVars /\ UNCHANGED edges
  BY <1>1, StillOutcome
<1>2. ASSUME NEW atr, NEW iflgptn, tk_cre_flg(atr, iflgptn)
      PROVE  OutcomeInv' /\ \A k \in WaitKind \ {"FLG"} : Keeps(k)
  BY <1>1, <1>2 DEF tk_cre_flg
<1>3. ASSUME NEW flgid \in FLGID, NEW waiptn, NEW wfmode, NEW tmout \in FlgTmo,
             tk_wai_flg(flgid, waiptn, wfmode, tmout)
      PROVE  OutcomeInv' /\ \A k \in WaitKind \ {"FLG"} : Keeps(k)
  <2>1. Caller /\ UNCHANGED edges /\ tmout \in Int
    BY <1>3, EventFlagAssumption DEF tk_wai_flg
  <2>2. CASE UNCHANGED taskVars
    BY <1>1, <2>1, <2>2
  <2>3. CASE /\ tkmc_can_block
             /\ IF tmout > 0 THEN tkmc_schedule_timer(tkmc_ms_to_ticks(tmout), "FLG")
                             ELSE BeginWait("FLG", 0, 0)
    BY <1>0, <2>1, <2>3, JoinOutcome
  <2> QED
    BY <1>3, <2>2, <2>3 DEF tk_wai_flg
<1>4. ASSUME NEW flgid \in FLGID, NEW setptn \in FlgPtn, tk_set_flg(flgid, setptn)
      PROVE  OutcomeInv' /\ \A k \in WaitKind \ {"FLG"} : Keeps(k)
  <2>1. CASE ~flgexs[flgid]
    BY <1>1, <1>4, <2>1 DEF tk_set_flg
  <2>2. CASE flgexs[flgid]
    <3> DEFINE q == wait_queue[Flg(flgid)]
               ptn == flgptn[flgid] \cup setptn
               ts == SetWalk(q, ptn).served
    <3>1. /\ q \in Seq(TSKID) /\ Uniq(q)
          /\ \A t \in Elems(q) : tskstat[t] = "WAI" /\ tskwait[t] = "FLG"
      BY Objects, ObjWaiters, ObjWaitKind
    <3>2. ptn \in SUBSET Bit
      BY EventFlagAssumption DEF WaitInv, FlgTypes
    <3>3. /\ CompleteWaits(ts, AllCause("E_OK"), 0)
          /\ UNCHANGED <<wupcnt, pc, sp, current, credit, edges>>
      BY <1>4, <2>2 DEF tk_set_flg
    <3> HIDE DEF q, ptn
    <3>4. ts \in Seq(TSKID) /\ Elems(ts) \subseteq Elems(q)
      BY <3>1, <3>2, SetWalkProperties
    <3>5. "E_OK" \in Ercd
      BY DEF Ercd
    <3> HIDE DEF ts
    <3> QED
      BY <1>0, <3>1, <3>3, <3>4, <3>5, CompleteAllOutcome
  <2> QED
    BY <2>1, <2>2
<1>5. ASSUME NEW flgid, NEW clrptn, tk_clr_flg(flgid, clrptn)
      PROVE  OutcomeInv' /\ \A k \in WaitKind \ {"FLG"} : Keeps(k)
  BY <1>1, <1>5 DEF tk_clr_flg
<1>6. ASSUME FlgReturn
      PROVE  OutcomeInv' /\ \A k \in WaitKind \ {"FLG"} : Keeps(k)
  BY <1>0, <1>6, WaitReturnOutcome DEF FlgReturn
<1> QED
  BY <1>2, <1>3, <1>4, <1>5, <1>6 DEF FlagCall

\* The mailbox calls.
LEMMA MailboxCallOutcome ==
  ASSUME KernelInv, WaitInv, OutcomeInv, MailboxCall
  PROVE  OutcomeInv' /\ \A k \in WaitKind \ {"MBX"} : Keeps(k)
<1>0. "MBX" \in WaitKind /\ "MBX" \in WaitKind \ {"SLP"}
  BY DEF WaitKind
<1>1. CASE UNCHANGED taskVars /\ UNCHANGED edges
  BY <1>1, StillOutcome
<1>2. ASSUME NEW atr, tk_cre_mbx(atr)
      PROVE  OutcomeInv' /\ \A k \in WaitKind \ {"MBX"} : Keeps(k)
  BY <1>1, <1>2 DEF tk_cre_mbx
<1>3. ASSUME NEW mbxid \in MBXID, tk_del_mbx(mbxid)
      PROVE  OutcomeInv' /\ \A k \in WaitKind \ {"MBX"} : Keeps(k)
  <2>1. CASE ~mbxexs[mbxid]
    BY <1>1, <1>3, <2>1 DEF tk_del_mbx
  <2>2. CASE mbxexs[mbxid]
    <3> DEFINE ts == wait_queue[Mbx(mbxid)]
    <3>1. /\ ts \in Seq(TSKID)
          /\ \A t \in Elems(ts) : tskstat[t] = "WAI" /\ tskwait[t] = "MBX"
      BY Objects, ObjWaiters, ObjWaitKind
    <3>2. /\ CompleteWaits(ts, AllCause("E_DLT"), 0)
          /\ UNCHANGED <<wupcnt, pc, sp, current, credit, edges>>
      BY <1>3, <2>2 DEF tk_del_mbx
    <3>3. "E_DLT" \in Ercd
      BY DEF Ercd
    <3> HIDE DEF ts
    <3> QED
      BY <1>0, <3>1, <3>2, <3>3, CompleteAllOutcome
  <2> QED
    BY <2>1, <2>2
<1>4. ASSUME NEW mbxid \in MBXID, NEW msg \in Msg, tk_snd_mbx(mbxid, msg)
      PROVE  OutcomeInv' /\ \A k \in WaitKind \ {"MBX"} : Keeps(k)
  <2>1. CASE UNCHANGED taskVars
    BY <1>1, <1>4, <2>1 DEF tk_snd_mbx
  <2>2. CASE ~UNCHANGED taskVars
    <3> DEFINE t == pop_waiting_receiver(mbxid)
               ts == <<t>>
    <3>1. /\ t # NULL /\ CompleteWaits(ts, AllCause("E_OK"), 0)
          /\ UNCHANGED <<wupcnt, pc, sp, current, credit, edges>>
      BY <1>4, <2>2 DEF tk_snd_mbx
    <3>2. t \in Elems(wait_queue[Mbx(mbxid)])
      <4> DEFINE q == wait_queue[Mbx(mbxid)]
      <4>1. q \in Seq(TSKID) /\ Uniq(q)
        BY Objects, ObjWaiters
      <4>2. q # << >> /\ t = Head(q)
        BY <3>1 DEF pop_waiting_receiver
      <4> HIDE DEF q, t
      <4>3. t \in Elems(q)
        BY <4>1, <4>2, TailQueue
      <4> QED
        BY <4>3 DEF q
    <3>3. t \in TSKID /\ tskstat[t] = "WAI" /\ tskwait[t] = "MBX"
      BY <3>2, Objects, ObjWaitKind
    <3> HIDE DEF t
    <3>4. ts \in Seq(TSKID) /\ Elems(ts) = {t} /\ "E_OK" \in Ercd
      BY <3>3, SmallQueues DEF Ercd
    <3> HIDE DEF ts
    <3> QED
      BY <1>0, <3>1, <3>3, <3>4, CompleteAllOutcome
  <2> QED
    BY <2>1, <2>2
<1>5. ASSUME NEW mbxid \in MBXID, NEW tmout \in MbxTmo, tk_rcv_mbx(mbxid, tmout)
      PROVE  OutcomeInv' /\ \A k \in WaitKind \ {"MBX"} : Keeps(k)
  <2>1. Caller /\ UNCHANGED edges /\ tmout \in Int
    BY <1>5, MailboxAssumption DEF tk_rcv_mbx
  <2>2. CASE UNCHANGED taskVars
    BY <1>1, <2>1, <2>2
  <2>3. CASE /\ tkmc_can_block
             /\ IF tmout > 0 THEN tkmc_schedule_timer(tkmc_ms_to_ticks(tmout), "MBX")
                             ELSE BeginWait("MBX", 0, 0)
    BY <1>0, <2>1, <2>3, JoinOutcome
  <2> QED
    BY <1>5, <2>2, <2>3 DEF tk_rcv_mbx
<1>6. ASSUME MbxReturn
      PROVE  OutcomeInv' /\ \A k \in WaitKind \ {"MBX"} : Keeps(k)
  <2>1. /\ TaskRuns /\ pc[current] = "MBX" /\ pc' = [pc EXCEPT ![current] = "run"] /\ CauseTaken
        /\ tskwait' = [tskwait EXCEPT ![current] = "none"]
        /\ delay_ticks' = [delay_ticks EXCEPT ![current] = 0]
        /\ UNCHANGED <<tskstat, wupcnt, sp, current, credit, timer_queue, left, edges>>
    BY <1>6 DEF MbxReturn
  <2>2. current \in TSKID /\ tskstat[current] = "RUN"
    BY <2>1, RunningTask
  <2>3. \A t \in TSKID : t # current => tskwait'[t] = tskwait[t] /\ delay_ticks'[t] = delay_ticks[t]
    BY <2>1 DEF KernelInv, TaskTypes, TcbTypes
  <2>4. StandInv' /\ \A k \in WaitKind : k # "MBX" => Keeps(k)
    BY <1>0, <2>1, <2>3, ReturnStands DEF OutcomeInv
  <2>5. TimersExact'
    BY <2>1, <2>2, <2>3, TimersStay DEF OutcomeInv
  <2> QED
    BY <2>4, <2>5 DEF OutcomeInv
<1> QED
  BY <1>2, <1>3, <1>4, <1>5, <1>6 DEF MailboxCall

\* The traps: the timer handler gives a semaphore's units to tasks, and ends no
\* other wait with E_OK.
LEMMA TrapOutcome ==
  ASSUME KernelInv, WaitInv, OutcomeInv, Trap
  PROVE  OutcomeInv' /\ \A k \in WaitKind \ {"SEM"} : Keeps(k)
<1>1. ASSUME msip, schedule,
             UNCHANGED <<tskwait, wupcause, wupcnt, credit, queueVars, delay_ticks, left, edges>>
      PROVE  OutcomeInv' /\ \A k \in WaitKind : Keeps(k)
  <2>1. StandInv' /\ \A k \in WaitKind : Keeps(k)
    BY <1>1, ScheduleStands DEF OutcomeInv
  <2>2. TimersExact'
    BY <1>1, TimersStay DEF OutcomeInv, queueVars
  <2> QED
    BY <2>1, <2>2 DEF OutcomeInv
<1>2. ASSUME UNCHANGED <<tskstat, tskwait, wupcause, wupcnt, credit, pc, sp, current>>,
             UNCHANGED <<queueVars, delay_ticks, left, edges>>
      PROVE  OutcomeInv' /\ \A k \in WaitKind : Keeps(k)
  <2>1. StandInv' /\ \A k \in WaitKind : Keeps(k)
    BY <1>2, TasksStay DEF OutcomeInv
  <2>2. TimersExact'
    BY <1>2, TimersStay DEF OutcomeInv, queueVars
  <2> QED
    BY <2>1, <2>2 DEF OutcomeInv
<1>3. CASE mtrap_handler
  BY <1>1, <1>3 DEF mtrap_handler
<1>4. CASE timer_interrupt
  <2> DEFINE b == TimedOut(edges)
  <2>1. edges \in Nat
    BY EdgesNat DEF KernelInv
  <2>2. b \in Ends
    BY <2>1, TimedOutProperties
  <2>3. /\ EndWaits(b, "E_TMOUT", edges) /\ edges' = 0
        /\ UNCHANGED <<wupcnt, pc, sp, current, credit>>
    BY <1>4 DEF timer_interrupt
  <2>4. edges' = edges - edges /\ "E_TMOUT" \in Ercd \ {"E_OK"}
    BY <2>1, <2>3 DEF Ercd
  <2> HIDE DEF b
  <2> QED
    BY <2>1, <2>2, <2>3, <2>4, EndOutcome
<1>5. CASE external_interrupt
  BY <1>2, <1>5 DEF external_interrupt, tcbVars
<1>6. CASE TrapExit
  <2>1. CASE msip
    BY <1>1, <1>6, <2>1 DEF TrapExit
  <2>2. CASE ~msip
    BY <1>2, <1>6, <2>2 DEF TrapExit
  <2> QED
    BY <2>1, <2>2
<1> QED
  BY <1>3, <1>4, <1>5, <1>6 DEF Trap

\* What a task does besides calling the kernel, and the clock.
LEMMA OtherOutcome ==
  ASSUME KernelInv, OutcomeInv,
         Idle \/ TaskDI \/ TaskEI \/ ExitReturns \/ ClockTick \/ UNCHANGED vars
  PROVE  OutcomeInv' /\ \A k \in WaitKind : Keeps(k)
<1>0. /\ "run" \notin WaitKind /\ "exit" \notin WaitKind
      /\ \A x \in IdlePC : x \notin WaitKind
  BY DEF WaitKind, IdlePC
<1>1. ASSUME NEW on, NEW pcAfter, TaskRuns, SetMie(on, pcAfter), pc[current] \notin WaitKind,
             pcAfter \notin WaitKind
      PROVE  OutcomeInv' /\ \A k \in WaitKind : Keeps(k)
  BY <1>1, MoveOutcome DEF SetMie, queueVars
<1>2. CASE TaskDI \/ TaskEI
  BY <1>0, <1>1, <1>2 DEF TaskDI, TaskEI
<1>3. CASE IdleCheck \/ IdleWfi \/ IdleEI
  BY <1>0, <1>1, <1>3 DEF IdleCheck, IdleWfi, IdleEI, IdlePC
<1>4. CASE IdleYield
  BY <1>0, <1>4, MoveOutcome DEF IdleYield, tkmc_yield, IdlePC
<1>5. CASE ExitReturns
  <2>1. /\ TaskRuns /\ pc[current] = "exit"
        /\ UNCHANGED <<tskstat, tskwait, wupcause, wupcnt, credit, sp, current>>
        /\ UNCHANGED <<timer_queue, delay_ticks, left, edges>>
        /\ pc' = [pc EXCEPT ![current] = "run"] \/ pc' = pc
    BY <1>5 DEF ExitReturns, queueVars
  <2>2. CASE pc' = [pc EXCEPT ![current] = "run"]
    BY <1>0, <2>1, <2>2, MoveOutcome
  <2>3. CASE pc' = pc
    <3>1. StandInv' /\ \A k \in WaitKind : Keeps(k)
      BY <2>1, <2>3, TasksStay DEF OutcomeInv
    <3>2. TimersExact'
      BY <2>1, TimersStay DEF OutcomeInv
    <3> QED
      BY <3>1, <3>2 DEF OutcomeInv
  <2> QED
    BY <2>1, <2>2, <2>3
<1>6. CASE ClockTick
  <2>1. /\ UNCHANGED <<tskstat, tskwait, wupcause, wupcnt, credit, pc, sp, current>>
        /\ UNCHANGED <<timer_queue, delay_ticks>> /\ edges' = edges + 1
        /\ left' = [t \in TSKID |-> IF t \in Elems(timer_queue) THEN left[t] - 1 ELSE left[t]]
    BY <1>6 DEF ClockTick, TickEdge, tcbVars, queueVars
  <2>2. StandInv' /\ \A k \in WaitKind : Keeps(k)
    BY <2>1, TasksStay DEF OutcomeInv
  <2>3. ASSUME NEW t \in Elems(timer_queue) PROVE delay_ticks[t] = left'[t] + edges'
    <3>1. t \in TSKID
      BY SmallQueues DEF KernelInv, TaskTypes, QueueTypes
    <3>2. delay_ticks[t] = left[t] + edges /\ left[t] \in Int /\ edges \in Int
      BY <3>1 DEF OutcomeInv, TimersExact, KernelInv, TaskTypes, TcbTypes, CpuTypes
    <3> QED
      BY <2>1, <3>1, <3>2
  <2>4. TimersExact'
    BY <2>1, <2>3 DEF TimersExact
  <2> QED
    BY <2>2, <2>4 DEF OutcomeInv
<1>7. CASE UNCHANGED vars
  BY <1>7, StillOutcome DEF vars
<1> QED
  BY <1>2, <1>3, <1>4, <1>5, <1>6, <1>7 DEF Idle

\* At the start no task has waited.
LEMMA InitOutcome == Init => OutcomeInv
<1> SUFFICES ASSUME Init PROVE OutcomeInv
  OBVIOUS
<1>1. /\ \A t \in TSKID : /\ tskstat[t] # "WAI" /\ pc[t] = Entry(t) /\ wupcause[t] = "E_OK"
                          /\ credit[t] = 0 /\ wupcnt[t] = 0
      /\ timer_queue = << >>
  BY DEF Init
<1>2. \A t \in TSKID : pc[t] \notin WaitKind
  BY <1>1 DEF Entry, WaitKind
<1>3. ASSUME NEW t \in TSKID PROVE Stands(t)
  <2>1. ~Ended(t, "SLP")
    BY <1>2 DEF Ended, WaitKind
  <2>2. Wakeups(t) = credit[t]
    BY <1>1, <2>1 DEF Wakeups
  <2> QED
    BY <1>1, <1>2, <2>2 DEF Stands
<1>4. TimersExact
  BY <1>1, SmallQueues DEF TimersExact
<1> QED
  BY <1>3, <1>4 DEF OutcomeInv, StandInv

\* Every step keeps the invariant.
LEMMA NextOutcome == KernelInv /\ WaitInv /\ OutcomeInv /\ [Next]_vars => OutcomeInv'
<1> SUFFICES ASSUME KernelInv, WaitInv, OutcomeInv, [Next]_vars PROVE OutcomeInv'
  OBVIOUS
<1> QED
  BY TaskCallOutcome, TimerCallOutcome, SemaphoreCallOutcome, FlagCallOutcome,
     MailboxCallOutcome, TrapOutcome, OtherOutcome DEF Next, Stopped

\* The invariants of the kernel hold together.
LEMMA OutcomeSafe == Spec => [](KernelInv /\ WaitInv /\ OutcomeInv)
<1>1. Init => OutcomeInv
  BY InitOutcome
<1>2. KernelInv /\ WaitInv /\ OutcomeInv /\ [Next]_vars => OutcomeInv'
  BY NextOutcome
<1> QED
  BY <1>1, <1>2, KernelSafe, PTL DEF Spec

\* No call returns a cause that an earlier wait left in wupcause: every task that
\* begins a wait, or runs outside one, has E_OK there.
THEOREM CausesHold == Spec => []CauseFresh
<1>1. OutcomeInv => CauseFresh
  BY DEF OutcomeInv, StandInv, Stands, CauseFresh
<1> QED
  BY <1>1, OutcomeSafe, PTL

\* No wakeup of tk_wup_tsk() is lost or used twice, whether it ends a sleep, is
\* queued, or comes before the sleep that was ended has returned.
THEOREM WakeupsHold == Spec => []WakeupsConserved
<1>1. OutcomeInv => WakeupsConserved
  BY DEF OutcomeInv, StandInv, Stands, Wakeups, Ended, WakeupsConserved
<1> QED
  BY <1>1, OutcomeSafe, PTL

\* The count of a timed wait is exact however late the timer interrupt comes.
THEOREM TimersHold == Spec => []TimersExact
<1>1. OutcomeInv => TimersExact
  BY DEF OutcomeInv
<1> QED
  BY <1>1, OutcomeSafe, PTL

-----------------------------------------------------------------------------
(* Time limits. *)

\* The timer handler alone takes edges off the waits and ends a wait with
\* E_TMOUT.
LEMMA NoOtherTimeout ==
  ASSUME KernelInv, [Next]_vars, ~timer_interrupt
  PROVE  /\ edges' = edges \/ edges' = edges + 1
         /\ \A t \in TSKID : wupcause'[t] # "E_TMOUT" \/ wupcause'[t] = wupcause[t]
<1> DEFINE Goal == /\ edges' = edges \/ edges' = edges + 1
                   /\ \A t \in TSKID : wupcause'[t] # "E_TMOUT" \/ wupcause'[t] = wupcause[t]
<1>1. wupcause \in [TSKID -> Ercd]
  BY DEF KernelInv, TaskTypes, TcbTypes
<1>2. ASSUME UNCHANGED wupcause, UNCHANGED edges PROVE Goal
  BY <1>2
<1>3. ASSUME NEW x, wupcause' = [wupcause EXCEPT ![x] = "E_OK"], UNCHANGED edges PROVE Goal
  BY <1>1, <1>3
<1>4. ASSUME NEW ts, NEW ercd, CompleteWaits(ts, AllCause(ercd), 0), ercd # "E_TMOUT",
             UNCHANGED edges
      PROVE Goal
  BY <1>4 DEF CompleteWaits, AllCause
<1>5. CASE TaskCall
  <2>1. CASE UNCHANGED taskVars
    BY <1>2, <1>5, <2>1 DEF TaskCall, taskVars, tcbVars
  <2>2. ASSUME NEW pri, tk_cre_tsk(pri), ~UNCHANGED taskVars PROVE Goal
    BY <1>3, <1>5, <2>2 DEF TaskCall, tk_cre_tsk
  <2>3. ASSUME NEW t, tk_sta_tsk(t), ~UNCHANGED taskVars PROVE Goal
    BY <1>3, <1>5, <2>3 DEF TaskCall, tk_sta_tsk
  <2>4. ASSUME NEW t, tk_wup_tsk(t), ~UNCHANGED taskVars PROVE Goal
    BY <1>2, <1>4, <1>5, <2>4 DEF TaskCall, tk_wup_tsk
  <2>5. CASE tk_ext_tsk \/ tk_exd_tsk
    BY <1>2, <1>5, <2>5 DEF TaskCall, tk_ext_tsk, tk_exd_tsk, tkmc_fatal_context, tcbVars
  <2> QED
    BY <1>5, <2>1, <2>2, <2>3, <2>4, <2>5 DEF TaskCall
<1>6. ASSUME NEW wkind, NEW ticks, NEW elapsed, BeginWait(wkind, ticks, elapsed),
             UNCHANGED edges
      PROVE  Goal
  BY <1>2, <1>6 DEF BeginWait
<1>7. ASSUME NEW wkind, WaitReturn(wkind) PROVE Goal
  BY <1>3, <1>7 DEF WaitReturn, CauseTaken
<1>8. CASE TimerCall
  <2>1. ASSUME NEW tmout, tk_slp_tsk(tmout) PROVE Goal
    BY <1>2, <1>6, <2>1 DEF tk_slp_tsk, tkmc_schedule_timer, taskVars, tcbVars
  <2>2. ASSUME NEW dlytm, tk_dly_tsk(dlytm) PROVE Goal
    BY <1>2, <1>6, <2>2 DEF tk_dly_tsk, tkmc_schedule_timer, tkmc_yield, taskVars, tcbVars
  <2> QED
    BY <1>7, <1>8, <2>1, <2>2 DEF TimerCall
<1>9. CASE SemaphoreCall
  <2>1. ASSUME NEW t, tk_rel_wai(t) PROVE Goal
    <3>1. CASE RelWaiRefused(t)
      BY <1>2, <2>1, <3>1 DEF tk_rel_wai, taskVars, tcbVars
    <3>2. CASE ~RelWaiRefused(t)
      BY <2>1, <3>2 DEF tk_rel_wai, EndWaits, CompleteWaits, Causes
    <3> QED
      BY <3>1, <3>2
  <2>2. ASSUME NEW atr, NEW isemcnt, NEW max, tk_cre_sem(atr, isemcnt, max) PROVE Goal
    BY <1>2, <2>2 DEF tk_cre_sem, taskVars, tcbVars
  <2>3. ASSUME NEW s, tk_del_sem(s) PROVE Goal
    BY <1>2, <1>4, <2>3 DEF tk_del_sem, taskVars, tcbVars
  <2>4. ASSUME NEW s, NEW cnt, NEW tmout, tk_wai_sem(s, cnt, tmout) PROVE Goal
    BY <1>2, <1>6, <2>4 DEF tk_wai_sem, tkmc_schedule_timer, taskVars, tcbVars
  <2>5. ASSUME NEW s, NEW cnt, tk_sig_sem(s, cnt) PROVE Goal
    BY <1>2, <1>4, <2>5 DEF tk_sig_sem, taskVars, tcbVars
  <2> QED
    BY <1>7, <1>9, <2>1, <2>2, <2>3, <2>4, <2>5 DEF SemaphoreCall, SemReturn
<1>10. CASE FlagCall
  <2>1. ASSUME NEW atr, NEW ptn, tk_cre_flg(atr, ptn) PROVE Goal
    BY <1>2, <2>1 DEF tk_cre_flg, taskVars, tcbVars
  <2>2. ASSUME NEW f, NEW ptn, NEW mode, NEW tmout, tk_wai_flg(f, ptn, mode, tmout) PROVE Goal
    BY <1>2, <1>6, <2>2 DEF tk_wai_flg, tkmc_schedule_timer, taskVars, tcbVars
  <2>3. ASSUME NEW f, NEW ptn, tk_set_flg(f, ptn) PROVE Goal
    BY <1>2, <1>4, <2>3 DEF tk_set_flg, taskVars, tcbVars
  <2>4. ASSUME NEW f, NEW ptn, tk_clr_flg(f, ptn) PROVE Goal
    BY <1>2, <2>4 DEF tk_clr_flg, taskVars, tcbVars
  <2> QED
    BY <1>7, <1>10, <2>1, <2>2, <2>3, <2>4 DEF FlagCall, FlgReturn
<1>11. CASE MailboxCall
  <2>1. ASSUME NEW atr, tk_cre_mbx(atr) PROVE Goal
    BY <1>2, <2>1 DEF tk_cre_mbx, taskVars, tcbVars
  <2>2. ASSUME NEW m, tk_del_mbx(m) PROVE Goal
    BY <1>2, <1>4, <2>2 DEF tk_del_mbx, taskVars, tcbVars
  <2>3. ASSUME NEW m, NEW msg, tk_snd_mbx(m, msg) PROVE Goal
    BY <1>2, <1>4, <2>3 DEF tk_snd_mbx, taskVars, tcbVars
  <2>4. ASSUME NEW m, NEW tmout, tk_rcv_mbx(m, tmout) PROVE Goal
    BY <1>2, <1>6, <2>4 DEF tk_rcv_mbx, tkmc_schedule_timer, taskVars, tcbVars
  <2>5. CASE MbxReturn
    BY <1>3, <2>5 DEF MbxReturn, CauseTaken
  <2> QED
    BY <1>11, <2>1, <2>2, <2>3, <2>4, <2>5 DEF MailboxCall
<1>12. CASE Trap
  BY <1>2, <1>12 DEF Trap, mtrap_handler, external_interrupt, TrapExit, tcbVars
<1>13. CASE Idle \/ TaskDI \/ TaskEI \/ ExitReturns
  BY <1>2, <1>13 DEF Idle, IdleCheck, IdleWfi, IdleEI, IdleYield, tkmc_yield, TaskDI, TaskEI,
                     SetMie, ExitReturns
<1>14. CASE ClockTick
  BY <1>14 DEF ClockTick, TickEdge, tcbVars
<1>15. CASE UNCHANGED vars
  BY <1>2, <1>15 DEF vars, taskVars, tcbVars
<1> QED
  BY <1>5, <1>8, <1>9, <1>10, <1>11, <1>12, <1>13, <1>14, <1>15 DEF Next, Stopped

\* A wait with a time limit ends with E_TMOUT after all the tick edges it was to
\* see, and one that has seen them all does not outlast the timer handler, however
\* many edges the handler comes late.
THEOREM TimeoutsHold == Spec => TimeoutNeverEarly
<1> DEFINE Kept == \A t \in TSKID :
                     /\ wupcause'[t] = "E_TMOUT" /\ wupcause[t] # "E_TMOUT" => left[t] <= 0
                     /\ edges' < edges /\ t \in Elems(timer_queue') => left[t] > 0
<1>1. KernelInv /\ WaitInv /\ OutcomeInv /\ [Next]_vars => Kept
  <2> SUFFICES ASSUME KernelInv, WaitInv, OutcomeInv, [Next]_vars PROVE Kept
    OBVIOUS
  <2>1. edges \in Nat
    BY EdgesNat DEF KernelInv
  <2>2. CASE ~timer_interrupt
    BY <2>1, <2>2, NoOtherTimeout
  <2>3. CASE timer_interrupt
    <3> DEFINE b == TimedOut(edges)
    <3>1. /\ b \in Ends
          /\ \A t \in Elems(timer_queue) : delay_ticks[t] <= edges => t \in Elems(b.ts)
          /\ \A t \in Elems(b.ts) : t \notin b.given => t \in Elems(timer_queue) /\ delay_ticks[t] <= edges
      BY <2>1, TimedOutProperties
    <3>2. CompleteWaits(b.ts, Causes(b, "E_TMOUT"), edges)
      BY <2>3 DEF timer_interrupt, EndWaits
    <3> HIDE DEF b
    <3>3. /\ timer_queue \in Seq(TSKID) /\ Uniq(timer_queue) /\ Elems(timer_queue) \subseteq TSKID
          /\ delay_ticks \in [TSKID -> Nat] /\ left \in [TSKID -> Int]
      BY SmallQueues DEF KernelInv, TaskTypes, QueueTypes, TcbTypes, QueuesConsistent
    <3>4. Elems(timer_queue') = Elems(timer_queue) \ Elems(b.ts)
      BY <3>2, <3>3, WithoutProperties DEF CompleteWaits
    <3>5. \A t \in Elems(timer_queue) :
            t \in TSKID /\ delay_ticks[t] \in Nat /\ left[t] \in Int /\ delay_ticks[t] = left[t] + edges
      BY <3>3 DEF OutcomeInv, TimersExact
    <3>6. ASSUME NEW t \in TSKID, wupcause'[t] = "E_TMOUT", wupcause[t] # "E_TMOUT"
          PROVE  left[t] <= 0
      <4>1. t \in Elems(b.ts) /\ t \notin b.given
        BY <3>2, <3>6 DEF CompleteWaits, Causes
      <4> QED
        BY <2>1, <3>1, <3>5, <4>1
    <3>7. ASSUME NEW t \in TSKID, t \in Elems(timer_queue') PROVE left[t] > 0
      <4>1. t \in Elems(timer_queue) /\ ~(delay_ticks[t] <= edges)
        BY <3>1, <3>4, <3>7
      <4> QED
        BY <2>1, <3>5, <4>1
    <3> QED
      BY <3>6, <3>7
  <2> QED
    BY <2>2, <2>3
<1>2. KernelInv /\ WaitInv /\ OutcomeInv /\ [Next]_vars => [Kept]_vars
  BY <1>1
<1> QED
  BY <1>2, OutcomeSafe, PTL DEF Spec, TimeoutNeverEarly

-----------------------------------------------------------------------------
(* The idle task. *)

\* Handlers run only when the task they interrupted has interrupts on, and the
\* idle task has them off exactly from its test to its csrs: there nothing but
\* the clock moves besides it.
IdleSafe ==
  /\ halted = "no" /\ isr # "no" => mie
  /\ pc[IdlTsk] \in {"wfi", "ei"} => halted = "no" /\ isr = "no" /\ ~mie /\ current = IdlTsk
  /\ current = IdlTsk /\ halted = "no" /\ pc[IdlTsk] \notin {"wfi", "ei"} => mie
  /\ IdleHaltsAlone

\* The test of tkmc_idle_can_halt() finds every other task that is ready.
LEMMA AloneAtTest ==
  ASSUME KernelInv, tkmc_idle_can_halt, current = IdlTsk
  PROVE  \A t \in TSKID : tskstat[t] \in {"RDY", "RUN"} => t = IdlTsk
<1> SUFFICES ASSUME NEW t \in TSKID, tskstat[t] \in {"RDY", "RUN"} PROVE t = IdlTsk
  OBVIOUS
<1>1. /\ IdlTsk \in TSKID /\ tskstat[IdlTsk] \in {"RDY", "RUN"} /\ itskpri[IdlTsk] = CFN_MAX_PRI
      /\ itskpri[t] \in Pri /\ CFN_MAX_PRI \in Pri
  BY TaskAssumption DEF KernelInv, TasksStanding, IdlTsk, TSKID, Pri
<1>2. \A x \in TSKID : tskstat[x] \in {"RDY", "RUN"} /\ itskpri[x] \in Pri
                        => x \in Elems(ready_queue[itskpri[x]])
  BY DEF KernelInv, QueuesConsistent
<1>3. \A p \in Pri : ready_queue[p] \in Seq(TSKID)
  BY DEF KernelInv, TaskTypes, QueueTypes
<1>4. ready_queue[itskpri[t]] # << >>
  BY <1>1, <1>2, SmallQueues
<1>5. PICK p \in Pri : /\ ready_queue[p] # << >> /\ Highest(ready_queue) = Head(ready_queue[p])
                       /\ \A q \in Pri : q < p => ready_queue[q] = << >>
  <2> DEFINE rq == ready_queue
             First(p) == rq[p] # << >> /\ \A q \in Pri : q < p => rq[q] = << >>
             S == {p \in Pri : rq[p] # << >>}
  <2>1. S \in SUBSET Nat /\ itskpri[t] \in S
    BY <1>1, <1>4, TaskAssumption DEF Pri
  <2>2. PICK p \in S : \A q \in S : p <= q
    BY <2>1, LeastNat
  <2>3. \A q \in Pri : q < p => rq[q] = << >>
    BY <2>1, <2>2, TaskAssumption DEF Pri
  <2>4. p \in Pri /\ First(p)
    BY <2>2, <2>3
  <2>5. Highest(rq) = Head(rq[CHOOSE x \in Pri : First(x)])
    BY <1>1, <1>4 DEF Highest
  <2>6. (CHOOSE x \in Pri : First(x)) \in Pri /\ First(CHOOSE x \in Pri : First(x))
    BY <2>4
  <2> QED
    BY <2>5, <2>6
<1>6. IdlTsk \in Elems(ready_queue[p])
  BY <1>3, <1>5, TailQueue DEF tkmc_idle_can_halt, KernelInv, QueuesConsistent
<1>7. p = CFN_MAX_PRI
  BY <1>1, <1>6 DEF KernelInv, QueuesConsistent
<1>8. itskpri[t] = CFN_MAX_PRI
  BY <1>1, <1>4, <1>5, <1>7, TaskAssumption DEF Pri
<1>9. t \in Elems(ready_queue[CFN_MAX_PRI]) /\ IdlTsk \in Elems(ready_queue[CFN_MAX_PRI])
  BY <1>1, <1>2, <1>8
<1> QED
  BY <1>1, <1>3, <1>9 DEF tkmc_idle_can_halt, Elems

\* A step of the current task or of a handler that runs while the idle task is
\* not between its test and its csrs, and does not put it there.
LEMMA IdleElsewhere ==
  ASSUME KernelInv, IdleSafe, pc[IdlTsk] \notin {"wfi", "ei"}, UNCHANGED <<current, isr>>,
         NEW x, x \notin {"wfi", "ei"}, pc' = pc \/ pc' = [pc EXCEPT ![current] = x],
         UNCHANGED <<mie, halted>> \/ halted' # "no"
  PROVE  IdleSafe'
<1>1. pc \in [TSKID -> PC] /\ IdlTsk \in TSKID
  BY TaskAssumption DEF KernelInv, TaskTypes, TcbTypes, IdlTsk, TSKID
<1>2. pc'[IdlTsk] \notin {"wfi", "ei"}
  BY <1>1
<1>3. IdleHaltsAlone'
  BY <1>2 DEF IdleHaltsAlone
<1> QED
  BY <1>2, <1>3 DEF IdleSafe

\* The calls of the kernel, by tasks or by handlers.
LEMMA CallsIdle ==
  ASSUME KernelInv, IdleSafe,
         TaskCall \/ TimerCall \/ SemaphoreCall \/ FlagCall \/ MailboxCall
  PROVE  IdleSafe'
<1>1. pc[IdlTsk] \notin {"wfi", "ei"}
  <2>1. Caller \/ (TaskRuns /\ pc[current] \in WaitKind)
    BY DEF TaskCall, tk_cre_tsk, tk_sta_tsk, tk_wup_tsk, tk_ext_tsk, tk_exd_tsk,
           TimerCall, tk_slp_tsk, tk_dly_tsk, WaitReturn, WaitKind,
           SemaphoreCall, tk_rel_wai, tk_cre_sem, tk_del_sem, tk_wai_sem, tk_sig_sem, SemReturn,
           FlagCall, tk_cre_flg, tk_wai_flg, tk_set_flg, tk_clr_flg, FlgReturn,
           MailboxCall, tk_cre_mbx, tk_del_mbx, tk_snd_mbx, tk_rcv_mbx, MbxReturn
  <2> QED
    BY <2>1 DEF IdleSafe, Caller, TaskRuns, WaitKind
<1> DEFINE Goes == /\ UNCHANGED <<current, isr>>
                   /\ pc' = pc \/ \E x \in {"run", "exit"} \cup WaitKind : pc' = [pc EXCEPT ![current] = x]
                   /\ UNCHANGED <<mie, halted>> \/ halted' # "no"
<1>2. ASSUME UNCHANGED taskVars PROVE Goes
  BY <1>2 DEF taskVars, tcbVars, cpuVars
<1>3. ASSUME UNCHANGED <<current, cpuVars, pc>> PROVE Goes
  BY <1>3 DEF cpuVars
<1>4. ASSUME NEW wkind \in WaitKind, NEW ticks, NEW elapsed, BeginWait(wkind, ticks, elapsed)
      PROVE  Goes
  BY <1>4 DEF BeginWait, cpuVars
<1>5. ASSUME NEW wkind, WaitReturn(wkind) PROVE Goes
  BY <1>5 DEF WaitReturn, cpuVars
<1>6. "SLP" \in WaitKind /\ "DLY" \in WaitKind /\ "SEM" \in WaitKind /\ "FLG" \in WaitKind
      /\ "MBX" \in WaitKind
  BY DEF WaitKind
<1>7. ASSUME TaskCall PROVE Goes
  <2>1. ASSUME NEW pri, tk_cre_tsk(pri) PROVE Goes
    BY <1>2, <1>3, <2>1 DEF tk_cre_tsk
  <2>2. ASSUME NEW t, tk_sta_tsk(t) PROVE Goes
    BY <1>2, <1>3, <2>2 DEF tk_sta_tsk
  <2>3. ASSUME NEW t, tk_wup_tsk(t) PROVE Goes
    BY <1>2, <1>3, <2>3 DEF tk_wup_tsk
  <2>4. CASE tk_ext_tsk
    BY <2>4 DEF tk_ext_tsk, tkmc_fatal_context, tcbVars, cpuVars
  <2>5. CASE tk_exd_tsk
    BY <2>5 DEF tk_exd_tsk, tkmc_fatal_context, tcbVars, cpuVars
  <2> QED
    BY <1>7, <2>1, <2>2, <2>3, <2>4, <2>5 DEF TaskCall
<1>8. ASSUME TimerCall PROVE Goes
  <2>1. ASSUME NEW tmout, tk_slp_tsk(tmout) PROVE Goes
    BY <1>2, <1>3, <1>4, <1>6, <2>1 DEF tk_slp_tsk, tkmc_schedule_timer
  <2>2. ASSUME NEW dlytm, tk_dly_tsk(dlytm) PROVE Goes
    <3>1. CASE tkmc_yield("run")
      BY <3>1 DEF tkmc_yield, cpuVars
    <3> QED
      BY <1>2, <1>4, <1>6, <2>2, <3>1 DEF tk_dly_tsk, tkmc_schedule_timer
  <2> QED
    BY <1>5, <1>8, <2>1, <2>2 DEF TimerCall
<1>9. ASSUME SemaphoreCall PROVE Goes
  <2>1. ASSUME NEW t, tk_rel_wai(t) PROVE Goes
    BY <1>2, <1>3, <2>1 DEF tk_rel_wai
  <2>2. ASSUME NEW atr, NEW isemcnt, NEW max, tk_cre_sem(atr, isemcnt, max) PROVE Goes
    BY <1>2, <2>2 DEF tk_cre_sem
  <2>3. ASSUME NEW s, tk_del_sem(s) PROVE Goes
    BY <1>2, <1>3, <2>3 DEF tk_del_sem
  <2>4. ASSUME NEW s, NEW cnt, NEW tmout, tk_wai_sem(s, cnt, tmout) PROVE Goes
    BY <1>2, <1>4, <1>6, <2>4 DEF tk_wai_sem, tkmc_schedule_timer
  <2>5. ASSUME NEW s, NEW cnt, tk_sig_sem(s, cnt) PROVE Goes
    BY <1>2, <1>3, <2>5 DEF tk_sig_sem
  <2> QED
    BY <1>5, <1>9, <2>1, <2>2, <2>3, <2>4, <2>5 DEF SemaphoreCall, SemReturn
<1>10. ASSUME FlagCall PROVE Goes
  <2>1. ASSUME NEW atr, NEW ptn, tk_cre_flg(atr, ptn) PROVE Goes
    BY <1>2, <2>1 DEF tk_cre_flg
  <2>2. ASSUME NEW f, NEW ptn, NEW mode, NEW tmout, tk_wai_flg(f, ptn, mode, tmout) PROVE Goes
    BY <1>2, <1>4, <1>6, <2>2 DEF tk_wai_flg, tkmc_schedule_timer
  <2>3. ASSUME NEW f, NEW ptn, tk_set_flg(f, ptn) PROVE Goes
    BY <1>2, <1>3, <2>3 DEF tk_set_flg
  <2>4. ASSUME NEW f, NEW ptn, tk_clr_flg(f, ptn) PROVE Goes
    BY <1>2, <2>4 DEF tk_clr_flg
  <2> QED
    BY <1>5, <1>10, <2>1, <2>2, <2>3, <2>4 DEF FlagCall, FlgReturn
<1>11. ASSUME MailboxCall PROVE Goes
  <2>1. ASSUME NEW atr, tk_cre_mbx(atr) PROVE Goes
    BY <1>2, <2>1 DEF tk_cre_mbx
  <2>2. ASSUME NEW m, tk_del_mbx(m) PROVE Goes
    BY <1>2, <1>3, <2>2 DEF tk_del_mbx
  <2>3. ASSUME NEW m, NEW msg, tk_snd_mbx(m, msg) PROVE Goes
    BY <1>2, <1>3, <2>3 DEF tk_snd_mbx
  <2>4. ASSUME NEW m, NEW tmout, tk_rcv_mbx(m, tmout) PROVE Goes
    BY <1>2, <1>4, <1>6, <2>4 DEF tk_rcv_mbx, tkmc_schedule_timer
  <2>5. CASE MbxReturn
    BY <2>5 DEF MbxReturn, cpuVars
  <2> QED
    BY <1>11, <2>1, <2>2, <2>3, <2>4, <2>5 DEF MailboxCall
<1>12. Goes
  BY <1>7, <1>8, <1>9, <1>10, <1>11
<1>13. PICK x : x \notin {"wfi", "ei"} /\ (pc' = pc \/ pc' = [pc EXCEPT ![current] = x])
  <2>1. "run" \notin {"wfi", "ei"} /\ \A x \in {"run", "exit"} \cup WaitKind : x \notin {"wfi", "ei"}
    BY DEF WaitKind
  <2> QED
    BY <1>12, <2>1
<1> QED
  BY <1>1, <1>12, <1>13, IdleElsewhere

\* A switch, or an interrupt's handler: the idle task is not between its test and
\* its csrs, where interrupts are off.
LEMMA TrapsIdle ==
  ASSUME KernelInv, IdleSafe, Trap
  PROVE  IdleSafe'
<1>1. pc[IdlTsk] \notin {"wfi", "ei"} /\ mie /\ UNCHANGED <<mie, halted>>
  BY DEF Trap, mtrap_handler, timer_interrupt, external_interrupt, TrapExit, IdleSafe, cpuVars,
         tkmc_in_isr
<1>2. pc'[IdlTsk] \notin {"wfi", "ei"}
  <2>1. pc \in [TSKID -> PC] /\ IdlTsk \in TSKID
    BY TaskAssumption DEF KernelInv, TaskTypes, TcbTypes, IdlTsk, TSKID
  <2>2. pc' = pc \/ pc' = [pc EXCEPT ![next] = Entry(next)]
    BY DEF Trap, mtrap_handler, timer_interrupt, external_interrupt, TrapExit, schedule, tcbVars
  <2> QED
    BY <1>1, <2>1, <2>2 DEF Entry
<1>3. IdleHaltsAlone'
  BY <1>2 DEF IdleHaltsAlone
<1> QED
  BY <1>1, <1>2, <1>3 DEF IdleSafe

\* The other steps, the idle task's own among them.
LEMMA OthersIdle ==
  ASSUME KernelInv, IdleSafe,
         Idle \/ TaskDI \/ TaskEI \/ ExitReturns \/ ClockTick \/ UNCHANGED vars
  PROVE  IdleSafe'
<1>1. pc \in [TSKID -> PC] /\ IdlTsk \in TSKID /\ current \in TSKID
  BY TaskAssumption DEF KernelInv, TaskTypes, TcbTypes, CpuTypes, IdlTsk, TSKID
<1>2. pc[current] \in IdlePC <=> current = IdlTsk
  BY <1>1 DEF KernelInv, TasksStanding
<1>3. CASE UNCHANGED <<tskstat, pc, current, msip, mie, isr, halted>>
  BY <1>3 DEF IdleSafe, IdleHaltsAlone
<1>4. CASE IdleCheck
  <2>1. current = IdlTsk /\ mie /\ halted = "no" /\ isr = "no" /\ ~msip
    BY <1>2, <1>4 DEF IdleCheck, IdlePC, IdleSafe, TaskRuns
  <2>2. /\ ~mie' /\ UNCHANGED <<current, halted, isr, msip, tskstat>>
        /\ pc'[IdlTsk] = IF tkmc_idle_can_halt THEN "wfi" ELSE "ei"
    BY <1>1, <1>4, <2>1 DEF IdleCheck, SetMie
  <2>3. IdleHaltsAlone'
    BY <2>1, <2>2, AloneAtTest DEF IdleHaltsAlone
  <2> QED
    BY <2>1, <2>2, <2>3 DEF IdleSafe
<1>5. CASE IdleWfi \/ IdleEI
  <2>1. current = IdlTsk /\ halted = "no" /\ isr = "no"
    BY <1>2, <1>5 DEF IdleWfi, IdleEI, IdlePC, TaskRuns
  <2>2. /\ UNCHANGED <<current, halted, isr, msip, tskstat>>
        /\ \/ pc'[IdlTsk] = "ei" /\ ~mie'
           \/ pc'[IdlTsk] = "yield" /\ mie'
    BY <1>1, <1>5, <2>1 DEF IdleWfi, IdleEI, SetMie
  <2> QED
    BY <2>1, <2>2 DEF IdleSafe, IdleHaltsAlone
<1>6. CASE IdleYield
  <2>1. /\ UNCHANGED <<current, isr>> /\ UNCHANGED <<mie, halted>>
        /\ pc' = [pc EXCEPT ![current] = "check"]
        /\ pc[IdlTsk] = "yield"
    BY <1>2, <1>6 DEF IdleYield, tkmc_yield, cpuVars, IdlePC
  <2>2. "check" \notin {"wfi", "ei"} /\ pc[IdlTsk] \notin {"wfi", "ei"}
    BY <2>1
  <2> QED
    BY <2>1, <2>2, IdleElsewhere
<1>7. CASE TaskDI \/ TaskEI
  <2>1. current # IdlTsk /\ pc[IdlTsk] \notin {"wfi", "ei"}
    BY <1>2, <1>7 DEF TaskDI, TaskEI, IdlePC, IdleSafe
  <2>2. /\ UNCHANGED <<current, isr, halted>> /\ pc' = [pc EXCEPT ![current] = "run"]
        /\ isr = "no"
    BY <1>7 DEF TaskDI, TaskEI, SetMie, TaskRuns
  <2>3. pc'[IdlTsk] = pc[IdlTsk]
    BY <1>1, <2>1, <2>2
  <2> QED
    BY <2>1, <2>2, <2>3 DEF IdleSafe, IdleHaltsAlone
<1>8. CASE ExitReturns
  <2>1. pc[IdlTsk] \notin {"wfi", "ei"}
    BY <1>2, <1>8 DEF ExitReturns, IdlePC, IdleSafe
  <2>2. /\ UNCHANGED <<current, isr>>
        /\ pc' = pc \/ pc' = [pc EXCEPT ![current] = "run"]
        /\ UNCHANGED <<mie, halted>> \/ halted' # "no"
    BY <1>8 DEF ExitReturns
  <2> QED
    BY <2>1, <2>2, IdleElsewhere
<1>9. CASE ClockTick
  BY <1>3, <1>9 DEF ClockTick, TickEdge, tcbVars, cpuVars
<1>10. CASE UNCHANGED vars
  BY <1>3, <1>10 DEF vars, taskVars, tcbVars, cpuVars
<1> QED
  BY <1>4, <1>5, <1>6, <1>7, <1>8, <1>9, <1>10 DEF Idle

\* The idle task never sleeps through a wakeup that came between its test and
\* wfi: while it is in wfi no other task is ready and no switch is pending.
THEOREM IdleHolds == Spec => []IdleHaltsAlone
<1>1. Init => IdleSafe
  <2> SUFFICES ASSUME Init PROVE IdleSafe
    OBVIOUS
  <2>1. pc[IdlTsk] = "check" /\ mie /\ isr = "no"
    BY TaskAssumption DEF Init, Entry, IdlTsk, TSKID
  <2> QED
    BY <2>1 DEF IdleSafe, IdleHaltsAlone
<1>2. KernelInv /\ IdleSafe /\ [Next]_vars => IdleSafe'
  BY CallsIdle, TrapsIdle, OthersIdle DEF Next, Stopped
<1>3. IdleSafe => IdleHaltsAlone
  BY DEF IdleSafe
<1> QED
  BY <1>1, <1>2, <1>3, KernelSafe, PTL DEF Spec

-----------------------------------------------------------------------------
(* How the wait queues move. *)

\* Tasks leave the wait queues and no one else moves.
Drops == \E done : wait_queue' = Unqueued(done)

\* The current task joins the wait queue of the object o.
Joins(o) == /\ current \in TSKID /\ tskstat[current] = "RUN"
            /\ current \notin Elems(wait_queue[o])
            /\ wait_queue' = [wait_queue EXCEPT ![o] = Inserted(@, current, Tpri(o))]

\* The attribute of each kind of object.
LEMMA TpriOf ==
  ASSUME WaitInv
  PROVE  /\ \A s \in SEMID : Tpri(Sem(s)) = sematr[s].tpri
         /\ \A f \in FLGID : Tpri(Flg(f)) = flgatr[f].tpri
         /\ \A m \in MBXID : Tpri(Mbx(m)) = mbxatr[m].tpri
<1>1. /\ \A s \in SEMID : sematr[s].tpri \in BOOLEAN
      /\ \A f \in FLGID : flgatr[f].tpri \in BOOLEAN
      /\ \A m \in MBXID : mbxatr[m].tpri \in BOOLEAN
  BY DEF WaitInv, SemTypes, FlgTypes, MbxTypes, Atr, FAtr, MAtr
<1>2. /\ \A s \in SEMID : Tpri(Sem(s)) <=> sematr[s].tpri
      /\ \A f \in FLGID : Tpri(Flg(f)) <=> flgatr[f].tpri
      /\ \A m \in MBXID : Tpri(Mbx(m)) <=> mbxatr[m].tpri
  BY DEF Tpri, Sem, Flg, Mbx
<1>3. \A o : Tpri(o) \in BOOLEAN
  BY DEF Tpri
<1> QED
  BY <1>1, <1>2, <1>3

\* A task that joins a queue runs, so it is on none.
LEMMA JoinsOnce ==
  ASSUME KernelInv, WaitInv, Caller, tkmc_can_block, NEW o \in Obj, NEW req,
         JoinQueue(o, req, Tpri(o))
  PROVE  Joins(o)
<1>1. current \in TSKID /\ tskstat[current] = "RUN"
  BY BlockingCaller
<1>2. current \notin Elems(wait_queue[o])
  BY <1>1, ObjWaiters
<1> QED
  BY <1>1, <1>2 DEF Joins, JoinQueue

\* The calls, one component after the other.  Only a call of an object's own kind
\* puts a task on its wait queue.
LEMMA QueuesMove ==
  ASSUME KernelInv, WaitInv, [Next]_vars
  PROVE  \/ UNCHANGED wait_queue
         \/ Drops
         \/ SemaphoreCall /\ \E s \in SEMID : Joins(Sem(s))
         \/ FlagCall /\ \E f \in FLGID : Joins(Flg(f))
         \/ MailboxCall /\ \E m \in MBXID : Joins(Mbx(m))
<1> DEFINE Still == UNCHANGED wait_queue
<1>1. ASSUME UNCHANGED taskVars PROVE Still
  BY <1>1 DEF taskVars, queueVars
<1>2. ASSUME NEW ts, NEW cause, NEW elapsed, CompleteWaits(ts, cause, elapsed) PROVE Drops
  BY <1>2 DEF CompleteWaits, Drops
<1>3. ASSUME TaskCall PROVE Still \/ Drops
  <2>1. ASSUME NEW pri, tk_cre_tsk(pri) PROVE Still
    BY <1>1, <2>1 DEF tk_cre_tsk
  <2>2. ASSUME NEW t, tk_sta_tsk(t) PROVE Still
    BY <1>1, <2>2 DEF tk_sta_tsk
  <2>3. ASSUME NEW t, tk_wup_tsk(t) PROVE Still \/ Drops
    BY <1>1, <1>2, <2>3 DEF tk_wup_tsk, queueVars
  <2>4. ASSUME tk_ext_tsk \/ tk_exd_tsk PROVE Still
    BY <2>4 DEF tk_ext_tsk, tk_exd_tsk, tkmc_fatal_context, queueVars
  <2> QED
    BY <1>3, <2>1, <2>2, <2>3, <2>4 DEF TaskCall
<1>4. ASSUME TimerCall PROVE Still
  <2>1. ASSUME NEW tmout, tk_slp_tsk(tmout) PROVE Still
    BY <1>1, <2>1 DEF tk_slp_tsk, queueVars
  <2>2. ASSUME NEW dlytm, tk_dly_tsk(dlytm) PROVE Still
    BY <1>1, <2>2 DEF tk_dly_tsk, tkmc_yield
  <2> QED
    BY <1>4, <2>1, <2>2 DEF TimerCall, WaitReturn, queueVars
<1>5. ASSUME SemaphoreCall PROVE Still \/ Drops \/ \E s \in SEMID : Joins(Sem(s))
  <2>1. ASSUME NEW t, tk_rel_wai(t) PROVE Still \/ Drops
    BY <1>1, <1>2, <2>1 DEF tk_rel_wai, EndWaits
  <2>2. ASSUME NEW atr, NEW isemcnt, NEW max, tk_cre_sem(atr, isemcnt, max) PROVE Still
    BY <1>1, <2>2 DEF tk_cre_sem
  <2>3. ASSUME NEW s, tk_del_sem(s) PROVE Still \/ Drops
    BY <1>1, <1>2, <2>3 DEF tk_del_sem
  <2>4. ASSUME NEW s \in SEMID, NEW cnt, NEW tmout, tk_wai_sem(s, cnt, tmout)
        PROVE  Still \/ Joins(Sem(s))
    <3>1. sematr[s].tpri = Tpri(Sem(s)) /\ Sem(s) \in Obj
      BY TpriOf, Objects
    <3>2. Still \/ (Caller /\ tkmc_can_block /\ JoinQueue(Sem(s), cnt, sematr[s].tpri))
      BY <1>1, <2>4 DEF tk_wai_sem
    <3>3. Still \/ (Caller /\ tkmc_can_block /\ JoinQueue(Sem(s), cnt, Tpri(Sem(s))))
      BY <3>1, <3>2
    <3> QED
      BY <3>1, <3>3, JoinsOnce
  <2>5. ASSUME NEW s, NEW cnt, tk_sig_sem(s, cnt) PROVE Still \/ Drops
    BY <1>1, <1>2, <2>5 DEF tk_sig_sem
  <2>6. ASSUME SemReturn PROVE Still
    BY <2>6 DEF SemReturn, WaitReturn, queueVars
  <2> QED
    BY <1>5, <2>1, <2>2, <2>3, <2>4, <2>5, <2>6 DEF SemaphoreCall
<1>6. ASSUME FlagCall PROVE Still \/ Drops \/ \E f \in FLGID : Joins(Flg(f))
  <2>1. ASSUME NEW atr, NEW ptn, tk_cre_flg(atr, ptn) PROVE Still
    BY <1>1, <2>1 DEF tk_cre_flg
  <2>2. ASSUME NEW f \in FLGID, NEW ptn, NEW mode, NEW tmout, tk_wai_flg(f, ptn, mode, tmout)
        PROVE  Still \/ Joins(Flg(f))
    <3>1. flgatr[f].tpri = Tpri(Flg(f)) /\ Flg(f) \in Obj
      BY TpriOf, Objects
    <3>2. Still \/ (Caller /\ tkmc_can_block /\ JoinQueue(Flg(f), 0, flgatr[f].tpri))
      BY <1>1, <2>2 DEF tk_wai_flg
    <3>3. Still \/ (Caller /\ tkmc_can_block /\ JoinQueue(Flg(f), 0, Tpri(Flg(f))))
      BY <3>1, <3>2
    <3> QED
      BY <3>1, <3>3, JoinsOnce
  <2>3. ASSUME NEW f, NEW ptn, tk_set_flg(f, ptn) PROVE Still \/ Drops
    BY <1>1, <1>2, <2>3 DEF tk_set_flg
  <2>4. ASSUME NEW f, NEW ptn, tk_clr_flg(f, ptn) PROVE Still
    BY <1>1, <2>4 DEF tk_clr_flg
  <2>5. ASSUME FlgReturn PROVE Still
    BY <2>5 DEF FlgReturn, WaitReturn, queueVars
  <2> QED
    BY <1>6, <2>1, <2>2, <2>3, <2>4, <2>5 DEF FlagCall
<1>7. ASSUME MailboxCall PROVE Still \/ Drops \/ \E m \in MBXID : Joins(Mbx(m))
  <2>1. ASSUME NEW atr, tk_cre_mbx(atr) PROVE Still
    BY <1>1, <2>1 DEF tk_cre_mbx
  <2>2. ASSUME NEW m, tk_del_mbx(m) PROVE Still \/ Drops
    BY <1>1, <1>2, <2>2 DEF tk_del_mbx
  <2>3. ASSUME NEW m, NEW msg, tk_snd_mbx(m, msg) PROVE Still \/ Drops
    BY <1>1, <1>2, <2>3 DEF tk_snd_mbx
  <2>4. ASSUME NEW m \in MBXID, NEW tmout, tk_rcv_mbx(m, tmout) PROVE Still \/ Joins(Mbx(m))
    <3>1. mbxatr[m].tpri = Tpri(Mbx(m)) /\ Mbx(m) \in Obj
      BY TpriOf, Objects
    <3>2. Still \/ (Caller /\ tkmc_can_block /\ JoinQueue(Mbx(m), 0, mbxatr[m].tpri))
      BY <1>1, <2>4 DEF tk_rcv_mbx
    <3>3. Still \/ (Caller /\ tkmc_can_block /\ JoinQueue(Mbx(m), 0, Tpri(Mbx(m))))
      BY <3>1, <3>2
    <3> QED
      BY <3>1, <3>3, JoinsOnce
  <2>5. ASSUME MbxReturn PROVE Drops
    BY <2>5 DEF MbxReturn, Drops
  <2> QED
    BY <1>7, <2>1, <2>2, <2>3, <2>4, <2>5 DEF MailboxCall
<1>8. ASSUME Trap PROVE Still \/ Drops
  <2>1. ASSUME timer_interrupt PROVE Drops
    BY <1>2, <2>1 DEF timer_interrupt, EndWaits
  <2> QED
    BY <1>8, <2>1 DEF Trap, mtrap_handler, external_interrupt, TrapExit, queueVars
<1>9. ASSUME Idle \/ TaskDI \/ TaskEI \/ ExitReturns \/ ClockTick PROVE Still
  BY <1>9 DEF Idle, IdleCheck, IdleWfi, IdleEI, IdleYield, tkmc_yield, TaskDI, TaskEI, SetMie,
              ExitReturns, ClockTick, TickEdge, queueVars
<1>10. ASSUME UNCHANGED vars PROVE Still
  BY <1>1, <1>10 DEF vars
<1> QED
  BY <1>3, <1>4, <1>5, <1>6, <1>7, <1>8, <1>9, <1>10 DEF Next, Stopped

\* Tasks that leave a queue leave the others on it.
LEMMA DropsShrink ==
  ASSUME WaitInv, Drops, NEW o \in Obj
  PROVE  Elems(wait_queue'[o]) \subseteq Elems(wait_queue[o])
<1>1. PICK done : wait_queue' = Unqueued(done)
  BY DEF Drops
<1>2. wait_queue'[o] = Without(wait_queue[o], done)
  BY <1>1 DEF Unqueued
<1>3. wait_queue[o] \in Seq(TSKID)
  BY ObjWaiters
<1> QED
  BY <1>2, <1>3, WithoutProperties

\* A task that joins a queue is its only newcomer, and joins no other.
LEMMA JoinsOnlyOne ==
  ASSUME WaitInv, NEW o \in Obj, Joins(o)
  PROVE  /\ \A x \in Obj : x # o => wait_queue'[x] = wait_queue[x]
         /\ wait_queue'[o] = Inserted(wait_queue[o], current, Tpri(o))
         /\ Elems(wait_queue'[o]) = Elems(wait_queue[o]) \cup {current}
<1>1. wait_queue \in [Obj -> Seq(TSKID)]
  BY DEF WaitInv, WaitTypes
<1>2. /\ \A x \in Obj : x # o => wait_queue'[x] = wait_queue[x]
      /\ wait_queue'[o] = Inserted(wait_queue[o], current, Tpri(o))
  BY <1>1 DEF Joins
<1>3. wait_queue[o] \in Seq(TSKID) /\ Uniq(wait_queue[o])
  BY ObjWaiters
<1> QED
  BY <1>2, <1>3, InsertedQueue DEF Joins

\* A step of another component adds no one to the wait queue of an object.
LEMMA OthersShrink ==
  ASSUME KernelInv, WaitInv, [Next]_vars
  PROVE  /\ ~SemaphoreCall =>
              \A s \in SEMID : Elems(wait_queue'[Sem(s)]) \subseteq Elems(wait_queue[Sem(s)])
         /\ ~FlagCall =>
              \A f \in FLGID : Elems(wait_queue'[Flg(f)]) \subseteq Elems(wait_queue[Flg(f)])
         /\ ~MailboxCall =>
              \A m \in MBXID : Elems(wait_queue'[Mbx(m)]) \subseteq Elems(wait_queue[Mbx(m)])
<1>1. /\ \A s \in SEMID, f \in FLGID : Sem(s) # Flg(f)
      /\ \A s \in SEMID, m \in MBXID : Sem(s) # Mbx(m)
      /\ \A f \in FLGID, m \in MBXID : Flg(f) # Mbx(m)
      /\ \A s \in SEMID : Sem(s) \in Obj
      /\ \A f \in FLGID : Flg(f) \in Obj
      /\ \A m \in MBXID : Mbx(m) \in Obj
  BY Objects DEF Sem, Flg, Mbx
<1>2. CASE UNCHANGED wait_queue
  BY <1>2
<1>3. CASE Drops
  BY <1>1, <1>3, DropsShrink
<1>4. ASSUME SemaphoreCall, NEW s \in SEMID, Joins(Sem(s))
      PROVE  /\ \A f \in FLGID : wait_queue'[Flg(f)] = wait_queue[Flg(f)]
             /\ \A m \in MBXID : wait_queue'[Mbx(m)] = wait_queue[Mbx(m)]
  BY <1>1, <1>4, JoinsOnlyOne
<1>5. ASSUME FlagCall, NEW f \in FLGID, Joins(Flg(f))
      PROVE  /\ \A s \in SEMID : wait_queue'[Sem(s)] = wait_queue[Sem(s)]
             /\ \A m \in MBXID : wait_queue'[Mbx(m)] = wait_queue[Mbx(m)]
  BY <1>1, <1>5, JoinsOnlyOne
<1>6. ASSUME MailboxCall, NEW m \in MBXID, Joins(Mbx(m))
      PROVE  /\ \A s \in SEMID : wait_queue'[Sem(s)] = wait_queue[Sem(s)]
             /\ \A f \in FLGID : wait_queue'[Flg(f)] = wait_queue[Flg(f)]
  BY <1>1, <1>6, JoinsOnlyOne
<1>7. QED
  <2>1. \/ UNCHANGED wait_queue
        \/ Drops
        \/ SemaphoreCall /\ \E s \in SEMID : Joins(Sem(s))
        \/ FlagCall /\ \E f \in FLGID : Joins(Flg(f))
        \/ MailboxCall /\ \E m \in MBXID : Joins(Mbx(m))
    BY QueuesMove
  <2>2. CASE SemaphoreCall /\ \E s \in SEMID : Joins(Sem(s))
    BY <1>4, <2>2
  <2>3. CASE FlagCall /\ \E f \in FLGID : Joins(Flg(f))
    BY <1>5, <2>3
  <2>4. CASE MailboxCall /\ \E m \in MBXID : Joins(Mbx(m))
    BY <1>6, <2>4
  <2> QED
    BY <1>2, <1>3, <2>1, <2>2, <2>3, <2>4

\* A step of another component leaves alone the flags and the mailboxes, and how
\* the waits for them ended.
LEMMA OthersKeep ==
  ASSUME KernelInv, WaitInv, OutcomeInv, [Next]_vars
  PROVE  /\ ~FlagCall => Keeps("FLG") /\ UNCHANGED flgVars
         /\ ~MailboxCall => Keeps("MBX") /\ UNCHANGED mbxVars
<1>0. /\ "FLG" \in WaitKind /\ "MBX" \in WaitKind
      /\ "FLG" \in WaitKind \ {"SLP"} /\ "MBX" \in WaitKind \ {"SLP"}
      /\ "FLG" \in WaitKind \ {"SLP", "DLY"} /\ "MBX" \in WaitKind \ {"SLP", "DLY"}
      /\ "FLG" \in WaitKind \ {"SEM"} /\ "MBX" \in WaitKind \ {"SEM"}
      /\ "FLG" \in WaitKind \ {"MBX"} /\ "MBX" \in WaitKind \ {"FLG"}
  BY DEF WaitKind
<1> DEFINE Both == Keeps("FLG") /\ Keeps("MBX") /\ UNCHANGED flgVars /\ UNCHANGED mbxVars
<1>1. ASSUME TaskCall PROVE Both
  <2>1. UNCHANGED flgVars /\ UNCHANGED mbxVars
    BY <1>1 DEF TaskCall, objVars
  <2> QED
    BY <1>0, <1>1, <2>1, TaskCallOutcome
<1>2. ASSUME TimerCall PROVE Both
  <2>1. UNCHANGED flgVars /\ UNCHANGED mbxVars
    BY <1>2 DEF TimerCall, objVars
  <2> QED
    BY <1>0, <1>2, <2>1, TimerCallOutcome
<1>3. ASSUME SemaphoreCall PROVE Both
  <2>1. UNCHANGED flgVars /\ UNCHANGED mbxVars
    BY <1>3 DEF SemaphoreCall
  <2> QED
    BY <1>0, <1>3, <2>1, SemaphoreCallOutcome
<1>4. ASSUME Trap PROVE Both
  <2>1. UNCHANGED flgVars /\ UNCHANGED mbxVars
    BY <1>4 DEF Trap, mtrap_handler, timer_interrupt, external_interrupt, TrapExit, objVars
  <2> QED
    BY <1>0, <1>4, <2>1, TrapOutcome
<1>5. ASSUME Idle \/ TaskDI \/ TaskEI \/ ExitReturns \/ ClockTick \/ UNCHANGED vars PROVE Both
  <2>1. UNCHANGED flgVars /\ UNCHANGED mbxVars
    BY <1>5 DEF Idle, IdleCheck, IdleWfi, IdleEI, IdleYield, TaskDI, TaskEI, SetMie,
                ExitReturns, ClockTick, objVars, vars
  <2> QED
    BY <1>0, <1>5, <2>1, OtherOutcome
<1>6. ASSUME FlagCall PROVE Keeps("MBX") /\ UNCHANGED mbxVars
  BY <1>0, <1>6, FlagCallOutcome DEF FlagCall
<1>7. ASSUME MailboxCall PROVE Keeps("FLG") /\ UNCHANGED flgVars
  BY <1>0, <1>7, MailboxCallOutcome DEF MailboxCall
<1> HIDE DEF Both
<1>8. Both \/ FlagCall \/ MailboxCall
  BY <1>1, <1>2, <1>3, <1>4, <1>5 DEF Next, Stopped
<1> QED
  BY <1>6, <1>7, <1>8 DEF Both

-----------------------------------------------------------------------------
(* Event flags. *)

\* PatternDelivered, said with Ended, and NoFlagMissed.
FlagInv ==
  /\ \A t \in TSKID : Ended(t, "FLG") => Met(t, flgwait[t].flgptn)
  /\ NoFlagMissed

\* A step that changes no wait for a flag, adds no waiter, and sets no bit of a
\* flag that has waiters.
LEMMA FlagsStay ==
  ASSUME FlagInv, Keeps("FLG"), UNCHANGED flgwait,
         \A f \in FLGID : /\ Elems(wait_queue'[Flg(f)]) \subseteq Elems(wait_queue[Flg(f)])
                          /\ \/ flgptn'[f] \subseteq flgptn[f]
                             \/ Elems(wait_queue[Flg(f)]) = {}
  PROVE  FlagInv'
<1>1. ASSUME NEW f \in FLGID, NEW t \in Elems(wait_queue'[Flg(f)])
      PROVE  ~check_ptn(flgptn'[f], flgwait'[t].waiptn, flgwait'[t].wfmode)
  <2>1. t \in Elems(wait_queue[Flg(f)]) /\ flgptn'[f] \subseteq flgptn[f]
    BY <1>1
  <2>2. ~check_ptn(flgptn[f], flgwait[t].waiptn, flgwait[t].wfmode)
    BY <2>1 DEF FlagInv, NoFlagMissed, Met
  <2> QED
    BY <2>1, <2>2, MoreBits
<1>2. NoFlagMissed'
  BY <1>1 DEF NoFlagMissed, Met
<1>3. \A t \in TSKID : Ended(t, "FLG")' => Met(t, flgwait[t].flgptn)'
  BY DEF FlagInv, Keeps, Met
<1> QED
  BY <1>2, <1>3 DEF FlagInv

\* tk_cre_flg() gives a flag that no one waits for its first pattern.
LEMMA CreFlgFlags ==
  ASSUME KernelInv, WaitInv, OutcomeInv, FlagInv, NEW atr, NEW ptn, tk_cre_flg(atr, ptn)
  PROVE  FlagInv'
<1>0. "FLG" \in WaitKind
  BY DEF WaitKind
<1>1. UNCHANGED taskVars /\ UNCHANGED edges /\ UNCHANGED flgwait
  BY DEF tk_cre_flg
<1>2. Keeps("FLG") /\ UNCHANGED wait_queue
  BY <1>0, <1>1, StillOutcome DEF taskVars, queueVars
<1>3. CASE free_flgcb = << >>
  BY <1>1, <1>2, <1>3, FlagsStay DEF tk_cre_flg
<1>4. CASE free_flgcb # << >>
  <2> DEFINE g == Head(free_flgcb)
  <2>1. g \in Elems(free_flgcb) /\ g \in FLGID
    BY <1>4, TailQueue DEF WaitInv, FlgTypes, WaitQueuesConsistent, FlgcbsLinked
  <2>2. wait_queue[Flg(g)] = << >>
    BY <2>1 DEF WaitInv, WaitQueuesConsistent, FlgcbsLinked
  <2>3. flgptn \in [FLGID -> SUBSET Bit] /\ flgptn' = [flgptn EXCEPT ![g] = ptn]
    BY <1>4 DEF tk_cre_flg, WaitInv, FlgTypes
  <2> HIDE DEF g
  <2>4. \A f \in FLGID : flgptn'[f] \subseteq flgptn[f] \/ Elems(wait_queue[Flg(f)]) = {}
    BY <2>1, <2>2, <2>3, SmallQueues
  <2> QED
    BY <1>1, <1>2, <2>4, FlagsStay
<1> QED
  BY <1>3, <1>4

\* tk_wai_flg(): a task waits only for a pattern that is not there.
LEMMA WaiFlgFlags ==
  ASSUME KernelInv, WaitInv, OutcomeInv, FlagInv, NEW flgid \in FLGID, NEW waiptn \in FlgPtn,
         NEW wfmode \in WfMode, NEW tmout \in FlgTmo, tk_wai_flg(flgid, waiptn, wfmode, tmout)
  PROVE  FlagInv'
<1>0. "FLG" \in WaitKind /\ tmout \in Int /\ Caller /\ UNCHANGED edges
  BY EventFlagAssumption DEF WaitKind, tk_wai_flg
<1>1. flgptn \in [FLGID -> SUBSET Bit] /\ flgwait \in [TSKID -> [waiptn : SUBSET Bit, flgptn : SUBSET Bit, wfmode : Mode]]
  BY DEF WaitInv, FlgTypes
<1>2. CASE UNCHANGED taskVars /\ UNCHANGED flgwait
  <2>1. Keeps("FLG") /\ UNCHANGED wait_queue
    BY <1>0, <1>2, StillOutcome DEF taskVars, queueVars
  <2>2. flgptn' = flgptn \/ flgptn' = [flgptn EXCEPT ![flgid] = ClearedBy(@, waiptn, wfmode)]
    BY DEF tk_wai_flg
  <2>3. \A f \in FLGID : flgptn'[f] \subseteq flgptn[f]
    BY <1>1, <2>2 DEF ClearedBy
  <2> QED
    BY <1>2, <2>1, <2>3, FlagsStay
<1>3. CASE ~(UNCHANGED taskVars /\ UNCHANGED flgwait)
  <2>1. /\ tkmc_can_block /\ ~check_ptn(flgptn[flgid], waiptn, wfmode)
        /\ flgwait' = [flgwait EXCEPT ![current] =
                         [waiptn |-> waiptn, wfmode |-> wfmode, flgptn |-> {}]]
        /\ JoinQueue(Flg(flgid), 0, flgatr[flgid].tpri)
        /\ IF tmout > 0 THEN tkmc_schedule_timer(tkmc_ms_to_ticks(tmout), "FLG")
                        ELSE BeginWait("FLG", 0, 0)
        /\ UNCHANGED flgptn
    BY <1>3 DEF tk_wai_flg
  <2>2. Keeps("FLG")
    BY <1>0, <2>1, JoinOutcome
  <2>3. current \in TSKID /\ pc[current] = "run"
    BY <1>0, <2>1, BlockingCaller
  <2>4. ~Ended(current, "FLG")
    BY <2>3 DEF Ended
  <2>5. Flg(flgid) \in Obj /\ Joins(Flg(flgid))
    <3>1. Flg(flgid) \in Obj /\ flgatr[flgid].tpri = Tpri(Flg(flgid))
      BY Objects, TpriOf
    <3>2. JoinQueue(Flg(flgid), 0, Tpri(Flg(flgid)))
      BY <2>1, <3>1
    <3> QED
      BY <1>0, <2>1, <3>1, <3>2, JoinsOnce
  <2>6. /\ \A f \in FLGID : f # flgid => wait_queue'[Flg(f)] = wait_queue[Flg(f)]
        /\ Elems(wait_queue'[Flg(flgid)]) = Elems(wait_queue[Flg(flgid)]) \cup {current}
    <3>1. \A f \in FLGID : Flg(f) \in Obj /\ (f # flgid => Flg(f) # Flg(flgid))
      BY Objects DEF Flg
    <3> QED
      BY <2>5, <3>1, JoinsOnlyOne
  <2>7. /\ flgwait'[current].waiptn = waiptn /\ flgwait'[current].wfmode = wfmode
        /\ \A t \in TSKID : t # current => flgwait'[t] = flgwait[t]
    BY <1>1, <2>1, <2>3
  <2>8. ASSUME NEW f \in FLGID, NEW t \in Elems(wait_queue'[Flg(f)])
        PROVE  ~check_ptn(flgptn'[f], flgwait'[t].waiptn, flgwait'[t].wfmode)
    <3>0. Flg(f) \in Obj /\ \A x \in Elems(wait_queue[Flg(f)]) : x \in TSKID /\ x # current
      <4>1. Flg(f) \in Obj
        BY Objects
      <4>2. tskstat[current] = "RUN"
        BY <1>0, <2>1, BlockingCaller
      <4> QED
        BY <4>1, <4>2, ObjWaiters
    <3>1. CASE t \in Elems(wait_queue[Flg(f)])
      <4>1. ~check_ptn(flgptn[f], flgwait[t].waiptn, flgwait[t].wfmode)
        BY <3>1 DEF FlagInv, NoFlagMissed, Met
      <4> QED
        BY <2>1, <2>7, <3>0, <3>1, <4>1
    <3>2. CASE t \notin Elems(wait_queue[Flg(f)])
      <4>1. f = flgid /\ t = current
        BY <2>6, <2>8, <3>2
      <4> QED
        BY <2>1, <2>7, <4>1
    <3> QED
      BY <3>1, <3>2
  <2>9. NoFlagMissed'
    BY <2>8 DEF NoFlagMissed, Met
  <2>10. \A t \in TSKID : Ended(t, "FLG")' => Met(t, flgwait[t].flgptn)'
    <3> SUFFICES ASSUME NEW t \in TSKID, Ended(t, "FLG")' PROVE Met(t, flgwait[t].flgptn)'
      OBVIOUS
    <3>1. Ended(t, "FLG") /\ t # current
      BY <2>2, <2>4 DEF Keeps
    <3>2. flgwait'[t] = flgwait[t]
      BY <2>7, <3>1
    <3> QED
      BY <3>1, <3>2 DEF FlagInv, Met
  <2> QED
    BY <2>9, <2>10 DEF FlagInv
<1> QED
  BY <1>2, <1>3

\* tk_set_flg(): a waiter that is served is given a pattern that meets its
\* condition, and the pattern that is left meets the condition of no one who waits
\* on.
LEMMA SetFlgFlags ==
  ASSUME KernelInv, WaitInv, OutcomeInv, FlagInv, NEW flgid \in FLGID, NEW setptn \in FlgPtn,
         tk_set_flg(flgid, setptn)
  PROVE  FlagInv'
<1>0. "FLG" \in WaitKind /\ "FLG" \in WaitKind \ {"SLP"} /\ UNCHANGED edges /\ "E_OK" \in Ercd
  BY DEF WaitKind, tk_set_flg, Ercd
<1>1. CASE ~flgexs[flgid]
  <2>1. UNCHANGED <<taskVars, flgptn, flgwait>>
    BY <1>1 DEF tk_set_flg
  <2>2. Keeps("FLG") /\ UNCHANGED wait_queue
    BY <1>0, <2>1, StillOutcome DEF taskVars, queueVars
  <2> QED
    BY <2>1, <2>2, FlagsStay
<1>2. CASE flgexs[flgid]
  <2> DEFINE q == wait_queue[Flg(flgid)]
             ptn == flgptn[flgid] \cup setptn
             v == SetWalk(q, ptn)
             ts == v.served
  <2>1. /\ q \in Seq(TSKID) /\ Uniq(q) /\ Flg(flgid) \in Obj
        /\ \A t \in Elems(q) : t \in TSKID /\ tskstat[t] = "WAI" /\ tskwait[t] = "FLG"
    BY Objects, ObjWaiters, ObjWaitKind
  <2>2. ptn \in SUBSET Bit
    BY EventFlagAssumption DEF WaitInv, FlgTypes
  <2>3. /\ CompleteWaits(ts, AllCause("E_OK"), 0)
        /\ UNCHANGED <<wupcnt, pc, sp, current, credit, edges>>
        /\ flgptn' = [flgptn EXCEPT ![flgid] = v.ptn]
        /\ flgwait' = [t \in TSKID |-> IF t \in Elems(ts)
                                       THEN [flgwait[t] EXCEPT !.flgptn = v.got[t]] ELSE flgwait[t]]
    BY <1>2 DEF tk_set_flg
  <2>4. flgptn \in [FLGID -> SUBSET Bit] /\ flgwait \in [TSKID -> [waiptn : SUBSET Bit, flgptn : SUBSET Bit, wfmode : Mode]]
    BY DEF WaitInv, FlgTypes
  <2> HIDE DEF q, ptn
  <2>6. /\ ts \in Seq(TSKID) /\ Elems(ts) \subseteq Elems(q)
        /\ \A t \in Elems(q) :
             IF t \in Elems(ts)
             THEN check_ptn(v.got[t], flgwait[t].waiptn, flgwait[t].wfmode)
             ELSE ~check_ptn(v.ptn, flgwait[t].waiptn, flgwait[t].wfmode)
    BY <2>1, <2>2, SetWalkProperties
  <2> HIDE DEF v, ts
  <2>7. \A t \in TSKID : Ended(t, "FLG")' <=> Ended(t, "FLG") \/ t \in Elems(ts)
    BY <1>0, <2>1, <2>3, <2>6, CompleteAllOutcome
  <2>8. /\ \A t \in TSKID : t \in Elems(ts) => /\ flgwait'[t].flgptn = v.got[t]
                                               /\ flgwait'[t].waiptn = flgwait[t].waiptn
                                               /\ flgwait'[t].wfmode = flgwait[t].wfmode
        /\ \A t \in TSKID : t \notin Elems(ts) => flgwait'[t] = flgwait[t]
    BY <2>3, <2>4
  <2>9. /\ flgptn'[flgid] = v.ptn
        /\ \A f \in FLGID : f # flgid => flgptn'[f] = flgptn[f]
    BY <2>3, <2>4
  <2>10. \A o \in Obj : Elems(wait_queue'[o]) = Elems(wait_queue[o]) \ Elems(ts)
    <3> SUFFICES ASSUME NEW o \in Obj PROVE Elems(wait_queue'[o]) = Elems(wait_queue[o]) \ Elems(ts)
      OBVIOUS
    <3>1. wait_queue'[o] = Without(wait_queue[o], Elems(ts)) /\ wait_queue[o] \in Seq(TSKID)
      BY <2>3, ObjWaiters DEF CompleteWaits, Unqueued
    <3> QED
      BY <3>1, WithoutProperties
  <2>11. ASSUME NEW f \in FLGID, NEW t \in Elems(wait_queue'[Flg(f)])
         PROVE  ~check_ptn(flgptn'[f], flgwait'[t].waiptn, flgwait'[t].wfmode)
    <3>1. Flg(f) \in Obj
      BY Objects
    <3>2. t \in Elems(wait_queue[Flg(f)]) /\ t \notin Elems(ts) /\ t \in TSKID
      BY <2>10, <2>11, <3>1, ObjWaiters
    <3>3. flgwait'[t] = flgwait[t]
      BY <2>8, <3>2
    <3>4. CASE f = flgid
      BY <2>6, <2>9, <3>2, <3>3, <3>4 DEF q
    <3>5. CASE f # flgid
      BY <2>9, <3>2, <3>3, <3>5 DEF FlagInv, NoFlagMissed, Met
    <3> QED
      BY <3>4, <3>5
  <2>12. NoFlagMissed'
    BY <2>11 DEF NoFlagMissed, Met
  <2>13. \A t \in TSKID : Ended(t, "FLG")' => Met(t, flgwait[t].flgptn)'
    <3> SUFFICES ASSUME NEW t \in TSKID, Ended(t, "FLG")' PROVE Met(t, flgwait[t].flgptn)'
      OBVIOUS
    <3>1. CASE t \in Elems(ts)
      BY <2>6, <2>8, <3>1 DEF Met
    <3>2. CASE t \notin Elems(ts)
      BY <2>7, <2>8, <3>2 DEF FlagInv, Met
    <3> QED
      BY <3>1, <3>2
  <2> QED
    BY <2>12, <2>13 DEF FlagInv
<1> QED
  BY <1>1, <1>2

\* tk_clr_flg() clears bits, and the second half of tk_wai_flg() frees the fields
\* of a task that waits no more.
LEMMA ClrFlgFlags ==
  ASSUME KernelInv, WaitInv, OutcomeInv, FlagInv,
         (\E flgid \in FLGID, clrptn \in FlgPtn : tk_clr_flg(flgid, clrptn)) \/ FlgReturn
  PROVE  FlagInv'
<1>0. "FLG" \in WaitKind
  BY DEF WaitKind
<1>1. ASSUME NEW flgid \in FLGID, NEW clrptn, tk_clr_flg(flgid, clrptn) PROVE FlagInv'
  <2>1. UNCHANGED taskVars /\ UNCHANGED edges /\ UNCHANGED flgwait
    BY <1>1 DEF tk_clr_flg
  <2>2. Keeps("FLG") /\ UNCHANGED wait_queue
    BY <1>0, <2>1, StillOutcome DEF taskVars, queueVars
  <2>3. flgptn \in [FLGID -> SUBSET Bit]
    BY DEF WaitInv, FlgTypes
  <2>4. \A f \in FLGID : flgptn'[f] \subseteq flgptn[f]
    BY <1>1, <2>3 DEF tk_clr_flg
  <2> QED
    BY <2>1, <2>2, <2>4, FlagsStay
<1>2. CASE FlgReturn
  <2>1. WaitReturn("FLG") /\ TaskRuns /\ UNCHANGED wait_queue /\ UNCHANGED flgptn
    BY <1>2 DEF FlgReturn, WaitReturn, queueVars
  <2>2. current \in TSKID /\ tskstat[current] = "RUN"
    BY <2>1, RunningTask
  <2>3. \A t \in TSKID : Ended(t, "FLG")' <=> Ended(t, "FLG") /\ t # current
    BY <1>0, <2>1, WaitReturnOutcome
  <2>4. \A t \in TSKID : t # current => flgwait'[t] = flgwait[t]
    BY <1>2 DEF FlgReturn, WaitInv, FlgTypes
  <2>5. ASSUME NEW f \in FLGID, NEW t \in Elems(wait_queue'[Flg(f)])
        PROVE  ~check_ptn(flgptn'[f], flgwait'[t].waiptn, flgwait'[t].wfmode)
    <3>1. Flg(f) \in Obj /\ t \in Elems(wait_queue[Flg(f)])
      BY <2>1, <2>5, Objects
    <3>2. t \in TSKID /\ t # current
      BY <2>2, <3>1, ObjWaiters
    <3> QED
      BY <2>1, <2>4, <3>1, <3>2 DEF FlagInv, NoFlagMissed, Met
  <2>6. NoFlagMissed'
    BY <2>5 DEF NoFlagMissed, Met
  <2>7. \A t \in TSKID : Ended(t, "FLG")' => Met(t, flgwait[t].flgptn)'
    BY <2>3, <2>4 DEF FlagInv, Met
  <2> QED
    BY <2>6, <2>7 DEF FlagInv
<1> QED
  BY <1>1, <1>2

\* The invariant of the flags.
LEMMA FlagSafe == Spec => [](OutcomeInv /\ FlagInv)
<1>1. Init => FlagInv
  <2> SUFFICES ASSUME Init PROVE FlagInv
    OBVIOUS
  <2>1. \A t \in TSKID : ~Ended(t, "FLG")
    BY DEF Init, Ended, Entry
  <2>2. \A f \in FLGID : Elems(wait_queue[Flg(f)]) = {}
    BY Objects, SmallQueues DEF Init
  <2> QED
    BY <2>1, <2>2 DEF FlagInv, NoFlagMissed
<1>2. KernelInv /\ WaitInv /\ OutcomeInv /\ FlagInv /\ [Next]_vars => FlagInv'
  <2> SUFFICES ASSUME KernelInv, WaitInv, OutcomeInv, FlagInv, [Next]_vars PROVE FlagInv'
    OBVIOUS
  <2>1. CASE FlagCall
    BY <2>1, CreFlgFlags, WaiFlgFlags, SetFlgFlags, ClrFlgFlags DEF FlagCall
  <2>2. CASE ~FlagCall
    <3>1. Keeps("FLG") /\ UNCHANGED <<flgwait, flgptn>>
      BY <2>2, OthersKeep DEF flgVars
    <3>2. \A f \in FLGID : Elems(wait_queue'[Flg(f)]) \subseteq Elems(wait_queue[Flg(f)])
      BY <2>2, OthersShrink
    <3> QED
      BY <3>1, <3>2, FlagsStay
  <2> QED
    BY <2>1, <2>2
<1> QED
  BY <1>1, <1>2, OutcomeSafe, PTL DEF Spec

\* A task that returns from tk_wai_flg() with E_OK returns a pattern that meets its
\* condition, whatever was set and cleared between its release and its return.
THEOREM PatternsHold == Spec => []PatternDelivered
<1>1. FlagInv => PatternDelivered
  BY DEF FlagInv, PatternDelivered, Ended
<1> QED
  BY <1>1, FlagSafe, PTL

\* No task goes on waiting for a pattern that the flag holds, in whatever order
\* the walk of tk_set_flg() cleared bits.
THEOREM NoFlagMissedHolds == Spec => []NoFlagMissed
<1>1. FlagInv => NoFlagMissed
  BY DEF FlagInv
<1> QED
  BY <1>1, FlagSafe, PTL

-----------------------------------------------------------------------------
(* Mailboxes. *)

\* Who may hold a message: the application, a mailbox, or a task that was given it
\* and has not returned it yet.
App == <<"app", 0>>
With(t) == <<"TSK", t>>
Holder == {App} \cup MbxObj \cup {With(t) : t \in TSKID}

\* The messages that h holds.
At(h) == IF h = App THEN owned \cap Msg
         ELSE IF h \in MbxObj THEN Elems(mbx_queue[h[2]]) ELSE {mbxmsg[h[2]]} \cap Msg

\* The messages that h holds after the step.
After(h) == IF h = App THEN owned' \cap Msg
            ELSE IF h \in MbxObj THEN Elems(mbx_queue'[h[2]]) ELSE {mbxmsg'[h[2]]} \cap Msg

\* Every message is in one place.
OnePlace == \A msg \in Msg : \E h \in Holder : \A g \in Holder : msg \in At(g) <=> g = h

\* The task has been given a message exactly if its wait ended with E_OK; a mailbox
\* that does not exist holds none.
MailInv ==
  /\ \A m \in MBXID : Uniq(mbx_queue[m]) /\ (~mbxexs[m] => mbx_queue[m] = << >>)
  /\ \A t \in TSKID : mbxmsg[t] # NULL <=> Ended(t, "MBX")
  /\ NoMessageWithheld
  /\ OnePlace

\* The holders are different, and what each holds.
LEMMA Holders ==
  /\ App \in Holder /\ At(App) = owned \cap Msg /\ After(App) = owned' \cap Msg
  /\ \A m \in MBXID : /\ Mbx(m) \in Holder /\ Mbx(m) # App
                      /\ At(Mbx(m)) = Elems(mbx_queue[m]) /\ After(Mbx(m)) = Elems(mbx_queue'[m])
                      /\ \A n \in MBXID : Mbx(m) = Mbx(n) => m = n
                      /\ \A t \in TSKID : Mbx(m) # With(t)
  /\ \A t \in TSKID : /\ With(t) \in Holder /\ With(t) # App
                      /\ At(With(t)) = {mbxmsg[t]} \cap Msg
                      /\ After(With(t)) = {mbxmsg'[t]} \cap Msg
                      /\ \A x \in TSKID : With(t) = With(x) => t = x
  /\ \A h \in Holder : \/ h = App
                       \/ \E m \in MBXID : h = Mbx(m)
                       \/ \E t \in TSKID : h = With(t)
<1>1. /\ App \in Holder /\ At(App) = owned \cap Msg /\ After(App) = owned' \cap Msg
  BY DEF Holder, At, After, App
<1>2. ASSUME NEW m \in MBXID
      PROVE  /\ Mbx(m) \in Holder /\ Mbx(m) # App /\ Mbx(m) \in MbxObj /\ Mbx(m)[2] = m
             /\ At(Mbx(m)) = Elems(mbx_queue[m]) /\ After(Mbx(m)) = Elems(mbx_queue'[m])
             /\ \A n \in MBXID : Mbx(m) = Mbx(n) => m = n
             /\ \A t \in TSKID : Mbx(m) # With(t)
  <2>1. Mbx(m) \in Holder /\ Mbx(m) # App /\ Mbx(m) \in MbxObj /\ Mbx(m)[2] = m
    BY DEF Holder, MbxObj, Mbx, App
  <2>2. At(Mbx(m)) = Elems(mbx_queue[m]) /\ After(Mbx(m)) = Elems(mbx_queue'[m])
    BY <2>1 DEF At, After
  <2>3. /\ \A n \in MBXID : Mbx(m) = Mbx(n) => m = n
        /\ \A t \in TSKID : Mbx(m) # With(t)
    BY DEF Mbx, With
  <2> QED
    BY <2>1, <2>2, <2>3
<1>3. ASSUME NEW t \in TSKID
      PROVE  /\ With(t) \in Holder /\ With(t) # App
             /\ At(With(t)) = {mbxmsg[t]} \cap Msg
             /\ After(With(t)) = {mbxmsg'[t]} \cap Msg
             /\ \A x \in TSKID : With(t) = With(x) => t = x
  <2>1. With(t) \in Holder /\ With(t) # App /\ With(t)[2] = t
    BY DEF Holder, With, App
  <2>2. With(t) \notin MbxObj
    BY DEF With, MbxObj, Mbx
  <2>3. At(With(t)) = {mbxmsg[t]} \cap Msg /\ After(With(t)) = {mbxmsg'[t]} \cap Msg
    BY <2>1, <2>2 DEF At, After
  <2>4. \A x \in TSKID : With(t) = With(x) => t = x
    BY DEF With
  <2> QED
    BY <2>1, <2>3, <2>4
<1>4. \A h \in Holder : \/ h = App
                        \/ \E m \in MBXID : h = Mbx(m)
                        \/ \E t \in TSKID : h = With(t)
  BY DEF Holder, MbxObj
<1> QED
  BY <1>1, <1>2, <1>3, <1>4

\* The step moves the messages S from a to b, and no other.
Moves(S, a, b) ==
  /\ a # b /\ S \subseteq At(a) /\ After(a) = At(a) \ S /\ After(b) = At(b) \cup S
  /\ \A h \in Holder : h # a /\ h # b => After(h) = At(h)

\* A step that moves messages from one holder to another.
LEMMA MovedOnce ==
  ASSUME OnePlace, NEW S, NEW a \in Holder, NEW b \in Holder, Moves(S, a, b)
  PROVE  OnePlace'
<1> USE DEF Moves
<1> SUFFICES ASSUME NEW msg \in Msg
             PROVE  \E h \in Holder : \A g \in Holder : msg \in After(g) <=> g = h
  BY DEF OnePlace, At, After
<1>1. PICK h \in Holder : \A g \in Holder : msg \in At(g) <=> g = h
  BY DEF OnePlace
<1>2. CASE msg \in S
  <2>1. \A g \in Holder : msg \in After(g) <=> g = b
    BY <1>1, <1>2
  <2> QED
    BY <2>1
<1>3. CASE msg \notin S
  <2>1. \A g \in Holder : msg \in After(g) <=> g = h
    BY <1>1, <1>3
  <2> QED
    BY <2>1
<1> QED
  BY <1>2, <1>3

\* What the holders hold that the step does not name.
LEMMA OthersHold ==
  ASSUME NEW a, NEW b, a = App \/ b = App,
         \A m \in MBXID : Mbx(m) # a /\ Mbx(m) # b => mbx_queue'[m] = mbx_queue[m],
         \A t \in TSKID : With(t) # a /\ With(t) # b => mbxmsg'[t] = mbxmsg[t]
  PROVE  \A h \in Holder : h # a /\ h # b => After(h) = At(h)
<1> SUFFICES ASSUME NEW h \in Holder, h # a, h # b PROVE After(h) = At(h)
  OBVIOUS
<1>1. CASE \E m \in MBXID : h = Mbx(m)
  <2>1. PICK m \in MBXID : h = Mbx(m)
    BY <1>1
  <2>2. At(h) = Elems(mbx_queue[m]) /\ After(h) = Elems(mbx_queue'[m])
    BY <2>1, Holders
  <2> QED
    BY <2>1, <2>2
<1>2. CASE \E t \in TSKID : h = With(t)
  <2>1. PICK t \in TSKID : h = With(t)
    BY <1>2
  <2>2. At(h) = {mbxmsg[t]} \cap Msg /\ After(h) = {mbxmsg'[t]} \cap Msg
    BY <2>1, Holders
  <2> QED
    BY <2>1, <2>2
<1> QED
  BY <1>1, <1>2, Holders

\* A step that moves no message.
LEMMA NoneMoved ==
  ASSUME OnePlace, UNCHANGED <<mbx_queue, mbxmsg, owned>>
  PROVE  OnePlace'
  BY DEF OnePlace, At

\* A step that moves no message, adds no receiver and gives no one a message.
LEMMA MailStays ==
  ASSUME MailInv, Keeps("MBX"), UNCHANGED <<mbx_queue, mbxmsg, owned>>,
         \A m \in MBXID : /\ mbxexs'[m] \/ ~mbxexs[m] \/ mbx_queue[m] = << >>
                          /\ wait_queue[Mbx(m)] = << >> => wait_queue'[Mbx(m)] = << >>
  PROVE  MailInv'
<1>1. OnePlace'
  BY NoneMoved DEF MailInv
<1>2. \A m \in MBXID : Uniq(mbx_queue[m])' /\ (~mbxexs'[m] => mbx_queue'[m] = << >>)
  BY DEF MailInv
<1>3. \A t \in TSKID : mbxmsg'[t] # NULL <=> Ended(t, "MBX")'
  BY DEF MailInv, Keeps
<1>4. NoMessageWithheld'
  BY DEF MailInv, NoMessageWithheld
<1> QED
  BY <1>1, <1>2, <1>3, <1>4 DEF MailInv

\* A wait queue that has no one on it gets no one by a step that adds no one.
LEMMA StaysEmpty ==
  ASSUME WaitInv, WaitInv', NEW o \in Obj,
         Elems(wait_queue'[o]) \subseteq Elems(wait_queue[o]), wait_queue[o] = << >>
  PROVE  wait_queue'[o] = << >>
<1>1. wait_queue'[o] \in Seq(TSKID)
  BY DEF WaitInv, WaitTypes
<1>2. Elems(wait_queue'[o]) = {}
  BY SmallQueues
<1> QED
  BY <1>1, <1>2, SmallQueues

\* tk_cre_mbx() takes a mailbox that holds no message.
LEMMA CreMbxMail ==
  ASSUME KernelInv, WaitInv, OutcomeInv, MailInv, NEW atr, tk_cre_mbx(atr)
  PROVE  MailInv'
<1>0. "MBX" \in WaitKind /\ mbxexs \in [MBXID -> BOOLEAN] /\ mbx_queue \in [MBXID -> Seq(Msg)]
  BY DEF WaitKind, WaitInv, MbxTypes
<1>1. UNCHANGED taskVars /\ UNCHANGED edges /\ UNCHANGED <<mbxmsg, owned>>
  BY DEF tk_cre_mbx
<1>2. Keeps("MBX") /\ UNCHANGED wait_queue
  BY <1>0, <1>1, StillOutcome DEF taskVars, queueVars
<1>3. CASE free_mbxcb = << >>
  BY <1>1, <1>2, <1>3, MailStays DEF tk_cre_mbx
<1>4. CASE free_mbxcb # << >>
  <2> DEFINE n == Head(free_mbxcb)
  <2>1. n \in Elems(free_mbxcb) /\ n \in MBXID
    BY <1>4, TailQueue DEF WaitInv, MbxTypes, WaitQueuesConsistent, MbxcbsLinked
  <2>2. mbx_queue[n] = << >>
    BY <2>1 DEF WaitInv, WaitQueuesConsistent, MbxcbsLinked, MailInv
  <2>3. mbxexs' = [mbxexs EXCEPT ![n] = TRUE] /\ mbx_queue' = [mbx_queue EXCEPT ![n] = << >>]
    BY <1>4 DEF tk_cre_mbx
  <2> HIDE DEF n
  <2>4. mbx_queue' = mbx_queue /\ \A m \in MBXID : mbxexs'[m] \/ ~mbxexs[m]
    BY <1>0, <2>1, <2>2, <2>3
  <2> QED
    BY <1>1, <1>2, <2>4, MailStays
<1> QED
  BY <1>3, <1>4

\* tk_del_mbx() gives the messages that are queued back to the application.
LEMMA DelMbxMail ==
  ASSUME KernelInv, WaitInv, WaitInv', OutcomeInv, MailInv, NEW mbxid \in MBXID,
         tk_del_mbx(mbxid)
  PROVE  MailInv'
<1>0. /\ "MBX" \in WaitKind \ {"SLP"} /\ "E_DLT" \in Ercd
      /\ mbxexs \in [MBXID -> BOOLEAN] /\ mbx_queue \in [MBXID -> Seq(Msg)]
      /\ mbxmsg \in [TSKID -> Msg \cup {NULL}] /\ owned \subseteq Msg \cup {NULL}
  BY DEF WaitKind, WaitInv, MbxTypes, Ercd
<1>1. CASE ~mbxexs[mbxid]
  <2>1. UNCHANGED taskVars /\ UNCHANGED edges /\ UNCHANGED <<mbxexs, mbx_queue, mbxmsg, owned>>
    BY <1>1 DEF tk_del_mbx, mbxVars
  <2>2. Keeps("MBX") /\ UNCHANGED wait_queue
    BY <1>0, <2>1, StillOutcome DEF taskVars, queueVars
  <2> QED
    BY <2>1, <2>2, MailStays
<1>2. CASE mbxexs[mbxid]
  <2> DEFINE ts == wait_queue[Mbx(mbxid)]
             S == Elems(mbx_queue[mbxid])
  <2>1. /\ ts \in Seq(TSKID) /\ Mbx(mbxid) \in Obj
        /\ \A t \in Elems(ts) : t \in TSKID /\ tskstat[t] = "WAI" /\ tskwait[t] = "MBX"
    BY Objects, ObjWaiters, ObjWaitKind
  <2>2. /\ CompleteWaits(ts, AllCause("E_DLT"), 0)
        /\ UNCHANGED <<wupcnt, pc, sp, current, credit, edges>>
        /\ mbxmsg' = [t \in TSKID |-> IF t \in Elems(ts) THEN NULL ELSE mbxmsg[t]]
        /\ mbxexs' = [mbxexs EXCEPT ![mbxid] = FALSE]
        /\ mbx_queue' = [mbx_queue EXCEPT ![mbxid] = << >>]
        /\ owned' = owned \cup S
    BY <1>2 DEF tk_del_mbx
  <2> HIDE DEF ts
  <2>3. \A t \in TSKID : Ended(t, "MBX")' <=> Ended(t, "MBX")
    BY <1>0, <2>1, <2>2, CompleteAllOutcome
  <2>4. mbxmsg' = mbxmsg
    <3>1. \A t \in Elems(ts) : mbxmsg[t] = NULL
      BY <2>1 DEF MailInv, Ended
    <3> QED
      BY <1>0, <2>2, <3>1
  <2>5. mbx_queue'[mbxid] = << >> /\ \A m \in MBXID : m # mbxid => mbx_queue'[m] = mbx_queue[m]
    BY <1>0, <2>2
  <2>6. S \in SUBSET Msg
    BY <1>0, SmallQueues
  <2>7. OnePlace'
    <3>1. /\ Mbx(mbxid) \in Holder /\ App \in Holder /\ Mbx(mbxid) # App
          /\ At(Mbx(mbxid)) = S /\ After(Mbx(mbxid)) = {}
      BY <2>5, Holders, SmallQueues
    <3>2. After(App) = At(App) \cup S
      BY <2>2, <2>6, Holders
    <3>3. \A h \in Holder : h # Mbx(mbxid) /\ h # App => After(h) = At(h)
      BY <2>4, <2>5, OthersHold
    <3> HIDE DEF S
    <3>4. After(Mbx(mbxid)) = At(Mbx(mbxid)) \ S
      BY <3>1
    <3>5. OnePlace /\ S \subseteq At(Mbx(mbxid))
      BY <3>1 DEF MailInv
    <3>6. Moves(S, Mbx(mbxid), App)
      BY <3>1, <3>2, <3>3, <3>4, <3>5 DEF Moves
    <3> QED
      BY <3>1, <3>5, <3>6, MovedOnce
  <2>8. \A m \in MBXID : Uniq(mbx_queue'[m]) /\ (~mbxexs'[m] => mbx_queue'[m] = << >>)
    BY <1>0, <2>2, <2>5, SmallQueues DEF MailInv
  <2>9. \A t \in TSKID : mbxmsg'[t] # NULL <=> Ended(t, "MBX")'
    BY <2>3, <2>4 DEF MailInv
  <2>10. NoMessageWithheld'
    <3> SUFFICES ASSUME NEW m \in MBXID, mbx_queue'[m] # << >> PROVE wait_queue'[Mbx(m)] = << >>
      BY DEF NoMessageWithheld
    <3>1. Mbx(m) \in Obj /\ wait_queue[Mbx(m)] = << >>
      BY <2>5, Objects DEF MailInv, NoMessageWithheld
    <3>2. Drops
      BY <2>2 DEF CompleteWaits, Drops
    <3> QED
      BY <3>1, <3>2, DropsShrink, StaysEmpty
  <2> QED
    BY <2>7, <2>8, <2>9, <2>10 DEF MailInv
<1> QED
  BY <1>1, <1>2

\* tk_snd_mbx() gives the message to a receiver that waits, or queues it.
LEMMA SndMbxMail ==
  ASSUME KernelInv, WaitInv, WaitInv', OutcomeInv, MailInv, NEW mbxid \in MBXID, NEW msg \in Msg,
         tk_snd_mbx(mbxid, msg)
  PROVE  MailInv'
<1>0. /\ "MBX" \in WaitKind \ {"SLP"} /\ "MBX" \in WaitKind /\ "E_OK" \in Ercd
      /\ mbxexs \in [MBXID -> BOOLEAN] /\ mbx_queue \in [MBXID -> Seq(Msg)]
      /\ mbxmsg \in [TSKID -> Msg \cup {NULL}] /\ owned \subseteq Msg \cup {NULL}
      /\ NULL \notin Msg
  BY MailboxAssumption DEF WaitKind, WaitInv, MbxTypes, Ercd
<1>1. msg \in owned /\ UNCHANGED <<edges, mbxexs>>
  BY DEF tk_snd_mbx
<1> DEFINE q == wait_queue[Mbx(mbxid)]
           t == pop_waiting_receiver(mbxid)
<1>2. /\ Mbx(mbxid) \in Obj /\ q \in Seq(TSKID) /\ Uniq(q)
      /\ \A x \in Elems(q) : x \in TSKID /\ tskstat[x] = "WAI" /\ tskwait[x] = "MBX"
  BY Objects, ObjWaiters, ObjWaitKind
<1>3. IF q = << >> THEN t = NULL ELSE t \in Elems(q) /\ t # NULL
  <2>1. q # << >> => Head(q) \in Elems(q)
    BY <1>2, TailQueue
  <2>2. NULL \notin TSKID
    BY DEF NULL, TSKID
  <2> QED
    BY <1>2, <2>1, <2>2 DEF pop_waiting_receiver
<1>4. \/ UNCHANGED <<taskVars, mbx_queue, mbxmsg, owned>>
      \/ /\ owned' = owned \ {msg} /\ t # NULL
         /\ mbxmsg' = [mbxmsg EXCEPT ![t] = msg] /\ UNCHANGED mbx_queue
         /\ CompleteWaits(<<t>>, AllCause("E_OK"), 0)
         /\ UNCHANGED <<wupcnt, pc, sp, current, credit>>
      \/ /\ owned' = owned \ {msg} /\ t = NULL /\ mbxexs[mbxid]
         /\ \/ mbx_queue' = [mbx_queue EXCEPT ![mbxid] = insert_msg_pri(@, msg)]
            \/ mbx_queue' = [mbx_queue EXCEPT ![mbxid] = Append(@, msg)]
         /\ UNCHANGED <<taskVars, mbxmsg>>
  BY DEF tk_snd_mbx
<1> HIDE DEF q, t
<1>5. At(App) = owned \cap Msg /\ msg \in At(App)
  BY <1>1, Holders
<1>6. CASE UNCHANGED <<taskVars, mbx_queue, mbxmsg, owned>>
  <2>1. Keeps("MBX") /\ UNCHANGED wait_queue
    BY <1>0, <1>1, <1>6, StillOutcome DEF taskVars, queueVars
  <2> QED
    BY <1>1, <1>6, <2>1, MailStays
<1>7. CASE /\ owned' = owned \ {msg} /\ t # NULL
           /\ mbxmsg' = [mbxmsg EXCEPT ![t] = msg] /\ UNCHANGED mbx_queue
           /\ CompleteWaits(<<t>>, AllCause("E_OK"), 0)
           /\ UNCHANGED <<wupcnt, pc, sp, current, credit>>
  <2> DEFINE ts == <<t>>
  <2>1. t \in TSKID /\ tskstat[t] = "WAI" /\ tskwait[t] = "MBX"
    BY <1>2, <1>3, <1>7
  <2>2. ts \in Seq(TSKID) /\ Elems(ts) = {t}
    BY <2>1, SmallQueues
  <2>3. CompleteWaits(ts, AllCause("E_OK"), 0)
    BY <1>7
  <2> HIDE DEF ts
  <2>4. \A x \in TSKID : Ended(x, "MBX")' <=> Ended(x, "MBX") \/ x = t
    BY <1>0, <1>1, <1>7, <2>1, <2>2, <2>3, CompleteAllOutcome
  <2>5. mbxmsg[t] = NULL /\ mbxmsg'[t] = msg /\ \A x \in TSKID : x # t => mbxmsg'[x] = mbxmsg[x]
    BY <1>0, <1>7, <2>1 DEF MailInv, Ended
  <2>6. OnePlace'
    <3>1. With(t) \in Holder /\ App \in Holder /\ With(t) # App
      BY <2>1, Holders
    <3>2. After(App) = At(App) \ {msg}
      BY <1>5, <1>7, Holders
    <3>3. At(With(t)) = {} /\ After(With(t)) = {msg}
      <4>1. At(With(t)) = {mbxmsg[t]} \cap Msg /\ After(With(t)) = {mbxmsg'[t]} \cap Msg
        BY <2>1, Holders
      <4> QED
        BY <1>0, <2>5, <4>1
    <3>4. \A h \in Holder : h # App /\ h # With(t) => After(h) = At(h)
      BY <1>7, <2>5, OthersHold
    <3>5. After(With(t)) = At(With(t)) \cup {msg} /\ {msg} \in SUBSET Msg
      BY <3>3
    <3>6. OnePlace /\ {msg} \subseteq At(App)
      BY <1>5 DEF MailInv
    <3>7. Moves({msg}, App, With(t))
      BY <3>1, <3>2, <3>4, <3>5, <3>6 DEF Moves
    <3> QED
      BY <3>1, <3>6, <3>7, MovedOnce
  <2>7. \A m \in MBXID : Uniq(mbx_queue'[m]) /\ (~mbxexs'[m] => mbx_queue'[m] = << >>)
    BY <1>1, <1>7 DEF MailInv
  <2>8. \A x \in TSKID : mbxmsg'[x] # NULL <=> Ended(x, "MBX")'
    BY <1>0, <2>4, <2>5 DEF MailInv
  <2>9. NoMessageWithheld'
    <3> SUFFICES ASSUME NEW m \in MBXID, mbx_queue'[m] # << >> PROVE wait_queue'[Mbx(m)] = << >>
      BY DEF NoMessageWithheld
    <3>1. Mbx(m) \in Obj /\ wait_queue[Mbx(m)] = << >>
      BY <1>7, Objects DEF MailInv, NoMessageWithheld
    <3>2. Drops
      BY <2>3 DEF CompleteWaits, Drops
    <3> QED
      BY <3>1, <3>2, DropsShrink, StaysEmpty
  <2> QED
    BY <2>6, <2>7, <2>8, <2>9 DEF MailInv
<1>8. CASE /\ owned' = owned \ {msg} /\ t = NULL /\ mbxexs[mbxid]
           /\ \/ mbx_queue' = [mbx_queue EXCEPT ![mbxid] = insert_msg_pri(@, msg)]
              \/ mbx_queue' = [mbx_queue EXCEPT ![mbxid] = Append(@, msg)]
           /\ UNCHANGED <<taskVars, mbxmsg>>
  <2> DEFINE r == mbx_queue[mbxid]
  <2>1. Keeps("MBX") /\ UNCHANGED wait_queue
    BY <1>0, <1>1, <1>8, StillOutcome DEF taskVars, queueVars
  <2>2. r \in Seq(Msg) /\ Uniq(r)
    BY <1>0 DEF MailInv
  <2>3. msg \notin Elems(r)
    <3>1. Mbx(mbxid) \in Holder /\ App \in Holder /\ Mbx(mbxid) # App /\ At(Mbx(mbxid)) = Elems(r)
      BY Holders
    <3> QED
      BY <1>5, <3>1 DEF MailInv, OnePlace
  <2>4. /\ mbx_queue'[mbxid] = insert_msg_pri(r, msg) \/ mbx_queue'[mbxid] = Append(r, msg)
        /\ \A m \in MBXID : m # mbxid => mbx_queue'[m] = mbx_queue[m]
    BY <1>0, <1>8
  <2> HIDE DEF r
  <2>5. Elems(mbx_queue'[mbxid]) = Elems(r) \cup {msg} /\ Uniq(mbx_queue'[mbxid])
    <3>1. CASE mbx_queue'[mbxid] = insert_msg_pri(r, msg)
      BY <2>2, <2>3, <3>1, InsertedMsg
    <3>2. CASE mbx_queue'[mbxid] = Append(r, msg)
      BY <2>2, <2>3, <3>2, AppendQueue
    <3> QED
      BY <2>4, <3>1, <3>2
  <2>6. OnePlace'
    <3>1. /\ Mbx(mbxid) \in Holder /\ App \in Holder /\ Mbx(mbxid) # App
          /\ After(Mbx(mbxid)) = At(Mbx(mbxid)) \cup {msg}
      BY <2>5, Holders DEF r
    <3>2. After(App) = At(App) \ {msg}
      BY <1>5, <1>8, Holders
    <3>3. \A h \in Holder : h # App /\ h # Mbx(mbxid) => After(h) = At(h)
      BY <1>8, <2>4, OthersHold
    <3>4. OnePlace /\ {msg} \subseteq At(App)
      BY <1>5 DEF MailInv
    <3>5. Moves({msg}, App, Mbx(mbxid))
      BY <3>1, <3>2, <3>3, <3>4 DEF Moves
    <3> QED
      BY <3>1, <3>4, <3>5, MovedOnce
  <2>7. \A m \in MBXID : Uniq(mbx_queue'[m]) /\ (~mbxexs'[m] => mbx_queue'[m] = << >>)
    BY <1>1, <1>8, <2>4, <2>5 DEF MailInv
  <2>8. \A x \in TSKID : mbxmsg'[x] # NULL <=> Ended(x, "MBX")'
    BY <1>8, <2>1 DEF MailInv, Keeps
  <2>9. NoMessageWithheld'
    <3>1. wait_queue[Mbx(mbxid)] = << >>
      BY <1>3, <1>8 DEF q
    <3> QED
      BY <2>1, <2>4, <3>1 DEF MailInv, NoMessageWithheld
  <2> QED
    BY <2>6, <2>7, <2>8, <2>9 DEF MailInv
<1> QED
  BY <1>4, <1>6, <1>7, <1>8

\* tk_rcv_mbx() takes the first message that is queued, and waits only at a mailbox
\* that holds none.
LEMMA RcvMbxMail ==
  ASSUME KernelInv, WaitInv, WaitInv', OutcomeInv, MailInv, NEW mbxid \in MBXID,
         NEW tmout \in MbxTmo, tk_rcv_mbx(mbxid, tmout)
  PROVE  MailInv'
<1>0. /\ "MBX" \in WaitKind /\ tmout \in Int /\ Caller /\ UNCHANGED <<edges, mbxexs>>
      /\ mbx_queue \in [MBXID -> Seq(Msg)] /\ mbxmsg \in [TSKID -> Msg \cup {NULL}]
      /\ owned \subseteq Msg \cup {NULL}
  BY MailboxAssumption DEF WaitKind, tk_rcv_mbx, WaitInv, MbxTypes
<1>1. CASE UNCHANGED <<taskVars, mbx_queue, mbxmsg, owned>>
  <2>1. Keeps("MBX") /\ UNCHANGED wait_queue
    BY <1>0, <1>1, StillOutcome DEF taskVars, queueVars
  <2> QED
    BY <1>0, <1>1, <2>1, MailStays
<1>2. CASE /\ mbx_queue[mbxid] # << >> /\ mbxexs[mbxid]
           /\ mbx_queue' = [mbx_queue EXCEPT ![mbxid] = Tail(@)]
           /\ owned' = owned \cup {Head(mbx_queue[mbxid])}
           /\ UNCHANGED <<taskVars, mbxmsg>>
  <2> DEFINE r == mbx_queue[mbxid]
             msg == Head(r)
             b == Mbx(mbxid)
  <2>1. Keeps("MBX") /\ UNCHANGED wait_queue
    BY <1>0, <1>2, StillOutcome DEF taskVars, queueVars
  <2>2. r \in Seq(Msg) /\ Uniq(r) /\ r # << >>
    BY <1>0, <1>2 DEF MailInv
  <2>3. /\ mbx_queue'[mbxid] = Tail(r) /\ owned' = owned \cup {msg}
        /\ \A m \in MBXID : m # mbxid => mbx_queue'[m] = mbx_queue[m]
    BY <1>0, <1>2
  <2>4. b \in Holder /\ App \in Holder /\ b # App /\ At(b) = Elems(r)
        /\ After(b) = Elems(mbx_queue'[mbxid])
    BY Holders
  <2>5. \A h \in Holder : h # b /\ h # App => After(h) = At(h)
    BY <1>2, <2>3, OthersHold
  <2> HIDE DEF r
  <2>6. /\ msg \in Elems(r) /\ msg \in Msg /\ Uniq(Tail(r)) /\ Elems(Tail(r)) = Elems(r) \ {msg}
    BY <2>2, TailQueue
  <2>7. After(App) = At(App) \cup {msg}
    BY <2>3, <2>6, Holders
  <2> HIDE DEF msg
  <2>8. /\ {msg} \in SUBSET Msg /\ {msg} \subseteq At(b) /\ After(b) = At(b) \ {msg} /\ OnePlace
    BY <2>3, <2>4, <2>6 DEF MailInv
  <2>9. OnePlace'
    <3>1. Moves({msg}, b, App)
      BY <2>4, <2>5, <2>7, <2>8 DEF Moves
    <3> QED
      BY <2>4, <2>8, <3>1, MovedOnce
  <2>10. \A m \in MBXID : Uniq(mbx_queue'[m]) /\ (~mbxexs'[m] => mbx_queue'[m] = << >>)
    BY <1>0, <1>2, <2>3, <2>6 DEF MailInv
  <2>11. \A x \in TSKID : mbxmsg'[x] # NULL <=> Ended(x, "MBX")'
    BY <1>2, <2>1 DEF MailInv, Keeps
  <2>12. NoMessageWithheld'
    BY <1>2, <2>1, <2>3 DEF MailInv, NoMessageWithheld
  <2> QED
    BY <2>9, <2>10, <2>11, <2>12 DEF MailInv
<1>3. CASE /\ mbx_queue[mbxid] = << >> /\ tkmc_can_block
           /\ mbxmsg' = [mbxmsg EXCEPT ![current] = NULL]
           /\ JoinQueue(Mbx(mbxid), 0, mbxatr[mbxid].tpri)
           /\ IF tmout > 0 THEN tkmc_schedule_timer(tkmc_ms_to_ticks(tmout), "MBX")
                           ELSE BeginWait("MBX", 0, 0)
           /\ UNCHANGED <<mbx_queue, owned>>
  <2>1. Keeps("MBX")
    BY <1>0, <1>3, JoinOutcome
  <2>2. current \in TSKID /\ pc[current] = "run"
    BY <1>0, <1>3, BlockingCaller
  <2>3. mbxmsg' = mbxmsg
    <3>1. mbxmsg[current] = NULL
      BY <2>2 DEF MailInv, Ended
    <3> QED
      BY <1>0, <1>3, <2>2, <3>1
  <2>4. \A m \in MBXID : m # mbxid => wait_queue'[Mbx(m)] = wait_queue[Mbx(m)]
    <3>1. Mbx(mbxid) \in Obj /\ mbxatr[mbxid].tpri = Tpri(Mbx(mbxid))
      BY Objects, TpriOf
    <3>2. JoinQueue(Mbx(mbxid), 0, Tpri(Mbx(mbxid)))
      BY <1>3, <3>1
    <3>3. Joins(Mbx(mbxid))
      BY <1>0, <1>3, <3>1, <3>2, JoinsOnce
    <3>4. \A m \in MBXID : Mbx(m) \in Obj /\ (m # mbxid => Mbx(m) # Mbx(mbxid))
      BY Objects DEF Mbx
    <3> QED
      BY <3>1, <3>3, <3>4, JoinsOnlyOne
  <2>5. OnePlace'
    BY <1>3, <2>3, NoneMoved DEF MailInv
  <2>6. \A m \in MBXID : Uniq(mbx_queue'[m]) /\ (~mbxexs'[m] => mbx_queue'[m] = << >>)
    BY <1>0, <1>3 DEF MailInv
  <2>7. \A x \in TSKID : mbxmsg'[x] # NULL <=> Ended(x, "MBX")'
    BY <2>1, <2>3 DEF MailInv, Keeps
  <2>8. NoMessageWithheld'
    BY <1>3, <2>4 DEF MailInv, NoMessageWithheld
  <2> QED
    BY <2>5, <2>6, <2>7, <2>8 DEF MailInv
<1> QED
  BY <1>1, <1>2, <1>3 DEF tk_rcv_mbx

\* The second half of tk_rcv_mbx() takes the message that the task was given, and
\* none if the wait ended otherwise.
LEMMA MbxReturnMail ==
  ASSUME KernelInv, WaitInv, WaitInv', OutcomeInv, MailInv, MbxReturn
  PROVE  MailInv'
<1>0. /\ "MBX" \in WaitKind /\ mbxmsg \in [TSKID -> Msg \cup {NULL}] /\ NULL \notin Msg
      /\ owned \subseteq Msg \cup {NULL}
  BY MailboxAssumption DEF WaitKind, WaitInv, MbxTypes
<1>1. /\ TaskRuns /\ pc[current] = "MBX" /\ pc' = [pc EXCEPT ![current] = "run"] /\ CauseTaken
      /\ tskwait' = [tskwait EXCEPT ![current] = "none"]
      /\ wait_queue' = Unqueued({current})
      /\ mbxmsg' = [mbxmsg EXCEPT ![current] = NULL]
      /\ owned' = IF wupcause[current] = "E_OK" THEN owned \cup {mbxmsg[current]} ELSE owned
      /\ UNCHANGED <<tskstat, wupcnt, sp, current, credit, mbx_queue, mbxexs>>
  BY DEF MbxReturn
<1>2. current \in TSKID /\ tskstat[current] = "RUN"
  BY <1>1, RunningTask
<1>3. \A t \in TSKID : t # current => tskwait'[t] = tskwait[t]
  BY <1>1 DEF KernelInv, TaskTypes, TcbTypes
<1>4. \A t \in TSKID : Ended(t, "MBX")' <=> Ended(t, "MBX") /\ t # current
  BY <1>0, <1>1, <1>3, ReturnStands DEF OutcomeInv
<1>5. mbxmsg'[current] = NULL /\ \A t \in TSKID : t # current => mbxmsg'[t] = mbxmsg[t]
  BY <1>0, <1>1, <1>2
<1>6. wupcause[current] = "E_OK" <=> mbxmsg[current] # NULL
  BY <1>1, <1>2 DEF MailInv, Ended
<1>7. OnePlace'
  <2>1. CASE mbxmsg[current] = NULL
    <3>1. mbxmsg' = mbxmsg /\ owned' = owned
      BY <1>0, <1>1, <1>2, <1>6, <2>1
    <3> QED
      BY <1>1, <3>1, NoneMoved DEF MailInv
  <2>2. CASE mbxmsg[current] # NULL
    <3> DEFINE msg == mbxmsg[current]
               a == With(current)
    <3>1. msg \in Msg /\ owned' = owned \cup {msg}
      BY <1>0, <1>1, <1>2, <1>6, <2>2
    <3>2. /\ a \in Holder /\ App \in Holder /\ a # App
          /\ At(a) = {mbxmsg[current]} \cap Msg /\ After(a) = {mbxmsg'[current]} \cap Msg
      BY <1>2, Holders
    <3>3. \A h \in Holder : h # a /\ h # App => After(h) = At(h)
      BY <1>1, <1>5, OthersHold
    <3>4. After(App) = At(App) \cup {msg}
      BY <3>1, Holders
    <3>5. /\ {msg} \in SUBSET Msg /\ {msg} \subseteq At(a) /\ After(a) = At(a) \ {msg}
          /\ OnePlace
      BY <1>0, <1>5, <3>1, <3>2 DEF MailInv
    <3>6. Moves({msg}, a, App)
      BY <3>2, <3>3, <3>4, <3>5 DEF Moves
    <3> QED
      BY <3>2, <3>5, <3>6, MovedOnce
  <2> QED
    BY <2>1, <2>2
<1>8. \A m \in MBXID : Uniq(mbx_queue'[m]) /\ (~mbxexs'[m] => mbx_queue'[m] = << >>)
  BY <1>1 DEF MailInv
<1>9. \A x \in TSKID : mbxmsg'[x] # NULL <=> Ended(x, "MBX")'
  BY <1>4, <1>5 DEF MailInv
<1>10. NoMessageWithheld'
  <2> SUFFICES ASSUME NEW m \in MBXID, mbx_queue'[m] # << >> PROVE wait_queue'[Mbx(m)] = << >>
    BY DEF NoMessageWithheld
  <2>1. Mbx(m) \in Obj /\ wait_queue[Mbx(m)] = << >>
    BY <1>1, Objects DEF MailInv, NoMessageWithheld
  <2>2. Drops
    BY <1>1 DEF Drops
  <2> QED
    BY <2>1, <2>2, DropsShrink, StaysEmpty
<1> QED
  BY <1>7, <1>8, <1>9, <1>10 DEF MailInv

\* The invariant of the mailboxes.
LEMMA MailSafe == Spec => [](OutcomeInv /\ MailInv)
<1>1. Init => MailInv
  <2> SUFFICES ASSUME Init PROVE MailInv
    OBVIOUS
  <2>0. NULL \notin Msg
    BY MailboxAssumption
  <2>1. \A t \in TSKID : ~Ended(t, "MBX") /\ mbxmsg[t] = NULL
    BY DEF Init, tkmc_init_mbxcb, Ended, Entry
  <2>2. \A m \in MBXID : mbx_queue[m] = << >> /\ Elems(mbx_queue[m]) = {}
    BY SmallQueues DEF Init, tkmc_init_mbxcb
  <2>3. NoMessageWithheld
    BY <2>2 DEF NoMessageWithheld
  <2>4. OnePlace
    <3> SUFFICES ASSUME NEW msg \in Msg, NEW g \in Holder PROVE msg \in At(g) <=> g = App
      BY Holders DEF OnePlace
    <3>1. owned = Msg
      BY DEF Init, tkmc_init_mbxcb
    <3>2. CASE g = App
      BY <3>1, <3>2, Holders
    <3>3. CASE \E m \in MBXID : g = Mbx(m)
      BY <2>2, <3>3, Holders
    <3>4. CASE \E t \in TSKID : g = With(t)
      <4>1. PICK t \in TSKID : g = With(t)
        BY <3>4
      <4>2. At(g) = {mbxmsg[t]} \cap Msg /\ g # App
        BY <4>1, Holders
      <4> QED
        BY <2>0, <2>1, <4>2
    <3> QED
      BY <3>2, <3>3, <3>4, Holders
  <2>5. \A m \in MBXID : Uniq(mbx_queue[m])
    BY <2>2, SmallQueues
  <2> QED
    BY <2>1, <2>2, <2>3, <2>4, <2>5 DEF MailInv
<1>2. KernelInv /\ WaitInv /\ WaitInv' /\ OutcomeInv /\ MailInv /\ [Next]_vars => MailInv'
  <2> SUFFICES ASSUME KernelInv, WaitInv, WaitInv', OutcomeInv, MailInv, [Next]_vars
               PROVE  MailInv'
    OBVIOUS
  <2>1. CASE MailboxCall
    BY <2>1, CreMbxMail, DelMbxMail, SndMbxMail, RcvMbxMail, MbxReturnMail DEF MailboxCall
  <2>2. CASE ~MailboxCall
    <3>1. Keeps("MBX") /\ UNCHANGED <<mbx_queue, mbxmsg, owned, mbxexs>>
      BY <2>2, OthersKeep DEF mbxVars
    <3>2. ASSUME NEW m \in MBXID, wait_queue[Mbx(m)] = << >> PROVE wait_queue'[Mbx(m)] = << >>
      <4>1. Mbx(m) \in Obj /\ Elems(wait_queue'[Mbx(m)]) \subseteq Elems(wait_queue[Mbx(m)])
        BY <2>2, OthersShrink, Objects
      <4> QED
        BY <3>2, <4>1, StaysEmpty
    <3> QED
      BY <3>1, <3>2, MailStays
  <2> QED
    BY <2>1, <2>2
<1> QED
  BY <1>1, <1>2, OutcomeSafe, PTL DEF Spec

\* No message is lost or doubled: a message is with the application, on one queue,
\* or with one task that was given it and returns it, whatever ends the waits.
THEOREM MessagesHold == Spec => []MessagesConserved
<1>1. WaitInv /\ MailInv => MessagesConserved
  <2> SUFFICES ASSUME WaitInv, MailInv PROVE MessagesConserved
    OBVIOUS
  <2>1. ASSUME NEW msg \in Msg
        PROVE  (IF msg \in owned THEN 1 ELSE 0)
                 + Cardinality({m \in MBXID : msg \in Elems(mbx_queue[m])})
                 + Cardinality({t \in TSKID : mbxmsg[t] = msg}) = 1
    <3> DEFINE Q == {m \in MBXID : msg \in Elems(mbx_queue[m])}
               W == {t \in TSKID : mbxmsg[t] = msg}
    <3>1. PICK h \in Holder : \A g \in Holder : msg \in At(g) <=> g = h
      BY DEF MailInv, OnePlace
    <3>2. msg \in owned <=> h = App
      BY <3>1, Holders
    <3>3. \A m \in MBXID : m \in Q <=> h = Mbx(m)
      BY <3>1, Holders
    <3>4. \A t \in TSKID : t \in W <=> h = With(t)
      <4> SUFFICES ASSUME NEW t \in TSKID PROVE mbxmsg[t] = msg <=> h = With(t)
        OBVIOUS
      <4>1. With(t) \in Holder /\ At(With(t)) = {mbxmsg[t]} \cap Msg
        BY Holders
      <4> QED
        BY <3>1, <4>1
    <3> SUFFICES (IF msg \in owned THEN 1 ELSE 0) + Cardinality(Q) + Cardinality(W) = 1
      OBVIOUS
    <3>5. Q \subseteq MBXID /\ W \subseteq TSKID
      OBVIOUS
    <3> HIDE DEF Q, W
    <3>6. Cardinality({}) = 0 /\ \A x : Cardinality({x}) = 1
      BY FS_EmptySet, FS_Singleton
    <3>7. CASE h = App
      <4>1. Q = {} /\ W = {}
        BY <3>5, <3>3, <3>4, <3>7, Holders
      <4> QED
        BY <3>2, <3>6, <3>7, <4>1
    <3>8. CASE \E m \in MBXID : h = Mbx(m)
      <4>1. PICK m \in MBXID : h = Mbx(m)
        BY <3>8
      <4>2. h # App /\ Q = {m} /\ W = {}
        BY <3>5, <3>3, <3>4, <4>1, Holders
      <4> QED
        BY <3>2, <3>6, <4>2
    <3>9. CASE \E t \in TSKID : h = With(t)
      <4>1. PICK t \in TSKID : h = With(t)
        BY <3>9
      <4>2. h # App /\ Q = {}
        BY <3>5, <3>3, <4>1, Holders
      <4>3. t \in W /\ \A x \in W : x = t
        BY <3>5, <3>4, <4>1, Holders
      <4>4. W = {t}
        BY <4>3
      <4>5. Cardinality(W) = 1
        BY <3>6, <4>4
      <4>6. msg \notin owned /\ Cardinality(Q) = 0
        BY <3>2, <3>6, <4>2
      <4> QED
        BY <4>5, <4>6
    <3> QED
      BY <3>7, <3>8, <3>9, Holders
  <2>2. \A m \in MBXID : Uniq(mbx_queue[m])
    BY DEF MailInv
  <2>3. \A t \in TSKID : mbxmsg[t] # NULL <=> /\ pc[t] = "MBX" /\ tskstat[t] # "WAI"
                                              /\ wupcause[t] = "E_OK"
    BY DEF MailInv, Ended
  <2> QED
    BY <2>1, <2>2, <2>3 DEF MessagesConserved
<1> QED
  BY <1>1, MailSafe, OutcomeSafe, PTL

\* No task waits at a mailbox that holds a message.
THEOREM NoMessageHolds == Spec => []NoMessageWithheld
<1>1. MailInv => NoMessageWithheld
  BY DEF MailInv
<1> QED
  BY <1>1, MailSafe, PTL

-----------------------------------------------------------------------------
(* Places on the wait queues. *)

\* No step touches the priority or the request of a task that waits, nor the
\* request of one whose wait has ended and has not returned yet, and a task that
\* joins a queue keeps its priority.
LEMMA FieldsKept ==
  ASSUME KernelInv, [Next]_vars
  PROVE  \A t \in TSKID :
           /\ tskstat[t] \in {"WAI", "RUN"} => itskpri'[t] = itskpri[t]
           /\ tskstat[t] = "WAI" => winfo'[t] = winfo[t]
           /\ pc[t] \in WaitKind /\ tskstat[t] \in {"RDY", "RUN"} => winfo'[t] = winfo[t]
<1> DEFINE Kept ==
             \A t \in TSKID :
               /\ tskstat[t] \in {"WAI", "RUN"} => itskpri'[t] = itskpri[t]
               /\ tskstat[t] = "WAI" => winfo'[t] = winfo[t]
               /\ pc[t] \in WaitKind /\ tskstat[t] \in {"RDY", "RUN"} => winfo'[t] = winfo[t]
<1>0. itskpri \in [TSKID -> 0..CFN_MAX_PRI]
  BY DEF KernelInv, TaskTypes, TcbTypes
<1>1. ASSUME UNCHANGED <<itskpri, winfo>> PROVE Kept
  BY <1>1
<1>2. ASSUME UNCHANGED taskVars PROVE Kept
  BY <1>1, <1>2 DEF taskVars, tcbVars
<1>3. ASSUME Caller, tkmc_can_block, NEW o, NEW req, NEW byPri, JoinQueue(o, req, byPri),
             UNCHANGED itskpri
      PROVE  Kept
  <2>1. current \in TSKID /\ tskstat[current] = "RUN" /\ pc[current] \notin WaitKind
    BY <1>3, BlockingCaller DEF WaitKind
  <2>2. \A t \in TSKID : t # current => winfo'[t] = winfo[t]
    BY <1>3 DEF JoinQueue
  <2> QED
    BY <1>3, <2>1, <2>2
<1> HIDE DEF Kept
<1>4. ASSUME TaskCall PROVE Kept
  <2>1. ASSUME NEW pri, tk_cre_tsk(pri) PROVE Kept
    <3>1. CASE UNCHANGED taskVars
      BY <1>2, <3>1
    <3>2. CASE ~UNCHANGED taskVars
      <4> DEFINE n == Head(free_tcb)
      <4>1. /\ free_tcb # << >> /\ itskpri' = [itskpri EXCEPT ![n] = pri]
            /\ winfo' = [winfo EXCEPT ![n] = NoWait]
        BY <2>1, <3>2 DEF tk_cre_tsk
      <4>2. n \in Elems(free_tcb) /\ n \in TSKID
        BY <4>1, TailQueue DEF KernelInv, TaskTypes, QueueTypes, QueuesConsistent
      <4>3. tskstat[n] = "NOEXS"
        BY <4>2 DEF KernelInv, QueuesConsistent
      <4> QED
        BY <1>0, <4>1, <4>3 DEF Kept
    <3> QED
      BY <3>1, <3>2
  <2>2. ASSUME NEW t \in TSKID, tk_sta_tsk(t) PROVE Kept
    <3>1. CASE tskstat[t] # "DMT"
      BY <1>2, <2>2, <3>1 DEF tk_sta_tsk
    <3>2. CASE tskstat[t] = "DMT"
      <4>1. itskpri' = itskpri /\ winfo' = [winfo EXCEPT ![t] = NoWait]
        BY <2>2, <3>2 DEF tk_sta_tsk
      <4>2. \A x \in TSKID : tskstat[x] \in {"WAI", "RDY", "RUN"} => x # t
        BY <3>2
      <4> QED
        BY <4>1, <4>2 DEF Kept
    <3> QED
      BY <3>1, <3>2
  <2>3. ASSUME NEW t, tk_wup_tsk(t) PROVE Kept
    BY <1>1, <1>2, <2>3 DEF tk_wup_tsk, taskVars, tcbVars
  <2>4. ASSUME tk_ext_tsk \/ tk_exd_tsk PROVE Kept
    BY <1>1, <2>4 DEF tk_ext_tsk, tk_exd_tsk, tkmc_fatal_context, tcbVars
  <2> QED
    BY <1>4, <2>1, <2>2, <2>3, <2>4 DEF TaskCall
<1>5. ASSUME TimerCall PROVE Kept
  <2>1. ASSUME NEW tmout, tk_slp_tsk(tmout) PROVE Kept
    BY <1>1, <1>2, <2>1 DEF tk_slp_tsk, tkmc_schedule_timer, BeginWait
  <2>2. ASSUME NEW dlytm, tk_dly_tsk(dlytm) PROVE Kept
    BY <1>1, <1>2, <2>2 DEF tk_dly_tsk, tkmc_yield, tkmc_schedule_timer, BeginWait, tcbVars
  <2>3. ASSUME NEW k, WaitReturn(k) PROVE Kept
    BY <1>1, <2>3 DEF WaitReturn
  <2> QED
    BY <1>5, <2>1, <2>2, <2>3 DEF TimerCall
<1>6. ASSUME SemaphoreCall PROVE Kept
  <2>1. ASSUME NEW t, tk_rel_wai(t) PROVE Kept
    BY <1>1, <1>2, <2>1 DEF tk_rel_wai
  <2>2. ASSUME NEW atr, NEW isemcnt, NEW max, tk_cre_sem(atr, isemcnt, max) PROVE Kept
    BY <1>2, <2>2 DEF tk_cre_sem
  <2>3. ASSUME NEW s, tk_del_sem(s) PROVE Kept
    BY <1>1, <1>2, <2>3 DEF tk_del_sem
  <2>4. ASSUME NEW s, NEW cnt, NEW tmout, tk_wai_sem(s, cnt, tmout) PROVE Kept
    BY <1>2, <1>3, <2>4 DEF tk_wai_sem, tkmc_schedule_timer, BeginWait
  <2>5. ASSUME NEW s, NEW cnt, tk_sig_sem(s, cnt) PROVE Kept
    BY <1>1, <1>2, <2>5 DEF tk_sig_sem
  <2>6. ASSUME SemReturn PROVE Kept
    BY <1>1, <2>6 DEF SemReturn, WaitReturn
  <2> QED
    BY <1>6, <2>1, <2>2, <2>3, <2>4, <2>5, <2>6 DEF SemaphoreCall
<1>7. ASSUME FlagCall PROVE Kept
  <2>1. ASSUME NEW atr, NEW ptn, tk_cre_flg(atr, ptn) PROVE Kept
    BY <1>2, <2>1 DEF tk_cre_flg
  <2>2. ASSUME NEW f, NEW ptn, NEW mode, NEW tmout, tk_wai_flg(f, ptn, mode, tmout) PROVE Kept
    BY <1>2, <1>3, <2>2 DEF tk_wai_flg, tkmc_schedule_timer, BeginWait
  <2>3. ASSUME NEW f, NEW ptn, tk_set_flg(f, ptn) PROVE Kept
    BY <1>1, <1>2, <2>3 DEF tk_set_flg
  <2>4. ASSUME NEW f, NEW ptn, tk_clr_flg(f, ptn) PROVE Kept
    BY <1>2, <2>4 DEF tk_clr_flg
  <2>5. ASSUME FlgReturn PROVE Kept
    BY <1>1, <2>5 DEF FlgReturn, WaitReturn
  <2> QED
    BY <1>7, <2>1, <2>2, <2>3, <2>4, <2>5 DEF FlagCall
<1>8. ASSUME MailboxCall PROVE Kept
  <2>1. ASSUME NEW atr, tk_cre_mbx(atr) PROVE Kept
    BY <1>2, <2>1 DEF tk_cre_mbx
  <2>2. ASSUME NEW m, tk_del_mbx(m) PROVE Kept
    BY <1>1, <1>2, <2>2 DEF tk_del_mbx
  <2>3. ASSUME NEW m, NEW msg, tk_snd_mbx(m, msg) PROVE Kept
    BY <1>1, <1>2, <2>3 DEF tk_snd_mbx
  <2>4. ASSUME NEW m, NEW tmout, tk_rcv_mbx(m, tmout) PROVE Kept
    BY <1>2, <1>3, <2>4 DEF tk_rcv_mbx, tkmc_schedule_timer, BeginWait
  <2>5. ASSUME MbxReturn PROVE Kept
    BY <1>1, <2>5 DEF MbxReturn
  <2> QED
    BY <1>8, <2>1, <2>2, <2>3, <2>4, <2>5 DEF MailboxCall
<1>9. ASSUME Trap \/ Idle \/ TaskDI \/ TaskEI \/ ExitReturns \/ ClockTick PROVE Kept
  <2>1. UNCHANGED <<itskpri, winfo>>
    BY <1>9 DEF Trap, mtrap_handler, timer_interrupt, external_interrupt, TrapExit, Idle,
                IdleCheck, IdleWfi, IdleEI, IdleYield, tkmc_yield, TaskDI, TaskEI, SetMie,
                ExitReturns, ClockTick, TickEdge, tcbVars
  <2> QED
    BY <1>1, <2>1
<1>10. ASSUME UNCHANGED vars PROVE Kept
  BY <1>2, <1>10 DEF vars
<1> QED
  BY <1>4, <1>5, <1>6, <1>7, <1>8, <1>9, <1>10 DEF Next, Stopped, Kept

\* The attributes of an object change only when it has no waiter.
LEMMA AttributesKept ==
  ASSUME KernelInv, WaitInv, WaitInv', [Next]_vars
  PROVE  /\ \A s \in SEMID : sematr'[s] = sematr[s] \/ wait_queue'[Sem(s)] = << >>
         /\ \A f \in FLGID : flgatr'[f] = flgatr[f] \/ wait_queue'[Flg(f)] = << >>
         /\ \A m \in MBXID : mbxatr'[m] = mbxatr[m] \/ wait_queue'[Mbx(m)] = << >>
<1>0. /\ DOMAIN sematr = SEMID /\ DOMAIN flgatr = FLGID /\ DOMAIN mbxatr = MBXID
      /\ semexs \in [SEMID -> BOOLEAN] /\ mbxexs \in [MBXID -> BOOLEAN]
      /\ \A s \in SEMID : ~semexs'[s] => wait_queue'[Sem(s)] = << >>
      /\ \A m \in MBXID : ~mbxexs'[m] => wait_queue'[Mbx(m)] = << >>
  BY DEF WaitInv, SemTypes, FlgTypes, MbxTypes, WaitQueuesConsistent, SemcbsLinked, MbxcbsLinked
<1> DEFINE SemKept == \A s \in SEMID : sematr'[s] = sematr[s] \/ wait_queue'[Sem(s)] = << >>
           FlgKept == \A f \in FLGID : flgatr'[f] = flgatr[f] \/ wait_queue'[Flg(f)] = << >>
           MbxKept == \A m \in MBXID : mbxatr'[m] = mbxatr[m] \/ wait_queue'[Mbx(m)] = << >>
<1>1. ASSUME SemaphoreCall PROVE SemKept
  <2>1. ASSUME NEW atr, NEW isemcnt, NEW max, tk_cre_sem(atr, isemcnt, max) PROVE SemKept
    <3>1. CASE UNCHANGED sematr
      BY <3>1
    <3>2. CASE ~UNCHANGED sematr
      <4> DEFINE n == Head(free_semcb)
      <4>1. free_semcb # << >> /\ sematr' = [sematr EXCEPT ![n] = atr] /\ UNCHANGED wait_queue
        BY <2>1, <3>2 DEF tk_cre_sem, taskVars, queueVars
      <4>2. n \in Elems(free_semcb) /\ n \in SEMID
        BY <4>1, TailQueue DEF WaitInv, SemTypes, WaitQueuesConsistent, SemcbsLinked
      <4>3. wait_queue[Sem(n)] = << >>
        BY <4>2 DEF WaitInv, WaitQueuesConsistent, SemcbsLinked
      <4> HIDE DEF n
      <4> QED
        BY <1>0, <4>1, <4>2, <4>3
    <3> QED
      BY <3>1, <3>2
  <2>2. ASSUME NEW s \in SEMID, tk_del_sem(s) PROVE SemKept
    <3>1. CASE ~semexs[s]
      BY <2>2, <3>1 DEF tk_del_sem, semVars
    <3>2. CASE semexs[s]
      <4>1. sematr' = [sematr EXCEPT ![s] = NoAtr] /\ semexs' = [semexs EXCEPT ![s] = FALSE]
        BY <2>2, <3>2 DEF tk_del_sem
      <4> QED
        BY <1>0, <4>1
    <3> QED
      BY <3>1, <3>2
  <2>3. ASSUME \/ \E t \in TSKID : tk_rel_wai(t)
               \/ \E s \in SEMID, cnt \in SemCnt, tmout \in SemTmo : tk_wai_sem(s, cnt, tmout)
               \/ \E s \in SEMID, cnt \in SemCnt : tk_sig_sem(s, cnt)
               \/ SemReturn
        PROVE  UNCHANGED sematr
    BY <2>3 DEF tk_rel_wai, tk_wai_sem, tk_sig_sem, SemReturn, semcbVars
  <2> QED
    BY <1>1, <2>1, <2>2, <2>3 DEF SemaphoreCall
<1>2. ASSUME FlagCall PROVE FlgKept
  <2>1. ASSUME NEW atr, NEW ptn, tk_cre_flg(atr, ptn) PROVE FlgKept
    <3>1. CASE UNCHANGED flgatr
      BY <3>1
    <3>2. CASE ~UNCHANGED flgatr
      <4> DEFINE n == Head(free_flgcb)
      <4>1. free_flgcb # << >> /\ flgatr' = [flgatr EXCEPT ![n] = atr] /\ UNCHANGED wait_queue
        BY <2>1, <3>2 DEF tk_cre_flg, taskVars, queueVars
      <4>2. n \in Elems(free_flgcb) /\ n \in FLGID
        BY <4>1, TailQueue DEF WaitInv, FlgTypes, WaitQueuesConsistent, FlgcbsLinked
      <4>3. wait_queue[Flg(n)] = << >>
        BY <4>2 DEF WaitInv, WaitQueuesConsistent, FlgcbsLinked
      <4> HIDE DEF n
      <4> QED
        BY <1>0, <4>1, <4>2, <4>3
    <3> QED
      BY <3>1, <3>2
  <2> QED
    BY <1>2, <2>1 DEF FlagCall, tk_wai_flg, tk_set_flg, tk_clr_flg, FlgReturn
<1>3. ASSUME MailboxCall PROVE MbxKept
  <2>1. ASSUME NEW atr, tk_cre_mbx(atr) PROVE MbxKept
    <3>1. CASE UNCHANGED mbxatr
      BY <3>1
    <3>2. CASE ~UNCHANGED mbxatr
      <4> DEFINE n == Head(free_mbxcb)
      <4>1. free_mbxcb # << >> /\ mbxatr' = [mbxatr EXCEPT ![n] = atr] /\ UNCHANGED wait_queue
        BY <2>1, <3>2 DEF tk_cre_mbx, taskVars, queueVars
      <4>2. n \in Elems(free_mbxcb) /\ n \in MBXID
        BY <4>1, TailQueue DEF WaitInv, MbxTypes, WaitQueuesConsistent, MbxcbsLinked
      <4>3. wait_queue[Mbx(n)] = << >>
        BY <4>2 DEF WaitInv, WaitQueuesConsistent, MbxcbsLinked
      <4> HIDE DEF n
      <4> QED
        BY <1>0, <4>1, <4>2, <4>3
    <3> QED
      BY <3>1, <3>2
  <2>2. ASSUME NEW m \in MBXID, tk_del_mbx(m) PROVE MbxKept
    <3>1. CASE ~mbxexs[m]
      BY <2>2, <3>1 DEF tk_del_mbx, mbxVars
    <3>2. CASE mbxexs[m]
      <4>1. mbxatr' = [mbxatr EXCEPT ![m] = NoMAtr] /\ mbxexs' = [mbxexs EXCEPT ![m] = FALSE]
        BY <2>2, <3>2 DEF tk_del_mbx
      <4> QED
        BY <1>0, <4>1
    <3> QED
      BY <3>1, <3>2
  <2>3. ASSUME \/ \E m \in MBXID, msg \in Msg : tk_snd_mbx(m, msg)
               \/ \E m \in MBXID, tmout \in MbxTmo : tk_rcv_mbx(m, tmout)
               \/ MbxReturn
        PROVE  UNCHANGED mbxatr
    BY <2>3 DEF tk_snd_mbx, tk_rcv_mbx, MbxReturn
  <2> QED
    BY <1>3, <2>1, <2>2, <2>3 DEF MailboxCall
<1>4. ASSUME TaskCall \/ TimerCall \/ Trap \/ Idle \/ TaskDI \/ TaskEI \/ ExitReturns \/ ClockTick
             \/ UNCHANGED vars
      PROVE  UNCHANGED <<sematr, flgatr, mbxatr>>
  BY <1>4 DEF TaskCall, TimerCall, Trap, mtrap_handler, timer_interrupt, external_interrupt,
              TrapExit, Idle, IdleCheck, IdleWfi, IdleEI, IdleYield, TaskDI, TaskEI, SetMie,
              ExitReturns, ClockTick, objVars, semVars, semcbVars, flgVars, mbxVars, vars
<1>5. /\ SemaphoreCall => UNCHANGED <<flgatr, mbxatr>>
      /\ FlagCall => UNCHANGED <<sematr, mbxatr>>
      /\ MailboxCall => UNCHANGED <<sematr, flgatr>>
  BY DEF SemaphoreCall, FlagCall, MailboxCall, semVars, flgVars, mbxVars
<1>6. /\ UNCHANGED sematr => SemKept
      /\ UNCHANGED flgatr => FlgKept
      /\ UNCHANGED mbxatr => MbxKept
  OBVIOUS
<1> HIDE DEF SemKept, FlgKept, MbxKept
<1>7. SemKept /\ FlgKept /\ MbxKept
  BY <1>1, <1>2, <1>3, <1>4, <1>5, <1>6 DEF Next, Stopped
<1> QED
  BY <1>7 DEF SemKept, FlgKept, MbxKept

\* Attributes, as Tpri sees them.
LEMMA TpriKept ==
  ASSUME KernelInv, WaitInv, WaitInv', [Next]_vars, NEW o \in Obj
  PROVE  (Tpri(o)' <=> Tpri(o)) \/ wait_queue'[o] = << >>
<1>1. ASSUME NEW s \in SEMID, o = Sem(s) PROVE (Tpri(o)' <=> Tpri(o)) \/ wait_queue'[o] = << >>
  <2>1. (Tpri(o) <=> sematr[s].tpri) /\ (Tpri(o)' <=> sematr'[s].tpri)
    BY <1>1 DEF Tpri, Sem, Flg, Mbx
  <2> QED
    BY <1>1, <2>1, AttributesKept
<1>2. ASSUME NEW f \in FLGID, o = Flg(f) PROVE (Tpri(o)' <=> Tpri(o)) \/ wait_queue'[o] = << >>
  <2>1. (Tpri(o) <=> flgatr[f].tpri) /\ (Tpri(o)' <=> flgatr'[f].tpri)
    BY <1>2 DEF Tpri, Sem, Flg, Mbx
  <2> QED
    BY <1>2, <2>1, AttributesKept
<1>3. ASSUME NEW m \in MBXID, o = Mbx(m) PROVE (Tpri(o)' <=> Tpri(o)) \/ wait_queue'[o] = << >>
  <2>1. (Tpri(o) <=> mbxatr[m].tpri) /\ (Tpri(o)' <=> mbxatr'[m].tpri)
    BY <1>3 DEF Tpri, Sem, Flg, Mbx
  <2> QED
    BY <1>3, <2>1, AttributesKept
<1> QED
  BY <1>1, <1>2, <1>3 DEF Obj, MbxObj, SemObj, FlgObj

\* A queue with TA_TPRI is in the order of the priorities.
ByPri(q) == \A a, b \in Elems(q) : Ahead(q, a, b) => itskpri[a] <= itskpri[b]
PlacesInv == \A o \in Obj : Tpri(o) => ByPri(wait_queue[o])

\* A task that joins a queue comes before those of a lower priority, if the queue
\* is by priority, and after the others, which keep their places.
LEMMA InsertedOrder ==
  ASSUME NEW q \in Seq(TSKID), Uniq(q), NEW t \in TSKID, t \notin Elems(q), NEW byPri,
         byPri => ByPri(q), \A x \in TSKID : itskpri[x] \in Int
  PROVE  /\ \A a, b \in Elems(q) : Ahead(Inserted(q, t, byPri), a, b) <=> Ahead(q, a, b)
         /\ \A a \in Elems(q) :
              /\ Ahead(Inserted(q, t, byPri), t, a) <=> byPri /\ itskpri[t] < itskpri[a]
              /\ Ahead(Inserted(q, t, byPri), a, t) <=> ~(byPri /\ itskpri[t] < itskpri[a])
<1>1. CASE ~byPri
  <2>1. Inserted(q, t, byPri) = Append(q, t)
    BY <1>1 DEF Inserted
  <2> QED
    BY <1>1, <2>1, AppendOrder
<1>2. CASE byPri
  <2>1. Inserted(q, t, byPri) = Ranked(q, t, itskpri)
    BY <1>2 DEF Inserted, Ranked
  <2>2. \A a, b \in Elems(q) : Ahead(q, a, b) => itskpri[a] <= itskpri[b]
    BY <1>2 DEF ByPri
  <2>3. /\ \A a, b \in Elems(q) : Ahead(Ranked(q, t, itskpri), a, b) <=> Ahead(q, a, b)
        /\ \A a \in Elems(q) :
             /\ Ahead(Ranked(q, t, itskpri), t, a) <=> itskpri[t] < itskpri[a]
             /\ Ahead(Ranked(q, t, itskpri), a, t) <=> ~(itskpri[t] < itskpri[a])
    BY <2>2, RankedOrder
  <2> QED
    BY <1>2, <2>1, <2>3
<1> QED
  BY <1>1, <1>2

\* Every queue, in every step: who stays keeps the order, and one task at most
\* joins, in its place.
LEMMA PlacesKept ==
  ASSUME KernelInv, WaitInv, PlacesInv, [Next]_vars, NEW o \in Obj,
         NEW a \in Elems(wait_queue[o]) \cap Elems(wait_queue'[o]),
         NEW b \in Elems(wait_queue'[o]), a # b
  PROVE  IF b \in Elems(wait_queue[o])
         THEN /\ Ahead(wait_queue'[o], b, a) <=> Ahead(wait_queue[o], b, a)
              /\ Ahead(wait_queue'[o], a, b) <=> Ahead(wait_queue[o], a, b)
         ELSE /\ b = current /\ tskstat[b] = "RUN"
              /\ Ahead(wait_queue'[o], b, a) <=> Tpri(o) /\ itskpri[b] < itskpri[a]
              /\ Ahead(wait_queue'[o], a, b) <=> ~(Tpri(o) /\ itskpri[b] < itskpri[a])
<1> DEFINE q == wait_queue[o]
           r == wait_queue'[o]
<1>1. q \in Seq(TSKID) /\ Uniq(q) /\ \A t \in Elems(q) : t \in TSKID
  BY ObjWaiters
<1>2. CASE UNCHANGED wait_queue
  BY <1>2
<1>3. CASE Drops
  <2>1. PICK done : wait_queue' = Unqueued(done)
    BY <1>3 DEF Drops
  <2>2. r = Without(q, done)
    BY <2>1 DEF Unqueued
  <2> HIDE DEF q, r
  <2>3. Elems(r) = Elems(q) \ done
    BY <1>1, <2>2, WithoutProperties
  <2>4. a \in Elems(q) /\ b \in Elems(q) /\ a \notin done /\ b \notin done
    BY <2>3 DEF q, r
  <2>5. (Ahead(r, a, b) <=> Ahead(q, a, b)) /\ (Ahead(r, b, a) <=> Ahead(q, b, a))
    BY <1>1, <2>2, <2>4, WithoutOrder
  <2> QED
    BY <2>4, <2>5 DEF q, r
<1>4. ASSUME NEW x \in Obj, Joins(x)
      PROVE  IF b \in Elems(q)
             THEN /\ Ahead(r, b, a) <=> Ahead(q, b, a)
                  /\ Ahead(r, a, b) <=> Ahead(q, a, b)
             ELSE /\ b = current /\ tskstat[b] = "RUN"
                  /\ Ahead(r, b, a) <=> Tpri(o) /\ itskpri[b] < itskpri[a]
                  /\ Ahead(r, a, b) <=> ~(Tpri(o) /\ itskpri[b] < itskpri[a])
  <2>1. CASE x # o
    <3>1. r = q
      BY <1>4, <2>1, JoinsOnlyOne
    <3> QED
      BY <3>1
  <2>2. CASE x = o
    <3>1. /\ r = Inserted(q, current, Tpri(o)) /\ Elems(r) = Elems(q) \cup {current}
          /\ current \in TSKID /\ current \notin Elems(q)
      BY <1>4, <2>2, JoinsOnlyOne DEF Joins
    <3>2. tskstat[current] = "RUN"
      BY <1>4 DEF Joins
    <3>3. \A t \in TSKID : itskpri[t] \in Int
      BY TaskAssumption DEF KernelInv, TaskTypes, TcbTypes
    <3>4. Tpri(o) => ByPri(q)
      BY DEF PlacesInv
    <3> HIDE DEF q, r
    <3>5. /\ \A c, d \in Elems(q) : Ahead(r, c, d) <=> Ahead(q, c, d)
          /\ \A c \in Elems(q) :
               /\ Ahead(r, current, c) <=> Tpri(o) /\ itskpri[current] < itskpri[c]
               /\ Ahead(r, c, current) <=> ~(Tpri(o) /\ itskpri[current] < itskpri[c])
      BY <1>1, <3>1, <3>3, <3>4, InsertedOrder
    <3>6. a \in Elems(q) /\ b \in Elems(r)
      BY DEF q, r
    <3> QED
      BY <3>1, <3>2, <3>5, <3>6
  <2> QED
    BY <2>1, <2>2
<1> QED
  BY <1>2, <1>3, <1>4, QueuesMove, Objects

\* The queues with TA_TPRI stay in the order of the priorities.
LEMMA PlacesSafe == Spec => []PlacesInv
<1>1. Init => PlacesInv
  <2> SUFFICES ASSUME Init PROVE PlacesInv
    OBVIOUS
  <2>1. \A o \in Obj : Elems(wait_queue[o]) = {}
    BY SmallQueues DEF Init
  <2> QED
    BY <2>1 DEF PlacesInv, ByPri
<1>2. KernelInv /\ WaitInv /\ WaitInv' /\ PlacesInv /\ [Next]_vars => PlacesInv'
  <2> SUFFICES ASSUME KernelInv, WaitInv, WaitInv', PlacesInv, [Next]_vars, NEW o \in Obj, Tpri(o)',
                      NEW a \in Elems(wait_queue'[o]), NEW b \in Elems(wait_queue'[o]),
                      Ahead(wait_queue'[o], a, b)
               PROVE  itskpri'[a] <= itskpri'[b]
    BY DEF PlacesInv, ByPri
  <2> DEFINE q == wait_queue[o]
             r == wait_queue'[o]
  <2>0. /\ q \in Seq(TSKID) /\ \A x \in Elems(q) : x \in TSKID /\ tskstat[x] = "WAI"
        /\ r \in Seq(TSKID) /\ Uniq(r)
    BY ObjWaiters DEF WaitInv, WaitTypes, WaitQueuesConsistent, WaitersQueued
  <2>1. Tpri(o) /\ ByPri(q)
    <3>1. Elems(<< >>) = {}
      BY SmallQueues
    <3>2. r # << >>
      BY <3>1
    <3> QED
      BY <3>2, TpriKept DEF PlacesInv
  <2>2. a # b /\ a \in TSKID /\ b \in TSKID
    <3>1. a # b
      BY <2>0 DEF Ahead, Uniq
    <3> QED
      BY <2>0, <3>1, SmallQueues
  <2>3. /\ \A x \in TSKID : tskstat[x] \in {"WAI", "RUN"} => itskpri'[x] = itskpri[x]
        /\ itskpri[a] \in Int /\ itskpri[b] \in Int
    BY <2>2, FieldsKept, TaskAssumption DEF KernelInv, TaskTypes, TcbTypes
  <2>4. CASE a \in Elems(q) /\ b \in Elems(q)
    <3>1. Ahead(q, a, b)
      BY <2>2, <2>4, PlacesKept
    <3>2. itskpri[a] <= itskpri[b]
      BY <2>1, <2>4, <3>1 DEF ByPri
    <3> QED
      BY <2>0, <2>2, <2>3, <2>4, <3>2
  <2>5. CASE a \in Elems(q) /\ b \notin Elems(q)
    <3>1. tskstat[b] = "RUN" /\ ~(Tpri(o) /\ itskpri[b] < itskpri[a])
      BY <2>2, <2>5, PlacesKept
    <3>2. itskpri[a] <= itskpri[b]
      BY <2>1, <2>3, <3>1
    <3> QED
      BY <2>0, <2>2, <2>3, <2>5, <3>1, <3>2
  <2>6. CASE a \notin Elems(q) /\ b \in Elems(q)
    <3>1. tskstat[a] = "RUN" /\ itskpri[a] < itskpri[b]
      BY <2>2, <2>6, PlacesKept
    <3> QED
      BY <2>0, <2>2, <2>3, <2>6, <3>1
  <2>7. CASE a \notin Elems(q) /\ b \notin Elems(q)
    <3>1. \A x \in Obj : Joins(x) => x # o \/ Elems(r) = Elems(q) \cup {current}
      BY JoinsOnlyOne
    <3>2. \A x \in Obj : Joins(x) => x = o \/ r = q
      BY JoinsOnlyOne
    <3>3. Drops => Elems(r) \subseteq Elems(q)
      BY DropsShrink
    <3> HIDE DEF q, r
    <3>4. \/ UNCHANGED wait_queue \/ Drops
          \/ \E x \in Obj : Joins(x)
      BY QueuesMove, Objects
    <3>5. a = current /\ b = current
      BY <2>7, <3>1, <3>2, <3>3, <3>4 DEF q, r
    <3> QED
      BY <2>2, <3>5
  <2> QED
    BY <2>4, <2>5, <2>6, <2>7
<1> QED
  BY <1>1, <1>2, OutcomeSafe, PTL DEF Spec

\* No waiter loses its place: whoever leaves the queue of an object, and whatever
\* for, the others keep their order, and a newcomer comes ahead of a waiter only
\* at an object with TA_TPRI and with a higher priority.
THEOREM PlacesHold == Spec => WaitersKeepPlace
<1> DEFINE A == \A o \in Obj :
                  KeepsPlaces(wait_queue[o], wait_queue'[o],
                              LAMBDA b, a : Tpri(o) /\ itskpri[b] < itskpri[a])
<1>1. KernelInv /\ WaitInv /\ PlacesInv /\ [Next]_vars => A
  <2> SUFFICES ASSUME KernelInv, WaitInv, PlacesInv, [Next]_vars, NEW o \in Obj,
                      NEW a \in Elems(wait_queue[o]) \cap Elems(wait_queue'[o]),
                      NEW b \in Elems(wait_queue'[o]), a # b
               PROVE  Ahead(wait_queue'[o], b, a) <=>
                        IF b \in Elems(wait_queue[o]) THEN Ahead(wait_queue[o], b, a)
                        ELSE Tpri(o) /\ itskpri[b] < itskpri[a]
    BY DEF KeepsPlaces
  <2> QED
    BY PlacesKept
<1> QED
  BY <1>1, PlacesSafe, OutcomeSafe, PTL DEF Spec, WaitersKeepPlace

-----------------------------------------------------------------------------
(* Semaphores. *)

\* With u units in the semaphore s and the tasks of S gone from its queue, no one
\* who is left on it waits for units that are there.
Short(s, S, u) ==
  \A t \in Elems(wait_queue[Sem(s)]) \ S :
    sematr[s].cnt \/ (\A a \in TSKID : Ahead(wait_queue[Sem(s)], a, t) => a \in S)
    => winfo[t].req > u

\* The waits of b end in the order of the queue of s: no one is left short, under
\* TA_FIRST no one is given units ahead of one who goes on waiting, and units go
\* only to those who are given them.
InOrder(b, s) ==
  /\ Short(s, Elems(b.ts), b.units[s])
  /\ ~sematr[s].cnt =>
       \A x, y \in TSKID : Ahead(wait_queue[Sem(s)], x, y) /\ y \in b.given => x \in Elems(b.ts)
  /\ (\A t \in Elems(wait_queue[Sem(s)]) : t \notin b.given) => b.units[s] >= semcnt[s]

\* The queue q is o without the tasks of S.
Rest(q, o, S) ==
  /\ q \in Seq(TSKID) /\ Uniq(q) /\ Elems(q) = Elems(o) \ S
  /\ \A x, y \in Elems(q) : x # y => (Ahead(q, x, y) <=> Ahead(o, x, y))

\* v is a good outcome of serving the queue of s with u units when S has left it.
ServesInOrder(v, s, S, u) ==
  /\ v.served \in Seq(TSKID) /\ Elems(v.served) \subseteq Elems(wait_queue[Sem(s)]) \ S
  /\ v.units \in Nat
  /\ Short(s, S \cup Elems(v.served), v.units)
  /\ ~sematr[s].cnt =>
       \A x, y \in TSKID : Ahead(wait_queue[Sem(s)], x, y) /\ y \in Elems(v.served)
                           => x \in S \cup Elems(v.served)
  /\ Elems(v.served) = {} => v.units = u

\* tkmc_sem_serve_waiters(), when the tasks of S have left the queue.
LEMMA ServeInOrder ==
  ASSUME WaitInv, NEW s \in SEMID, NEW S, NEW u \in Nat, NEW q, Rest(q, wait_queue[Sem(s)], S)
  PROVE  ServesInOrder(Serve(s, q, u), s, S, u)
<1> DEFINE o == wait_queue[Sem(s)]
           v == Serve(s, q, u)
           K == Elems(v.served)
           cnt == sematr[s].cnt
<1>0. /\ q \in Seq(TSKID) /\ Uniq(q) /\ Elems(q) = Elems(o) \ S
      /\ \A x, y \in Elems(q) : x # y => (Ahead(q, x, y) <=> Ahead(o, x, y))
  BY DEF Rest
<1>1. \A t \in TSKID : winfo[t].req \in Nat
  BY DEF WaitInv, WaitTypes
<1>2. /\ v.served \in Seq(TSKID) /\ K \subseteq Elems(q) /\ v.units \in 0..u
      /\ \A i \in 1..Len(q) : q[i] \notin K /\ (cnt \/ \A j \in 1..i - 1 : q[j] \in K)
                              => winfo[q[i]].req > v.units
      /\ cnt \/ \A i \in 1..Len(q), j \in 1..Len(q) : j < i /\ q[i] \in K => q[j] \in K
      /\ K = {} => v.units = u
  BY <1>0, <1>1, ServeProperties
<1>3. o \in Seq(TSKID) /\ Uniq(o)
  BY Objects, ObjWaiters
<1>4. \A i \in 1..Len(q) : q[i] \in Elems(q) /\ q[i] \in TSKID /\ q[i] \notin S
  BY <1>0 DEF Elems
<1>5. \A i \in 1..Len(q), j \in 1..Len(q) : j < i => Ahead(o, q[j], q[i])
  <2> SUFFICES ASSUME NEW i \in 1..Len(q), NEW j \in 1..Len(q), j < i PROVE Ahead(o, q[j], q[i])
    OBVIOUS
  <2>1. Ahead(q, q[j], q[i])
    BY DEF Ahead
  <2>2. q[j] # q[i]
    BY <1>0 DEF Uniq
  <2> QED
    BY <1>0, <1>4, <2>1, <2>2
<1>6. Short(s, S \cup K, v.units)
  <2> SUFFICES ASSUME NEW t \in Elems(o) \ (S \cup K),
                      cnt \/ \A a \in TSKID : Ahead(o, a, t) => a \in S \cup K
               PROVE  winfo[t].req > v.units
    BY DEF Short
  <2>1. t \in Elems(q)
    BY <1>0
  <2>2. PICK i \in 1..Len(q) : q[i] = t
    BY <2>1 DEF Elems
  <2>3. \A j \in 1..i - 1 : j \in 1..Len(q) /\ j < i
    BY <1>0
  <2>4. cnt \/ \A j \in 1..i - 1 : q[j] \in K
    BY <1>4, <1>5, <2>2, <2>3
  <2> QED
    BY <1>2, <2>2, <2>4
<1>7. ASSUME ~cnt, NEW x \in TSKID, NEW y \in TSKID, Ahead(o, x, y), y \in K, x \notin S PROVE x \in K
  <2>1. x \in Elems(o) /\ x # y
    BY <1>3, <1>7 DEF Ahead, Elems, Uniq
  <2>2. x \in Elems(q) /\ y \in Elems(q)
    BY <1>0, <1>2, <1>7, <2>1
  <2>3. Ahead(q, x, y)
    BY <1>0, <1>7, <2>1, <2>2
  <2> QED
    BY <1>2, <1>7, <2>3 DEF Ahead
<1>8. v.units \in Nat /\ K \subseteq Elems(o) \ S
  BY <1>0, <1>2
<1> QED
  BY <1>2, <1>6, <1>7, <1>8 DEF ServesInOrder

\* The waits that end at other objects change nothing for the semaphore s.
LEMMA ElsewhereInOrder ==
  ASSUME WaitInv, NEW s \in SEMID, NEW b, InOrder(b, s), NEW c, c.units[s] = b.units[s],
         \A t \in Elems(wait_queue[Sem(s)]) : /\ t \in Elems(c.ts) <=> t \in Elems(b.ts)
                                              /\ t \in c.given <=> t \in b.given
  PROVE  InOrder(c, s)
<1> DEFINE o == wait_queue[Sem(s)]
<1>1. \A x, y : Ahead(o, x, y) => x \in Elems(o) /\ y \in Elems(o)
  BY AheadOn
<1> HIDE DEF o
<1>2. Short(s, Elems(c.ts), c.units[s])
  BY <1>1 DEF InOrder, Short, o
<1> QED
  BY <1>1, <1>2 DEF InOrder, o

\* Before any wait has ended: no units are withheld.
LEMMA NoneLeftInOrder ==
  ASSUME WaitInv, \A s \in SEMID : Short(s, {}, semcnt[s]), NEW s \in SEMID
  PROVE  InOrder(NoneLeft, s)
<1>1. NoneLeft.units = semcnt /\ NoneLeft.given = {} /\ Elems(NoneLeft.ts) = {}
  BY SmallQueues DEF NoneLeft
<1>2. semcnt[s] \in Nat
  BY DEF WaitInv, SemTypes
<1> QED
  BY <1>1, <1>2 DEF InOrder

\* tkmc_complete_wait() of a task serves those behind it in their order, as many
\* as the count covers.
LEMMA LeaveInOrder ==
  ASSUME WaitInv, NEW b \in Ends, NEW t \in TSKID, tskstat[t] = "WAI", t \notin Elems(b.ts),
         \A s \in SEMID : InOrder(b, s), NEW s \in SEMID
  PROVE  InOrder(Leave(b, t), s)
<1>1. /\ b.ts \in Seq(TSKID) /\ b.units \in [SEMID -> Nat]
      /\ b = [ts |-> b.ts, given |-> b.given, units |-> b.units]
  BY DEF Ends
<1> DEFINE a == Append(b.ts, t)
           o == wait_queue[Sem(s)]
<1>2. a \in Seq(TSKID) /\ Elems(a) = Elems(b.ts) \cup {t}
  BY <1>1, AppendQueue DEF Ends
<1>3. /\ o \in Seq(TSKID) /\ Uniq(o)
      /\ \A x \in Elems(o) : x \in TSKID /\ tskwait[x] = "SEM" /\ winfo[x].obj = Sem(s)
  <2>1. Sem(s) \in Obj /\ Kind(Sem(s)) = "SEM"
    BY Objects
  <2> QED
    BY <2>1, ObjWaiters, ObjWaitKind
<1> HIDE DEF a
<1>4. CASE tskwait[t] # "SEM"
  <2>1. Leave(b, t) = [ts |-> a, given |-> b.given, units |-> b.units]
    BY <1>1, <1>4 DEF Leave, a
  <2>2. t \notin Elems(o)
    BY <1>3, <1>4
  <2> HIDE DEF o
  <2>3. \A x \in Elems(o) : /\ x \in Elems(Leave(b, t).ts) <=> x \in Elems(b.ts)
                            /\ x \in Leave(b, t).given <=> x \in b.given
    BY <1>2, <2>1, <2>2
  <2>4. Leave(b, t).units[s] = b.units[s]
    BY <2>1
  <2> QED
    BY <2>3, <2>4, ElsewhereInOrder DEF o
<1>5. CASE tskwait[t] = "SEM"
  <2> DEFINE r == winfo[t].obj[2]
             w == wait_queue[winfo[t].obj]
             S == Elems(b.ts) \cup {t}
             q == Without(w, S)
             n == b.units[r]
             v == Serve(r, q, n)
             c == a \o v.served
             u == [b.units EXCEPT ![r] = v.units]
             l == Leave(b, t)
  <2>1. r \in SEMID /\ winfo[t].obj = Sem(r) /\ Sem(r) \in Obj /\ (r # s => Sem(r) # Sem(s))
    BY <1>5, Objects DEF WaitInv, WaitQueuesConsistent, WaitersQueued, Queued, Sem
  <2>2. w = wait_queue[Sem(r)]
    BY <2>1
  <2>3. w \in Seq(TSKID) /\ Uniq(w)
    BY <2>1, <2>2, ObjWaiters
  <2>4. Rest(q, w, S)
    <3> HIDE DEF w, S
    <3>1. q \in Seq(TSKID) /\ Uniq(q) /\ Elems(q) = Elems(w) \ S
      BY <2>3, WithoutProperties
    <3>2. \A x, y \in Elems(q) : x # y => (Ahead(q, x, y) <=> Ahead(w, x, y))
      BY <2>3, <3>1, WithoutOrder
    <3> QED
      BY <3>1, <3>2 DEF Rest
  <2>5. n \in Nat
    BY <1>1, <2>1
  <2>6. l = [ts |-> c, given |-> b.given \cup Elems(v.served), units |-> u]
    BY <1>5 DEF Leave, a
  <2> HIDE DEF r, w, S, q, l, n
  <2>7. /\ v.served \in Seq(TSKID) /\ Elems(v.served) \subseteq Elems(w) /\ v.units \in Nat
        /\ Short(r, S \cup Elems(v.served), v.units)
        /\ ~sematr[r].cnt =>
             \A x, y \in TSKID : Ahead(w, x, y) /\ y \in Elems(v.served)
                                 => x \in S \cup Elems(v.served)
        /\ Elems(v.served) = {} => v.units = n
    <3>1. ServesInOrder(v, r, S, n)
      BY <2>1, <2>2, <2>4, <2>5, ServeInOrder
    <3> HIDE DEF v
    <3> QED
      BY <2>2, <3>1 DEF ServesInOrder
  <2> HIDE DEF v
  <2>8. Elems(c) = S \cup Elems(v.served)
    BY <1>2, <2>7, JoinProperties DEF S
  <2>9. u[r] = v.units /\ (r # s => u[s] = b.units[s])
    BY <1>1, <2>1
  <2> HIDE DEF c, u
  <2>10. CASE r # s
    <3>1. \A x \in Elems(o) : x # t /\ x \notin Elems(v.served)
      <4>1. \A x \in Elems(v.served) : winfo[x].obj = Sem(r)
        <5>1. \A x \in Elems(w) : x \in TSKID /\ winfo[x].obj = Sem(r)
          BY <2>1, <2>2, ObjWaitKind
        <5> QED
          BY <2>7, <5>1
      <4> QED
        BY <1>3, <2>1, <2>10, <4>1
    <3> HIDE DEF o
    <3>2. \A x \in Elems(o) : /\ x \in Elems(l.ts) <=> x \in Elems(b.ts)
                              /\ x \in l.given <=> x \in b.given
      BY <2>6, <2>8, <3>1 DEF S
    <3>3. l.units[s] = b.units[s]
      BY <2>6, <2>9, <2>10
    <3>4. InOrder(l, s)
      BY <3>2, <3>3, ElsewhereInOrder DEF o
    <3> QED
      BY <3>4 DEF l
  <2>11. CASE r = s
    <3>1. /\ l.units[s] = v.units /\ Elems(l.ts) = S \cup Elems(v.served)
          /\ l.given = b.given \cup Elems(v.served)
      BY <2>6, <2>8, <2>9, <2>11
    <3>2. Short(s, Elems(l.ts), l.units[s])
      BY <2>7, <2>11, <3>1
    <3>3. w = o
      BY <2>2, <2>11
    <3>4. ASSUME ~sematr[s].cnt, NEW x \in TSKID, NEW y \in TSKID, Ahead(o, x, y), y \in l.given
          PROVE  x \in Elems(l.ts)
      <4>1. CASE y \in b.given
        <5>1. x \in Elems(b.ts)
          BY <3>4, <4>1 DEF InOrder
        <5> QED
          BY <3>1, <5>1 DEF S
      <4>2. CASE y \in Elems(v.served)
        BY <2>7, <2>11, <3>1, <3>3, <3>4, <4>2
      <4> QED
        BY <3>1, <3>4, <4>1, <4>2
    <3>5. ASSUME \A x \in Elems(o) : x \notin l.given PROVE l.units[s] >= semcnt[s]
      <4>1. Elems(v.served) = {}
        BY <2>7, <3>1, <3>3, <3>5
      <4>2. b.units[s] >= semcnt[s]
        BY <3>1, <3>5 DEF InOrder
      <4> QED
        BY <2>7, <2>11, <3>1, <4>1, <4>2 DEF n
    <3>6. InOrder(l, s)
      BY <3>2, <3>4, <3>5 DEF InOrder
    <3> QED
      BY <3>6 DEF l
  <2> QED
    BY <2>10, <2>11
<1> QED
  BY <1>4, <1>5

\* The timer handler, however many waits are over.
LEMMA TimedOutInOrder ==
  ASSUME KernelInv, WaitInv, \A s \in SEMID : Short(s, {}, semcnt[s]), NEW n \in Nat,
         NEW s \in SEMID
  PROVE  InOrder(TimedOut(n), s)
<1> DEFINE W == {b \in Ends : \A r \in SEMID : InOrder(b, r)}
<1>1. NoneLeft \in W
  BY NoneLeftEnds, NoneLeftInOrder
<1>2. \A b \in W, t \in TSKID : tskstat[t] = "WAI" /\ t \notin Elems(b.ts) => Leave(b, t) \in W
  BY LeaveProperties, LeaveInOrder
<1>3. W \subseteq Ends
  OBVIOUS
<1> HIDE DEF W
<1>4. TimedOut(n) \in W
  BY <1>1, <1>2, <1>3, TimedOutReaches
<1> QED
  BY <1>4 DEF W

\* What a step does to the semaphore s: it leaves the waiters and the count alone,
\* it ends waits and hands units out, it makes or deletes s, the current task
\* takes units, or it joins the queue because it may not.
StaysPut(s) == /\ Elems(wait_queue'[Sem(s)]) = Elems(wait_queue[Sem(s)])
               /\ semcnt'[s] = semcnt[s]
HandsOut(s) == \E b : /\ InOrder(b, s) /\ b.given \subseteq Elems(b.ts)
                      /\ Elems(wait_queue'[Sem(s)]) = Elems(wait_queue[Sem(s)]) \ Elems(b.ts)
                      /\ semcnt'[s] = b.units[s]
                      /\ \A t \in TSKID : Served(Sem(s), t) => t \in b.given
Closes(s) == wait_queue'[Sem(s)] = << >> /\ ~(semexs[s] /\ semexs'[s])
Takes(s) == \E cnt \in Nat : /\ MayTake(s, cnt) /\ semcnt'[s] = semcnt[s] - cnt
                             /\ UNCHANGED wait_queue
Waits(s) == \E cnt \in Nat : /\ ~MayTake(s, cnt) /\ winfo'[current].req = cnt
                             /\ Joins(Sem(s)) /\ semcnt'[s] = semcnt[s]

\* Waits that end at other objects leave the queue of s alone.
LEMMA QueueStays ==
  ASSUME WaitInv, NEW done, wait_queue' = Unqueued(done), NEW s \in SEMID,
         \A t \in done : t \notin Elems(wait_queue[Sem(s)])
  PROVE  Elems(wait_queue'[Sem(s)]) = Elems(wait_queue[Sem(s)])
<1>1. Sem(s) \in Obj
  BY Objects
<1>2. wait_queue'[Sem(s)] = Without(wait_queue[Sem(s)], done)
  BY <1>1 DEF Unqueued
<1>3. Elems(wait_queue'[Sem(s)]) = Elems(wait_queue[Sem(s)]) \ done
  BY <1>1, <1>2, ObjWaiters, WithoutProperties
<1> QED
  BY <1>3

\* So do waits of another kind.
LEMMA OtherKindStays ==
  ASSUME WaitInv, NEW ts, NEW cause, NEW elapsed, CompleteWaits(ts, cause, elapsed),
         \A t \in Elems(ts) : tskwait[t] # "SEM", NEW s \in SEMID
  PROVE  Elems(wait_queue'[Sem(s)]) = Elems(wait_queue[Sem(s)])
<1>0. Sem(s) \in Obj /\ Kind(Sem(s)) = "SEM"
  BY Objects
<1>1. \A t \in Elems(wait_queue[Sem(s)]) : tskwait[t] = "SEM"
  BY <1>0, ObjWaitKind
<1>2. wait_queue' = Unqueued(Elems(ts))
  BY DEF CompleteWaits
<1> QED
  BY <1>1, <1>2, QueueStays

\* The steps that are not semaphore calls, but for the timer handler.
LEMMA OthersStayPut ==
  ASSUME KernelInv, WaitInv, NEW s \in SEMID,
         \/ TaskCall \/ TimerCall \/ FlagCall \/ MailboxCall
         \/ mtrap_handler \/ external_interrupt \/ TrapExit
         \/ Idle \/ TaskDI \/ TaskEI \/ ExitReturns \/ ClockTick \/ UNCHANGED vars
  PROVE  StaysPut(s)
<1> DEFINE Q == Elems(wait_queue'[Sem(s)]) = Elems(wait_queue[Sem(s)])
<1>0. Sem(s) \in Obj
  BY Objects
<1>1. ASSUME UNCHANGED wait_queue PROVE Q
  BY <1>1
<1>2. ASSUME UNCHANGED taskVars PROVE Q
  BY <1>1, <1>2 DEF taskVars, queueVars
<1>3. ASSUME NEW o \in Obj, o # Sem(s), Joins(o) PROVE Q
  BY <1>0, <1>3, JoinsOnlyOne
<1>4. /\ \A f \in FLGID : Flg(f) \in Obj /\ Flg(f) # Sem(s)
      /\ \A m \in MBXID : Mbx(m) \in Obj /\ Mbx(m) # Sem(s)
  BY Objects DEF Sem, Flg, Mbx
<1> HIDE DEF Q
<1>5. ASSUME TaskCall PROVE Q
  <2>1. ASSUME NEW t \in TSKID, tk_wup_tsk(t) PROVE Q
    <3>1. CASE UNCHANGED wait_queue
      BY <1>1, <3>1
    <3>2. CASE ~UNCHANGED wait_queue
      <4>1. WakesSleep(t) /\ CompleteWaits(<<t>>, AllCause("E_OK"), 0)
        BY <2>1, <3>2 DEF tk_wup_tsk, taskVars, queueVars
      <4>2. Elems(<<t>>) = {t}
        BY SmallQueues
      <4>3. \A x \in Elems(<<t>>) : tskwait[x] # "SEM"
        BY <4>1, <4>2 DEF WakesSleep
      <4> QED
        BY <4>1, <4>3, OtherKindStays DEF Q
    <3> QED
      BY <3>1, <3>2
  <2>2. ASSUME \/ \E pri : tk_cre_tsk(pri)
               \/ \E t \in TSKID : tk_sta_tsk(t)
               \/ tk_ext_tsk \/ tk_exd_tsk
        PROVE  UNCHANGED wait_queue
    BY <2>2 DEF tk_cre_tsk, tk_sta_tsk, tk_ext_tsk, tk_exd_tsk, tkmc_fatal_context, taskVars,
                queueVars
  <2> QED
    BY <1>1, <1>5, <2>1, <2>2 DEF TaskCall
<1>6. ASSUME FlagCall PROVE Q
  <2>1. ASSUME NEW f \in FLGID, NEW ptn \in FlgPtn, tk_set_flg(f, ptn) PROVE Q
    <3>1. CASE UNCHANGED wait_queue
      BY <1>1, <3>1
    <3>2. CASE ~UNCHANGED wait_queue
      <4> DEFINE q == wait_queue[Flg(f)]
                 new == flgptn[f] \cup ptn
                 ts == SetWalk(q, new).served
      <4>1. CompleteWaits(ts, AllCause("E_OK"), 0)
        BY <2>1, <3>2 DEF tk_set_flg, taskVars, queueVars
      <4>2. q \in Seq(TSKID) /\ Uniq(q) /\ \A t \in Elems(q) : tskwait[t] = "FLG"
        BY Objects, ObjWaiters, ObjWaitKind
      <4>3. new \in SUBSET Bit
        BY EventFlagAssumption DEF WaitInv, FlgTypes
      <4> HIDE DEF q, new
      <4>4. Elems(ts) \subseteq Elems(q)
        BY <4>2, <4>3, SetWalkProperties
      <4> HIDE DEF ts
      <4>5. \A t \in Elems(ts) : tskwait[t] # "SEM"
        BY <4>2, <4>4
      <4> QED
        BY <4>1, <4>5, OtherKindStays DEF Q
    <3> QED
      BY <3>1, <3>2
  <2>2. \/ UNCHANGED wait_queue
        \/ \E f \in FLGID, ptn \in FlgPtn : tk_set_flg(f, ptn)
        \/ \E f \in FLGID : Joins(Flg(f))
    <3>1. ASSUME NEW f \in FLGID, NEW ptn, NEW mode, NEW tmout, tk_wai_flg(f, ptn, mode, tmout)
          PROVE  UNCHANGED wait_queue \/ Joins(Flg(f))
      <4>1. flgatr[f].tpri = Tpri(Flg(f)) /\ Flg(f) \in Obj
        BY TpriOf, Objects
      <4>2. \/ UNCHANGED wait_queue
            \/ Caller /\ tkmc_can_block /\ JoinQueue(Flg(f), 0, flgatr[f].tpri)
        BY <3>1 DEF tk_wai_flg, taskVars, queueVars
      <4>3. \/ UNCHANGED wait_queue
            \/ Caller /\ tkmc_can_block /\ JoinQueue(Flg(f), 0, Tpri(Flg(f)))
        BY <4>1, <4>2
      <4> QED
        BY <4>1, <4>3, JoinsOnce
    <3>2. ASSUME \/ \E atr \in FlgAtr, ptn \in FlgPtn : tk_cre_flg(atr, ptn)
                 \/ \E f \in FLGID, ptn \in FlgPtn : tk_clr_flg(f, ptn)
                 \/ FlgReturn
          PROVE  UNCHANGED wait_queue
      BY <3>2 DEF tk_cre_flg, tk_clr_flg, FlgReturn, WaitReturn, taskVars, queueVars
    <3> QED
      BY <1>6, <3>1, <3>2 DEF FlagCall
  <2> QED
    BY <1>1, <1>3, <1>4, <2>1, <2>2
<1>7. ASSUME MailboxCall PROVE Q
  <2>1. ASSUME NEW m \in MBXID, tk_del_mbx(m) PROVE Q
    <3>1. CASE UNCHANGED wait_queue
      BY <1>1, <3>1
    <3>2. CASE ~UNCHANGED wait_queue
      <4>1. CompleteWaits(wait_queue[Mbx(m)], AllCause("E_DLT"), 0)
        BY <2>1, <3>2 DEF tk_del_mbx, taskVars, queueVars
      <4>2. \A t \in Elems(wait_queue[Mbx(m)]) : tskwait[t] # "SEM"
        BY Objects, ObjWaitKind
      <4> QED
        BY <4>1, <4>2, OtherKindStays DEF Q
    <3> QED
      BY <3>1, <3>2
  <2>2. ASSUME NEW m \in MBXID, NEW msg \in Msg, tk_snd_mbx(m, msg) PROVE Q
    <3>1. CASE UNCHANGED wait_queue
      BY <1>1, <3>1
    <3>2. CASE ~UNCHANGED wait_queue
      <4> DEFINE t == pop_waiting_receiver(m)
                 q == wait_queue[Mbx(m)]
      <4>1. t # NULL /\ CompleteWaits(<<t>>, AllCause("E_OK"), 0)
        BY <2>2, <3>2 DEF tk_snd_mbx, taskVars, queueVars
      <4>2. q \in Seq(TSKID) /\ Uniq(q) /\ \A x \in Elems(q) : x \in TSKID /\ tskwait[x] = "MBX"
        BY Objects, ObjWaiters, ObjWaitKind
      <4>3. q # << >> /\ t = Head(q)
        BY <4>1 DEF pop_waiting_receiver
      <4> HIDE DEF q, t
      <4>4. t \in Elems(q)
        BY <4>2, <4>3, TailQueue
      <4>5. \A x \in Elems(<<t>>) : tskwait[x] # "SEM"
        BY <4>2, <4>4, SmallQueues
      <4> QED
        BY <4>1, <4>5, OtherKindStays DEF Q
    <3> QED
      BY <3>1, <3>2
  <2>3. ASSUME MbxReturn PROVE Q
    <3>1. TaskRuns /\ wait_queue' = Unqueued({current})
      BY <2>3 DEF MbxReturn
    <3>2. tskstat[current] = "RUN"
      BY <2>3, RunningTask DEF MbxReturn
    <3>3. current \notin Elems(wait_queue[Sem(s)])
      BY <1>0, <3>2, ObjWaiters
    <3> QED
      BY <3>1, <3>3, QueueStays DEF Q
  <2>4. ASSUME NEW m \in MBXID, NEW tmout, tk_rcv_mbx(m, tmout) PROVE Q
    <3>1. mbxatr[m].tpri = Tpri(Mbx(m)) /\ Mbx(m) \in Obj
      BY TpriOf, Objects
    <3>2. \/ UNCHANGED wait_queue
          \/ Caller /\ tkmc_can_block /\ JoinQueue(Mbx(m), 0, mbxatr[m].tpri)
      BY <2>4 DEF tk_rcv_mbx, taskVars, queueVars
    <3>3. \/ UNCHANGED wait_queue
          \/ Caller /\ tkmc_can_block /\ JoinQueue(Mbx(m), 0, Tpri(Mbx(m)))
      BY <3>1, <3>2
    <3>4. UNCHANGED wait_queue \/ Joins(Mbx(m))
      BY <3>1, <3>3, JoinsOnce
    <3> QED
      BY <1>1, <1>3, <1>4, <3>4
  <2>5. ASSUME \E atr \in MbxAtr : tk_cre_mbx(atr) PROVE Q
    BY <1>2, <2>5 DEF tk_cre_mbx
  <2> QED
    BY <1>7, <2>1, <2>2, <2>3, <2>4, <2>5 DEF MailboxCall
<1>8. ASSUME TimerCall PROVE Q
  <2>1. UNCHANGED wait_queue
    BY <1>8 DEF TimerCall, tk_slp_tsk, tk_dly_tsk, tkmc_yield, tkmc_schedule_timer, BeginWait,
                WaitReturn, taskVars, queueVars
  <2> QED
    BY <1>1, <2>1
<1>9. ASSUME \/ mtrap_handler \/ external_interrupt \/ TrapExit
             \/ Idle \/ TaskDI \/ TaskEI \/ ExitReturns \/ ClockTick \/ UNCHANGED vars
      PROVE  Q
  <2>1. UNCHANGED wait_queue
    BY <1>9 DEF mtrap_handler, external_interrupt, TrapExit, Idle, IdleCheck, IdleWfi, IdleEI,
                IdleYield, tkmc_yield, TaskDI, TaskEI, SetMie, ExitReturns, ClockTick, TickEdge,
                vars, taskVars, queueVars
  <2> QED
    BY <1>1, <2>1
<1>10. UNCHANGED semcnt
  BY DEF TaskCall, TimerCall, FlagCall, MailboxCall, mtrap_handler, external_interrupt, TrapExit,
         Idle, IdleCheck, IdleWfi, IdleEI, IdleYield, TaskDI, TaskEI, SetMie, ExitReturns,
         ClockTick, objVars, semVars, vars
<1>11. Q
  BY <1>5, <1>6, <1>7, <1>8, <1>9
<1> QED
  BY <1>10, <1>11 DEF StaysPut, Q

\* Waits that end by a time limit or tk_rel_wai() hand units out.
LEMMA EndHandsOut ==
  ASSUME WaitInv, NEW b \in Ends, NEW ercd \in Ercd \ {"E_OK"}, NEW elapsed,
         EndWaits(b, ercd, elapsed), NEW s \in SEMID, InOrder(b, s)
  PROVE  HandsOut(s)
<1>1. Sem(s) \in Obj /\ wait_queue[Sem(s)] \in Seq(TSKID)
  BY Objects, ObjWaiters
<1>2. wait_queue'[Sem(s)] = Without(wait_queue[Sem(s)], Elems(b.ts)) /\ semcnt'[s] = b.units[s]
  BY <1>1 DEF EndWaits, CompleteWaits, Unqueued
<1>3. Elems(wait_queue'[Sem(s)]) = Elems(wait_queue[Sem(s)]) \ Elems(b.ts)
  BY <1>1, <1>2, WithoutProperties
<1>4. ASSUME NEW t \in TSKID, Served(Sem(s), t) PROVE t \in b.given
  <2>1. tskstat[t] = "WAI" /\ tskstat'[t] = "RDY" /\ wupcause'[t] = "E_OK"
    BY <1>1, <1>4, ObjWaiters DEF Served
  <2>2. t \in Elems(b.ts)
    BY <2>1 DEF EndWaits, CompleteWaits
  <2>3. wupcause'[t] = Causes(b, ercd)[t]
    BY <2>2 DEF EndWaits, CompleteWaits
  <2> QED
    BY <2>1, <2>3 DEF Causes
<1>5. b.given \subseteq Elems(b.ts)
  BY DEF Ends
<1> QED
  BY <1>2, <1>3, <1>4, <1>5 DEF HandsOut

\* tk_rel_wai() and the timer handler.
LEMMA LimitsHandOut ==
  ASSUME KernelInv, WaitInv, \A s \in SEMID : Short(s, {}, semcnt[s]), NEW s \in SEMID
  PROVE  /\ \A t \in TSKID : tk_rel_wai(t) => StaysPut(s) \/ HandsOut(s)
         /\ timer_interrupt => HandsOut(s)
<1>0. "E_RLWAI" \in Ercd \ {"E_OK"} /\ "E_TMOUT" \in Ercd \ {"E_OK"}
  BY DEF Ercd
<1>1. ASSUME NEW t \in TSKID, tk_rel_wai(t) PROVE StaysPut(s) \/ HandsOut(s)
  <2>1. CASE RelWaiRefused(t)
    BY <1>1, <2>1 DEF tk_rel_wai, StaysPut, taskVars, queueVars
  <2>2. CASE ~RelWaiRefused(t)
    <3> DEFINE b == Leave(NoneLeft, t)
    <3>1. tskstat[t] = "WAI" /\ NoneLeft \in Ends /\ t \notin Elems(NoneLeft.ts)
      BY <2>2, NoneLeftEnds DEF RelWaiRefused
    <3>2. b \in Ends /\ InOrder(b, s)
      BY <3>1, LeaveProperties, NoneLeftInOrder, LeaveInOrder
    <3>3. EndWaits(b, "E_RLWAI", 0)
      BY <1>1, <2>2 DEF tk_rel_wai
    <3> HIDE DEF b
    <3> QED
      BY <1>0, <3>2, <3>3, EndHandsOut
  <2> QED
    BY <2>1, <2>2
<1>2. ASSUME timer_interrupt PROVE HandsOut(s)
  <2> DEFINE b == TimedOut(edges)
  <2>1. edges \in Nat
    BY EdgesNat DEF KernelInv
  <2>2. b \in Ends /\ InOrder(b, s)
    BY <2>1, TimedOutProperties, TimedOutInOrder
  <2>3. EndWaits(b, "E_TMOUT", edges)
    BY <1>2 DEF timer_interrupt
  <2> HIDE DEF b
  <2> QED
    BY <1>0, <2>2, <2>3, EndHandsOut
<1> QED
  BY <1>1, <1>2

\* tk_sig_sem() gives its units, and those that are there, to the waiters.
LEMMA SigHandsOut ==
  ASSUME WaitInv, \A s \in SEMID : Short(s, {}, semcnt[s]), NEW semid \in SEMID,
         NEW cnt \in SemCnt, tk_sig_sem(semid, cnt), NEW s \in SEMID
  PROVE  StaysPut(s) \/ HandsOut(s)
<1>1. CASE cnt <= 0 \/ ~semexs[semid] \/ ~SigRoom(semid, cnt)
  BY <1>1 DEF tk_sig_sem, StaysPut, taskVars, queueVars
<1>2. CASE ~(cnt <= 0 \/ ~semexs[semid] \/ ~SigRoom(semid, cnt))
  <2> DEFINE q == wait_queue[Sem(semid)]
             u == semcnt[semid] + cnt
             v == Serve(semid, q, u)
             c == [semcnt EXCEPT ![semid] = v.units]
             b == [ts |-> v.served, given |-> Elems(v.served), units |-> c]
  <2>1. semcnt \in [SEMID -> Nat] /\ cnt \in Nat /\ u \in Nat
    BY <1>2, SemaphoreAssumption DEF WaitInv, SemTypes
  <2>2. /\ Sem(semid) \in Obj /\ Sem(s) \in Obj /\ (s # semid => Sem(s) # Sem(semid))
        /\ q \in Seq(TSKID) /\ Uniq(q) /\ \A t \in Elems(q) : winfo[t].obj = Sem(semid)
    BY Objects, ObjWaiters, ObjWaitKind DEF Sem
  <2>3. Rest(q, wait_queue[Sem(semid)], {})
    BY <2>2 DEF Rest
  <2>4. ServesInOrder(v, semid, {}, u)
    BY <2>1, <2>3, ServeInOrder
  <2>5. CompleteWaits(v.served, AllCause("E_OK"), 0) /\ semcnt' = c
    BY <1>2 DEF tk_sig_sem
  <2> HIDE DEF v
  <2>6. /\ v.served \in Seq(TSKID) /\ Elems(v.served) \subseteq Elems(q) /\ v.units \in Nat
        /\ Short(semid, Elems(v.served), v.units)
        /\ ~sematr[semid].cnt =>
             \A x, y \in TSKID : Ahead(q, x, y) /\ y \in Elems(v.served) => x \in Elems(v.served)
        /\ Elems(v.served) = {} => v.units = u
    BY <2>4 DEF ServesInOrder
  <2>7. c[semid] = v.units /\ (s # semid => c[s] = semcnt[s])
    BY <2>1
  <2>8. wait_queue' = Unqueued(Elems(v.served))
    BY <2>5 DEF CompleteWaits
  <2>9. CASE s # semid
    <3>1. \A t \in Elems(v.served) : t \notin Elems(wait_queue[Sem(s)])
      <4>1. \A t \in Elems(wait_queue[Sem(s)]) : winfo[t].obj = Sem(s)
        BY <2>2, ObjWaitKind
      <4>2. \A t \in Elems(v.served) : winfo[t].obj = Sem(semid)
        <5> HIDE DEF q
        <5> QED
          BY <2>2, <2>6
      <4>3. Sem(s) # Sem(semid)
        BY <2>2, <2>9
      <4>4. ASSUME NEW t \in Elems(v.served), t \in Elems(wait_queue[Sem(s)]) PROVE FALSE
        <5>1. winfo[t].obj = Sem(s)
          BY <4>1, <4>4
        <5>2. winfo[t].obj = Sem(semid)
          BY <4>2
        <5> QED
          BY <4>3, <5>1, <5>2
      <4> QED
        BY <4>4
    <3>2. Elems(wait_queue'[Sem(s)]) = Elems(wait_queue[Sem(s)])
      BY <2>8, <3>1, QueueStays
    <3> QED
      BY <2>5, <2>7, <2>9, <3>2 DEF StaysPut
  <2>10. CASE s = semid
    <3>1. wait_queue'[Sem(s)] = Without(q, Elems(v.served))
      BY <2>2, <2>8, <2>10 DEF Unqueued
    <3>2. Elems(wait_queue'[Sem(s)]) = Elems(q) \ Elems(v.served)
      BY <2>2, <3>1, WithoutProperties
    <3>3. /\ b.ts = v.served /\ b.given = Elems(v.served) /\ b.units = c
          /\ q = wait_queue[Sem(s)]
      BY <2>10
    <3> HIDE DEF b, q, c
    <3>4. ASSUME \A t \in Elems(q) : t \notin b.given PROVE b.units[s] >= semcnt[s]
      <4>1. Elems(v.served) = {}
        BY <2>6, <3>3, <3>4
      <4>2. b.units[s] = semcnt[s] + cnt
        BY <2>6, <2>7, <2>10, <3>3, <4>1
      <4> QED
        BY <2>1, <4>2
    <3>5. Short(s, Elems(b.ts), b.units[s])
      BY <2>6, <2>7, <2>10, <3>3
    <3>6. InOrder(b, s)
      BY <2>6, <2>10, <3>3, <3>4, <3>5 DEF InOrder
    <3>7. ASSUME NEW t \in TSKID, Served(Sem(s), t) PROVE t \in b.given
      <4>1. tskstat[t] = "WAI" /\ tskstat'[t] = "RDY"
        BY <2>2, <3>7, ObjWaiters DEF Served
      <4>2. t \in Elems(v.served)
        BY <2>5, <4>1 DEF CompleteWaits
      <4> QED
        BY <3>3, <4>2
    <3> QED
      BY <2>5, <3>2, <3>3, <3>6, <3>7 DEF HandsOut
  <2> QED
    BY <2>9, <2>10
<1> QED
  BY <1>1, <1>2

\* tk_wai_sem(): the caller takes its units, gives up, or joins the queue.
LEMMA WaiSemMoves ==
  ASSUME KernelInv, WaitInv, NEW semid \in SEMID, NEW cnt \in SemCnt, NEW tmout,
         tk_wai_sem(semid, cnt, tmout), NEW s \in SEMID
  PROVE  StaysPut(s) \/ Takes(s) \/ Waits(s)
<1>0. semcnt \in [SEMID -> Nat] /\ winfo \in [TSKID -> [obj : Obj \cup {NoWait.obj}, req : Nat]]
  BY DEF WaitInv, SemTypes, WaitTypes
<1>1. Sem(semid) \in Obj /\ Sem(s) \in Obj /\ (s # semid => Sem(s) # Sem(semid))
  BY Objects DEF Sem
<1>2. CASE UNCHANGED wait_queue /\ UNCHANGED semcnt
  BY <1>2 DEF StaysPut
<1>3. CASE /\ cnt > 0 /\ MayTake(semid, cnt) /\ UNCHANGED wait_queue
           /\ semcnt' = [semcnt EXCEPT ![semid] = @ - cnt]
  <2>1. cnt \in Nat
    BY <1>3, SemaphoreAssumption
  <2>2. semcnt'[semid] = semcnt[semid] - cnt /\ (s # semid => semcnt'[s] = semcnt[s])
    BY <1>0, <1>3
  <2>3. CASE s = semid
    BY <1>3, <2>1, <2>2, <2>3 DEF Takes
  <2>4. CASE s # semid
    BY <1>3, <2>2, <2>4 DEF StaysPut
  <2> QED
    BY <2>3, <2>4
<1>4. CASE /\ cnt > 0 /\ Caller /\ tkmc_can_block /\ ~MayTake(semid, cnt) /\ UNCHANGED semcnt
           /\ JoinQueue(Sem(semid), cnt, sematr[semid].tpri)
  <2>1. cnt \in Nat
    BY <1>4, SemaphoreAssumption
  <2>2. JoinQueue(Sem(semid), cnt, Tpri(Sem(semid)))
    BY <1>4, TpriOf
  <2>3. Joins(Sem(semid))
    BY <1>1, <1>4, <2>2, JoinsOnce
  <2>4. current \in TSKID
    BY <2>3 DEF Joins
  <2>5. winfo'[current].req = cnt
    BY <1>0, <1>4, <2>4 DEF JoinQueue
  <2>6. CASE s = semid
    BY <1>4, <2>1, <2>3, <2>5, <2>6 DEF Waits
  <2>7. CASE s # semid
    <3>1. wait_queue'[Sem(s)] = wait_queue[Sem(s)]
      BY <1>1, <2>3, <2>7, JoinsOnlyOne
    <3> QED
      BY <1>4, <3>1 DEF StaysPut
  <2> QED
    BY <2>6, <2>7
<1>5. cnt \in Int
  BY SemaphoreAssumption
<1> QED
  BY <1>2, <1>3, <1>4, <1>5 DEF tk_wai_sem, taskVars, queueVars

\* tk_cre_sem() and tk_del_sem(): a semaphore has no waiter before the one and
\* after the other.
LEMMA CreDelSemMoves ==
  ASSUME WaitInv, NEW s \in SEMID
  PROVE  /\ \A atr, isemcnt, max : tk_cre_sem(atr, isemcnt, max) => StaysPut(s) \/ Closes(s)
         /\ \A semid \in SEMID : tk_del_sem(semid) => StaysPut(s) \/ Closes(s)
<1>0. semcnt \in [SEMID -> Nat] /\ semexs \in [SEMID -> BOOLEAN] /\ Sem(s) \in Obj
  BY Objects DEF WaitInv, SemTypes
<1>1. ASSUME NEW atr, NEW isemcnt, NEW max, tk_cre_sem(atr, isemcnt, max)
      PROVE  StaysPut(s) \/ Closes(s)
  <2>1. UNCHANGED wait_queue
    BY <1>1 DEF tk_cre_sem, taskVars, queueVars
  <2>2. CASE UNCHANGED semcnt
    BY <2>1, <2>2 DEF StaysPut
  <2>3. CASE ~UNCHANGED semcnt
    <3> DEFINE n == Head(free_semcb)
    <3>1. free_semcb # << >> /\ semcnt' = [semcnt EXCEPT ![n] = isemcnt]
      BY <1>1, <2>3 DEF tk_cre_sem
    <3>2. n \in Elems(free_semcb) /\ n \in SEMID
      BY <3>1, TailQueue DEF WaitInv, SemTypes, WaitQueuesConsistent, SemcbsLinked
    <3>3. wait_queue[Sem(n)] = << >> /\ ~semexs[n]
      BY <3>2 DEF WaitInv, WaitQueuesConsistent, SemcbsLinked
    <3> HIDE DEF n
    <3>4. CASE s = n
      BY <2>1, <3>3, <3>4 DEF Closes
    <3>5. CASE s # n
      BY <1>0, <2>1, <3>1, <3>5 DEF StaysPut
    <3> QED
      BY <3>4, <3>5
  <2> QED
    BY <2>2, <2>3
<1>2. ASSUME NEW semid \in SEMID, tk_del_sem(semid) PROVE StaysPut(s) \/ Closes(s)
  <2>1. CASE ~semexs[semid]
    BY <1>2, <2>1 DEF tk_del_sem, StaysPut, taskVars, queueVars, semVars
  <2>2. CASE semexs[semid]
    <3> DEFINE q == wait_queue[Sem(semid)]
    <3>1. /\ CompleteWaits(q, AllCause("E_DLT"), 0)
          /\ semexs' = [semexs EXCEPT ![semid] = FALSE]
          /\ semcnt' = [semcnt EXCEPT ![semid] = 0]
      BY <1>2, <2>2 DEF tk_del_sem, Released
    <3>2. wait_queue' = Unqueued(Elems(q))
      BY <3>1 DEF CompleteWaits
    <3>3. Sem(semid) \in Obj /\ (s # semid => Sem(s) # Sem(semid))
      BY Objects DEF Sem
    <3>4. CASE s = semid
      <4>1. wait_queue'[Sem(s)] = Without(q, Elems(q)) /\ q \in Seq(TSKID)
        BY <3>2, <3>3, <3>4, ObjWaiters DEF Unqueued
      <4>2. wait_queue'[Sem(s)] \in Seq(TSKID) /\ Elems(wait_queue'[Sem(s)]) = {}
        BY <4>1, WithoutProperties
      <4>3. wait_queue'[Sem(s)] = << >>
        BY <4>2, SmallQueues
      <4>4. ~semexs'[s]
        BY <1>0, <3>1, <3>4
      <4> QED
        BY <4>3, <4>4 DEF Closes
    <3>5. CASE s # semid
      <4>1. \A t \in Elems(q) : t \notin Elems(wait_queue[Sem(s)])
        <5> SUFFICES ASSUME NEW t \in Elems(q), t \in Elems(wait_queue[Sem(s)]) PROVE FALSE
          OBVIOUS
        <5>1. winfo[t].obj = Sem(semid)
          BY <3>3, ObjWaitKind
        <5>2. winfo[t].obj = Sem(s)
          BY <1>0, ObjWaitKind
        <5> QED
          BY <3>3, <3>5, <5>1, <5>2
      <4>2. Elems(wait_queue'[Sem(s)]) = Elems(wait_queue[Sem(s)])
        BY <3>2, <4>1, QueueStays
      <4>3. semcnt'[s] = semcnt[s]
        BY <1>0, <3>1, <3>5
      <4> QED
        BY <4>2, <4>3 DEF StaysPut
    <3> QED
      BY <3>4, <3>5
  <2> QED
    BY <2>1, <2>2
<1> QED
  BY <1>1, <1>2

\* No units are withheld, said with the order of the queues.
SemInv == \A s \in SEMID : Short(s, {}, semcnt[s])

\* Every step, at every semaphore.
LEMMA SemMoves ==
  ASSUME KernelInv, WaitInv, SemInv, [Next]_vars, NEW s \in SEMID
  PROVE  StaysPut(s) \/ HandsOut(s) \/ Closes(s) \/ Takes(s) \/ Waits(s)
<1> DEFINE M == StaysPut(s) \/ HandsOut(s) \/ Closes(s) \/ Takes(s) \/ Waits(s)
<1>0. \A r \in SEMID : Short(r, {}, semcnt[r])
  BY DEF SemInv
<1>1. ASSUME SemaphoreCall PROVE M
  <2>1. ASSUME NEW t \in TSKID, tk_rel_wai(t) PROVE M
    BY <1>0, <2>1, LimitsHandOut
  <2>2. ASSUME NEW semid \in SEMID, NEW cnt \in SemCnt, tk_sig_sem(semid, cnt) PROVE M
    BY <1>0, <2>2, SigHandsOut
  <2>3. ASSUME NEW semid \in SEMID, NEW cnt \in SemCnt, NEW tmout, tk_wai_sem(semid, cnt, tmout)
        PROVE  M
    BY <2>3, WaiSemMoves
  <2>4. ASSUME \/ \E atr \in SemAtr, isemcnt, max \in SemCnt : tk_cre_sem(atr, isemcnt, max)
               \/ \E semid \in SEMID : tk_del_sem(semid)
        PROVE  M
    BY <2>4, CreDelSemMoves
  <2>5. ASSUME SemReturn PROVE M
    BY <2>5 DEF SemReturn, WaitReturn, queueVars, StaysPut
  <2> HIDE DEF M
  <2> QED
    BY <1>1, <2>1, <2>2, <2>3, <2>4, <2>5 DEF SemaphoreCall
<1>2. ASSUME timer_interrupt PROVE M
  BY <1>0, <1>2, LimitsHandOut
<1>3. ASSUME \/ TaskCall \/ TimerCall \/ FlagCall \/ MailboxCall
             \/ mtrap_handler \/ external_interrupt \/ TrapExit
             \/ Idle \/ TaskDI \/ TaskEI \/ ExitReturns \/ ClockTick \/ UNCHANGED vars
      PROVE  M
  BY <1>3, OthersStayPut
<1> HIDE DEF M
<1>4. M
  BY <1>1, <1>2, <1>3 DEF Next, Trap, Stopped
<1> QED
  BY <1>4 DEF M

\* No step leaves units with a semaphore that a waiter next in turn asks for.
LEMMA SemStep ==
  ASSUME KernelInv, WaitInv, WaitInv', PlacesInv, SemInv, [Next]_vars
  PROVE  SemInv'
<1> SUFFICES ASSUME NEW s \in SEMID, NEW t \in Elems(wait_queue'[Sem(s)]),
                    \/ sematr'[s].cnt
                    \/ \A a \in TSKID : ~Ahead(wait_queue'[Sem(s)], a, t)
             PROVE  winfo'[t].req > semcnt'[s]
  BY DEF SemInv, Short
<1> DEFINE q == wait_queue[Sem(s)]
           r == wait_queue'[Sem(s)]
<1>1. /\ Sem(s) \in Obj /\ q \in Seq(TSKID) /\ Uniq(q)
      /\ \A x \in Elems(q) : x \in TSKID /\ tskstat[x] = "WAI"
  BY Objects, ObjWaiters
<1>2. sematr'[s].cnt = sematr[s].cnt
  <2>1. r # << >>
    BY SmallQueues
  <2> QED
    BY <2>1, AttributesKept
<1>3. semcnt[s] \in Nat /\ \A x \in TSKID : winfo[x].req \in Nat
  BY DEF WaitInv, SemTypes, WaitTypes
<1>4. \A x \in Elems(q) : winfo'[x] = winfo[x]
  BY <1>1, FieldsKept
<1>5. ASSUME NEW a \in TSKID, t \in Elems(q), a \in Elems(r), Ahead(q, a, t)
      PROVE  Ahead(r, a, t)
  <2>1. a \in Elems(q) /\ a # t
    BY <1>1, <1>5 DEF Ahead, Elems, Uniq
  <2> QED
    BY <1>1, <1>5, <2>1, PlacesKept
<1>6. ASSUME NEW S, NEW u \in Nat, Short(s, S, u), t \in Elems(q), t \notin S,
             \A x \in Elems(q) : x \in S \/ x \in Elems(r)
      PROVE  winfo'[t].req > u
  <2>1. sematr[s].cnt \/ \A a \in TSKID : Ahead(q, a, t) => a \in S
    <3> SUFFICES ASSUME ~sematr[s].cnt, NEW a \in TSKID, Ahead(q, a, t), a \notin S PROVE FALSE
      OBVIOUS
    <3>1. a \in Elems(r)
      BY <1>6, AheadOn
    <3> QED
      BY <1>2, <1>5, <1>6, <3>1
  <2>2. winfo[t].req > u
    BY <1>6, <2>1 DEF Short
  <2> QED
    BY <1>4, <1>6, <2>2
<1>7. Short(s, {}, semcnt[s])
  BY DEF SemInv
<1>8. CASE StaysPut(s)
  <2>1. t \in Elems(q) /\ \A x \in Elems(q) : x \in Elems(r)
    BY <1>8 DEF StaysPut
  <2>2. winfo'[t].req > semcnt[s]
    BY <1>3, <1>6, <1>7, <2>1
  <2> QED
    BY <1>8, <2>2 DEF StaysPut
<1>9. CASE HandsOut(s)
  <2>1. PICK b : /\ InOrder(b, s) /\ Elems(r) = Elems(q) \ Elems(b.ts)
                 /\ semcnt'[s] = b.units[s]
    BY <1>9 DEF HandsOut
  <2>2. Short(s, Elems(b.ts), semcnt'[s])
    BY <2>1 DEF InOrder
  <2>3. semcnt'[s] \in Nat
    BY DEF WaitInv, SemTypes
  <2>4. t \in Elems(q) /\ t \notin Elems(b.ts) /\ \A x \in Elems(q) : x \in Elems(b.ts) \/ x \in Elems(r)
    BY <2>1
  <2> QED
    BY <1>6, <2>2, <2>3, <2>4
<1>10. CASE Closes(s)
  BY <1>10, SmallQueues DEF Closes
<1>11. CASE Takes(s)
  <2>1. PICK cnt \in Nat : semcnt'[s] = semcnt[s] - cnt /\ r = q
    BY <1>11 DEF Takes
  <2>2. t \in Elems(q) /\ \A x \in Elems(q) : x \in Elems(r)
    BY <2>1
  <2>3. winfo'[t].req > semcnt[s]
    BY <1>3, <1>6, <1>7, <2>2
  <2>4. winfo'[t].req \in Nat
    BY <1>1, <1>3, <1>4, <2>2
  <2> QED
    BY <1>3, <2>1, <2>3, <2>4
<1>12. CASE Waits(s)
  <2>1. PICK cnt \in Nat : /\ ~MayTake(s, cnt) /\ winfo'[current].req = cnt
                           /\ Joins(Sem(s)) /\ semcnt'[s] = semcnt[s]
    BY <1>12 DEF Waits
  <2>2. Elems(r) = Elems(q) \cup {current}
    BY <1>1, <2>1, JoinsOnlyOne
  <2>3. CASE t \in Elems(q)
    <3>1. winfo'[t].req > semcnt[s]
      BY <1>3, <1>6, <1>7, <2>2, <2>3
    <3> QED
      BY <2>1, <3>1
  <2>4. CASE t \notin Elems(q)
    <3>1. t = current
      BY <2>2, <2>4
    <3>2. ASSUME semcnt[s] >= cnt PROVE FALSE
      <4> DEFINE h == Head(q)
      <4>1. /\ q # << >> /\ ~sematr[s].cnt
            /\ ~(sematr[s].tpri /\ itskpri[current] < itskpri[h])
        BY <2>1, <3>2 DEF MayTake
      <4>2. h \in Elems(q)
        BY <1>1, <4>1, TailQueue
      <4> HIDE DEF h, q
      <4>3. h \in Elems(q) \cap Elems(r) /\ h # t /\ h \in TSKID
        BY <1>1, <2>2, <2>4, <4>2
      <4>4. Ahead(r, h, t)
        <5>1. Tpri(Sem(s)) = sematr[s].tpri
          BY TpriOf
        <5>2. Ahead(r, h, t) <=> ~(Tpri(Sem(s)) /\ itskpri[t] < itskpri[h])
          BY <1>1, <2>4, <4>3, PlacesKept DEF q
        <5> QED
          BY <3>1, <4>1, <5>1, <5>2
      <4> QED
        BY <1>2, <4>1, <4>3, <4>4
    <3> QED
      BY <1>3, <2>1, <3>1, <3>2
  <2> QED
    BY <2>3, <2>4
<1> QED
  BY <1>8, <1>9, <1>10, <1>11, <1>12, SemMoves

\* No step withholds units.
LEMMA SemSafe == Spec => [](KernelInv /\ WaitInv /\ PlacesInv /\ SemInv)
<1>1. Init => SemInv
  <2> SUFFICES ASSUME Init, NEW s \in SEMID PROVE Short(s, {}, semcnt[s])
    BY DEF SemInv
  <2>1. Sem(s) \in Obj
    BY Objects
  <2>2. Elems(wait_queue[Sem(s)]) = {}
    BY <2>1, SmallQueues DEF Init
  <2> QED
    BY <2>2 DEF Short
<1>2. KernelInv /\ WaitInv /\ WaitInv' /\ PlacesInv /\ SemInv /\ [Next]_vars => SemInv'
  BY SemStep
<1> QED
  BY <1>1, <1>2, OutcomeSafe, PlacesSafe, PTL DEF Spec

\* No task waits for units that are there: whoever signals, times out, is released
\* or is passed over, the waiter next in turn asks for more than the count.
THEOREM NoUnitsHolds == Spec => []NoUnitsWithheld
<1>1. WaitInv /\ SemInv => NoUnitsWithheld
  <2> SUFFICES ASSUME WaitInv, SemInv, NEW s \in SEMID, NEW i \in 1..Len(wait_queue[Sem(s)]),
                      i = 1 \/ sematr[s].cnt
               PROVE  winfo[wait_queue[Sem(s)][i]].req > semcnt[s]
    BY DEF NoUnitsWithheld
  <2> DEFINE q == wait_queue[Sem(s)]
  <2>1. q \in Seq(TSKID) /\ Uniq(q)
    BY Objects, ObjWaiters
  <2>2. q[i] \in Elems(q) \ {}
    BY DEF Elems
  <2>3. sematr[s].cnt \/ \A a \in TSKID : Ahead(q, a, q[i]) => a \in {}
    <3> SUFFICES ASSUME i = 1, NEW a, Ahead(q, a, q[i]) PROVE FALSE
      OBVIOUS
    <3> HIDE DEF q
    <3>1. PICK k \in 1..Len(q), j \in 1..Len(q) : k < j /\ q[j] = q[1]
      BY DEF Ahead
    <3>2. Len(q) \in Nat /\ 1 \in 1..Len(q)
      BY <2>1, <3>1
    <3>3. j = 1
      BY <2>1, <3>1, <3>2 DEF Uniq
    <3> QED
      BY <3>1, <3>2, <3>3
  <2>4. Short(s, {}, semcnt[s])
    BY DEF SemInv
  <2> QED
    BY <2>2, <2>3, <2>4 DEF Short
<1> QED
  BY <1>1, SemSafe, PTL

\* Under TA_FIRST no waiter is served while one ahead of it goes on waiting, also
\* when one timer interrupt or one tk_rel_wai() ends several waits.
THEOREM ServedHolds == Spec => ServedInOrder
<1> DEFINE A == \A s \in SEMID : ~sematr[s].cnt =>
                  \A a, b \in TSKID : Ahead(wait_queue[Sem(s)], a, b) /\ Served(Sem(s), b)
                                       => a \notin Elems(wait_queue'[Sem(s)])
<1>1. KernelInv /\ WaitInv /\ WaitInv' /\ SemInv /\ [Next]_vars => A
  <2> SUFFICES ASSUME KernelInv, WaitInv, WaitInv', SemInv, [Next]_vars, NEW s \in SEMID,
                      ~sematr[s].cnt, NEW a \in TSKID, NEW b \in TSKID,
                      Ahead(wait_queue[Sem(s)], a, b), Served(Sem(s), b),
                      a \in Elems(wait_queue'[Sem(s)])
               PROVE  FALSE
    OBVIOUS
  <2>1. b \notin Elems(wait_queue'[Sem(s)]) /\ b \in Elems(wait_queue[Sem(s)]) /\ Sem(s) \in Obj
    BY Objects DEF Served, WaitInv, WaitQueuesConsistent, WaitersQueued, Queued
  <2>2. ~StaysPut(s) /\ ~Takes(s)
    BY <2>1 DEF StaysPut, Takes
  <2>3. ~Closes(s)
    BY SmallQueues DEF Closes
  <2>4. ~Waits(s)
    BY <2>1, JoinsOnlyOne DEF Waits
  <2>5. PICK c : /\ InOrder(c, s)
                 /\ Elems(wait_queue'[Sem(s)]) = Elems(wait_queue[Sem(s)]) \ Elems(c.ts)
                 /\ \A t \in TSKID : Served(Sem(s), t) => t \in c.given
    BY <2>2, <2>3, <2>4, SemMoves DEF HandsOut
  <2>6. a \in Elems(c.ts)
    BY <2>5 DEF InOrder
  <2> QED
    BY <2>5, <2>6
<1> QED
  BY <1>1, SemSafe, PTL DEF Spec, ServedInOrder

\* Under TA_FIRST the count does not fall while the first waiter goes on waiting,
\* unless a task of a higher priority takes units of a TA_TPRI semaphore.
THEOREM HeadHolds == Spec => HeadNotPassed
<1> DEFINE A == \A s \in SEMID :
                  LET q == wait_queue[Sem(s)]
                      r == wait_queue'[Sem(s)]
                  IN /\ semexs[s] /\ semexs'[s] /\ ~sematr[s].cnt /\ semcnt'[s] < semcnt[s]
                     /\ q # << >> /\ r # << >> /\ Head(q) = Head(r)
                     => sematr[s].tpri /\ itskpri[current] < itskpri[Head(q)]
<1>1. KernelInv /\ WaitInv /\ WaitInv' /\ SemInv /\ [Next]_vars => A
  <2> SUFFICES ASSUME KernelInv, WaitInv, WaitInv', SemInv, [Next]_vars, NEW s \in SEMID,
                      semexs[s], semexs'[s], ~sematr[s].cnt, semcnt'[s] < semcnt[s],
                      wait_queue[Sem(s)] # << >>, wait_queue'[Sem(s)] # << >>,
                      Head(wait_queue[Sem(s)]) = Head(wait_queue'[Sem(s)])
               PROVE  sematr[s].tpri /\ itskpri[current] < itskpri[Head(wait_queue[Sem(s)])]
    OBVIOUS
  <2> DEFINE q == wait_queue[Sem(s)]
             r == wait_queue'[Sem(s)]
             h == Head(q)
  <2>1. q \in Seq(TSKID) /\ Uniq(q) /\ r \in Seq(TSKID) /\ Uniq(r)
    BY Objects, ObjWaiters DEF WaitInv, WaitTypes, WaitQueuesConsistent, WaitersQueued
  <2>2. h \in Elems(q) /\ h \in Elems(r) /\ h \in TSKID
    <3>1. h \in Elems(q) /\ Head(r) \in Elems(r)
      BY <2>1, TailQueue
    <3> QED
      BY <2>1, <3>1, SmallQueues
  <2>3. semcnt[s] \in Nat /\ semcnt'[s] \in Nat
    BY DEF WaitInv, SemTypes
  <2>4. ~StaysPut(s) /\ ~Waits(s) /\ ~Closes(s)
    BY <2>3 DEF StaysPut, Waits, Closes
  <2>5. ASSUME HandsOut(s) PROVE FALSE
    <3>1. PICK b : /\ InOrder(b, s) /\ b.given \subseteq Elems(b.ts)
                   /\ Elems(r) = Elems(q) \ Elems(b.ts) /\ semcnt'[s] = b.units[s]
      BY <2>5 DEF HandsOut
    <3>2. PICK t \in Elems(q) : t \in b.given
      BY <2>3, <3>1 DEF InOrder
    <3>3. h \notin Elems(b.ts)
      BY <2>2, <3>1
    <3>4. t # h /\ t \in TSKID
      BY <2>1, <3>1, <3>2, <3>3, SmallQueues
    <3>5. Ahead(q, h, t)
      <4>1. PICK j \in 1..Len(q) : q[j] = t
        BY <3>2 DEF Elems
      <4>2. Len(q) \in Nat /\ q[1] = h
        BY <2>1
      <4>3. 1 \in 1..Len(q) /\ 1 < j
        BY <3>4, <4>1, <4>2
      <4> QED
        BY <4>1, <4>2, <4>3 DEF Ahead
    <3> QED
      BY <2>2, <3>1, <3>2, <3>3, <3>4, <3>5 DEF InOrder
  <2>6. PICK cnt \in Nat : MayTake(s, cnt)
    BY <2>4, <2>5, SemMoves DEF Takes
  <2> QED
    BY <2>6 DEF MayTake
<1> QED
  BY <1>1, SemSafe, PTL DEF Spec, HeadNotPassed

-----------------------------------------------------------------------------
(* The order of the messages. *)

\* The messages of a queue with TA_MPRI are in the order of their priorities.
ByMsgPri(q) == \A a, b \in Elems(q) : Ahead(q, a, b) => MsgPri[a] <= MsgPri[b]
OrderInv == \A m \in MBXID : mbxatr[m].mpri => ByMsgPri(mbx_queue[m])

\* The message queue q after tk_snd_mbx() of msg.
Sent(q, msg, byPri) == IF byPri THEN insert_msg_pri(q, msg) ELSE Append(q, msg)

\* insert_msg_pri() may look at the last message first: on a queue in order, one
\* that is not of a lower priority means that none is.
LEMMA SentOrder ==
  ASSUME NEW q \in Seq(Msg), Uniq(q), NEW msg \in Msg, msg \notin Elems(q), NEW byPri,
         byPri => ByMsgPri(q)
  PROVE  /\ \A a, b \in Elems(q) : Ahead(Sent(q, msg, byPri), a, b) <=> Ahead(q, a, b)
         /\ \A a \in Elems(q) :
              /\ Ahead(Sent(q, msg, byPri), msg, a) <=> byPri /\ MsgPri[msg] < MsgPri[a]
              /\ Ahead(Sent(q, msg, byPri), a, msg) <=> ~(byPri /\ MsgPri[msg] < MsgPri[a])
         /\ Elems(Sent(q, msg, byPri)) = Elems(q) \cup {msg}
<1>1. CASE ~byPri
  <2>1. Sent(q, msg, byPri) = Append(q, msg)
    BY <1>1 DEF Sent
  <2> QED
    BY <1>1, <2>1, AppendOrder, AppendQueue
<1>2. CASE byPri
  <2>0. \A x \in Msg : MsgPri[x] \in Int
    BY MailboxAssumption
  <2>1. \A a, b \in Elems(q) : Ahead(q, a, b) => MsgPri[a] <= MsgPri[b]
    BY <1>2 DEF ByMsgPri
  <2> DEFINE lower == {i \in 1..Len(q) : MsgPri[msg] < MsgPri[q[i]]}
  <2>2. ASSUME q # << >>, MsgPri[msg] >= MsgPri[q[Len(q)]] PROVE lower = {}
    <3>1. Len(q) \in 1..Len(q) /\ Len(q) \in Nat /\ \A i \in 1..Len(q) : q[i] \in Msg
      BY <2>2
    <3> SUFFICES ASSUME NEW i \in 1..Len(q) PROVE ~(MsgPri[msg] < MsgPri[q[i]])
      OBVIOUS
    <3>2. MsgPri[q[i]] <= MsgPri[q[Len(q)]]
      <4>1. CASE i = Len(q)
        BY <2>0, <3>1, <4>1
      <4>2. CASE i # Len(q)
        <5>1. i < Len(q)
          BY <3>1, <4>2
        <5>2. Ahead(q, q[i], q[Len(q)]) /\ q[i] \in Elems(q) /\ q[Len(q)] \in Elems(q)
          BY <3>1, <5>1 DEF Ahead, Elems
        <5> QED
          BY <2>1, <5>2
      <4> QED
        BY <4>1, <4>2
    <3>3. MsgPri[q[i]] \in Int /\ MsgPri[q[Len(q)]] \in Int /\ MsgPri[msg] \in Int
      BY <2>0, <3>1
    <3> QED
      BY <2>2, <3>2, <3>3
  <2>3. insert_msg_pri(q, msg) = Ranked(q, msg, MsgPri)
    BY <2>2 DEF insert_msg_pri, Ranked
  <2>4. /\ \A a, b \in Elems(q) : Ahead(Ranked(q, msg, MsgPri), a, b) <=> Ahead(q, a, b)
        /\ \A a \in Elems(q) :
             /\ Ahead(Ranked(q, msg, MsgPri), msg, a) <=> MsgPri[msg] < MsgPri[a]
             /\ Ahead(Ranked(q, msg, MsgPri), a, msg) <=> ~(MsgPri[msg] < MsgPri[a])
    BY <2>0, <2>1, RankedOrder
  <2>5. Elems(insert_msg_pri(q, msg)) = Elems(q) \cup {msg}
    BY InsertedMsg
  <2>6. Sent(q, msg, byPri) = insert_msg_pri(q, msg)
    BY <1>2 DEF Sent
  <2> QED
    BY <1>2, <2>3, <2>4, <2>5, <2>6
<1> QED
  BY <1>1, <1>2

\* What a step does to the queue of a mailbox: nothing, a message is sent to it,
\* its head is taken, or it begins or ends to exist.
Rests(m) == mbx_queue'[m] = mbx_queue[m] /\ mbxatr'[m] = mbxatr[m]
Gains(m) == \E msg \in Msg : /\ msg \notin Elems(mbx_queue[m]) /\ mbxatr'[m] = mbxatr[m]
                             /\ mbx_queue'[m] = Sent(mbx_queue[m], msg, mbxatr[m].mpri)
Loses(m) == /\ mbx_queue[m] # << >> /\ mbx_queue'[m] = Tail(mbx_queue[m])
            /\ mbxatr'[m] = mbxatr[m]
Resets(m) == mbx_queue'[m] = << >> /\ ~(mbxexs[m] /\ mbxexs'[m])

\* There is no other way for a message to come or go.
LEMMA MsgMoves ==
  ASSUME KernelInv, WaitInv, OutcomeInv, MailInv, [Next]_vars, NEW m \in MBXID
  PROVE  Rests(m) \/ Gains(m) \/ Loses(m) \/ Resets(m)
<1>0. /\ mbx_queue \in [MBXID -> Seq(Msg)] /\ mbxexs \in [MBXID -> BOOLEAN]
      /\ DOMAIN mbxatr = MBXID
  BY DEF WaitInv, MbxTypes
<1>1. CASE ~MailboxCall
  BY <1>1, OthersKeep DEF mbxVars, Rests
<1>2. ASSUME NEW atr, tk_cre_mbx(atr) PROVE Rests(m) \/ Resets(m)
  <2>1. CASE free_mbxcb = << >>
    BY <1>2, <2>1 DEF tk_cre_mbx, Rests
  <2>2. CASE free_mbxcb # << >>
    <3> DEFINE n == Head(free_mbxcb)
    <3>1. n \in Elems(free_mbxcb) /\ n \in MBXID
      BY <2>2, TailQueue DEF WaitInv, MbxTypes, WaitQueuesConsistent, MbxcbsLinked
    <3>2. ~mbxexs[n]
      BY <3>1 DEF WaitInv, WaitQueuesConsistent, MbxcbsLinked
    <3>3. /\ mbxatr' = [mbxatr EXCEPT ![n] = atr]
          /\ mbx_queue' = [mbx_queue EXCEPT ![n] = << >>]
      BY <1>2, <2>2 DEF tk_cre_mbx
    <3> HIDE DEF n
    <3> QED
      BY <1>0, <3>2, <3>3 DEF Rests, Resets
  <2> QED
    BY <2>1, <2>2
<1>3. ASSUME NEW mbxid \in MBXID, tk_del_mbx(mbxid) PROVE Rests(m) \/ Resets(m)
  <2>1. CASE ~mbxexs[mbxid]
    BY <1>3, <2>1 DEF tk_del_mbx, mbxVars, Rests
  <2>2. CASE mbxexs[mbxid]
    <3>1. /\ mbxatr' = [mbxatr EXCEPT ![mbxid] = NoMAtr]
          /\ mbx_queue' = [mbx_queue EXCEPT ![mbxid] = << >>]
          /\ mbxexs' = [mbxexs EXCEPT ![mbxid] = FALSE]
      BY <1>3, <2>2 DEF tk_del_mbx
    <3> QED
      BY <1>0, <3>1 DEF Rests, Resets
  <2> QED
    BY <2>1, <2>2
<1>4. ASSUME NEW mbxid \in MBXID, NEW msg \in Msg, tk_snd_mbx(mbxid, msg)
      PROVE  Rests(m) \/ Gains(m)
  <2>1. msg \in owned /\ UNCHANGED mbxatr
    BY <1>4 DEF tk_snd_mbx
  <2>2. msg \notin Elems(mbx_queue[mbxid])
    <3>1. /\ Mbx(mbxid) \in Holder /\ App \in Holder /\ Mbx(mbxid) # App
          /\ At(Mbx(mbxid)) = Elems(mbx_queue[mbxid]) /\ At(App) = owned \cap Msg
      BY Holders
    <3> QED
      BY <2>1, <3>1 DEF MailInv, OnePlace
  <2>3. \/ UNCHANGED mbx_queue
        \/ mbx_queue' = [mbx_queue EXCEPT
                           ![mbxid] = IF mbxatr[mbxid].mpri THEN insert_msg_pri(@, msg)
                                                            ELSE Append(@, msg)]
    BY <1>4 DEF tk_snd_mbx
  <2>4. CASE UNCHANGED mbx_queue
    BY <2>1, <2>4 DEF Rests
  <2>5. CASE mbx_queue' = [mbx_queue EXCEPT
                             ![mbxid] = IF mbxatr[mbxid].mpri THEN insert_msg_pri(@, msg)
                                                              ELSE Append(@, msg)]
    <3>1. /\ mbx_queue'[mbxid] = Sent(mbx_queue[mbxid], msg, mbxatr[mbxid].mpri)
          /\ m # mbxid => mbx_queue'[m] = mbx_queue[m]
      BY <1>0, <2>5 DEF Sent
    <3> QED
      BY <2>1, <2>2, <3>1 DEF Rests, Gains
  <2> QED
    BY <2>3, <2>4, <2>5
<1>5. ASSUME NEW mbxid \in MBXID, NEW tmout, tk_rcv_mbx(mbxid, tmout) PROVE Rests(m) \/ Loses(m)
  <2>1. /\ UNCHANGED mbxatr
        /\ \/ UNCHANGED mbx_queue
           \/ /\ mbx_queue[mbxid] # << >>
              /\ mbx_queue' = [mbx_queue EXCEPT ![mbxid] = Tail(@)]
    BY <1>5 DEF tk_rcv_mbx
  <2> QED
    BY <1>0, <2>1 DEF Rests, Loses
<1>6. ASSUME MbxReturn PROVE Rests(m)
  BY <1>6 DEF MbxReturn, Rests
<1> QED
  BY <1>1, <1>2, <1>3, <1>4, <1>5, <1>6 DEF MailboxCall

\* Messages that stay on a queue keep their order, and a new one comes ahead of
\* those of a lower priority, with TA_MPRI, and of no other.
LEMMA OrderKept ==
  ASSUME KernelInv, WaitInv, OutcomeInv, MailInv, OrderInv, [Next]_vars, NEW m \in MBXID,
         NEW a \in Elems(mbx_queue[m]) \cap Elems(mbx_queue'[m]),
         NEW b \in Elems(mbx_queue'[m]), a # b
  PROVE  /\ mbxatr'[m] = mbxatr[m] /\ b \in Msg
         /\ IF b \in Elems(mbx_queue[m])
            THEN /\ Ahead(mbx_queue'[m], b, a) <=> Ahead(mbx_queue[m], b, a)
                 /\ Ahead(mbx_queue'[m], a, b) <=> Ahead(mbx_queue[m], a, b)
            ELSE /\ Ahead(mbx_queue'[m], b, a) <=> mbxatr[m].mpri /\ MsgPri[b] < MsgPri[a]
                 /\ Ahead(mbx_queue'[m], a, b) <=> ~(mbxatr[m].mpri /\ MsgPri[b] < MsgPri[a])
<1> DEFINE q == mbx_queue[m]
           r == mbx_queue'[m]
<1>1. q \in Seq(Msg) /\ Uniq(q) /\ \A x \in Elems(q) : x \in Msg
  <2>1. q \in Seq(Msg) /\ Uniq(q)
    BY DEF WaitInv, MbxTypes, MailInv
  <2> QED
    BY <2>1 DEF Elems
<1>2. CASE Rests(m)
  BY <1>1, <1>2 DEF Rests
<1>3. CASE Gains(m)
  <2>1. PICK msg \in Msg : msg \notin Elems(q) /\ r = Sent(q, msg, mbxatr[m].mpri)
    BY <1>3 DEF Gains
  <2>2. mbxatr'[m] = mbxatr[m]
    BY <1>3 DEF Gains
  <2>3. mbxatr[m].mpri => ByMsgPri(q)
    BY DEF OrderInv
  <2> HIDE DEF q, r
  <2>4. /\ \A c, d \in Elems(q) : Ahead(r, c, d) <=> Ahead(q, c, d)
        /\ \A c \in Elems(q) :
             /\ Ahead(r, msg, c) <=> mbxatr[m].mpri /\ MsgPri[msg] < MsgPri[c]
             /\ Ahead(r, c, msg) <=> ~(mbxatr[m].mpri /\ MsgPri[msg] < MsgPri[c])
        /\ Elems(r) = Elems(q) \cup {msg}
    BY <1>1, <2>1, <2>3, SentOrder
  <2>5. a \in Elems(q) /\ b \in Elems(r)
    BY DEF q, r
  <2> QED
    BY <1>1, <2>2, <2>4, <2>5 DEF q, r
<1>4. CASE Loses(m)
  <2>1. q # << >> /\ r = Tail(q) /\ mbxatr'[m] = mbxatr[m]
    BY <1>4 DEF Loses
  <2>2. a \in Elems(Tail(q)) /\ b \in Elems(Tail(q))
    BY <2>1
  <2> HIDE DEF q
  <2>3. b \in Elems(q)
    BY <1>1, <2>1, <2>2, TailQueue
  <2>4. /\ Ahead(Tail(q), a, b) <=> Ahead(q, a, b)
        /\ Ahead(Tail(q), b, a) <=> Ahead(q, b, a)
    BY <1>1, <2>1, <2>2, TailOrder
  <2> QED
    BY <1>1, <2>1, <2>3, <2>4 DEF q
<1>5. CASE Resets(m)
  <2>1. a \in Elems(<< >>)
    BY <1>5 DEF Resets
  <2> QED
    BY <2>1, SmallQueues
<1> QED
  BY <1>2, <1>3, <1>4, <1>5, MsgMoves

\* The queues with TA_MPRI stay in the order of the priorities.
LEMMA OrderSafe == Spec => []OrderInv
<1>1. Init => OrderInv
  <2> SUFFICES ASSUME Init PROVE OrderInv
    OBVIOUS
  <2>1. \A m \in MBXID : Elems(mbx_queue[m]) = {}
    BY SmallQueues DEF Init, tkmc_init_mbxcb
  <2> QED
    BY <2>1 DEF OrderInv, ByMsgPri
<1>2. KernelInv /\ WaitInv /\ OutcomeInv /\ MailInv /\ MailInv' /\ WaitInv' /\ OrderInv /\ [Next]_vars
        => OrderInv'
  <2> SUFFICES ASSUME KernelInv, WaitInv, OutcomeInv, MailInv, MailInv', WaitInv', OrderInv,
                      [Next]_vars, NEW m \in MBXID, mbxatr'[m].mpri,
                      NEW a \in Elems(mbx_queue'[m]), NEW b \in Elems(mbx_queue'[m]),
                      Ahead(mbx_queue'[m], a, b)
               PROVE  MsgPri[a] <= MsgPri[b]
    BY DEF OrderInv, ByMsgPri
  <2> DEFINE q == mbx_queue[m]
             r == mbx_queue'[m]
  <2>0. q \in Seq(Msg) /\ Uniq(q) /\ r \in Seq(Msg) /\ Uniq(r)
    BY DEF WaitInv, MbxTypes, MailInv
  <2>1. a # b /\ a \in Msg /\ b \in Msg
    BY <2>0 DEF Ahead, Uniq, Elems
  <2>2. MsgPri[a] \in Int /\ MsgPri[b] \in Int
    BY <2>1, MailboxAssumption
  <2>3. mbxatr[m].mpri => \A c, d \in Elems(q) : Ahead(q, c, d) => MsgPri[c] <= MsgPri[d]
    BY DEF OrderInv, ByMsgPri
  <2>4. CASE a \in Elems(q)
    <3>1. /\ mbxatr'[m] = mbxatr[m]
          /\ IF b \in Elems(q) THEN Ahead(q, a, b)
             ELSE ~(mbxatr[m].mpri /\ MsgPri[b] < MsgPri[a])
      BY <2>1, <2>4, OrderKept
    <3> HIDE DEF q, r
    <3> QED
      BY <2>2, <2>3, <2>4, <3>1
  <2>5. CASE a \notin Elems(q) /\ b \in Elems(q)
    <3>1. MsgPri[a] < MsgPri[b]
      BY <2>1, <2>5, OrderKept
    <3> QED
      BY <2>2, <3>1
  <2>6. CASE a \notin Elems(q) /\ b \notin Elems(q)
    <3>1. ASSUME Gains(m) PROVE FALSE
      <4>1. PICK msg \in Msg : msg \notin Elems(q) /\ r = Sent(q, msg, mbxatr[m].mpri)
        BY <3>1 DEF Gains
      <4>2. Elems(r) = Elems(q) \cup {msg}
        <5>1. mbxatr[m].mpri => ByMsgPri(q)
          BY DEF OrderInv
        <5> HIDE DEF q, r
        <5> QED
          BY <2>0, <4>1, <5>1, SentOrder
      <4> QED
        BY <2>1, <2>6, <4>2
    <3>2. ~Rests(m)
      BY <2>6 DEF Rests
    <3>3. ASSUME Loses(m) PROVE FALSE
      <4>1. q # << >> /\ r = Tail(q)
        BY <3>3 DEF Loses
      <4>2. Elems(r) \subseteq Elems(q)
        BY <2>0, <4>1, TailQueue
      <4> QED
        BY <2>6, <4>2
    <3>4. ASSUME Resets(m) PROVE FALSE
      BY <3>4, SmallQueues DEF Resets
    <3> QED
      BY <3>1, <3>2, <3>3, <3>4, MsgMoves
  <2> QED
    BY <2>4, <2>5, <2>6
<1> QED
  BY <1>1, <1>2, OutcomeSafe, MailSafe, PTL DEF Spec

\* A step that makes waiting tasks ready moves no task in its own code.
LEMMA ReadyOrMoves ==
  ASSUME KernelInv, [Next]_vars
  PROVE  UNCHANGED pc \/ \A t \in TSKID : tskstat[t] = "WAI" => tskstat'[t] # "RDY"
<1> DEFINE Stay == \A t \in TSKID : tskstat[t] = "WAI" => tskstat'[t] # "RDY"
           Either == UNCHANGED pc \/ Stay
<1>0. tskstat \in [TSKID -> TskStat] /\ current \in TSKID
  BY DEF KernelInv, TaskTypes, TcbTypes, CpuTypes
<1>1. ASSUME UNCHANGED taskVars \/ UNCHANGED tcbVars \/ UNCHANGED tskstat PROVE Either
  BY <1>1 DEF taskVars, tcbVars
<1>2. ASSUME NEW k, NEW tks, NEW lft, BeginWait(k, tks, lft) PROVE Either
  BY <1>0, <1>2 DEF BeginWait
<1>3. ASSUME NEW tks, NEW k, tkmc_schedule_timer(tks, k) PROVE Either
  BY <1>2, <1>3 DEF tkmc_schedule_timer
<1>4. ASSUME schedule PROVE Either
  BY <1>0, <1>4 DEF schedule
<1> HIDE DEF Either
<1>5. ASSUME TaskCall PROVE Either
  <2>1. ASSUME NEW pri, tk_cre_tsk(pri) PROVE Either
    BY <1>1, <2>1 DEF tk_cre_tsk, Either
  <2>2. ASSUME NEW t \in TSKID, tk_sta_tsk(t) PROVE Either
    BY <1>1, <2>2 DEF tk_sta_tsk, Either
  <2>3. ASSUME NEW t, tk_wup_tsk(t) PROVE Either
    BY <1>1, <2>3 DEF tk_wup_tsk, Either
  <2>4. ASSUME tk_ext_tsk \/ tk_exd_tsk PROVE Either
    BY <1>0, <1>1, <2>4 DEF tk_ext_tsk, tk_exd_tsk, tkmc_fatal_context, Either
  <2> QED
    BY <1>5, <2>1, <2>2, <2>3, <2>4 DEF TaskCall
<1>6. ASSUME TimerCall PROVE Either
  <2>1. ASSUME NEW tmout, tk_slp_tsk(tmout) PROVE Either
    BY <1>1, <1>2, <1>3, <2>1 DEF tk_slp_tsk
  <2>2. ASSUME NEW dlytm, tk_dly_tsk(dlytm) PROVE Either
    BY <1>1, <1>3, <2>2 DEF tk_dly_tsk, tkmc_yield
  <2>3. ASSUME NEW k, WaitReturn(k) PROVE Either
    BY <1>1, <2>3 DEF WaitReturn
  <2> QED
    BY <1>6, <2>1, <2>2, <2>3 DEF TimerCall
<1>7. ASSUME SemaphoreCall PROVE Either
  <2>1. ASSUME NEW t, tk_rel_wai(t) PROVE Either
    BY <1>1, <2>1 DEF tk_rel_wai, Either
  <2>2. ASSUME NEW atr, NEW isemcnt, NEW max, tk_cre_sem(atr, isemcnt, max) PROVE Either
    BY <1>1, <2>2 DEF tk_cre_sem
  <2>3. ASSUME NEW s, tk_del_sem(s) PROVE Either
    BY <1>1, <2>3 DEF tk_del_sem, Either
  <2>4. ASSUME NEW s, NEW cnt, NEW tmout, tk_wai_sem(s, cnt, tmout) PROVE Either
    BY <1>1, <1>2, <1>3, <2>4 DEF tk_wai_sem
  <2>5. ASSUME NEW s, NEW cnt, tk_sig_sem(s, cnt) PROVE Either
    BY <1>1, <2>5 DEF tk_sig_sem, Either
  <2>6. ASSUME SemReturn PROVE Either
    BY <1>1, <2>6 DEF SemReturn, WaitReturn
  <2> QED
    BY <1>7, <2>1, <2>2, <2>3, <2>4, <2>5, <2>6 DEF SemaphoreCall
<1>8. ASSUME FlagCall PROVE Either
  <2>1. ASSUME NEW atr, NEW ptn, tk_cre_flg(atr, ptn) PROVE Either
    BY <1>1, <2>1 DEF tk_cre_flg
  <2>2. ASSUME NEW f, NEW ptn, NEW mode, NEW tmout, tk_wai_flg(f, ptn, mode, tmout) PROVE Either
    BY <1>1, <1>2, <1>3, <2>2 DEF tk_wai_flg
  <2>3. ASSUME NEW f, NEW ptn, tk_set_flg(f, ptn) PROVE Either
    BY <1>1, <2>3 DEF tk_set_flg, Either
  <2>4. ASSUME NEW f, NEW ptn, tk_clr_flg(f, ptn) PROVE Either
    BY <1>1, <2>4 DEF tk_clr_flg
  <2>5. ASSUME FlgReturn PROVE Either
    BY <1>1, <2>5 DEF FlgReturn, WaitReturn
  <2> QED
    BY <1>8, <2>1, <2>2, <2>3, <2>4, <2>5 DEF FlagCall
<1>9. ASSUME MailboxCall PROVE Either
  <2>1. ASSUME NEW atr, tk_cre_mbx(atr) PROVE Either
    BY <1>1, <2>1 DEF tk_cre_mbx
  <2>2. ASSUME NEW m, tk_del_mbx(m) PROVE Either
    BY <1>1, <2>2 DEF tk_del_mbx, Either
  <2>3. ASSUME NEW m, NEW msg, tk_snd_mbx(m, msg) PROVE Either
    BY <1>1, <2>3 DEF tk_snd_mbx, Either
  <2>4. ASSUME NEW m, NEW tmout, tk_rcv_mbx(m, tmout) PROVE Either
    BY <1>1, <1>2, <1>3, <2>4 DEF tk_rcv_mbx
  <2>5. ASSUME MbxReturn PROVE Either
    BY <1>1, <2>5 DEF MbxReturn
  <2> QED
    BY <1>9, <2>1, <2>2, <2>3, <2>4, <2>5 DEF MailboxCall
<1>10. ASSUME Trap PROVE Either
  <2>1. ASSUME timer_interrupt PROVE Either
    BY <2>1 DEF timer_interrupt, Either
  <2>2. ASSUME mtrap_handler \/ external_interrupt \/ TrapExit PROVE Either
    BY <1>1, <1>4, <2>2 DEF mtrap_handler, external_interrupt, TrapExit
  <2> QED
    BY <1>10, <2>1, <2>2 DEF Trap
<1>11. ASSUME Idle \/ TaskDI \/ TaskEI \/ ExitReturns \/ ClockTick \/ UNCHANGED vars PROVE Either
  BY <1>1, <1>11 DEF Idle, IdleCheck, IdleWfi, IdleEI, IdleYield, tkmc_yield, TaskDI, TaskEI,
                     SetMie, ExitReturns, ClockTick, TickEdge, vars
<1> QED
  BY <1>5, <1>6, <1>7, <1>8, <1>9, <1>10, <1>11 DEF Next, Stopped, Either

\* The wait of a receiver ends with E_OK only when tk_snd_mbx() gives it a message,
\* and that goes to the first receiver.
LEMMA FirstReceives ==
  ASSUME KernelInv, WaitInv, OutcomeInv, MailInv, MailInv', [Next]_vars, NEW m \in MBXID,
         NEW b \in TSKID, Served(Mbx(m), b)
  PROVE  b = Head(wait_queue[Mbx(m)])
<1>1. /\ tskstat[b] = "WAI" /\ tskwait[b] = "MBX" /\ winfo[b].obj = Mbx(m)
      /\ tskstat'[b] = "RDY" /\ wupcause'[b] = "E_OK"
  BY Objects, ObjWaitKind DEF Served
<1>2. pc[b] = "MBX" /\ pc'[b] = "MBX"
  BY <1>1, ReadyOrMoves DEF OutcomeInv, StandInv, Stands
<1>3. ~Ended(b, "MBX") /\ Ended(b, "MBX")'
  BY <1>1, <1>2 DEF Ended
<1>4. mbxmsg[b] = NULL /\ mbxmsg'[b] # NULL
  BY <1>3 DEF MailInv
<1>5. mbxmsg \in [TSKID -> Msg \cup {NULL}]
  BY DEF WaitInv, MbxTypes
<1>6. MailboxCall
  BY <1>3, OthersKeep DEF Keeps
<1>7. \E mbxid \in MBXID, msg \in Msg : tk_snd_mbx(mbxid, msg)
  <2>1. ASSUME NEW atr, tk_cre_mbx(atr) PROVE FALSE
    BY <1>4, <2>1 DEF tk_cre_mbx
  <2>2. ASSUME NEW mbxid, tk_del_mbx(mbxid) PROVE FALSE
    BY <1>4, <2>2 DEF tk_del_mbx, mbxVars
  <2>3. ASSUME NEW mbxid, NEW tmout, tk_rcv_mbx(mbxid, tmout) PROVE FALSE
    BY <1>4, <1>5, <2>3 DEF tk_rcv_mbx
  <2>4. ASSUME MbxReturn PROVE FALSE
    BY <1>4, <1>5, <2>4 DEF MbxReturn
  <2> QED
    BY <1>6, <2>1, <2>2, <2>3, <2>4 DEF MailboxCall
<1>8. PICK mbxid \in MBXID, msg \in Msg : tk_snd_mbx(mbxid, msg)
  BY <1>7
<1> DEFINE t == pop_waiting_receiver(mbxid)
           q == wait_queue[Mbx(mbxid)]
<1>9. t # NULL /\ mbxmsg' = [mbxmsg EXCEPT ![t] = msg]
  BY <1>4, <1>8 DEF tk_snd_mbx
<1>10. b = t /\ q # << >> /\ t = Head(q)
  BY <1>4, <1>5, <1>9 DEF pop_waiting_receiver
<1>11. q \in Seq(TSKID) /\ Uniq(q) /\ Mbx(mbxid) \in Obj
  BY Objects, ObjWaiters
<1>12. b \in Elems(q)
  BY <1>10, <1>11, TailQueue
<1>13. winfo[b].obj = Mbx(mbxid)
  BY <1>11, <1>12, ObjWaitKind
<1> QED
  BY <1>1, <1>10, <1>13

\* Messages keep their order: whoever sends and receives, a message comes ahead of
\* a queued one only at a mailbox with TA_MPRI and with a higher priority, the head
\* of the queue is what is taken, and the first receiver is the one that is served.
THEOREM MessageOrderHolds == Spec => MessagesKeepOrder
<1> DEFINE A == /\ \A m \in MBXID : mbxexs[m] /\ mbxexs'[m] =>
                     LET q == mbx_queue[m]
                         r == mbx_queue'[m]
                     IN /\ KeepsPlaces(q, r, LAMBDA b, a : mbxatr[m].mpri /\ MsgPri[b] < MsgPri[a])
                        /\ \/ Elems(q) \subseteq Elems(r)
                           \/ r = Tail(q)
                /\ \A m \in MBXID, b \in TSKID :
                     Served(Mbx(m), b) => b = Head(wait_queue[Mbx(m)])
<1>1. KernelInv /\ WaitInv /\ OutcomeInv /\ MailInv /\ MailInv' /\ OrderInv /\ [Next]_vars => A
  <2> SUFFICES ASSUME KernelInv, WaitInv, OutcomeInv, MailInv, MailInv', OrderInv, [Next]_vars
               PROVE  A
    OBVIOUS
  <2>1. ASSUME NEW m \in MBXID
        PROVE  KeepsPlaces(mbx_queue[m], mbx_queue'[m],
                           LAMBDA b, a : mbxatr[m].mpri /\ MsgPri[b] < MsgPri[a])
    <3> SUFFICES ASSUME NEW a \in Elems(mbx_queue[m]) \cap Elems(mbx_queue'[m]),
                        NEW b \in Elems(mbx_queue'[m]), a # b
                 PROVE  Ahead(mbx_queue'[m], b, a) <=>
                          IF b \in Elems(mbx_queue[m]) THEN Ahead(mbx_queue[m], b, a)
                          ELSE mbxatr[m].mpri /\ MsgPri[b] < MsgPri[a]
      BY DEF KeepsPlaces
    <3> QED
      BY OrderKept
  <2>2. ASSUME NEW m \in MBXID, mbxexs[m], mbxexs'[m]
        PROVE  Elems(mbx_queue[m]) \subseteq Elems(mbx_queue'[m]) \/ mbx_queue'[m] = Tail(mbx_queue[m])
    <3>1. CASE Gains(m)
      <4>1. PICK msg \in Msg : /\ msg \notin Elems(mbx_queue[m])
                               /\ mbx_queue'[m] = Sent(mbx_queue[m], msg, mbxatr[m].mpri)
        BY <3>1 DEF Gains
      <4>2. /\ mbx_queue[m] \in Seq(Msg) /\ Uniq(mbx_queue[m])
            /\ mbxatr[m].mpri => ByMsgPri(mbx_queue[m])
        BY DEF WaitInv, MbxTypes, MailInv, OrderInv
      <4> QED
        BY <4>1, <4>2, SentOrder
    <3>2. CASE Rests(m) \/ Loses(m)
      BY <3>2 DEF Rests, Loses
    <3> QED
      BY <2>2, <3>1, <3>2, MsgMoves DEF Resets
  <2>3. \A m \in MBXID, b \in TSKID : Served(Mbx(m), b) => b = Head(wait_queue[Mbx(m)])
    BY FirstReceives
  <2> QED
    BY <2>1, <2>2, <2>3
<1> QED
  BY <1>1, OutcomeSafe, MailSafe, OrderSafe, PTL DEF Spec, MessagesKeepOrder

-----------------------------------------------------------------------------
(* The ready queues. *)

\* What a step does to the ready queues: tasks come in at the tail, the current
\* task leaves, or it goes to the tail of its own queue.
Readies == \E ts \in Seq(TSKID) : ready_queue' = Enqueued(ts)
Yields == /\ current' = current
          /\ ready_queue' = [ready_queue EXCEPT
                               ![itskpri[current]] = Append(Without(@, {current}), current)]

\* There is no other way for a ready task to come, to go or to move.
LEMMA ReadyMoves ==
  ASSUME KernelInv, WaitInv, [Next]_vars
  PROVE  UNCHANGED ready_queue \/ Readies \/ ready_queue' = Dequeued(current) \/ Yields
<1> DEFINE Leaves == ready_queue' = Dequeued(current)
           Moved == UNCHANGED ready_queue \/ Readies \/ Leaves \/ Yields
<1>1. ASSUME UNCHANGED taskVars \/ UNCHANGED queueVars \/ UNCHANGED ready_queue PROVE Moved
  BY <1>1 DEF taskVars, queueVars
<1>2. ASSUME NEW k, NEW tks, NEW lft, BeginWait(k, tks, lft) PROVE Moved
  BY <1>2 DEF BeginWait
<1>3. ASSUME NEW tks, NEW k, tkmc_schedule_timer(tks, k) PROVE Moved
  BY <1>2, <1>3 DEF tkmc_schedule_timer
<1>4. ASSUME NEW ts \in Seq(TSKID), NEW cause, NEW elapsed, CompleteWaits(ts, cause, elapsed)
      PROVE  Moved
  BY <1>4 DEF CompleteWaits, Readies
<1>5. ASSUME NEW b \in Ends, NEW ercd, NEW elapsed, EndWaits(b, ercd, elapsed) PROVE Moved
  <2>1. b.ts \in Seq(TSKID)
    BY DEF Ends
  <2> QED
    BY <1>4, <1>5, <2>1 DEF EndWaits
<1>6. ASSUME NEW pcAfter, tkmc_yield(pcAfter) PROVE Moved
  BY <1>6 DEF tkmc_yield, Yields
<1>7. \A t \in TSKID : <<t>> \in Seq(TSKID)
  OBVIOUS
<1> HIDE DEF Moved
<1>8. ASSUME TaskCall PROVE Moved
  <2>1. ASSUME NEW pri, tk_cre_tsk(pri) PROVE Moved
    BY <1>1, <2>1 DEF tk_cre_tsk
  <2>2. ASSUME NEW t \in TSKID, tk_sta_tsk(t) PROVE Moved
    <3>1. UNCHANGED taskVars \/ ready_queue' = Enqueued(<<t>>)
      BY <2>2 DEF tk_sta_tsk
    <3> QED
      BY <1>1, <1>7, <3>1 DEF Moved, Readies
  <2>3. ASSUME NEW t \in TSKID, tk_wup_tsk(t) PROVE Moved
    <3>1. \/ UNCHANGED taskVars \/ UNCHANGED queueVars
          \/ CompleteWaits(<<t>>, AllCause("E_OK"), 0)
      BY <2>3 DEF tk_wup_tsk
    <3> QED
      BY <1>1, <1>4, <1>7, <3>1
  <2>4. ASSUME tk_ext_tsk \/ tk_exd_tsk PROVE Moved
    <3>1. UNCHANGED queueVars \/ Leaves
      BY <2>4 DEF tk_ext_tsk, tk_exd_tsk, tkmc_fatal_context
    <3> QED
      BY <1>1, <3>1 DEF Moved
  <2> QED
    BY <1>8, <2>1, <2>2, <2>3, <2>4 DEF TaskCall
<1>9. ASSUME TimerCall PROVE Moved
  <2>1. ASSUME NEW tmout, tk_slp_tsk(tmout) PROVE Moved
    BY <1>1, <1>2, <1>3, <2>1 DEF tk_slp_tsk
  <2>2. ASSUME NEW dlytm, tk_dly_tsk(dlytm) PROVE Moved
    BY <1>1, <1>3, <1>6, <2>2 DEF tk_dly_tsk
  <2>3. ASSUME NEW k, WaitReturn(k) PROVE Moved
    BY <1>1, <2>3 DEF WaitReturn
  <2> QED
    BY <1>9, <2>1, <2>2, <2>3 DEF TimerCall
<1>10. ASSUME SemaphoreCall PROVE Moved
  <2>1. ASSUME NEW t \in TSKID, tk_rel_wai(t) PROVE Moved
    <3>1. CASE RelWaiRefused(t)
      BY <1>1, <2>1, <3>1 DEF tk_rel_wai
    <3>2. CASE ~RelWaiRefused(t)
      <4>1. Leave(NoneLeft, t) \in Ends
        BY <3>2, NoneLeftEnds, LeaveProperties DEF RelWaiRefused
      <4>2. EndWaits(Leave(NoneLeft, t), "E_RLWAI", 0)
        BY <2>1, <3>2 DEF tk_rel_wai
      <4> QED
        BY <1>5, <4>1, <4>2
    <3> QED
      BY <3>1, <3>2
  <2>2. ASSUME NEW atr, NEW isemcnt, NEW max, tk_cre_sem(atr, isemcnt, max) PROVE Moved
    BY <1>1, <2>2 DEF tk_cre_sem
  <2>3. ASSUME NEW s \in SEMID, tk_del_sem(s) PROVE Moved
    <3>1. wait_queue[Sem(s)] \in Seq(TSKID)
      BY Objects, ObjWaiters
    <3>2. UNCHANGED taskVars \/ CompleteWaits(wait_queue[Sem(s)], AllCause("E_DLT"), 0)
      BY <2>3 DEF tk_del_sem, Released
    <3> QED
      BY <1>1, <1>4, <3>1, <3>2
  <2>4. ASSUME NEW s, NEW cnt, NEW tmout, tk_wai_sem(s, cnt, tmout) PROVE Moved
    BY <1>1, <1>2, <1>3, <2>4 DEF tk_wai_sem
  <2>5. ASSUME NEW s \in SEMID, NEW cnt \in SemCnt, tk_sig_sem(s, cnt) PROVE Moved
    <3>1. CASE cnt <= 0 \/ ~semexs[s] \/ ~SigRoom(s, cnt)
      BY <1>1, <2>5, <3>1 DEF tk_sig_sem
    <3>2. CASE ~(cnt <= 0 \/ ~semexs[s] \/ ~SigRoom(s, cnt))
      <4> DEFINE q == wait_queue[Sem(s)]
                 u == semcnt[s] + cnt
                 ts == Serve(s, q, u).served
      <4>1. u \in Nat /\ \A t \in TSKID : winfo[t].req \in Nat
        BY <3>2, SemaphoreAssumption DEF WaitInv, WaitTypes, SemTypes
      <4>2. q \in Seq(TSKID) /\ Uniq(q)
        BY Objects, ObjWaiters
      <4>3. CompleteWaits(ts, AllCause("E_OK"), 0)
        BY <2>5, <3>2 DEF tk_sig_sem
      <4> HIDE DEF q, u
      <4>4. ts \in Seq(TSKID)
        BY <4>1, <4>2, ServeProperties
      <4> HIDE DEF ts
      <4> QED
        BY <1>4, <4>3, <4>4
    <3> QED
      BY <3>1, <3>2
  <2>6. ASSUME SemReturn PROVE Moved
    BY <1>1, <2>6 DEF SemReturn, WaitReturn
  <2> QED
    BY <1>10, <2>1, <2>2, <2>3, <2>4, <2>5, <2>6 DEF SemaphoreCall
<1>11. ASSUME FlagCall PROVE Moved
  <2>1. ASSUME NEW atr, NEW ptn, tk_cre_flg(atr, ptn) PROVE Moved
    BY <1>1, <2>1 DEF tk_cre_flg
  <2>2. ASSUME NEW f, NEW ptn, NEW mode, NEW tmout, tk_wai_flg(f, ptn, mode, tmout) PROVE Moved
    BY <1>1, <1>2, <1>3, <2>2 DEF tk_wai_flg
  <2>3. ASSUME NEW f \in FLGID, NEW setptn \in FlgPtn, tk_set_flg(f, setptn) PROVE Moved
    <3>1. CASE ~flgexs[f]
      BY <1>1, <2>3, <3>1 DEF tk_set_flg
    <3>2. CASE flgexs[f]
      <4> DEFINE q == wait_queue[Flg(f)]
                 ptn == flgptn[f] \cup setptn
                 ts == SetWalk(q, ptn).served
      <4>1. q \in Seq(TSKID) /\ Uniq(q)
        BY Objects, ObjWaiters
      <4>2. ptn \in SUBSET Bit
        BY EventFlagAssumption DEF WaitInv, FlgTypes
      <4>3. CompleteWaits(ts, AllCause("E_OK"), 0)
        BY <2>3, <3>2 DEF tk_set_flg
      <4> HIDE DEF q, ptn
      <4>4. ts \in Seq(TSKID)
        BY <4>1, <4>2, SetWalkProperties
      <4> HIDE DEF ts
      <4> QED
        BY <1>4, <4>3, <4>4
    <3> QED
      BY <3>1, <3>2
  <2>4. ASSUME NEW f, NEW ptn, tk_clr_flg(f, ptn) PROVE Moved
    BY <1>1, <2>4 DEF tk_clr_flg
  <2>5. ASSUME FlgReturn PROVE Moved
    BY <1>1, <2>5 DEF FlgReturn, WaitReturn
  <2> QED
    BY <1>11, <2>1, <2>2, <2>3, <2>4, <2>5 DEF FlagCall
<1>12. ASSUME MailboxCall PROVE Moved
  <2>1. ASSUME NEW atr, tk_cre_mbx(atr) PROVE Moved
    BY <1>1, <2>1 DEF tk_cre_mbx
  <2>2. ASSUME NEW m \in MBXID, tk_del_mbx(m) PROVE Moved
    <3>1. wait_queue[Mbx(m)] \in Seq(TSKID)
      BY Objects, ObjWaiters
    <3>2. UNCHANGED taskVars \/ CompleteWaits(wait_queue[Mbx(m)], AllCause("E_DLT"), 0)
      BY <2>2 DEF tk_del_mbx
    <3> QED
      BY <1>1, <1>4, <3>1, <3>2
  <2>3. ASSUME NEW m \in MBXID, NEW msg, tk_snd_mbx(m, msg) PROVE Moved
    <3> DEFINE t == pop_waiting_receiver(m)
    <3>1. \/ UNCHANGED taskVars
          \/ t # NULL /\ CompleteWaits(<<t>>, AllCause("E_OK"), 0)
      BY <2>3 DEF tk_snd_mbx
    <3>2. t # NULL => t \in TSKID
      BY PoppedWaits
    <3> HIDE DEF t
    <3> QED
      BY <1>1, <1>4, <1>7, <3>1, <3>2
  <2>4. ASSUME NEW m, NEW tmout, tk_rcv_mbx(m, tmout) PROVE Moved
    BY <1>1, <1>2, <1>3, <2>4 DEF tk_rcv_mbx
  <2>5. ASSUME MbxReturn PROVE Moved
    BY <1>1, <2>5 DEF MbxReturn
  <2> QED
    BY <1>12, <2>1, <2>2, <2>3, <2>4, <2>5 DEF MailboxCall
<1>13. ASSUME Trap PROVE Moved
  <2>1. ASSUME timer_interrupt PROVE Moved
    <3>1. edges \in Nat
      BY EdgesNat DEF KernelInv
    <3>2. TimedOut(edges) \in Ends
      BY <3>1, TimedOutProperties
    <3>3. EndWaits(TimedOut(edges), "E_TMOUT", edges)
      BY <2>1 DEF timer_interrupt
    <3> QED
      BY <1>5, <3>2, <3>3
  <2>2. ASSUME mtrap_handler \/ external_interrupt \/ TrapExit PROVE Moved
    BY <1>1, <2>2 DEF mtrap_handler, external_interrupt, TrapExit
  <2> QED
    BY <1>13, <2>1, <2>2 DEF Trap
<1>14. ASSUME Idle \/ TaskDI \/ TaskEI \/ ExitReturns \/ ClockTick \/ UNCHANGED vars PROVE Moved
  BY <1>1, <1>6, <1>14 DEF Idle, IdleCheck, IdleWfi, IdleEI, IdleYield, TaskDI, TaskEI,
                           SetMie, ExitReturns, ClockTick, TickEdge, vars
<1> QED
  BY <1>8, <1>9, <1>10, <1>11, <1>12, <1>13, <1>14 DEF Next, Stopped, Moved

\* Tasks of one priority take turns: whatever the step, a ready task comes ahead of
\* no other that was ahead of it, and only a task that yields goes behind.
THEOREM FifoHolds == Spec => FifoWithinPriority
<1> DEFINE Fifo(p) ==
             LET q == ready_queue[p]
                 r == ready_queue'[p]
             IN \A a \in Elems(q) \cap Elems(r), b \in Elems(r) :
                  \/ Ahead(r, a, b) \/ a = b \/ Ahead(q, b, a)
                  \/ a = current /\ current' = current /\ r[Len(r)] = a
<1>1. KernelInv /\ WaitInv /\ [Next]_vars => \A p \in Pri : Fifo(p)
  <2> SUFFICES ASSUME KernelInv, WaitInv, [Next]_vars, NEW p \in Pri,
                      NEW a \in Elems(ready_queue[p]) \cap Elems(ready_queue'[p]),
                      NEW b \in Elems(ready_queue'[p])
               PROVE  \/ Ahead(ready_queue'[p], a, b) \/ a = b \/ Ahead(ready_queue[p], b, a)
                      \/ /\ a = current /\ current' = current
                         /\ ready_queue'[p][Len(ready_queue'[p])] = a
    OBVIOUS
  <2> DEFINE q == ready_queue[p]
             r == ready_queue'[p]
             w == Without(q, {current})
             Goal == \/ Ahead(r, a, b) \/ a = b \/ Ahead(q, b, a)
                     \/ a = current /\ current' = current /\ r[Len(r)] = a
  <2>1. q \in Seq(TSKID) /\ Uniq(q) /\ ready_queue \in [Pri -> Seq(TSKID)] /\ current \in TSKID
    BY DEF KernelInv, TaskTypes, QueueTypes, CpuTypes, QueuesConsistent
  <2>2. w \in Seq(TSKID) /\ Uniq(w) /\ Elems(w) = Elems(q) \ {current}
    <3> HIDE DEF q
    <3> QED
      BY <2>1, WithoutProperties
  <2>3. a \in Elems(q) /\ b \in Elems(r) /\ a \in Elems(r)
    OBVIOUS
  <2>4. b \in Elems(q) /\ a # b => Ahead(q, a, b) \/ Ahead(q, b, a)
    <3> HIDE DEF q
    <3> QED
      BY <2>1, <2>3, OneAhead
  <2>5. b \in Elems(q) /\ a # current /\ b # current /\ Ahead(q, a, b) => Ahead(w, a, b)
    <3> HIDE DEF q
    <3> QED
      BY <2>1, <2>3, KeepOrder DEF Without
  <2>6. ASSUME UNCHANGED ready_queue PROVE Goal
    BY <2>3, <2>4, <2>6
  <2>7. ASSUME Readies PROVE Goal
    <3>1. PICK ts \in Seq(TSKID) : ready_queue' = Enqueued(ts)
      BY <2>7 DEF Readies
    <3> DEFINE s == Keep(ts, {t \in TSKID : itskpri[t] = p})
    <3>2. s \in Seq(TSKID)
      BY KeepProperties
    <3>3. r = q \o s
      BY <3>1 DEF Enqueued
    <3> HIDE DEF q, r, s
    <3>4. /\ \A c, d \in Elems(q) : Ahead(q, c, d) => Ahead(r, c, d)
          /\ \A c \in Elems(q), d \in Elems(s) : Ahead(r, c, d)
          /\ Elems(r) = Elems(q) \cup Elems(s)
      BY <2>1, <3>2, <3>3, JoinOrder, JoinProperties
    <3> QED
      BY <2>3, <2>4, <3>4
  <2>8. ASSUME ready_queue' = Dequeued(current) PROVE Goal
    <3>1. r = w
      BY <2>8 DEF Dequeued
    <3> HIDE DEF q, r, w
    <3> QED
      BY <2>2, <2>3, <2>4, <2>5, <3>1
  <2>9. ASSUME Yields PROVE Goal
    <3>1. current' = current /\ (r = q \/ r = Append(w, current))
      BY <2>1, <2>9 DEF Yields
    <3>2. CASE r = q
      <4> HIDE DEF q, r, w
      <4> QED
        BY <2>3, <2>4, <3>2
    <3>3. CASE r = Append(w, current)
      <4> HIDE DEF q, r, w
      <4>1. r[Len(r)] = current
        BY <2>1, <2>2, <3>3
      <4>2. Elems(r) = Elems(w) \cup {current}
        BY <2>1, <2>2, <3>3, AppendQueue
      <4>3. /\ \A c, d \in Elems(w) : Ahead(r, c, d) <=> Ahead(w, c, d)
            /\ \A c \in Elems(w) : Ahead(r, c, current)
        BY <2>1, <2>2, <3>3, AppendOrder
      <4> QED
        BY <2>2, <2>3, <2>4, <2>5, <3>1, <4>1, <4>2, <4>3
    <3> QED
      BY <3>1, <3>2, <3>3
  <2> HIDE DEF Goal
  <2>10. Goal
    BY <2>6, <2>7, <2>8, <2>9, ReadyMoves
  <2> QED
    BY <2>10 DEF Goal
<1> QED
  BY <1>1, KernelSafe, PTL DEF Spec, FifoWithinPriority

-----------------------------------------------------------------------------
(* A timer handler that comes late. *)

\* The waits of b that are over without units have been ended as the handler would
\* have ended them tick by tick: one that had all those ahead of it gone before
\* its own deadline asks for more than the semaphore s holds.
EndedInTime(b, s) ==
  \A t \in Elems(wait_queue[Sem(s)]) :
    /\ t \in Elems(b.ts) \ b.given
    /\ \A a \in TSKID : Ahead(wait_queue[Sem(s)], a, t) =>
         a \in Elems(b.ts) \ b.given /\ delay_ticks[a] < delay_ticks[t]
    => winfo[t].req > semcnt[s]

\* One more deadline, not before those that were handled.
LEMMA LeaveInTime ==
  ASSUME KernelInv, WaitInv, NEW b \in Ends, NEW x \in TSKID, tskstat[x] = "WAI",
         x \notin Elems(b.ts), NEW s \in SEMID, ~sematr[s].cnt, InOrder(b, s), EndedInTime(b, s),
         \A t \in Elems(b.ts) \ b.given : delay_ticks[t] <= delay_ticks[x]
  PROVE  EndedInTime(Leave(b, x), s)
<1> DEFINE o == wait_queue[Sem(s)]
           c == Leave(b, x)
<1>1. Elems(c.ts) \ c.given \subseteq (Elems(b.ts) \ b.given) \cup {x}
  BY LeaveProperties
<1>2. \A t \in TSKID : delay_ticks[t] \in Nat
  BY DEF KernelInv, TaskTypes, TcbTypes
<1>3. o \in Seq(TSKID) /\ Uniq(o) /\ \A t \in Elems(o) : t \in TSKID
  BY Objects, ObjWaiters
<1>4. \A y, z : Ahead(o, y, z) => y \in Elems(o) /\ z \in Elems(o)
  BY AheadOn
<1>5. b.units[s] \in Nat /\ semcnt[s] \in Nat /\ \A t \in TSKID : winfo[t].req \in Nat
  BY DEF Ends, WaitInv, SemTypes, WaitTypes
<1> SUFFICES ASSUME NEW t \in Elems(o), t \in Elems(c.ts) \ c.given,
                    \A a \in TSKID : Ahead(o, a, t) =>
                      a \in Elems(c.ts) \ c.given /\ delay_ticks[a] < delay_ticks[t]
             PROVE  winfo[t].req > semcnt[s]
  BY DEF EndedInTime
<1> HIDE DEF c
<1>6. CASE t # x
  <2>1. t \in Elems(b.ts) \ b.given
    BY <1>1, <1>6
  <2>2. delay_ticks[t] <= delay_ticks[x]
    BY <2>1
  <2>3. ASSUME NEW a \in TSKID, Ahead(o, a, t)
        PROVE  a \in Elems(b.ts) \ b.given /\ delay_ticks[a] < delay_ticks[t]
    <3>1. a \in Elems(c.ts) \ c.given /\ delay_ticks[a] < delay_ticks[t]
      BY <2>3
    <3>2. a # x
      BY <1>2, <1>3, <2>2, <3>1
    <3> QED
      BY <1>1, <3>1, <3>2
  <2> QED
    BY <2>1, <2>3 DEF EndedInTime
<1>7. CASE t = x
  <2>1. \A a \in TSKID : Ahead(o, a, t) => a \in Elems(b.ts) \ b.given
    <3> SUFFICES ASSUME NEW a \in TSKID, Ahead(o, a, t) PROVE a \in Elems(b.ts) \ b.given
      OBVIOUS
    <3>1. a \in Elems(c.ts) \ c.given /\ delay_ticks[a] < delay_ticks[t]
      OBVIOUS
    <3>2. a # x
      BY <1>2, <1>7, <3>1
    <3> QED
      BY <1>1, <3>1, <3>2
  <2>2. winfo[t].req > b.units[s]
    BY <1>7, <2>1 DEF InOrder, Short
  <2>3. ASSUME NEW y \in Elems(o) PROVE y \notin b.given
    <3>1. y = t => y \notin b.given
      BY <1>7 DEF Ends
    <3>2. Ahead(o, y, t) => y \notin b.given
      BY <1>3, <2>1
    <3>3. Ahead(o, t, y) => y \notin b.given
      BY <1>3, <1>7 DEF InOrder
    <3>4. y # t => Ahead(o, y, t) \/ Ahead(o, t, y)
      <4> HIDE DEF o
      <4> QED
        BY <1>3, OneAhead
    <3> QED
      BY <3>1, <3>2, <3>3, <3>4
  <2>4. b.units[s] >= semcnt[s]
    BY <2>3 DEF InOrder
  <2> QED
    BY <1>3, <1>5, <2>2, <2>4
<1> QED
  BY <1>6, <1>7

\* All the deadlines that n ticks reach.
LEMMA TimedOutInTime ==
  ASSUME KernelInv, WaitInv, \A s \in SEMID : Short(s, {}, semcnt[s]), NEW n \in Nat,
         NEW s \in SEMID, ~sematr[s].cnt
  PROVE  EndedInTime(TimedOut(n), s)
<1> DEFINE e == Expired(n)
           N == Len(e)
<1>1. PICK f : TimedSteps(n, f) /\ TimedOut(n) = f[N]
  BY TimedOutSteps
<1>2. /\ e \in Seq(TSKID) /\ ByDeadline(e)
      /\ N \in Nat /\ \A i \in 1..N : e[i] \in TSKID /\ tskstat[e[i]] = "WAI"
  BY ExpiredWait
<1>3. /\ f[0] = NoneLeft
      /\ \A i \in 1..N : f[i] = IF e[i] \in Elems(f[i - 1].ts) THEN f[i - 1]
                                ELSE Leave(f[i - 1], e[i])
  BY <1>1 DEF TimedSteps
<1>4. \A i, j \in 1..N : i < j => delay_ticks[e[i]] <= delay_ticks[e[j]]
  BY <1>2 DEF ByDeadline
<1> HIDE DEF e, N
<1> DEFINE Upto(i) == {e[k] : k \in 1..i}
           Right(b) == (\A r \in SEMID : InOrder(b, r)) /\ EndedInTime(b, s)
           W == [i \in 0..N |-> {b \in Ends : Elems(b.ts) \ b.given \subseteq Upto(i) /\ Right(b)}]
<1>5. f[0] \in W[0]
  <2>1. NoneLeft.given = {} /\ Elems(NoneLeft.ts) = {}
    BY SmallQueues DEF NoneLeft
  <2>2. Right(NoneLeft)
    BY <2>1, NoneLeftInOrder DEF EndedInTime
  <2> QED
    BY <1>2, <1>3, <2>1, <2>2, NoneLeftEnds
<1>6. ASSUME NEW i \in 1..N, f[i - 1] \in W[i - 1] PROVE f[i] \in W[i]
  <2> DEFINE b == f[i - 1]
             x == e[i]
  <2>1. /\ i \in 0..N /\ i - 1 \in 0..N /\ i \in 1..i
        /\ \A k \in 1..i - 1 : k \in 1..i /\ k \in 1..N /\ k < i
    BY <1>2
  <2>2. b \in Ends /\ Elems(b.ts) \ b.given \subseteq Upto(i - 1) /\ Right(b)
    BY <1>6, <2>1
  <2>3. Upto(i - 1) \subseteq Upto(i) /\ x \in Upto(i)
    BY <2>1
  <2>4. f[i] = IF x \in Elems(b.ts) THEN b ELSE Leave(b, x)
    BY <1>3
  <2>5. x \in TSKID /\ tskstat[x] = "WAI"
    BY <1>2
  <2>6. \A t \in Elems(b.ts) \ b.given : delay_ticks[t] <= delay_ticks[x]
    BY <1>4, <2>1, <2>2
  <2> HIDE DEF b, x, Upto
  <2>7. CASE x \in Elems(b.ts)
    <3> HIDE DEF Right
    <3> QED
      BY <2>1, <2>2, <2>3, <2>4, <2>7
  <2>8. CASE x \notin Elems(b.ts)
    <3> DEFINE c == Leave(b, x)
    <3>1. c \in Ends /\ Elems(c.ts) \ c.given \subseteq (Elems(b.ts) \ b.given) \cup {x}
      BY <2>2, <2>5, <2>8, LeaveProperties
    <3>2. \A r \in SEMID : InOrder(c, r)
      BY <2>2, <2>5, <2>8, LeaveInOrder
    <3>3. EndedInTime(c, s)
      BY <2>2, <2>5, <2>6, <2>8, LeaveInTime
    <3>4. f[i] = c
      BY <2>4, <2>8
    <3> HIDE DEF c
    <3>5. Elems(c.ts) \ c.given \subseteq Upto(i)
      BY <2>2, <2>3, <3>1
    <3> QED
      BY <2>1, <3>1, <3>2, <3>3, <3>4, <3>5
  <2> QED
    BY <2>7, <2>8
<1>7. N \in 0..N
  BY <1>2
<1>8. W[N] \subseteq {b \in Ends : Right(b)}
  BY <1>7
<1> HIDE DEF W
<1>9. f[N] \in W[N]
  BY <1>2, <1>5, <1>6, StepwiseStays
<1> QED
  BY <1>1, <1>8, <1>9

\* A late handler gives the result of one that came with every tick: however many
\* edges it counts at once, a waiter behind others that all time out before its
\* deadline times out too only if it asks for more than is there.
THEOREM LateHandlerHolds == Spec => LateHandlerServes
<1> DEFINE A == \A s \in SEMID : ~sematr[s].cnt => LET q == wait_queue[Sem(s)]
                  IN \A i \in 2..Len(q) :
                       /\ wupcause'[q[i]] = "E_TMOUT"
                       /\ \A j \in 1..i - 1 : /\ wupcause'[q[j]] = "E_TMOUT"
                                              /\ delay_ticks[q[j]] < delay_ticks[q[i]]
                       => winfo[q[i]].req > semcnt[s]
<1>1. KernelInv /\ WaitInv /\ OutcomeInv /\ SemInv /\ [Next]_vars => A
  <2> SUFFICES ASSUME KernelInv, WaitInv, OutcomeInv, SemInv, [Next]_vars, NEW s \in SEMID,
                      ~sematr[s].cnt, NEW i \in 2..Len(wait_queue[Sem(s)]),
                      wupcause'[wait_queue[Sem(s)][i]] = "E_TMOUT",
                      \A j \in 1..i - 1 :
                        /\ wupcause'[wait_queue[Sem(s)][j]] = "E_TMOUT"
                        /\ delay_ticks[wait_queue[Sem(s)][j]] < delay_ticks[wait_queue[Sem(s)][i]]
               PROVE  winfo[wait_queue[Sem(s)][i]].req > semcnt[s]
    OBVIOUS
  <2> DEFINE q == wait_queue[Sem(s)]
             t == q[i]
             b == TimedOut(edges)
  <2>1. q \in Seq(TSKID) /\ Uniq(q) /\ Len(q) \in Nat
    BY Objects, ObjWaiters
  <2>2. \A x \in Elems(q) : x \in TSKID /\ tskstat[x] = "WAI" /\ wupcause[x] = "E_OK"
    BY Objects, ObjWaiters DEF OutcomeInv, StandInv, Stands
  <2>3. t \in Elems(q) /\ t \in TSKID
    BY <2>1, <2>2 DEF Elems
  <2>4. timer_interrupt
    BY <2>2, <2>3, NoOtherTimeout
  <2>5. edges \in Nat
    BY EdgesNat DEF KernelInv
  <2>6. EndedInTime(b, s)
    BY <2>5, TimedOutInTime DEF SemInv
  <2>7. CompleteWaits(b.ts, Causes(b, "E_TMOUT"), edges)
    BY <2>4 DEF timer_interrupt, EndWaits
  <2> HIDE DEF b
  <2>8. \A x \in Elems(q) : wupcause'[x] = "E_TMOUT" => x \in Elems(b.ts) \ b.given
    BY <2>2, <2>7 DEF CompleteWaits, Causes
  <2>9. ASSUME NEW a \in TSKID, Ahead(q, a, t)
        PROVE  a \in Elems(b.ts) \ b.given /\ delay_ticks[a] < delay_ticks[t]
    <3>1. PICK j \in 1..Len(q), k \in 1..Len(q) : j < k /\ q[j] = a /\ q[k] = t
      BY <2>9 DEF Ahead
    <3>2. k = i
      BY <2>1, <3>1 DEF Uniq
    <3>3. j \in 1..i - 1
      BY <2>1, <3>1, <3>2
    <3>4. wupcause'[a] = "E_TMOUT" /\ delay_ticks[a] < delay_ticks[t] /\ a \in Elems(q)
      BY <3>1, <3>3 DEF Elems
    <3> QED
      BY <2>8, <3>4
  <2>10. t \in Elems(b.ts) \ b.given
    BY <2>3, <2>8
  <2> HIDE DEF q, t
  <2>11. winfo[t].req > semcnt[s]
    BY <2>3, <2>6, <2>9, <2>10 DEF EndedInTime, q
  <2> QED
    BY <2>11 DEF q, t
<1> QED
  BY <1>1, OutcomeSafe, SemSafe, PTL DEF Spec, LateHandlerServes

-----------------------------------------------------------------------------
(* The bits of an event flag. *)

\* The wait of a task at an event flag ends with E_OK only when tk_set_flg() sets
\* bits of that flag.
LEMMA SetServes ==
  ASSUME KernelInv, WaitInv, OutcomeInv, [Next]_vars, NEW f \in FLGID, NEW b \in TSKID,
         Served(Flg(f), b)
  PROVE  \E setptn \in FlgPtn : tk_set_flg(f, setptn) /\ flgexs[f]
<1>1. /\ tskstat[b] = "WAI" /\ tskwait[b] = "FLG" /\ winfo[b].obj = Flg(f)
      /\ tskstat'[b] = "RDY" /\ wupcause'[b] = "E_OK"
  BY Objects, ObjWaitKind DEF Served
<1>2. pc[b] = "FLG" /\ pc'[b] = "FLG"
  BY <1>1, ReadyOrMoves DEF OutcomeInv, StandInv, Stands
<1>3. ~Ended(b, "FLG") /\ Ended(b, "FLG")'
  BY <1>1, <1>2 DEF Ended
<1>4. FlagCall
  BY <1>3, OthersKeep DEF Keeps
<1>5. tskstat' # tskstat
  BY <1>1
<1>6. tskstat \in [TSKID -> TskStat] /\ current \in TSKID
  BY DEF KernelInv, TaskTypes, TcbTypes, CpuTypes
<1>7. ASSUME NEW k, NEW tks, NEW lft, BeginWait(k, tks, lft) PROVE FALSE
  BY <1>1, <1>6, <1>7 DEF BeginWait
<1>8. ASSUME NEW k, NEW tks, tkmc_schedule_timer(tks, k) PROVE FALSE
  BY <1>7, <1>8 DEF tkmc_schedule_timer
<1>9. PICK flgid \in FLGID, setptn \in FlgPtn : tk_set_flg(flgid, setptn)
  <2>1. ASSUME NEW atr, NEW ptn, tk_cre_flg(atr, ptn) PROVE FALSE
    BY <1>5, <2>1 DEF tk_cre_flg, taskVars, tcbVars
  <2>2. ASSUME NEW flgid, NEW ptn, NEW mode, NEW tmout, tk_wai_flg(flgid, ptn, mode, tmout)
        PROVE  FALSE
    BY <1>5, <1>7, <1>8, <2>2 DEF tk_wai_flg, taskVars, tcbVars
  <2>3. ASSUME NEW flgid, NEW ptn, tk_clr_flg(flgid, ptn) PROVE FALSE
    BY <1>5, <2>3 DEF tk_clr_flg, taskVars, tcbVars
  <2>4. ASSUME FlgReturn PROVE FALSE
    BY <1>5, <2>4 DEF FlgReturn, WaitReturn
  <2> QED
    BY <1>4, <2>1, <2>2, <2>3, <2>4 DEF FlagCall
<1> DEFINE q == wait_queue[Flg(flgid)]
           ptn == flgptn[flgid] \cup setptn
           ts == SetWalk(q, ptn).served
<1>10. flgexs[flgid] /\ CompleteWaits(ts, AllCause("E_OK"), 0)
  BY <1>5, <1>9 DEF tk_set_flg, taskVars, tcbVars
<1>11. q \in Seq(TSKID) /\ Uniq(q) /\ Flg(flgid) \in Obj
  BY Objects, ObjWaiters
<1>12. ptn \in SUBSET Bit
  BY EventFlagAssumption DEF WaitInv, FlgTypes
<1> HIDE DEF q, ptn
<1>13. Elems(ts) \subseteq Elems(q)
  BY <1>11, <1>12, SetWalkProperties
<1> HIDE DEF ts
<1>14. b \in Elems(ts)
  BY <1>1, <1>10 DEF CompleteWaits
<1>15. winfo[b].obj = Flg(flgid)
  BY <1>11, <1>13, <1>14, ObjWaitKind DEF q
<1>16. flgid = f
  BY <1>1, <1>15 DEF Flg
<1> QED
  BY <1>9, <1>10, <1>16

\* The bits of a flag are used in turn, whatever the number of waiters, of bits and
\* of ways to clear them: each task that tk_set_flg() serves is given exactly the
\* bits that were there or that the call sets and that those served ahead of it
\* have left, and those passed over ahead of it could not have used them.
THEOREM BitsHold == Spec => BitsUsedInTurn
<1> DEFINE A == \A f \in FLGID, b \in TSKID : Served(Flg(f), b) =>
                  LET seen == flgwait'[b].flgptn
                      ahead == {a \in TSKID : Ahead(wait_queue[Flg(f)], a, b)}
                      used == {x \in Bit : \E a \in ahead :
                                 /\ Served(Flg(f), a)
                                 /\ x \notin ClearedBy({x}, flgwait[a].waiptn, flgwait[a].wfmode)}
                  IN /\ \E setptn \in FlgPtn : tk_set_flg(f, setptn)
                     /\ \A setptn \in FlgPtn :
                          tk_set_flg(f, setptn) => seen = (flgptn[f] \cup setptn) \ used
                     /\ \A a \in ahead : ~Served(Flg(f), a) => ~Met(a, seen)
<1>1. KernelInv /\ WaitInv /\ OutcomeInv /\ [Next]_vars => A
  <2> SUFFICES ASSUME KernelInv, WaitInv, OutcomeInv, [Next]_vars, NEW f \in FLGID,
                      NEW b \in TSKID, Served(Flg(f), b)
               PROVE  LET seen == flgwait'[b].flgptn
                          ahead == {a \in TSKID : Ahead(wait_queue[Flg(f)], a, b)}
                          used == {x \in Bit : \E a \in ahead :
                                     /\ Served(Flg(f), a)
                                     /\ x \notin ClearedBy({x}, flgwait[a].waiptn,
                                                           flgwait[a].wfmode)}
                      IN /\ \E setptn \in FlgPtn : tk_set_flg(f, setptn)
                         /\ \A setptn \in FlgPtn :
                              tk_set_flg(f, setptn) => seen = (flgptn[f] \cup setptn) \ used
                         /\ \A a \in ahead : ~Served(Flg(f), a) => ~Met(a, seen)
    OBVIOUS
  <2>1. flgexs[f] /\ \E setptn \in FlgPtn : tk_set_flg(f, setptn)
    BY SetServes
  <2> DEFINE q == wait_queue[Flg(f)]
             seen == flgwait'[b].flgptn
             ahead == {a \in TSKID : Ahead(q, a, b)}
             used == {x \in Bit : \E a \in ahead :
                        /\ Served(Flg(f), a)
                        /\ x \notin ClearedBy({x}, flgwait[a].waiptn, flgwait[a].wfmode)}
  <2>2. ASSUME NEW setptn \in FlgPtn, tk_set_flg(f, setptn)
        PROVE  /\ seen = (flgptn[f] \cup setptn) \ used
               /\ \A a \in ahead : ~Served(Flg(f), a) => ~Met(a, seen)
    <3> DEFINE ptn == flgptn[f] \cup setptn
               v == SetWalk(q, ptn)
               S == Elems(v.served)
    <3>1. /\ CompleteWaits(v.served, AllCause("E_OK"), 0)
          /\ flgwait' = [t \in TSKID |-> IF t \in S THEN [flgwait[t] EXCEPT !.flgptn = v.got[t]]
                                         ELSE flgwait[t]]
      BY <2>1, <2>2 DEF tk_set_flg
    <3>2. /\ q \in Seq(TSKID) /\ Uniq(q) /\ Len(q) \in Nat
          /\ \A t \in Elems(q) : t \in TSKID /\ tskstat[t] = "WAI"
      BY Objects, ObjWaiters
    <3>3. ptn \in SUBSET Bit /\ flgptn[f] \subseteq ptn
      BY EventFlagAssumption DEF WaitInv, FlgTypes
    <3>4. flgwait \in [TSKID -> [waiptn : SUBSET Bit, flgptn : SUBSET Bit, wfmode : Mode]]
      BY DEF WaitInv, FlgTypes
    <3>5. S \subseteq Elems(q) /\ v.got \in [TSKID -> SUBSET Bit]
      <4> HIDE DEF q, ptn
      <4> QED
        BY <3>2, <3>3, SetWalkProperties
    <3>6. \A a \in Elems(q) : Served(Flg(f), a) <=> a \in S
      <4>1. \A a \in Elems(q) : Served(Flg(f), a) <=> tskstat'[a] = "RDY" /\ wupcause'[a] = "E_OK"
        BY DEF Served
      <4>2. \A a \in TSKID : /\ tskstat'[a] = IF a \in S THEN "RDY" ELSE tskstat[a]
                             /\ a \in S => wupcause'[a] = "E_OK"
        BY <3>1 DEF CompleteWaits, AllCause
      <4> HIDE DEF S, q
      <4> QED
        BY <3>2, <4>1, <4>2
    <3>7. b \in Elems(q) /\ b \in S
      BY <3>6 DEF Served
    <3>8. PICK j \in 1..Len(q) : b = q[j]
      BY <3>7 DEF Elems
    <3>9. seen = v.got[b]
      BY <3>1, <3>4, <3>7
    <3>10. /\ \A x \in Bit : x \in v.got[b] <=> LeftBy(q, ptn, S, j - 1, x)
           /\ \A i \in 1..j - 1 : q[i] \notin S =>
                ~check_ptn(v.got[b], flgwait[q[i]].waiptn, flgwait[q[i]].wfmode)
      <4>1. q[j] \in Elems(SetWalk(q, ptn).served)
        BY <3>7, <3>8
      <4> HIDE DEF q, ptn
      <4> QED
        BY <3>2, <3>3, <3>8, <4>1, SetWalkInTurn
    <3> HIDE DEF q, ptn, v, S
    <3>11. \A a : a \in ahead <=> \E i \in 1..j - 1 : a = q[i]
      <4> SUFFICES ASSUME NEW a PROVE a \in ahead <=> \E i \in 1..j - 1 : a = q[i]
        OBVIOUS
      <4>1. ASSUME a \in ahead PROVE \E i \in 1..j - 1 : a = q[i]
        <5>1. PICK i \in 1..Len(q), k \in 1..Len(q) : i < k /\ q[i] = a /\ q[k] = b
          BY <4>1 DEF Ahead
        <5>2. k = j
          BY <3>2, <3>8, <5>1 DEF Uniq
        <5>3. i \in 1..j - 1
          BY <3>2, <5>1, <5>2
        <5> QED
          BY <5>1, <5>3
      <4>2. ASSUME NEW i \in 1..j - 1, a = q[i] PROVE a \in ahead
        <5>1. i \in 1..Len(q) /\ i < j
          BY <3>2
        <5> QED
          BY <3>2, <3>8, <4>2, <5>1 DEF Ahead, Elems
      <4> QED
        BY <4>1, <4>2
    <3>12. \A i \in 1..j - 1 : q[i] \in Elems(q)
      <4>1. \A i \in 1..j - 1 : i \in 1..Len(q)
        BY <3>2
      <4> QED
        BY <4>1 DEF Elems
    <3> HIDE DEF ahead
    <3>13. \A x \in Bit : x \in used <=> \E i \in 1..j - 1 : q[i] \in S /\ x \in Clears(q[i])
      BY <3>6, <3>11, <3>12 DEF Clears
    <3>14. \A x \in Bit : x \in seen <=> x \in ptn /\ x \notin used
      BY <3>9, <3>10, <3>13 DEF LeftBy
    <3>15. used \subseteq Bit /\ seen \in SUBSET Bit
      BY <3>2, <3>5, <3>7, <3>9
    <3>16. \A a \in ahead : ~Served(Flg(f), a) => ~Met(a, seen)
      BY <3>6, <3>9, <3>10, <3>11, <3>12 DEF Met
    <3> HIDE DEF used, seen
    <3>17. seen = ptn \ used
      BY <3>3, <3>14, <3>15
    <3> QED
      BY <3>16, <3>17 DEF ptn
  <2> QED
    BY <2>1, <2>2
<1> QED
  BY <1>1, OutcomeSafe, PTL DEF Spec, BitsUsedInTurn

-----------------------------------------------------------------------------
(* The units of the semaphores. *)

\* The tasks that were given units of the semaphore s as it is now, and have not
\* returned with them yet.
Out(s) == {t \in TSKID : Ended(t, "SEM") /\ winfo[t].obj = Sem(s) /\ t \notin orphan}

\* UnitsConserved, said with Ended; a semaphore that does not exist has no units
\* out, and a task that keeps units of a deleted one has not returned.
UnitInv ==
  /\ \A s \in SEMID : semexs[s] => ledger[s] = semcnt[s] + Units(winfo, Out(s))
  /\ \A s \in SEMID : ~semexs[s] => Out(s) = {}
  /\ \A t \in orphan : Ended(t, "SEM")

\* The tasks of tk_wai_sem() that InFlight counts.
LEMMA InFlightEnded ==
  ASSUME KernelInv, StandInv
  PROVE  \A s, t : t \in InFlight(s) <=> /\ t \in TSKID /\ Ended(t, "SEM")
                                         /\ winfo[t].obj = Sem(s)
<1>1. \A t \in TSKID : tskstat[t] \in TskStat
  BY DEF KernelInv, TaskTypes, TcbTypes
<1>2. \A t \in TSKID : pc[t] = "SEM" => tskstat[t] \notin {"NOEXS", "DMT"}
  BY DEF StandInv, Stands, WaitKind
<1> QED
  BY <1>1, <1>2 DEF InFlight, Ended, TskStat

\* A task that waits at a semaphore waits at one that exists.
LEMMA WaitedExists ==
  ASSUME WaitInv, NEW t \in TSKID, tskstat[t] = "WAI", tskwait[t] = "SEM", NEW s \in SEMID,
         winfo[t].obj = Sem(s)
  PROVE  semexs[s]
<1>1. Queued(t) /\ Sem(s) \in Obj
  BY Objects DEF Queued
<1>2. t \in Elems(wait_queue[Sem(s)])
  BY <1>1 DEF WaitInv, WaitQueuesConsistent, WaitersQueued
<1>3. wait_queue[Sem(s)] # << >>
  BY <1>2, SmallQueues
<1> QED
  BY <1>3 DEF WaitInv, WaitQueuesConsistent, SemcbsLinked

\* A step that gives the tasks of G their units, and makes and deletes no
\* semaphore: what is in the count, or went into it, is out with them.
LEMMA UnitsGrow ==
  ASSUME KernelInv, WaitInv, WaitInv', OutcomeInv, UnitInv, [Next]_vars,
         UNCHANGED <<semexs, orphan>>, NEW G \in SUBSET TSKID,
         \A t \in G : tskstat[t] = "WAI" /\ tskwait[t] = "SEM",
         \A t \in TSKID : Ended(t, "SEM")' <=> Ended(t, "SEM") \/ t \in G,
         \A s \in SEMID :
           ledger'[s] - semcnt'[s] = ledger[s] - semcnt[s]
                                       + Units(winfo, {t \in G : winfo[t].obj = Sem(s)})
  PROVE  UnitInv'
<1>0. orphan \in SUBSET TSKID /\ orphan' = orphan
  BY DEF WaitInv, SemTypes
<1>1. \A t \in TSKID : Ended(t, "SEM") \/ t \in G => winfo'[t] = winfo[t]
  <2>1. \A t \in TSKID : Ended(t, "SEM") => pc[t] \in WaitKind /\ tskstat[t] \in {"RDY", "RUN"}
    <3>1. \A t \in TSKID : tskstat[t] \in TskStat
      BY DEF KernelInv, TaskTypes, TcbTypes
    <3> QED
      BY <3>1 DEF OutcomeInv, StandInv, Stands, Ended, WaitKind, TskStat
  <2> QED
    BY <2>1, FieldsKept
<1>2. \A t \in G : ~Ended(t, "SEM") /\ t \notin orphan
  BY DEF Ended, UnitInv
<1>3. ASSUME NEW s \in SEMID
      PROVE  /\ semexs'[s] => ledger'[s] = semcnt'[s] + Units(winfo', Out(s)')
             /\ ~semexs'[s] => Out(s)' = {}
  <2> DEFINE g == {t \in G : winfo[t].obj = Sem(s)}
             o == Out(s)
             p == Out(s)'
  <2>1. p = o \cup g /\ o \cap g = {} /\ o \in SUBSET TSKID /\ g \in SUBSET TSKID
    BY <1>0, <1>1, <1>2 DEF Out
  <2>2. ~semexs[s] => g = {}
    BY WaitedExists
  <2>3. \A t \in p : winfo'[t] = winfo[t]
    BY <1>1, <2>1 DEF Out
  <2>4. ledger'[s] - semcnt'[s] = ledger[s] - semcnt[s] + Units(winfo, g)
    OBVIOUS
  <2>5. /\ ~semexs[s] => o = {}
        /\ semexs[s] => ledger[s] = semcnt[s] + Units(winfo, o)
    BY DEF UnitInv
  <2> HIDE DEF g, o, p
  <2>6. \A t \in TSKID : winfo[t].req \in Nat
    BY DEF WaitInv, WaitTypes
  <2>7. Units(winfo, p) = Units(winfo, o) + Units(winfo, g)
    BY <2>1, <2>6, UnitsOfTasks
  <2>8. Units(winfo', p) = Units(winfo, p)
    <3>1. IsFiniteSet(p)
      BY <2>1, <2>6, UnitsOfTasks, FS_Subset
    <3>2. \A t \in p : winfo[t].req \in Nat
      BY <2>1, <2>6
    <3> QED
      BY <2>3, <3>1, <3>2, UnitsAgree
  <2>9. Units(winfo, o) \in Nat /\ Units(winfo, g) \in Nat
    BY <2>1, <2>6, UnitsOfTasks
  <2>10. ledger[s] \in Int /\ semcnt[s] \in Int /\ ledger'[s] \in Int /\ semcnt'[s] \in Int
    BY DEF WaitInv, SemTypes
  <2>11. semexs[s] => ledger'[s] = semcnt'[s] + Units(winfo', p)
    BY <2>4, <2>5, <2>7, <2>8, <2>9, <2>10
  <2> QED
    BY <2>1, <2>2, <2>5, <2>11 DEF p
<1>4. \A t \in orphan' : Ended(t, "SEM")'
  BY <1>0 DEF UnitInv
<1> QED
  BY <1>3, <1>4 DEF UnitInv

\* A step that leaves the waits for semaphores and the counts alone.
LEMMA UnitsStay ==
  ASSUME KernelInv, WaitInv, WaitInv', OutcomeInv, UnitInv, [Next]_vars, Keeps("SEM"),
         UNCHANGED <<semexs, orphan>>,
         \A s \in SEMID : ledger'[s] - semcnt'[s] = ledger[s] - semcnt[s]
  PROVE  UnitInv'
<1> DEFINE G == {}
<1>1. G \in SUBSET TSKID /\ \A t \in G : tskstat[t] = "WAI" /\ tskwait[t] = "SEM"
  OBVIOUS
<1>2. \A t \in TSKID : Ended(t, "SEM")' <=> Ended(t, "SEM") \/ t \in G
  BY DEF Keeps
<1>3. ASSUME NEW s \in SEMID
      PROVE  ledger'[s] - semcnt'[s] = ledger[s] - semcnt[s]
                                         + Units(winfo, {t \in G : winfo[t].obj = Sem(s)})
  <2>1. Units(winfo, {}) = 0
    BY UnitsOfTasks DEF WaitInv, WaitTypes
  <2>2. {t \in G : winfo[t].obj = Sem(s)} = {}
    OBVIOUS
  <2>3. ledger[s] - semcnt[s] \in Int
    BY DEF WaitInv, SemTypes
  <2> QED
    BY <2>1, <2>2, <2>3
<1> HIDE DEF G
<1> QED
  BY <1>1, <1>2, <1>3, UnitsGrow

\* The waits that end in b: of the count of each semaphore, what is not left is
\* what the tasks that were given units had asked for.
Accounts(b) ==
  \A s \in SEMID :
    semcnt[s] = b.units[s] + Units(winfo, {t \in b.given : winfo[t].obj = Sem(s)})

\* Before any wait has ended.
LEMMA NoneLeftAccounts ==
  ASSUME WaitInv
  PROVE  Accounts(NoneLeft)
<1>1. NoneLeft.units = semcnt /\ NoneLeft.given = {}
  BY DEF NoneLeft
<1>2. \A s : {t \in NoneLeft.given : winfo[t].obj = Sem(s)} = {}
  BY <1>1
<1>3. Units(winfo, {}) = 0 /\ \A s \in SEMID : semcnt[s] \in Int
  BY UnitsOfTasks DEF WaitInv, WaitTypes, SemTypes
<1> QED
  BY <1>1, <1>2, <1>3 DEF Accounts

\* tkmc_complete_wait() takes from the count of the semaphore what the waiters
\* that it serves had asked for, and serves no one twice.
LEMMA LeaveAccounts ==
  ASSUME WaitInv, NEW b \in Ends, NEW t \in TSKID, tskstat[t] = "WAI", t \notin Elems(b.ts),
         Accounts(b)
  PROVE  Accounts(Leave(b, t))
<1>1. /\ b.ts \in Seq(TSKID) /\ b.given \in SUBSET TSKID /\ b.units \in [SEMID -> Nat]
      /\ b = [ts |-> b.ts, given |-> b.given, units |-> b.units]
      /\ b.given \subseteq Elems(b.ts)
  BY DEF Ends
<1>2. CASE tskwait[t] # "SEM"
  <2>1. Leave(b, t) = [ts |-> Append(b.ts, t), given |-> b.given, units |-> b.units]
    BY <1>1, <1>2 DEF Leave
  <2> QED
    BY <2>1 DEF Accounts
<1>3. CASE tskwait[t] = "SEM"
  <2> DEFINE r == winfo[t].obj[2]
             w == wait_queue[winfo[t].obj]
             S == Elems(b.ts) \cup {t}
             q == Without(w, S)
             n == b.units[r]
             v == Serve(r, q, n)
             K == Elems(v.served)
             u == [b.units EXCEPT ![r] = v.units]
             l == Leave(b, t)
  <2>1. r \in SEMID /\ winfo[t].obj = Sem(r) /\ Sem(r) \in Obj
    BY <1>3, Objects DEF WaitInv, WaitQueuesConsistent, WaitersQueued, Queued
  <2>2. /\ w \in Seq(TSKID) /\ Uniq(w)
        /\ \A x \in Elems(w) : x \in TSKID /\ winfo[x].obj = Sem(r)
    BY <2>1, ObjWaiters, ObjWaitKind
  <2>3. l.given = b.given \cup K /\ l.units = u
    BY <1>3 DEF Leave
  <2>4. n \in Nat /\ \A x \in TSKID : winfo[x].req \in Nat
    BY <1>1, <2>1 DEF WaitInv, WaitTypes
  <2> HIDE DEF r, w, S, n, l
  <2>5. q \in Seq(TSKID) /\ Uniq(q) /\ Elems(q) = Elems(w) \ S
    BY <2>2, WithoutProperties
  <2> HIDE DEF q
  <2>6. K \subseteq Elems(q) /\ v.units \in 0..n /\ v.units + Units(winfo, K) = n
    <3>1. /\ Elems(v.served) \subseteq Elems(q) /\ v.units \in 0..n
          /\ HandedOut(v, n)
      BY <2>4, <2>5, ServeProperties
    <3> HIDE DEF v
    <3> QED
      BY <3>1 DEF HandedOut
  <2> HIDE DEF v
  <2>7. K \in SUBSET TSKID /\ K \cap b.given = {} /\ \A x \in K : winfo[x].obj = Sem(r)
    BY <1>1, <2>2, <2>5, <2>6 DEF S
  <2> HIDE DEF K
  <2>8. ASSUME NEW s \in SEMID
        PROVE  semcnt[s] = l.units[s] + Units(winfo, {x \in l.given : winfo[x].obj = Sem(s)})
    <3> DEFINE o == {x \in b.given : winfo[x].obj = Sem(s)}
               p == {x \in l.given : winfo[x].obj = Sem(s)}
    <3>1. semcnt[s] = b.units[s] + Units(winfo, o)
      BY DEF Accounts
    <3>2. CASE s = r
      <4>1. p = o \cup K /\ o \cap K = {} /\ o \in SUBSET TSKID
        BY <1>1, <2>3, <2>7, <3>2
      <4>2. l.units[s] = v.units /\ n = b.units[s]
        BY <1>1, <2>1, <2>3, <3>2 DEF n
      <4> HIDE DEF o, p
      <4>3. Units(winfo, p) = Units(winfo, o) + Units(winfo, K)
        BY <2>4, <2>7, <4>1, UnitsOfTasks
      <4>4. Units(winfo, o) \in Nat /\ Units(winfo, K) \in Nat
        BY <2>4, <2>7, <4>1, UnitsOfTasks
      <4>5. semcnt[s] = l.units[s] + Units(winfo, p)
        BY <2>4, <2>6, <3>1, <4>2, <4>3, <4>4
      <4> QED
        BY <4>5 DEF p
    <3>3. CASE s # r
      <4>1. Sem(s) # Sem(r)
        BY <3>3 DEF Sem
      <4>2. p = o
        BY <2>3, <2>7, <4>1
      <4>3. l.units[s] = b.units[s]
        BY <1>1, <2>3, <3>3
      <4> QED
        BY <3>1, <4>2, <4>3
    <3> QED
      BY <3>2, <3>3
  <2> QED
    BY <2>8 DEF Accounts, l
<1> QED
  BY <1>2, <1>3

\* The timer handler, however many waits are over.
LEMMA TimedOutAccounts ==
  ASSUME KernelInv, WaitInv, NEW n \in Nat
  PROVE  Accounts(TimedOut(n))
<1> DEFINE W == {b \in Ends : Accounts(b)}
<1>1. NoneLeft \in W
  BY NoneLeftEnds, NoneLeftAccounts
<1>2. \A b \in W, t \in TSKID : tskstat[t] = "WAI" /\ t \notin Elems(b.ts) => Leave(b, t) \in W
  BY LeaveProperties, LeaveAccounts
<1>3. W \subseteq Ends
  OBVIOUS
<1> HIDE DEF W
<1>4. TimedOut(n) \in W
  BY <1>1, <1>2, <1>3, TimedOutReaches
<1> QED
  BY <1>4 DEF W

\* The end of such waits, for a time limit or tk_rel_wai(), makes and loses no
\* unit.
LEMMA EndUnits ==
  ASSUME KernelInv, WaitInv, WaitInv', OutcomeInv, UnitInv, [Next]_vars,
         NEW b \in Ends, Accounts(b), NEW ercd \in Ercd \ {"E_OK"}, NEW elapsed \in Nat,
         EndWaits(b, ercd, elapsed), edges' = edges - elapsed,
         UNCHANGED <<wupcnt, pc, sp, current, credit, semexs, ledger, orphan>>
  PROVE  UnitInv'
<1>1. /\ b.given \in SUBSET TSKID
      /\ \A t \in b.given : tskstat[t] = "WAI" /\ tskwait[t] = "SEM"
  BY DEF Ends
<1>2. \A t \in TSKID : Ended(t, "SEM")' <=> Ended(t, "SEM") \/ t \in b.given
  BY EndOutcome
<1>3. ASSUME NEW s \in SEMID
      PROVE  ledger'[s] - semcnt'[s] = ledger[s] - semcnt[s]
                                         + Units(winfo, {t \in b.given : winfo[t].obj = Sem(s)})
  <2> DEFINE g == {t \in b.given : winfo[t].obj = Sem(s)}
  <2>1. semcnt[s] = b.units[s] + Units(winfo, g)
    BY DEF Accounts
  <2>2. semcnt'[s] = b.units[s] /\ ledger'[s] = ledger[s]
    BY DEF EndWaits
  <2>3. Units(winfo, g) \in Nat
    <3>1. g \in SUBSET TSKID
      BY <1>1
    <3> HIDE DEF g
    <3> QED
      BY <3>1, UnitsOfTasks DEF WaitInv, WaitTypes
  <2>4. ledger[s] \in Int /\ semcnt'[s] \in Int
    BY DEF WaitInv, SemTypes
  <2> HIDE DEF g
  <2>5. ledger'[s] - semcnt'[s] = ledger[s] - semcnt[s] + Units(winfo, g)
    BY <2>1, <2>2, <2>3, <2>4
  <2> QED
    BY <2>5 DEF g
<1> QED
  BY <1>1, <1>2, <1>3, UnitsGrow

\* tk_rel_wai() and the timer handler.
LEMMA LimitsUnits ==
  ASSUME KernelInv, WaitInv, WaitInv', OutcomeInv, UnitInv, [Next]_vars,
         timer_interrupt \/ \E t \in TSKID : tk_rel_wai(t)
  PROVE  UnitInv'
<1>0. "E_RLWAI" \in Ercd \ {"E_OK"} /\ "E_TMOUT" \in Ercd \ {"E_OK"}
  BY DEF Ercd
<1>1. ASSUME NEW t \in TSKID, tk_rel_wai(t) PROVE UnitInv'
  <2>0. UNCHANGED <<edges, semexs, ledger, orphan>>
    BY <1>1 DEF tk_rel_wai, semcbVars
  <2>1. CASE RelWaiRefused(t)
    <3>1. UNCHANGED taskVars /\ UNCHANGED semcnt
      BY <1>1, <2>1 DEF tk_rel_wai
    <3>2. Keeps("SEM")
      BY <2>0, <3>1, StillOutcome DEF WaitKind
    <3> QED
      BY <2>0, <3>1, <3>2, UnitsStay
  <2>2. CASE ~RelWaiRefused(t)
    <3> DEFINE b == Leave(NoneLeft, t)
    <3>1. tskstat[t] = "WAI" /\ NoneLeft \in Ends /\ t \notin Elems(NoneLeft.ts)
      BY <2>2, NoneLeftEnds DEF RelWaiRefused
    <3>2. b \in Ends /\ Accounts(b)
      BY <3>1, LeaveProperties, NoneLeftAccounts, LeaveAccounts
    <3>3. EndWaits(b, "E_RLWAI", 0) /\ UNCHANGED <<wupcnt, pc, sp, current, credit>>
      BY <1>1, <2>2 DEF tk_rel_wai
    <3>4. edges' = edges - 0
      BY <2>0 DEF KernelInv, TaskTypes, CpuTypes
    <3> HIDE DEF b
    <3> QED
      BY <1>0, <2>0, <3>2, <3>3, <3>4, EndUnits
  <2> QED
    BY <2>1, <2>2
<1>2. ASSUME timer_interrupt PROVE UnitInv'
  <2> DEFINE b == TimedOut(edges)
  <2>1. edges \in Nat
    BY EdgesNat DEF KernelInv
  <2>2. b \in Ends /\ Accounts(b)
    BY <2>1, TimedOutProperties, TimedOutAccounts
  <2>3. /\ EndWaits(b, "E_TMOUT", edges) /\ edges' = 0
        /\ UNCHANGED <<wupcnt, pc, sp, current, credit, semexs, ledger, orphan>>
    BY <1>2 DEF timer_interrupt, semcbVars
  <2>4. edges' = edges - edges
    BY <2>1, <2>3
  <2> HIDE DEF b
  <2> QED
    BY <1>0, <2>1, <2>2, <2>3, <2>4, EndUnits
<1> QED
  BY <1>1, <1>2

\* tk_sig_sem() puts units into the semaphore, and hands out some of what is
\* there then.
LEMMA SigUnits ==
  ASSUME KernelInv, WaitInv, WaitInv', OutcomeInv, UnitInv, [Next]_vars,
         NEW semid \in SEMID, NEW cnt \in SemCnt, tk_sig_sem(semid, cnt)
  PROVE  UnitInv'
<1>0. UNCHANGED <<edges, semexs, orphan>>
  BY DEF tk_sig_sem, semcbVars
<1>1. CASE cnt <= 0 \/ ~semexs[semid] \/ ~SigRoom(semid, cnt)
  <2>1. UNCHANGED taskVars /\ UNCHANGED <<semcnt, ledger>>
    BY <1>1 DEF tk_sig_sem
  <2>2. Keeps("SEM")
    BY <1>0, <2>1, StillOutcome DEF WaitKind
  <2> QED
    BY <1>0, <2>1, <2>2, UnitsStay
<1>2. CASE ~(cnt <= 0 \/ ~semexs[semid] \/ ~SigRoom(semid, cnt))
  <2> DEFINE q == wait_queue[Sem(semid)]
             u == semcnt[semid] + cnt
             v == Serve(semid, q, u)
             G == Elems(v.served)
  <2>1. /\ semcnt \in [SEMID -> Nat] /\ ledger \in [SEMID -> Int] /\ cnt \in Nat /\ u \in Nat
        /\ \A t \in TSKID : winfo[t].req \in Nat
    BY <1>2, SemaphoreAssumption DEF WaitInv, SemTypes, WaitTypes
  <2>2. /\ q \in Seq(TSKID) /\ Uniq(q)
        /\ \A t \in Elems(q) : /\ t \in TSKID /\ tskstat[t] = "WAI" /\ tskwait[t] = "SEM"
                               /\ winfo[t].obj = Sem(semid)
    BY Objects, ObjWaiters, ObjWaitKind
  <2>3. /\ CompleteWaits(v.served, AllCause("E_OK"), 0)
        /\ semcnt' = [semcnt EXCEPT ![semid] = v.units]
        /\ ledger' = [ledger EXCEPT ![semid] = @ + cnt]
        /\ UNCHANGED <<wupcnt, pc, sp, current, credit>>
    BY <1>2 DEF tk_sig_sem
  <2> HIDE DEF q
  <2>4. /\ v.served \in Seq(TSKID) /\ Elems(v.served) \subseteq Elems(q) /\ v.units \in 0..u
        /\ HandedOut(v, u)
    <3> HIDE DEF u
    <3> QED
      BY <2>1, <2>2, ServeProperties
  <2> HIDE DEF v
  <2>5. /\ G \in SUBSET TSKID
        /\ \A t \in G : tskstat[t] = "WAI" /\ tskwait[t] = "SEM" /\ winfo[t].obj = Sem(semid)
    BY <2>2, <2>4
  <2>6. \A t \in TSKID : Ended(t, "SEM")' <=> Ended(t, "SEM") \/ t \in G
    <3>1. "E_OK" \in Ercd /\ "SEM" \in WaitKind \ {"SLP"}
      BY DEF Ercd, WaitKind
    <3> QED
      BY <1>0, <2>3, <2>4, <2>5, <3>1, CompleteAllOutcome
  <2>7. v.units + Units(winfo, G) = u
    BY <2>4 DEF HandedOut
  <2> HIDE DEF G
  <2>8. Units(winfo, G) \in Nat /\ Units(winfo, {}) = 0
    BY <2>1, <2>5, UnitsOfTasks
  <2>9. ASSUME NEW s \in SEMID
        PROVE  ledger'[s] - semcnt'[s] = ledger[s] - semcnt[s]
                                           + Units(winfo, {t \in G : winfo[t].obj = Sem(s)})
    <3> DEFINE g == {t \in G : winfo[t].obj = Sem(s)}
    <3>1. CASE s = semid
      <4>1. g = G
        BY <2>5, <3>1
      <4>2. ledger'[s] = ledger[s] + cnt /\ semcnt'[s] = v.units
        BY <2>1, <2>3, <3>1
      <4>3. v.units \in Int /\ semcnt[s] \in Int /\ ledger[s] \in Int /\ cnt \in Int
        BY <2>1, <2>4
      <4>4. v.units + Units(winfo, G) = semcnt[s] + cnt
        BY <2>7, <3>1
      <4> HIDE DEF g
      <4>5. ledger'[s] - semcnt'[s] = ledger[s] - semcnt[s] + Units(winfo, g)
        BY <2>8, <4>1, <4>2, <4>3, <4>4
      <4> QED
        BY <4>5 DEF g
    <3>2. CASE s # semid
      <4>1. g = {}
        BY <2>5, <3>2 DEF Sem
      <4>2. ledger'[s] = ledger[s] /\ semcnt'[s] = semcnt[s]
        BY <2>1, <2>3, <3>2
      <4>3. semcnt[s] \in Int /\ ledger[s] \in Int
        BY <2>1
      <4> HIDE DEF g
      <4>4. ledger'[s] - semcnt'[s] = ledger[s] - semcnt[s] + Units(winfo, g)
        BY <2>8, <4>1, <4>2, <4>3
      <4> QED
        BY <4>4 DEF g
    <3> QED
      BY <3>1, <3>2
  <2> QED
    BY <1>0, <2>5, <2>6, <2>9, UnitsGrow
<1> QED
  BY <1>1, <1>2

\* tk_wai_sem(): a caller that takes its units at once returns with them, one that
\* joins the queue has none yet.
LEMMA WaiUnits ==
  ASSUME KernelInv, WaitInv, WaitInv', OutcomeInv, UnitInv, [Next]_vars,
         NEW semid \in SEMID, NEW cnt \in SemCnt, NEW tmout \in SemTmo,
         tk_wai_sem(semid, cnt, tmout)
  PROVE  UnitInv'
<1>0. /\ Caller /\ UNCHANGED <<edges, semexs, orphan>> /\ tmout \in Int /\ cnt \in Int
      /\ "SEM" \in WaitKind
  BY SemaphoreAssumption DEF tk_wai_sem, semcbVars, WaitKind
<1>1. semcnt \in [SEMID -> Nat] /\ ledger \in [SEMID -> Int]
  BY DEF WaitInv, SemTypes
<1>2. CASE UNCHANGED taskVars
  <2>1. Keeps("SEM")
    BY <1>0, <1>2, StillOutcome
  <2>2. CASE UNCHANGED <<semcnt, ledger>>
    BY <1>0, <2>1, <2>2, UnitsStay
  <2>3. CASE /\ semcnt' = [semcnt EXCEPT ![semid] = @ - cnt]
             /\ ledger' = [ledger EXCEPT ![semid] = @ - cnt]
    <3>1. ASSUME NEW s \in SEMID PROVE ledger'[s] - semcnt'[s] = ledger[s] - semcnt[s]
      BY <1>0, <1>1, <2>3
    <3> QED
      BY <1>0, <2>1, <3>1, UnitsStay
  <2> QED
    BY <1>2, <2>2, <2>3 DEF tk_wai_sem
<1>3. CASE /\ tkmc_can_block /\ UNCHANGED <<semcnt, ledger>>
           /\ IF tmout > 0 THEN tkmc_schedule_timer(tkmc_ms_to_ticks(tmout), "SEM")
                           ELSE BeginWait("SEM", 0, 0)
  <2>1. Keeps("SEM")
    BY <1>0, <1>3, JoinOutcome
  <2> QED
    BY <1>0, <1>3, <2>1, UnitsStay
<1> QED
  BY <1>2, <1>3 DEF tk_wai_sem

\* tk_cre_sem() reuses a SEMCB that has no units out.
LEMMA CreUnits ==
  ASSUME KernelInv, WaitInv, OutcomeInv, UnitInv,
         NEW atr \in SemAtr, NEW isemcnt \in SemCnt, NEW max \in SemCnt,
         tk_cre_sem(atr, isemcnt, max)
  PROVE  UnitInv'
<1>0. UNCHANGED taskVars /\ UNCHANGED edges /\ orphan' = orphan /\ winfo' = winfo
  BY DEF tk_cre_sem, taskVars, tcbVars
<1>1. Keeps("SEM")
  BY <1>0, StillOutcome DEF WaitKind
<1>2. \A s : Out(s)' = Out(s)
  BY <1>0, <1>1 DEF Keeps, Out
<1>3. \A t \in orphan' : Ended(t, "SEM")'
  BY <1>0, <1>1 DEF Keeps, UnitInv, WaitInv, SemTypes
<1>4. CASE UNCHANGED <<semexs, semcnt, ledger>>
  BY <1>0, <1>2, <1>3, <1>4 DEF UnitInv
<1>5. CASE ~UNCHANGED <<semexs, semcnt, ledger>>
  <2>0. PICK n : n = Head(free_semcb)
    OBVIOUS
  <2>1. /\ free_semcb # << >>
        /\ semexs' = [semexs EXCEPT ![n] = TRUE]
        /\ semcnt' = [semcnt EXCEPT ![n] = isemcnt]
        /\ ledger' = [ledger EXCEPT ![n] = isemcnt]
    BY <1>5, <2>0 DEF tk_cre_sem
  <2>2. n \in Elems(free_semcb) /\ n \in SEMID
    BY <2>0, <2>1, TailQueue DEF WaitInv, SemTypes, WaitQueuesConsistent, SemcbsLinked
  <2>3. ~semexs[n]
    BY <2>2 DEF WaitInv, WaitQueuesConsistent, SemcbsLinked
  <2>4. /\ semexs \in [SEMID -> BOOLEAN] /\ semcnt \in [SEMID -> Nat] /\ ledger \in [SEMID -> Int]
        /\ isemcnt \in Int
    BY SemaphoreAssumption DEF WaitInv, SemTypes
  <2>5. Units(winfo', Out(n)') = 0
    <3>1. Out(n) = {}
      BY <2>2, <2>3 DEF UnitInv
    <3>2. Units(winfo, {}) = 0
      BY UnitsOfTasks DEF WaitInv, WaitTypes
    <3> QED
      BY <1>0, <1>2, <3>1, <3>2
  <2>6. semexs'[n] /\ ledger'[n] = semcnt'[n] + Units(winfo', Out(n)')
    BY <2>1, <2>2, <2>4, <2>5
  <2>7. ASSUME NEW s \in SEMID, s # n
        PROVE  /\ semexs'[s] => ledger'[s] = semcnt'[s] + Units(winfo', Out(s)')
               /\ ~semexs'[s] => Out(s)' = {}
    <3>1. semexs'[s] = semexs[s] /\ ledger'[s] = ledger[s] /\ semcnt'[s] = semcnt[s]
      BY <2>1, <2>4, <2>7
    <3> QED
      BY <1>0, <1>2, <3>1 DEF UnitInv
  <2> QED
    BY <1>3, <2>6, <2>7 DEF UnitInv
<1> QED
  BY <1>4, <1>5

\* tk_del_sem() takes no units back: the tasks that have them keep them, and the
\* next semaphore of this ID does not count them.
LEMMA DelUnits ==
  ASSUME KernelInv, WaitInv, OutcomeInv, UnitInv, NEW semid \in SEMID, tk_del_sem(semid)
  PROVE  UnitInv'
<1>0. UNCHANGED edges
  BY DEF tk_del_sem
<1>1. CASE ~semexs[semid]
  <2>1. UNCHANGED taskVars /\ UNCHANGED semVars
    BY <1>1 DEF tk_del_sem
  <2>2. /\ semexs' = semexs /\ semcnt' = semcnt /\ ledger' = ledger /\ orphan' = orphan
        /\ winfo' = winfo
    BY <2>1 DEF semVars, taskVars, tcbVars
  <2>3. Keeps("SEM")
    BY <1>0, <2>1, StillOutcome DEF WaitKind
  <2>4. \A s : Out(s)' = Out(s)
    BY <2>2, <2>3 DEF Keeps, Out
  <2>5. \A t \in orphan' : Ended(t, "SEM")'
    BY <2>2, <2>3 DEF Keeps, UnitInv, WaitInv, SemTypes
  <2> QED
    BY <2>2, <2>4, <2>5 DEF UnitInv
<1>2. CASE semexs[semid]
  <2> DEFINE ts == wait_queue[Sem(semid)]
  <2>1. /\ ts \in Seq(TSKID)
        /\ \A t \in Elems(ts) : tskstat[t] = "WAI" /\ tskwait[t] = "SEM"
    BY Objects, ObjWaiters, ObjWaitKind
  <2>2. /\ CompleteWaits(ts, AllCause("E_DLT"), 0)
        /\ UNCHANGED <<wupcnt, pc, sp, current, credit>> /\ winfo' = winfo
        /\ semexs' = [semexs EXCEPT ![semid] = FALSE]
        /\ semcnt' = [semcnt EXCEPT ![semid] = 0]
        /\ ledger' = [ledger EXCEPT ![semid] = 0]
        /\ orphan' = orphan \cup InFlight(semid)
    BY <1>2 DEF tk_del_sem, Released
  <2> HIDE DEF ts
  <2>3. Keeps("SEM")
    <3>1. "E_DLT" \in Ercd /\ "E_DLT" # "E_OK" /\ "SEM" \in WaitKind \ {"SLP"}
      BY DEF Ercd, WaitKind
    <3>2. \A t \in TSKID : Ended(t, "SEM")' <=> Ended(t, "SEM")
                                               \/ (t \in Elems(ts) /\ "E_DLT" = "E_OK")
      BY <1>0, <2>1, <2>2, <3>1, CompleteAllOutcome
    <3> QED
      BY <3>1, <3>2 DEF Keeps
  <2>4. \A t : t \in InFlight(semid) <=> /\ t \in TSKID /\ Ended(t, "SEM")
                                         /\ winfo[t].obj = Sem(semid)
    BY InFlightEnded DEF OutcomeInv
  <2>5. \A s : s # semid => Sem(s) # Sem(semid)
    BY DEF Sem
  <2>6. Out(semid)' = {}
    BY <2>2, <2>3, <2>4 DEF Keeps, Out
  <2>7. \A s : s # semid => Out(s)' = Out(s)
    BY <2>2, <2>3, <2>4, <2>5 DEF Keeps, Out
  <2>8. \A t \in orphan' : Ended(t, "SEM")'
    BY <2>2, <2>3, <2>4 DEF Keeps, UnitInv, WaitInv, SemTypes
  <2>9. /\ semexs \in [SEMID -> BOOLEAN] /\ semcnt \in [SEMID -> Nat] /\ ledger \in [SEMID -> Int]
    BY DEF WaitInv, SemTypes
  <2>10. ~semexs'[semid]
    BY <2>2, <2>9
  <2>11. ASSUME NEW s \in SEMID, s # semid
         PROVE  /\ semexs'[s] => ledger'[s] = semcnt'[s] + Units(winfo', Out(s)')
                /\ ~semexs'[s] => Out(s)' = {}
    <3>1. semexs'[s] = semexs[s] /\ ledger'[s] = ledger[s] /\ semcnt'[s] = semcnt[s]
      BY <2>2, <2>9, <2>11
    <3>2. Out(s)' = Out(s) /\ winfo' = winfo
      BY <2>2, <2>7, <2>11
    <3> QED
      BY <3>1, <3>2 DEF UnitInv
  <2> QED
    BY <2>6, <2>8, <2>10, <2>11 DEF UnitInv
<1> QED
  BY <1>1, <1>2

\* The second half of tk_wai_sem(): a task that was served leaves with its units.
LEMMA ReturnUnits ==
  ASSUME KernelInv, WaitInv, OutcomeInv, UnitInv, SemReturn
  PROVE  UnitInv'
<1> DEFINE c == current
           x == winfo[current].obj[2]
<1>0. /\ WaitReturn("SEM") /\ UNCHANGED <<semexs, semcnt, winfo>> /\ orphan' = orphan \ {c}
      /\ ledger' = IF c \in InFlight(x) \ orphan
                   THEN [ledger EXCEPT ![x] = @ - winfo[c].req] ELSE ledger
  BY DEF SemReturn, WaitReturn
<1>1. \A t \in TSKID : Ended(t, "SEM")' <=> Ended(t, "SEM") /\ t # c
  BY <1>0, WaitReturnOutcome DEF WaitKind
<1>2. /\ semexs \in [SEMID -> BOOLEAN] /\ semcnt \in [SEMID -> Nat] /\ ledger \in [SEMID -> Int]
      /\ orphan \subseteq TSKID /\ \A t \in TSKID : winfo[t].req \in Nat
  BY DEF WaitInv, WaitTypes, SemTypes
<1>3. c \in TSKID
  BY DEF KernelInv, TaskTypes, CpuTypes
<1>4. \A t \in orphan' : Ended(t, "SEM")'
  BY <1>0, <1>1, <1>2 DEF UnitInv
<1>5. \A s \in SEMID : c \in Out(s) => s = x /\ c \in InFlight(x) \ orphan
  <2> SUFFICES ASSUME NEW s \in SEMID, c \in Out(s) PROVE s = x /\ c \in InFlight(x) \ orphan
    OBVIOUS
  <2>1. Ended(c, "SEM") /\ winfo[c].obj = Sem(s) /\ c \notin orphan
    BY DEF Out
  <2>2. x = s
    BY <2>1, Objects
  <2> QED
    BY <1>3, <2>1, <2>2, InFlightEnded DEF OutcomeInv
<1>6. \A s \in SEMID : c \notin Out(s) => s # x \/ c \notin InFlight(x) \ orphan
  BY InFlightEnded DEF OutcomeInv, Out
<1> HIDE DEF x
<1>7. ASSUME NEW s \in SEMID
      PROVE  /\ semexs'[s] => ledger'[s] = semcnt'[s] + Units(winfo', Out(s)')
             /\ ~semexs'[s] => Out(s)' = {}
  <2> DEFINE o == Out(s)
             p == Out(s)'
  <2>1. p = o \ {c} /\ o \in SUBSET TSKID
    BY <1>0, <1>1 DEF Out
  <2>2. /\ semexs[s] => ledger[s] = semcnt[s] + Units(winfo, o)
        /\ ~semexs[s] => o = {}
    BY DEF UnitInv
  <2>3. CASE c \in o
    <3>1. ledger'[s] = ledger[s] - winfo[c].req
      BY <1>0, <1>2, <1>5, <2>3
    <3> HIDE DEF o, p
    <3>2. Units(winfo, o) = winfo[c].req + Units(winfo, o \ {c})
      BY <1>2, <2>1, <2>3, UnitsOfTasks
    <3>3. Units(winfo, p) = Units(winfo, o \ {c}) /\ Units(winfo, p) \in Nat
      <4>1. p \in SUBSET TSKID
        BY <2>1
      <4> QED
        BY <1>2, <2>1, <4>1, UnitsOfTasks
    <3>4. winfo[c].req \in Nat /\ semcnt[s] \in Nat /\ ledger[s] \in Int
      BY <1>2, <1>3
    <3>5. semexs[s] => ledger'[s] = semcnt[s] + Units(winfo, p)
      BY <2>2, <3>1, <3>2, <3>3, <3>4
    <3> QED
      BY <1>0, <2>1, <2>2, <3>5 DEF p
  <2>4. CASE c \notin o
    <3>1. ledger'[s] = ledger[s]
      BY <1>0, <1>2, <1>6, <2>4
    <3>2. p = o
      BY <2>1, <2>4
    <3> QED
      BY <1>0, <2>2, <3>1, <3>2
  <2> QED
    BY <2>3, <2>4
<1> QED
  BY <1>4, <1>7 DEF UnitInv

\* The steps that are no semaphore call and not the timer handler leave the units
\* alone.
LEMMA OthersKeepUnits ==
  ASSUME KernelInv, WaitInv, OutcomeInv,
         \/ TaskCall \/ TimerCall \/ FlagCall \/ MailboxCall
         \/ mtrap_handler \/ external_interrupt \/ TrapExit
         \/ Idle \/ TaskDI \/ TaskEI \/ ExitReturns \/ ClockTick \/ UNCHANGED vars
  PROVE  Keeps("SEM") /\ UNCHANGED semVars
<1>0. /\ "SEM" \in WaitKind /\ "SEM" \in WaitKind \ {"SLP"} /\ "SEM" \in WaitKind \ {"SLP", "DLY"}
      /\ "SEM" \in WaitKind \ {"FLG"} /\ "SEM" \in WaitKind \ {"MBX"}
  BY DEF WaitKind
<1> DEFINE K == Keeps("SEM") /\ UNCHANGED semVars
<1>1. ASSUME TaskCall PROVE K
  BY <1>0, <1>1, TaskCallOutcome DEF TaskCall, objVars
<1>2. ASSUME TimerCall PROVE K
  BY <1>0, <1>2, TimerCallOutcome DEF TimerCall, objVars
<1>3. ASSUME FlagCall PROVE K
  BY <1>0, <1>3, FlagCallOutcome DEF FlagCall
<1>4. ASSUME MailboxCall PROVE K
  BY <1>0, <1>4, MailboxCallOutcome DEF MailboxCall
<1>5. ASSUME mtrap_handler \/ external_interrupt \/ TrapExit PROVE K
  <2>1. UNCHANGED semVars
    BY <1>5 DEF mtrap_handler, external_interrupt, TrapExit, objVars
  <2>2. CASE msip /\ schedule /\ UNCHANGED <<tskwait, wupcause, wupcnt, credit>>
    BY <1>0, <2>1, <2>2, ScheduleStands DEF OutcomeInv
  <2>3. CASE UNCHANGED <<tskstat, tskwait, wupcause, wupcnt, credit, pc, sp, current>>
    BY <1>0, <2>1, <2>3, TasksStay DEF OutcomeInv
  <2> QED
    BY <1>5, <2>2, <2>3 DEF mtrap_handler, external_interrupt, TrapExit, tcbVars
<1>6. ASSUME Idle \/ TaskDI \/ TaskEI \/ ExitReturns \/ ClockTick \/ UNCHANGED vars PROVE K
  <2>1. UNCHANGED semVars
    BY <1>6 DEF Idle, IdleCheck, IdleWfi, IdleEI, IdleYield, TaskDI, TaskEI, SetMie,
                ExitReturns, ClockTick, objVars, vars
  <2> QED
    BY <1>0, <1>6, <2>1, OtherOutcome
<1> QED
  BY <1>1, <1>2, <1>3, <1>4, <1>5, <1>6

\* The invariant of the units.
LEMMA UnitSafe == Spec => [](KernelInv /\ OutcomeInv /\ UnitInv)
<1>1. Init => UnitInv
  <2> SUFFICES ASSUME Init PROVE UnitInv
    OBVIOUS
  <2>1. \A t \in TSKID : ~Ended(t, "SEM")
    BY DEF Init, Ended, Entry
  <2>2. orphan = {} /\ \A s \in SEMID : ~semexs[s]
    BY DEF Init, tkmc_init_semcb
  <2> QED
    BY <2>1, <2>2 DEF UnitInv, Out
<1>2. KernelInv /\ WaitInv /\ WaitInv' /\ OutcomeInv /\ UnitInv /\ [Next]_vars => UnitInv'
  <2> SUFFICES ASSUME KernelInv, WaitInv, WaitInv', OutcomeInv, UnitInv, [Next]_vars
               PROVE  UnitInv'
    OBVIOUS
  <2>1. CASE SemaphoreCall
    <3>1. CASE \E t \in TSKID : tk_rel_wai(t)
      BY <3>1, LimitsUnits
    <3>2. CASE \E atr \in SemAtr, isemcnt, max \in SemCnt : tk_cre_sem(atr, isemcnt, max)
      BY <3>2, CreUnits
    <3>3. CASE \E semid \in SEMID : tk_del_sem(semid)
      BY <3>3, DelUnits
    <3>4. CASE \E semid \in SEMID, cnt \in SemCnt, tmout \in SemTmo : tk_wai_sem(semid, cnt, tmout)
      BY <3>4, WaiUnits
    <3>5. CASE \E semid \in SEMID, cnt \in SemCnt : tk_sig_sem(semid, cnt)
      BY <3>5, SigUnits
    <3>6. CASE SemReturn
      BY <3>6, ReturnUnits
    <3> QED
      BY <2>1, <3>1, <3>2, <3>3, <3>4, <3>5, <3>6 DEF SemaphoreCall
  <2>2. CASE timer_interrupt
    BY <2>2, LimitsUnits
  <2>3. CASE \/ TaskCall \/ TimerCall \/ FlagCall \/ MailboxCall
             \/ mtrap_handler \/ external_interrupt \/ TrapExit
             \/ Idle \/ TaskDI \/ TaskEI \/ ExitReturns \/ ClockTick \/ UNCHANGED vars
    <3>1. Keeps("SEM") /\ UNCHANGED <<semexs, orphan, semcnt, ledger>>
      BY <2>3, OthersKeepUnits DEF semVars
    <3> QED
      BY <3>1, UnitsStay
  <2> QED
    BY <2>1, <2>2, <2>3 DEF Next, Trap, Stopped
<1> QED
  BY <1>1, <1>2, OutcomeSafe, PTL DEF Spec

\* No unit of a semaphore is lost or made: what its callers put in is in the count,
\* with a task that was served and has not returned, or was returned with, for any
\* number of tasks, semaphores and units, also when time limits, tk_rel_wai() and
\* deletions come between the hand-off and the return.
THEOREM UnitsHold == Spec => []UnitsConserved
<1>1. KernelInv /\ OutcomeInv /\ UnitInv => UnitsConserved
  <2> SUFFICES ASSUME KernelInv, OutcomeInv, UnitInv, NEW s \in SEMID, semexs[s]
               PROVE  ledger[s] = semcnt[s] + Units(winfo, InFlight(s) \ orphan)
    BY DEF UnitsConserved, Units
  <2>1. InFlight(s) \ orphan = Out(s)
    BY InFlightEnded DEF OutcomeInv, Out
  <2> QED
    BY <2>1 DEF UnitInv
<1> QED
  BY <1>1, UnitSafe, PTL
=============================================================================
