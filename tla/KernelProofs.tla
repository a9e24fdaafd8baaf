---------------------------- MODULE KernelProofs ----------------------------
(***************************************************************************)
(* The safety of the kernel for any number of tasks and priorities, any    *)
(* limits and any interrupt latency.  The inductive invariant is KernelInv *)
(* and WaitInv of module Kernel: first the steps keep the one, then, from  *)
(* it, the other, and the theorems on the kernel's safety follow.          *)
(***************************************************************************)
EXTENDS Kernel, SemaphoreProofs

-----------------------------------------------------------------------------
(* Scheduling primitives. *)

\* tkmc_get_highest_priority_task() finds a ready task when there is one.
LEMMA HighestReady ==
  ASSUME NEW rq \in [Pri -> Seq(TSKID)]
  PROVE  /\ Highest(rq) \in TSKID \cup {NULL}
         /\ (\E p \in Pri : rq[p] # << >>) =>
              Highest(rq) \in TSKID /\ \E p \in Pri : Highest(rq) \in Elems(rq[p])
<1>1. CASE \A p \in Pri : rq[p] = << >>
  BY <1>1 DEF Highest
<1>2. CASE \E p \in Pri : rq[p] # << >>
  <2> DEFINE P == {p \in Pri : rq[p] # << >>}
             First(p) == p \in Pri /\ rq[p] # << >> /\ \A q \in Pri : q < p => rq[q] = << >>
  <2>1. P \subseteq Pri /\ Pri \subseteq Nat
    BY Numbers
  <2>2. P # {}
    BY <1>2
  <2>3. PICK m \in P : \A k \in P : m <= k
    <3> HIDE DEF P
    <3> QED
      BY <2>1, <2>2, LeastNat
  <2>4. \A q \in Pri : q < m => q \notin P
    BY <2>1, <2>3
  <2>5. First(m)
    BY <2>3, <2>4
  <2> DEFINE c == CHOOSE p \in Pri : /\ rq[p] # << >>
                                     /\ \A q \in Pri : q < p => rq[q] = << >>
  <2>6. c \in Pri /\ rq[c] # << >>
    BY <2>5
  <2>7. Highest(rq) = Head(rq[c])
    BY <1>2 DEF Highest
  <2> HIDE DEF c
  <2>8. Head(rq[c]) \in TSKID /\ Head(rq[c]) \in Elems(rq[c])
    BY <2>6 DEF Elems
  <2> QED
    BY <2>6, <2>7, <2>8
<1> QED
  BY <1>1, <1>2

\* Tasks that were not ready join the ready queues of their priorities.
LEMMA EnqueuedQueues ==
  ASSUME TaskTypes, QueuesConsistent, NEW ts \in Seq(TSKID), Uniq(ts),
         \A t \in Elems(ts) : tskstat[t] \notin {"RDY", "RUN"}
  PROVE  /\ Enqueued(ts) \in [Pri -> Seq(TSKID)]
         /\ \A p \in Pri : /\ Uniq(Enqueued(ts)[p])
                           /\ Elems(Enqueued(ts)[p]) =
                                Elems(ready_queue[p]) \cup {t \in Elems(ts) : itskpri[t] = p}
<1> SUFFICES ASSUME NEW p \in Pri
             PROVE  /\ Enqueued(ts)[p] \in Seq(TSKID)
                    /\ Uniq(Enqueued(ts)[p])
                    /\ Elems(Enqueued(ts)[p]) =
                         Elems(ready_queue[p]) \cup {t \in Elems(ts) : itskpri[t] = p}
  BY DEF Enqueued
<1> DEFINE S == {t \in TSKID : itskpri[t] = p}
           k == Keep(ts, S)
           r == ready_queue[p]
<1>1. Enqueued(ts)[p] = r \o k
  BY DEF Enqueued
<1>2. r \in Seq(TSKID) /\ Uniq(r)
  BY DEF TaskTypes, QueueTypes, QueuesConsistent
<1>3. k \in Seq(TSKID) /\ Elems(k) = Elems(ts) \cap S /\ Uniq(k)
  BY KeepProperties
<1>4. Elems(r) \cap Elems(k) = {}
  BY <1>3 DEF QueuesConsistent
<1>5. Elems(k) = {t \in Elems(ts) : itskpri[t] = p}
  BY <1>3, SmallQueues
<1> HIDE DEF k, r
<1>6. r \o k \in Seq(TSKID) /\ Uniq(r \o k) /\ Elems(r \o k) = Elems(r) \cup Elems(k)
  BY <1>2, <1>3, <1>4, JoinProperties
<1> QED
  BY <1>1, <1>5, <1>6 DEF r

\* A task leaves the ready queues.
LEMMA DequeuedQueues ==
  ASSUME TaskTypes, QueuesConsistent, NEW t \in TSKID
  PROVE  /\ Dequeued(t) \in [Pri -> Seq(TSKID)]
         /\ \A p \in Pri : /\ Uniq(Dequeued(t)[p])
                           /\ Elems(Dequeued(t)[p]) = Elems(ready_queue[p]) \ {t}
<1> SUFFICES ASSUME NEW p \in Pri
             PROVE  /\ Dequeued(t)[p] \in Seq(TSKID)
                    /\ Uniq(Dequeued(t)[p])
                    /\ Elems(Dequeued(t)[p]) = Elems(ready_queue[p]) \ {t}
  BY DEF Dequeued
<1>1. ready_queue[p] \in Seq(TSKID) /\ Uniq(ready_queue[p])
  BY DEF TaskTypes, QueueTypes, QueuesConsistent
<1>2. Dequeued(t)[p] = Without(ready_queue[p], {t})
  BY DEF Dequeued
<1> QED
  BY <1>1, <1>2, WithoutProperties

-----------------------------------------------------------------------------
(* The initial state. *)

\* At the start the ready queues hold the initial task and the idle task, and
\* the other TCBs are on the free list.
LEMMA InitQueues ==
  ASSUME Init
  PROVE  /\ ready_queue \in [Pri -> Seq(TSKID)]
         /\ \A p \in Pri : /\ Uniq(ready_queue[p])
                           /\ Elems(ready_queue[p]) =
                                {t \in {IniTsk, IdlTsk} : itskpri[t] = p}
         /\ free_tcb \in Seq(TSKID) /\ Uniq(free_tcb)
         /\ Elems(free_tcb) = TSKID \ {IniTsk, IdlTsk}
<1>1. ASSUME NEW p \in Pri
      PROVE  /\ ready_queue[p] \in Seq(TSKID)
             /\ Uniq(ready_queue[p])
             /\ Elems(ready_queue[p]) = {t \in {IniTsk, IdlTsk} : itskpri[t] = p}
  <2> DEFINE a == IF p = 1 THEN <<IniTsk>> ELSE << >>
             b == IF p = CFN_MAX_PRI THEN <<IdlTsk>> ELSE << >>
  <2>1. ready_queue[p] = a \o b
    BY DEF Init
  <2>a. a \in Seq(TSKID) /\ Uniq(a) /\ Elems(a) = {t \in {IniTsk} : p = 1}
    BY SmallQueues, Numbers
  <2>b. b \in Seq(TSKID) /\ Uniq(b) /\ Elems(b) = {t \in {IdlTsk} : p = CFN_MAX_PRI}
    BY SmallQueues, Numbers
  <2>2. /\ a \in Seq(TSKID) /\ Uniq(a) /\ Elems(a) = {t \in {IniTsk} : p = 1}
        /\ b \in Seq(TSKID) /\ Uniq(b) /\ Elems(b) = {t \in {IdlTsk} : p = CFN_MAX_PRI}
    BY <2>a, <2>b
  <2>3. Elems(a) \cap Elems(b) = {}
    BY <2>2, Numbers
  <2> HIDE DEF a, b
  <2>4. a \o b \in Seq(TSKID) /\ Uniq(a \o b) /\ Elems(a \o b) = Elems(a) \cup Elems(b)
    BY <2>2, <2>3, JoinProperties
  <2>5. itskpri[IniTsk] = 1 /\ itskpri[IdlTsk] = CFN_MAX_PRI
    BY Numbers DEF Init
  <2> QED
    BY <2>1, <2>2, <2>4, <2>5
<1>2. ready_queue \in [Pri -> Seq(TSKID)]
  BY <1>1 DEF Init
<1>3. /\ free_tcb = [i \in 1..CFN_MAX_TSKID - 2 |-> i + 2]
      /\ CFN_MAX_TSKID - 2 \in Nat /\ CFN_MAX_TSKID \in Nat
  BY TaskAssumption DEF Init
<1>4. free_tcb \in Seq(TSKID) /\ Len(free_tcb) = CFN_MAX_TSKID - 2
  BY <1>3 DEF TSKID
<1>5. Uniq(free_tcb)
  BY <1>3, <1>4 DEF Uniq
<1>6. Elems(free_tcb) = TSKID \ {IniTsk, IdlTsk}
  <2>1. \A i \in 1..CFN_MAX_TSKID - 2 : free_tcb[i] \in TSKID \ {1, 2}
    BY <1>3 DEF TSKID
  <2>2. \A t \in TSKID \ {1, 2} : t - 2 \in 1..CFN_MAX_TSKID - 2 /\ free_tcb[t - 2] = t
    BY <1>3 DEF TSKID
  <2> QED
    BY <1>4, <2>1, <2>2 DEF Elems, IniTsk, IdlTsk
<1> QED
  BY <1>1, <1>2, <1>4, <1>5, <1>6

\* The state in which the kernel starts its first task satisfies the invariant.
LEMMA InitInv == Init => KernelInv
<1> SUFFICES ASSUME Init PROVE KernelInv
  OBVIOUS
<1> USE Numbers
<1>1. TaskTypes
  <2>1. 0 \in 0..CFN_MAX_PRI /\ 0 \in 0..TK_WAKEUP_MAXCNT /\ 0 \in 0..MaxEdges
    BY TaskAssumption, TimerAssumption
  <2>2. itskpri \in [TSKID -> 0..CFN_MAX_PRI] /\ pc \in [TSKID -> PC]
    BY <2>1 DEF Init, PC, IdlePC, Entry
  <2>3. ready_queue \in [Pri -> Seq(TSKID)] /\ free_tcb \in Seq(TSKID)
    BY InitQueues
  <2>4. << >> \in Seq(TSKID)
    OBVIOUS
  <2>5. TcbTypes
    BY <2>1, <2>2 DEF Init, TcbTypes, TskStat, Ercd
  <2>6. QueueTypes
    BY <2>3, <2>4 DEF Init, QueueTypes
  <2>7. CpuTypes
    BY <2>1 DEF Init, CpuTypes
  <2> QED
    BY <2>5, <2>6, <2>7 DEF TaskTypes
<1>2. TasksStanding
  BY DEF Init, TasksStanding, IdlePC, Entry
<1>3. QueuesConsistent
  <2>1. Uniq(timer_queue) /\ Elems(timer_queue) = {}
    BY SmallQueues DEF Init
  <2> QED
    BY <2>1, InitQueues DEF Init, QueuesConsistent
<1>4. DispatchRight
  <2>1. Len(ready_queue[1]) > 0 /\ Head(ready_queue[1]) = IniTsk
    BY DEF Init
  <2>2. \A p \in Pri : p \in Nat /\ ~(p < 1) /\ (p = 1 \/ 1 < p)
    BY DEF Pri
  <2>3. Highest(ready_queue) = IniTsk
    <3>1. ready_queue[1] # << >>
      BY <2>1
    <3> DEFINE c == CHOOSE p \in Pri : /\ ready_queue[p] # << >>
                                       /\ \A q \in Pri : q < p => ready_queue[q] = << >>
    <3>2. \E p \in Pri : ready_queue[p] # << >> /\ \A q \in Pri : q < p => ready_queue[q] = << >>
      <4>1. \A q \in Pri : q < 1 => ready_queue[q] = << >>
        BY <2>2
      <4> QED
        BY <3>1, <4>1
    <3>3. c \in Pri /\ \A q \in Pri : q < c => ready_queue[q] = << >>
      BY <3>2
    <3>4. c = 1
      <4> HIDE DEF c
      <4> QED
        BY <3>1, <3>3, <2>2
    <3> QED
      BY <3>1, <3>4, <2>1 DEF Highest
  <2> QED
    BY <2>3 DEF DispatchRight, Init
<1> QED
  BY <1>1, <1>2, <1>3, <1>4 DEF KernelInv

-----------------------------------------------------------------------------
(* The parts that the actions share. *)

\* The idle task is always ready, so there is always a task to switch to.
LEMMA IdleIsReady ==
  ASSUME KernelInv
  PROVE  /\ Highest(ready_queue) \in TSKID
         /\ tskstat[Highest(ready_queue)] \in {"RDY", "RUN"}
<1>1. IdlTsk \in Elems(ready_queue[CFN_MAX_PRI])
  BY Numbers DEF KernelInv, TasksStanding, QueuesConsistent
<1>2. ready_queue \in [Pri -> Seq(TSKID)]
  BY DEF KernelInv, TaskTypes, QueueTypes
<1>3. ready_queue[CFN_MAX_PRI] # << >>
  BY <1>1, <1>2, SmallQueues
<1>4. Highest(ready_queue) \in TSKID /\ \E p \in Pri : Highest(ready_queue) \in Elems(ready_queue[p])
  BY <1>2, <1>3, Numbers, HighestReady
<1> QED
  BY <1>4 DEF KernelInv, QueuesConsistent

\* A task that may block is running, and is not the idle task.
LEMMA BlockingCaller ==
  ASSUME KernelInv, Caller, tkmc_can_block
  PROVE  /\ mie /\ ~msip /\ isr = "no" /\ halted = "no" /\ pc[current] = "run"
         /\ current \in TSKID /\ current # IdlTsk /\ tskstat[current] = "RUN"
         /\ itskpri[current] \in Pri
  BY DEF KernelInv, TaskTypes, CpuTypes, TasksStanding, DispatchRight, Caller, TaskRuns,
         tkmc_can_block, tkmc_in_isr, IdlePC

\* tkmc_schedule_timer(), and the waits without a time limit.
LEMMA BeginWaitInv ==
  ASSUME KernelInv, Caller, tkmc_can_block, NEW wkind \in WaitKind, NEW ticks \in Nat,
         NEW elapsed \in Nat, BeginWait(wkind, ticks, elapsed), UNCHANGED edges
  PROVE  KernelInv'
<1> USE DEF KernelInv
<1>1. /\ mie /\ current \in TSKID /\ current # IdlTsk /\ tskstat[current] = "RUN"
      /\ isr = "no" /\ halted = "no" /\ itskpri[current] \in Pri
  BY BlockingCaller
<1> DEFINE rq == Dequeued(current)
<1>2. /\ rq \in [Pri -> Seq(TSKID)]
      /\ \A p \in Pri : Uniq(rq[p]) /\ Elems(rq[p]) = Elems(ready_queue[p]) \ {current}
  BY <1>1, DequeuedQueues
<1>3. /\ timer_queue' \in Seq(TSKID) /\ Uniq(timer_queue')
      /\ Elems(timer_queue') = Elems(timer_queue) \cup (IF ticks = 0 THEN {} ELSE {current})
  <2>1. timer_queue \in Seq(TSKID) /\ Uniq(timer_queue) /\ current \notin Elems(timer_queue)
    BY <1>1 DEF TaskTypes, QueueTypes, QueuesConsistent
  <2>2. CASE ticks = 0
    BY <2>1, <2>2 DEF BeginWait
  <2>3. CASE ticks # 0
    BY <1>1, <2>1, <2>3, AppendQueue DEF BeginWait
  <2> QED
    BY <2>2, <2>3
<1> HIDE DEF rq
<1>4. ready_queue' = rq /\ next' = Highest(rq) /\ msip' = TRUE
  BY DEF BeginWait, Dispatch, rq
<1>5. TaskTypes'
  <2>1. TcbTypes'
    BY <1>1 DEF TaskTypes, TcbTypes, BeginWait, TskStat, PC
  <2>2. QueueTypes'
    BY <1>2, <1>3, <1>4 DEF TaskTypes, QueueTypes, BeginWait
  <2>3. CpuTypes'
    BY <1>2, <1>4, HighestReady DEF TaskTypes, CpuTypes, BeginWait, cpuVars
  <2> QED
    BY <2>1, <2>2, <2>3 DEF TaskTypes
<1>6. TasksStanding'
  BY <1>1, Numbers DEF TaskTypes, TcbTypes, TasksStanding, BeginWait, cpuVars, IdlePC, WaitKind
<1>7. QueuesConsistent'
  <2>1. /\ tskstat' = [tskstat EXCEPT ![current] = "WAI"]
        /\ delay_ticks' = [delay_ticks EXCEPT
                             ![current] = IF ticks = 0 THEN 0 ELSE ticks + elapsed]
        /\ itskpri' = itskpri /\ free_tcb' = free_tcb
        /\ tskstat \in [TSKID -> TskStat] /\ delay_ticks \in [TSKID -> Nat]
    BY DEF BeginWait, TaskTypes, TcbTypes
  <2>2. \A t \in TSKID, p \in Pri :
          t \in Elems(ready_queue'[p]) <=> tskstat'[t] \in {"RDY", "RUN"} /\ itskpri'[t] = p
    BY <1>1, <1>2, <1>4, <2>1 DEF QueuesConsistent
  <2>3. \A t \in TSKID :
          t \in Elems(timer_queue') <=> tskstat'[t] = "WAI" /\ delay_ticks'[t] > 0
    BY <1>1, <1>3, <2>1 DEF QueuesConsistent
  <2>4. \A t \in TSKID : t \in Elems(free_tcb') <=> tskstat'[t] = "NOEXS"
    BY <1>1, <2>1 DEF QueuesConsistent
  <2>5. Uniq(free_tcb')
    BY <2>1 DEF QueuesConsistent
  <2> QED
    BY <1>2, <1>3, <1>4, <2>2, <2>3, <2>4, <2>5 DEF QueuesConsistent
<1>8. DispatchRight'
  BY <1>4 DEF DispatchRight
<1> QED
  BY <1>5, <1>6, <1>7, <1>8

\* tkmc_complete_wait() of any number of waiting tasks, followed by the choice of
\* the next task (which may be left out when no wait ended).
LEMMA CompleteWaitsInv ==
  ASSUME KernelInv, NEW ts \in Seq(TSKID), Uniq(ts), NEW cause \in [TSKID -> Ercd],
         NEW elapsed \in Nat,
         \A t \in Elems(ts) : tskstat[t] = "WAI",
         \A t \in Elems(timer_queue) : t \in Elems(ts) \/ delay_ticks[t] > elapsed,
         CompleteWaits(ts, cause, elapsed),
         DispatchIfNeeded(Enqueued(ts)) \/ (ts = << >> /\ UNCHANGED <<next, msip>>),
         UNCHANGED <<itskpri, wupcnt, sp, pc, free_tcb, current, mie, halted>>,
         credit' \in [TSKID -> Int], isr' \in {"no", "ext", "timer"}, edges' \in 0..MaxEdges
  PROVE  KernelInv'
<1> USE DEF KernelInv
<1> DEFINE done == Elems(ts)
           rq == Enqueued(ts)
<1>0. done \subseteq TSKID
  BY SmallQueues
<1>1. /\ tskstat' = [t \in TSKID |-> IF t \in done THEN "RDY" ELSE tskstat[t]]
      /\ tskwait' = [t \in TSKID |-> IF t \in done THEN "none" ELSE tskwait[t]]
      /\ wupcause' = [t \in TSKID |-> IF t \in done THEN cause[t] ELSE wupcause[t]]
      /\ delay_ticks' = [t \in TSKID |->
                           IF t \in done THEN 0
                           ELSE IF t \in Elems(timer_queue)
                                THEN delay_ticks[t] - elapsed
                                ELSE delay_ticks[t]]
      /\ left' = [t \in TSKID |-> IF t \in done THEN 0 ELSE left[t]]
      /\ timer_queue' = Without(timer_queue, done)
      /\ ready_queue' = rq
  BY DEF CompleteWaits
<1>2. /\ rq \in [Pri -> Seq(TSKID)]
      /\ \A p \in Pri : /\ Uniq(rq[p])
                        /\ Elems(rq[p]) = Elems(ready_queue[p]) \cup {t \in done : itskpri[t] = p}
  BY EnqueuedQueues
<1>3. /\ timer_queue' \in Seq(TSKID) /\ Uniq(timer_queue')
      /\ Elems(timer_queue') = Elems(timer_queue) \ done
  BY <1>1, WithoutProperties DEF TaskTypes, QueueTypes, QueuesConsistent
<1>4. \/ next' = Highest(rq) /\ msip' = (msip \/ Highest(rq) # current)
      \/ next' = next /\ msip' = msip /\ done = {}
  BY SmallQueues DEF DispatchIfNeeded
<1>5. done = {} => rq = ready_queue
  <2> SUFFICES ASSUME done = {} PROVE rq = ready_queue
    OBVIOUS
  <2>1. ts = << >>
    BY SmallQueues
  <2>2. ASSUME NEW p \in Pri PROVE rq[p] = ready_queue[p]
    <3> DEFINE S == {t \in TSKID : itskpri[t] = p}
               k == Keep(ts, S)
    <3>0. k \in Seq(TSKID) /\ Elems(k) = done \cap S
      <4> HIDE DEF S
      <4> QED
        BY KeepProperties
    <3>1. k \in Seq(TSKID) /\ Elems(k) = {}
      BY <3>0
    <3>2. k = << >>
      <4> HIDE DEF k
      <4> QED
        BY <3>1, SmallQueues
    <3>3. rq[p] = ready_queue[p] \o k /\ ready_queue[p] \in Seq(TSKID)
      BY DEF Enqueued, TaskTypes, QueueTypes
    <3> HIDE DEF k, rq
    <3> QED
      BY <3>2, <3>3, JoinEmpty
  <2> QED
    BY <1>2, <2>2 DEF TaskTypes, QueueTypes
<1> HIDE DEF done, rq
<1>6. TaskTypes'
  <2>1. \A t \in TSKID : delay_ticks'[t] \in Nat
    BY <1>1 DEF TaskTypes, TcbTypes, done
  <2>a. delay_ticks' \in [TSKID -> Nat]
    BY <1>1, <2>1
  <2>b. tskstat' \in [TSKID -> TskStat] /\ tskwait' \in [TSKID -> WaitKind \cup {"none"}]
    BY <1>1 DEF TaskTypes, TcbTypes, TskStat
  <2>c. wupcause' \in [TSKID -> Ercd] /\ left' \in [TSKID -> Int]
    BY <1>1 DEF TaskTypes, TcbTypes
  <2>2. TcbTypes'
    BY <2>a, <2>b, <2>c DEF TaskTypes, TcbTypes
  <2>3. QueueTypes'
    BY <1>1, <1>2, <1>3 DEF TaskTypes, QueueTypes
  <2>4. next' \in TSKID \cup {NULL} /\ msip' \in BOOLEAN
    BY <1>2, <1>4, HighestReady DEF TaskTypes, CpuTypes
  <2>5. CpuTypes'
    BY <2>4 DEF TaskTypes, CpuTypes
  <2> QED
    BY <2>2, <2>3, <2>5 DEF TaskTypes
<1>7. TasksStanding'
  BY <1>0, <1>1, Numbers DEF TasksStanding, TaskTypes, CpuTypes, TcbTypes, done
<1>8. QueuesConsistent'
  <2>1. tskstat \in [TSKID -> TskStat] /\ delay_ticks \in [TSKID -> Nat] /\ itskpri' = itskpri
        /\ free_tcb' = free_tcb
    BY DEF TaskTypes, TcbTypes
  <2>2. \A t \in TSKID, p \in Pri :
          t \in Elems(ready_queue'[p]) <=> tskstat'[t] \in {"RDY", "RUN"} /\ itskpri'[t] = p
    BY <1>0, <1>1, <1>2, <2>1 DEF QueuesConsistent
  <2>3. \A t \in TSKID :
          t \in Elems(timer_queue') <=> tskstat'[t] = "WAI" /\ delay_ticks'[t] > 0
    BY <1>1, <1>3, <2>1 DEF QueuesConsistent, done
  <2>4. \A t \in TSKID : t \in Elems(free_tcb') <=> tskstat'[t] = "NOEXS"
    BY <1>1, <2>1 DEF QueuesConsistent, done
  <2>5. Uniq(free_tcb')
    BY <2>1 DEF QueuesConsistent
  <2> QED
    BY <1>1, <1>2, <1>3, <2>2, <2>3, <2>4, <2>5 DEF QueuesConsistent
<1>9. DispatchRight'
  <2>1. current' = current /\ current \in TSKID /\ msip \in BOOLEAN
    BY DEF TaskTypes, CpuTypes
  <2>2. tskstat[current] = "RUN" => tskstat'[current] = "RUN"
    BY <1>1, <2>1 DEF done
  <2>3. CASE msip
    BY <2>1, <2>3, <1>1, <1>4, <1>5 DEF DispatchRight
  <2>4. CASE ~msip
    <3>1. current = Highest(ready_queue) /\ tskstat'[current] = "RUN"
      BY <2>2, <2>4 DEF DispatchRight
    <3>2. CASE next' = next /\ msip' = msip /\ done = {}
      BY <2>1, <2>4, <3>1, <3>2, <1>1, <1>5 DEF DispatchRight
    <3>3. CASE next' = Highest(rq) /\ msip' = (msip \/ Highest(rq) # current)
      <4>1. msip' = (Highest(rq) # current)
        BY <2>4, <3>3
      <4>2. CASE Highest(rq) = current
        BY <2>1, <3>1, <4>1, <4>2, <1>1 DEF DispatchRight
      <4>3. CASE Highest(rq) # current
        BY <3>3, <4>1, <4>3, <1>1 DEF DispatchRight
      <4> QED
        BY <4>2, <4>3
    <3> QED
      BY <3>2, <3>3, <1>4
  <2> QED
    BY <2>1, <2>3, <2>4
<1> QED
  BY <1>6, <1>7, <1>8, <1>9

\* A task that runs is marked as running.
LEMMA RunningTask ==
  ASSUME KernelInv, TaskRuns
  PROVE  current \in TSKID /\ tskstat[current] = "RUN" /\ itskpri[current] \in Pri
  BY DEF KernelInv, TaskTypes, CpuTypes, TasksStanding, DispatchRight, TaskRuns

\* Steps that touch neither task states nor queues nor the scheduler.
LEMMA QuietStep ==
  ASSUME KernelInv,
         UNCHANGED <<tskstat, itskpri, delay_ticks, queueVars, current, next, msip>>
  PROVE  QueueTypes' /\ QueuesConsistent' /\ DispatchRight'
<1>1. QueueTypes'
  BY DEF KernelInv, TaskTypes, QueueTypes, queueVars
<1>2. QueuesConsistent'
  BY DEF KernelInv, QueuesConsistent, queueVars
<1>3. DispatchRight'
  BY DEF KernelInv, DispatchRight, queueVars
<1> QED
  BY <1>1, <1>2, <1>3

\* A step that changes nothing keeps the invariant.
LEMMA StutterInv ==
  ASSUME KernelInv, UNCHANGED taskVars, UNCHANGED edges
  PROVE  KernelInv'
<1>1. QueueTypes' /\ QueuesConsistent' /\ DispatchRight'
  BY QuietStep DEF taskVars, tcbVars, queueVars
<1>2. TcbTypes' /\ CpuTypes'
  BY DEF KernelInv, TaskTypes, TcbTypes, CpuTypes, taskVars, tcbVars, cpuVars
<1>3. TasksStanding'
  BY DEF KernelInv, TasksStanding, taskVars, tcbVars, cpuVars
<1> QED
  BY <1>1, <1>2, <1>3 DEF KernelInv, TaskTypes

-----------------------------------------------------------------------------
(* The task calls. *)

\* tk_cre_tsk() moves a TCB from the free list to DORMANT, or fails.
LEMMA CreTskInv ==
  ASSUME KernelInv, NEW pri \in CrePri, tk_cre_tsk(pri), UNCHANGED edges
  PROVE  KernelInv'
<1> USE DEF KernelInv
<1>1. CASE pri \notin Pri \/ free_tcb = << >>
  BY <1>1, StutterInv DEF tk_cre_tsk
<1>2. CASE pri \in Pri /\ free_tcb # << >>
  <2> DEFINE t == Head(free_tcb)
  <2>1. /\ t \in TSKID /\ t \in Elems(free_tcb)
        /\ Tail(free_tcb) \in Seq(TSKID) /\ Uniq(Tail(free_tcb))
        /\ Elems(Tail(free_tcb)) = Elems(free_tcb) \ {t}
    BY <1>2, TailQueue DEF TaskTypes, QueueTypes, QueuesConsistent
  <2>2. tskstat[t] = "NOEXS" /\ t # IdlTsk
    BY <2>1 DEF QueuesConsistent, TasksStanding
  <2> HIDE DEF t
  <2>3. /\ free_tcb' = Tail(free_tcb)
        /\ tskstat' = [tskstat EXCEPT ![t] = "DMT"]
        /\ tskwait' = [tskwait EXCEPT ![t] = "none"]
        /\ itskpri' = [itskpri EXCEPT ![t] = pri]
        /\ delay_ticks' = [delay_ticks EXCEPT ![t] = 0]
        /\ wupcause' = [wupcause EXCEPT ![t] = "E_OK"]
        /\ wupcnt' = [wupcnt EXCEPT ![t] = 0]
        /\ sp' = [sp EXCEPT ![t] = "init"]
        /\ credit' = [credit EXCEPT ![t] = 0]
        /\ UNCHANGED <<pc, ready_queue, timer_queue, current, next, msip, mie, isr, halted, left>>
    BY <1>2 DEF tk_cre_tsk, t, cpuVars
  <2>4. TaskTypes'
    <3>1. 0 \in 0..TK_WAKEUP_MAXCNT /\ pri \in 0..CFN_MAX_PRI
      BY <1>2, Numbers, TaskAssumption
    <3>a. tskstat' \in [TSKID -> TskStat] /\ tskwait' \in [TSKID -> WaitKind \cup {"none"}]
      BY <2>1, <2>3 DEF TaskTypes, TcbTypes, TskStat
    <3>b. itskpri' \in [TSKID -> 0..CFN_MAX_PRI] /\ delay_ticks' \in [TSKID -> Nat]
      BY <2>1, <2>3, <3>1 DEF TaskTypes, TcbTypes
    <3>c. wupcause' \in [TSKID -> Ercd]
      BY <2>1, <2>3 DEF TaskTypes, TcbTypes, Ercd
    <3>d. wupcnt' \in [TSKID -> 0..TK_WAKEUP_MAXCNT]
      BY <2>1, <2>3, <3>1 DEF TaskTypes, TcbTypes
    <3>e. sp' \in [TSKID -> {"null", "init", "live"}]
      BY <2>1, <2>3 DEF TaskTypes, TcbTypes
    <3>f. credit' \in [TSKID -> Int]
      BY <2>1, <2>3 DEF TaskTypes, TcbTypes
    <3>2. TcbTypes'
      BY <2>3, <3>a, <3>b, <3>c, <3>d, <3>e, <3>f DEF TaskTypes, TcbTypes
    <3>3. QueueTypes'
      BY <2>1, <2>3 DEF TaskTypes, QueueTypes
    <3>4. CpuTypes'
      BY <2>3 DEF TaskTypes, CpuTypes
    <3> QED
      BY <3>2, <3>3, <3>4 DEF TaskTypes
  <2>5. TasksStanding'
    BY <1>2, <2>1, <2>2, <2>3, Numbers DEF TaskTypes, TcbTypes, CpuTypes, TasksStanding
  <2>6. QueuesConsistent'
    <3>0. /\ tskstat'[t] = "DMT"
          /\ \A x \in TSKID : x # t => /\ tskstat'[x] = tskstat[x] /\ itskpri'[x] = itskpri[x]
                                     /\ delay_ticks'[x] = delay_ticks[x]
      BY <2>1, <2>3 DEF TaskTypes, TcbTypes
    <3>1. \A x \in TSKID, p \in Pri :
            x \in Elems(ready_queue'[p]) <=> tskstat'[x] \in {"RDY", "RUN"} /\ itskpri'[x] = p
      BY <2>1, <2>2, <2>3, <3>0 DEF QueuesConsistent
    <3>2. \A x \in TSKID :
            x \in Elems(timer_queue') <=> tskstat'[x] = "WAI" /\ delay_ticks'[x] > 0
      BY <2>1, <2>2, <2>3, <3>0 DEF QueuesConsistent
    <3>3. \A x \in TSKID : x \in Elems(free_tcb') <=> tskstat'[x] = "NOEXS"
      BY <2>1, <2>2, <2>3, <3>0 DEF QueuesConsistent
    <3>4. Uniq(free_tcb') /\ Uniq(timer_queue') /\ \A p \in Pri : Uniq(ready_queue'[p])
      BY <2>1, <2>3 DEF QueuesConsistent
    <3> QED
      BY <3>1, <3>2, <3>3, <3>4 DEF QueuesConsistent
  <2>7. DispatchRight'
    <3>1. CASE msip
      BY <2>3, <3>1 DEF DispatchRight
    <3>2. CASE ~msip
      <4>1. tskstat[current] = "RUN" /\ current # t
        BY <2>2, <3>2 DEF DispatchRight
      <4>2. tskstat'[current] = "RUN"
        BY <2>1, <2>3, <4>1 DEF TaskTypes, TcbTypes, CpuTypes
      <4> QED
        BY <2>3, <3>2, <4>2 DEF DispatchRight
    <3> QED
      BY <3>1, <3>2
  <2> QED
    BY <2>4, <2>5, <2>6, <2>7
<1> QED
  BY <1>1, <1>2

\* tk_sta_tsk() makes a DORMANT task ready and asks for a switch, or fails.
LEMMA StaTskInv ==
  ASSUME KernelInv, NEW tskid \in TSKID, tk_sta_tsk(tskid), UNCHANGED edges
  PROVE  KernelInv'
<1> USE DEF KernelInv
<1>1. CASE tskstat[tskid] # "DMT"
  BY <1>1, StutterInv DEF tk_sta_tsk
<1>2. CASE tskstat[tskid] = "DMT"
  <2> DEFINE rq == Enqueued(<<tskid>>)
  <2>1. <<tskid>> \in Seq(TSKID) /\ Uniq(<<tskid>>) /\ Elems(<<tskid>>) = {tskid}
    BY SmallQueues
  <2>2. /\ rq \in [Pri -> Seq(TSKID)]
        /\ \A p \in Pri :
             /\ Uniq(rq[p])
             /\ Elems(rq[p]) = Elems(ready_queue[p]) \cup {t \in {tskid} : itskpri[t] = p}
    BY <1>2, <2>1, EnqueuedQueues
  <2> HIDE DEF rq
  <2>3. /\ tskstat' = [tskstat EXCEPT ![tskid] = "RDY"]
        /\ tskwait' = [tskwait EXCEPT ![tskid] = "none"]
        /\ delay_ticks' = [delay_ticks EXCEPT ![tskid] = 0]
        /\ wupcause' = [wupcause EXCEPT ![tskid] = "E_OK"]
        /\ wupcnt' = [wupcnt EXCEPT ![tskid] = 0]
        /\ sp' = [sp EXCEPT ![tskid] = "init"]
        /\ credit' = [credit EXCEPT ![tskid] = 0]
        /\ ready_queue' = rq
        /\ next' = Highest(rq) /\ msip' = (msip \/ Highest(rq) # current)
        /\ UNCHANGED <<itskpri, pc, timer_queue, free_tcb, current, mie, isr, halted, left>>
    BY <1>2 DEF tk_sta_tsk, rq, cpuVars, DispatchIfNeeded
  <2>4. TaskTypes'
    <3>1. 0 \in 0..TK_WAKEUP_MAXCNT
      BY TaskAssumption
    <3>2. TcbTypes'
      BY <2>3, <3>1 DEF TaskTypes, TcbTypes, TskStat, Ercd
    <3>3. QueueTypes'
      BY <2>2, <2>3 DEF TaskTypes, QueueTypes
    <3>4. next' \in TSKID \cup {NULL} /\ msip' \in BOOLEAN
      BY <2>2, <2>3, HighestReady DEF TaskTypes, CpuTypes
    <3>5. CpuTypes'
      BY <2>3, <3>4 DEF TaskTypes, CpuTypes
    <3> QED
      BY <3>2, <3>3, <3>5 DEF TaskTypes
  <2>5. TasksStanding'
    BY <1>2, <2>3, Numbers DEF TaskTypes, TcbTypes, CpuTypes, TasksStanding
  <2>6. QueuesConsistent'
    BY <1>2, <2>2, <2>3 DEF TaskTypes, TcbTypes, QueuesConsistent
  <2>7. DispatchRight'
    <3>1. CASE msip
      BY <2>3, <3>1 DEF DispatchRight
    <3>2. CASE ~msip /\ Highest(rq) # current
      BY <2>3, <3>2 DEF DispatchRight
    <3>3. CASE ~msip /\ Highest(rq) = current
      <4>1. tskstat[current] = "RUN" /\ current \in TSKID
        BY <3>3 DEF DispatchRight, TaskTypes, CpuTypes
      <4>2. tskstat'[current] = "RUN"
        BY <1>2, <2>3, <4>1 DEF TaskTypes, TcbTypes
      <4> QED
        BY <2>3, <3>3, <4>2 DEF DispatchRight
    <3> QED
      BY <3>1, <3>2, <3>3
  <2> QED
    BY <2>4, <2>5, <2>6, <2>7
<1> QED
  BY <1>1, <1>2

\* An ending call from the wrong context stops the machine and nothing else.
LEMMA FatalContextInv ==
  ASSUME KernelInv, tkmc_fatal_context, UNCHANGED edges
  PROVE  KernelInv'
<1>1. QueueTypes' /\ QueuesConsistent' /\ DispatchRight'
  BY QuietStep DEF tkmc_fatal_context, tcbVars, queueVars
<1>2. TcbTypes'
  BY DEF KernelInv, TaskTypes, TcbTypes, tkmc_fatal_context, tcbVars
<1>3. CpuTypes'
  BY DEF KernelInv, TaskTypes, CpuTypes, tkmc_fatal_context
<1>4. TasksStanding'
  BY DEF KernelInv, TasksStanding, tkmc_fatal_context, tcbVars
<1> QED
  BY <1>1, <1>2, <1>3, <1>4 DEF KernelInv, TaskTypes

\* tk_ext_tsk() and tk_exd_tsk(): the current task goes to state stat, and with
\* tk_exd_tsk() to the free list.
LEMMA LeaveInv ==
  ASSUME KernelInv, Caller, tkmc_can_block, NEW stat \in {"DMT", "NOEXS"},
         tskstat' = [tskstat EXCEPT ![current] = stat],
         tskwait' \in [TSKID -> WaitKind \cup {"none"}],
         pc' = [pc EXCEPT ![current] = "exit"],
         free_tcb' = IF stat = "NOEXS" THEN Append(free_tcb, current) ELSE free_tcb,
         ready_queue' = Dequeued(current),
         Dispatch(Dequeued(current)),
         UNCHANGED <<itskpri, delay_ticks, wupcause, wupcnt, sp, timer_queue, current,
                     mie, isr, halted, left, credit, edges>>
  PROVE  KernelInv'
<1> USE DEF KernelInv
<1>1. /\ current \in TSKID /\ current # IdlTsk /\ tskstat[current] = "RUN"
      /\ mie /\ itskpri[current] \in Pri
  BY BlockingCaller
<1> DEFINE rq == Dequeued(current)
<1>2. /\ rq \in [Pri -> Seq(TSKID)]
      /\ \A p \in Pri : Uniq(rq[p]) /\ Elems(rq[p]) = Elems(ready_queue[p]) \ {current}
  BY <1>1, DequeuedQueues
<1>3. /\ free_tcb' \in Seq(TSKID) /\ Uniq(free_tcb')
      /\ Elems(free_tcb') = Elems(free_tcb) \cup (IF stat = "NOEXS" THEN {current} ELSE {})
  <2>1. free_tcb \in Seq(TSKID) /\ Uniq(free_tcb) /\ current \notin Elems(free_tcb)
    BY <1>1 DEF TaskTypes, QueueTypes, QueuesConsistent
  <2>2. CASE stat = "NOEXS"
    BY <1>1, <2>1, <2>2, AppendQueue
  <2>3. CASE stat = "DMT"
    BY <2>1, <2>3
  <2> QED
    BY <2>2, <2>3
<1> HIDE DEF rq
<1>4. ready_queue' = rq /\ next' = Highest(rq) /\ msip' = TRUE
  BY DEF Dispatch, rq
<1>5. TaskTypes'
  <2>1. TcbTypes'
    BY <1>1 DEF TaskTypes, TcbTypes, TskStat, PC
  <2>2. QueueTypes'
    BY <1>2, <1>3, <1>4 DEF TaskTypes, QueueTypes
  <2>3. CpuTypes'
    BY <1>2, <1>4, HighestReady DEF TaskTypes, CpuTypes
  <2> QED
    BY <2>1, <2>2, <2>3 DEF TaskTypes
<1>a. /\ tskstat'[current] = stat /\ pc'[current] = "exit"
      /\ \A x \in TSKID : x # current => tskstat'[x] = tskstat[x] /\ pc'[x] = pc[x]
  BY <1>1 DEF TaskTypes, TcbTypes
<1>6. TasksStanding'
  <2>1. \A x \in TSKID : tskstat'[x] # "NOEXS" => itskpri'[x] \in Pri
    BY <1>1, <1>a DEF TasksStanding
  <2>2. \A x \in TSKID : tskstat'[x] = "RUN" => x = current'
    BY <1>a DEF TasksStanding
  <2>3. tskstat'[IdlTsk] \in {"RDY", "RUN"} /\ itskpri'[IdlTsk] = CFN_MAX_PRI
    BY <1>1, <1>a, Numbers DEF TasksStanding
  <2>4. \A x \in TSKID : pc'[x] \in IdlePC <=> x = IdlTsk
    BY <1>1, <1>a DEF TasksStanding, IdlePC
  <2> QED
    BY <1>1, <2>1, <2>2, <2>3, <2>4 DEF TasksStanding
<1>7. QueuesConsistent'
  <2>1. \A x \in TSKID, p \in Pri :
          x \in Elems(ready_queue'[p]) <=> tskstat'[x] \in {"RDY", "RUN"} /\ itskpri'[x] = p
    BY <1>1, <1>2, <1>4, <1>a DEF QueuesConsistent
  <2>2. \A x \in TSKID :
          x \in Elems(timer_queue') <=> tskstat'[x] = "WAI" /\ delay_ticks'[x] > 0
    BY <1>1, <1>a DEF QueuesConsistent
  <2>3. \A x \in TSKID : x \in Elems(free_tcb') <=> tskstat'[x] = "NOEXS"
    BY <1>1, <1>3, <1>a DEF QueuesConsistent
  <2>4. Uniq(free_tcb') /\ Uniq(timer_queue') /\ \A p \in Pri : Uniq(ready_queue'[p])
    BY <1>2, <1>3, <1>4 DEF QueuesConsistent
  <2> QED
    BY <2>1, <2>2, <2>3, <2>4 DEF QueuesConsistent
<1>8. DispatchRight'
  BY <1>4 DEF DispatchRight
<1> QED
  BY <1>5, <1>6, <1>7, <1>8

\* tk_ext_tsk() leaves the ready queue for DORMANT, or stops the machine.
LEMMA ExtTskInv ==
  ASSUME KernelInv, tk_ext_tsk, UNCHANGED edges
  PROVE  KernelInv'
<1>1. CASE ~tkmc_can_block
  BY <1>1, FatalContextInv DEF tk_ext_tsk
<1>2. CASE tkmc_can_block
  <2>1. tskwait' \in [TSKID -> WaitKind \cup {"none"}]
    BY <1>2 DEF tk_ext_tsk, KernelInv, TaskTypes, TcbTypes
  <2> QED
    BY <1>2, <2>1, LeaveInv DEF tk_ext_tsk, cpuVars
<1> QED
  BY <1>1, <1>2

\* tk_exd_tsk() leaves the ready queue for the free list, or stops the machine.
LEMMA ExdTskInv ==
  ASSUME KernelInv, tk_exd_tsk, UNCHANGED edges
  PROVE  KernelInv'
<1>1. CASE ~tkmc_can_block
  BY <1>1, FatalContextInv DEF tk_exd_tsk
<1>2. CASE tkmc_can_block
  <2>1. tskwait' \in [TSKID -> WaitKind \cup {"none"}]
    BY <1>2 DEF tk_exd_tsk, KernelInv, TaskTypes, TcbTypes
  <2> QED
    BY <1>2, <2>1, LeaveInv DEF tk_exd_tsk, cpuVars
<1> QED
  BY <1>1, <1>2

\* A call that ends waits.
LEMMA CompleteNowInv ==
  ASSUME KernelInv, NEW ts \in Seq(TSKID), Uniq(ts), \A t \in Elems(ts) : tskstat[t] = "WAI",
         NEW cause \in [TSKID -> Ercd], CompleteWaits(ts, cause, 0),
         DispatchIfNeeded(Enqueued(ts)) \/ (ts = << >> /\ UNCHANGED <<next, msip>>),
         UNCHANGED <<itskpri, wupcnt, sp, pc, free_tcb, current, mie, isr, halted, edges>>,
         credit' \in [TSKID -> Int]
  PROVE  KernelInv'
<1>1. \A t \in Elems(timer_queue) : delay_ticks[t] > 0
  BY SmallQueues DEF KernelInv, TaskTypes, QueueTypes, QueuesConsistent
<1>2. isr' \in {"no", "ext", "timer"} /\ edges' \in 0..MaxEdges
  BY DEF KernelInv, TaskTypes, CpuTypes
<1> QED
  BY <1>1, <1>2, CompleteWaitsInv

\* A call that ends the wait of one task.
LEMMA CompleteOneInv ==
  ASSUME KernelInv, NEW tskid \in TSKID, tskstat[tskid] = "WAI", NEW ercd \in Ercd,
         CompleteWaits(<<tskid>>, AllCause(ercd), 0), DispatchIfNeeded(Enqueued(<<tskid>>)),
         UNCHANGED <<itskpri, wupcnt, sp, pc, free_tcb, current, mie, isr, halted, edges>>,
         credit' \in [TSKID -> Int]
  PROVE  KernelInv'
<1> DEFINE ts == <<tskid>>
<1>1. ts \in Seq(TSKID) /\ Uniq(ts) /\ Elems(ts) = {tskid}
  BY SmallQueues
<1>2. AllCause(ercd) \in [TSKID -> Ercd]
  BY DEF AllCause
<1> HIDE DEF ts
<1>3. CompleteWaits(ts, AllCause(ercd), 0) /\ DispatchIfNeeded(Enqueued(ts))
  BY DEF ts
<1> QED
  BY <1>1, <1>2, <1>3, CompleteNowInv

\* tk_rel_wai() ends the wait of its task and of those it held back, or fails.
LEMMA RelWaiInv ==
  ASSUME KernelInv, WaitInv, NEW tskid \in TSKID, tk_rel_wai(tskid)
  PROVE  KernelInv'
<1>0. UNCHANGED edges
  BY DEF tk_rel_wai
<1>1. CASE RelWaiRefused(tskid)
  BY <1>0, <1>1, StutterInv DEF tk_rel_wai
<1>2. CASE ~RelWaiRefused(tskid)
  <2> DEFINE b == Leave(NoneLeft, tskid)
             ts == b.ts
             cause == Causes(b, "E_RLWAI")
  <2>1. tskstat[tskid] = "WAI" /\ "E_RLWAI" \in Ercd
    BY <1>2 DEF RelWaiRefused, Ercd
  <2>2. b \in Ends
    BY <2>1, NoneLeftEnds, LeaveProperties
  <2>3. cause \in [TSKID -> Ercd]
    BY <2>1, CausesType
  <2>4. /\ CompleteWaits(ts, cause, 0) /\ DispatchIfNeeded(Enqueued(ts))
        /\ UNCHANGED <<itskpri, wupcnt, sp, pc, free_tcb, current, mie, isr, halted, credit>>
    BY <1>2 DEF tk_rel_wai, EndWaits, cpuVars
  <2> HIDE DEF b, cause
  <2>5. ts \in Seq(TSKID) /\ Uniq(ts) /\ \A t \in Elems(ts) : tskstat[t] = "WAI"
    BY <2>2 DEF Ends
  <2>6. credit' \in [TSKID -> Int]
    BY <2>4 DEF KernelInv, TaskTypes, TcbTypes
  <2> HIDE DEF ts
  <2> QED
    BY <1>0, <2>3, <2>4, <2>5, <2>6, CompleteNowInv
<1> QED
  BY <1>1, <1>2

\* tk_wup_tsk() ends a sleep, counts the wakeup, or fails.
LEMMA WupTskInv ==
  ASSUME KernelInv, NEW tskid \in TSKID, tk_wup_tsk(tskid), UNCHANGED edges
  PROVE  KernelInv'
<1> DEFINE refused == \/ tskid = current /\ ~tkmc_in_isr
                      \/ tskstat[tskid] \in {"NOEXS", "DMT"}
<1>1. CASE UNCHANGED taskVars
  BY <1>1, StutterInv
<1>2. CASE ~refused /\ WakesSleep(tskid)
  <2>1. tskstat[tskid] = "WAI" /\ "E_OK" \in Ercd
    BY <1>2 DEF WakesSleep, Ercd
  <2>2. credit' \in [TSKID -> Int]
    BY <1>2 DEF tk_wup_tsk, KernelInv, TaskTypes, TcbTypes
  <2> QED
    BY <1>2, <2>1, <2>2, CompleteOneInv DEF tk_wup_tsk, cpuVars
<1>3. CASE ~refused /\ ~WakesSleep(tskid) /\ WakeupRoom(tskid)
  <2>1. /\ wupcnt' = [wupcnt EXCEPT ![tskid] = @ + 1]
        /\ credit' = [credit EXCEPT ![tskid] = @ + 1]
        /\ UNCHANGED <<tskstat, tskwait, itskpri, delay_ticks, wupcause, sp, pc,
                       queueVars, current, next, msip, mie, isr, halted, left>>
    BY <1>3 DEF tk_wup_tsk, cpuVars
  <2>2. QueueTypes' /\ QueuesConsistent' /\ DispatchRight'
    BY <2>1, QuietStep
  <2>3. wupcnt[tskid] + 1 \in 0..TK_WAKEUP_MAXCNT
    BY <1>3, TaskAssumption DEF WakeupRoom, KernelInv, TaskTypes, TcbTypes
  <2>4. TcbTypes'
    BY <2>1, <2>3 DEF KernelInv, TaskTypes, TcbTypes
  <2>5. CpuTypes' /\ TasksStanding'
    BY <2>1 DEF KernelInv, TaskTypes, CpuTypes, TasksStanding
  <2> QED
    BY <2>2, <2>4, <2>5 DEF KernelInv, TaskTypes
<1> QED
  BY <1>1, <1>2, <1>3 DEF tk_wup_tsk

-----------------------------------------------------------------------------
(* The timer calls. *)

\* A wait lasts at least the time that was asked for, however late in a tick it
\* begins, and two ticks or more.
THEOREM TicksCoverTime ==
  ASSUME NEW ms \in Nat, ms > 0
  PROVE  /\ tkmc_ms_to_ticks(ms) \in Nat
         /\ tkmc_ms_to_ticks(ms) >= 2
         /\ 10 * (tkmc_ms_to_ticks(ms) - 1) >= ms
         /\ 10 * (tkmc_ms_to_ticks(ms) - 2) < ms
  BY DEF tkmc_ms_to_ticks

\* tkmc_yield() moves the caller behind its peers, on the same queue.
LEMMA YieldInv ==
  ASSUME KernelInv, TaskRuns, NEW pcAfter \in PC, pcAfter \in IdlePC <=> current = IdlTsk,
         tkmc_yield(pcAfter), UNCHANGED edges
  PROVE  KernelInv'
<1> USE DEF KernelInv
<1>1. current \in TSKID /\ tskstat[current] = "RUN" /\ itskpri[current] \in Pri
  BY RunningTask
<1> DEFINE q == itskpri[current]
           w == Without(ready_queue[q], {current})
           rq == [ready_queue EXCEPT ![q] = Append(w, current)]
<1>2. w \in Seq(TSKID) /\ Uniq(w) /\ Elems(w) = Elems(ready_queue[q]) \ {current}
  BY <1>1, WithoutProperties DEF TaskTypes, QueueTypes, QueuesConsistent
<1>3. current \in Elems(ready_queue[q])
  BY <1>1 DEF QueuesConsistent
<1> HIDE DEF w
<1>4. /\ Append(w, current) \in Seq(TSKID) /\ Uniq(Append(w, current))
      /\ Elems(Append(w, current)) = Elems(ready_queue[q])
  <2>1. current \notin Elems(w)
    BY <1>2
  <2>2. /\ Append(w, current) \in Seq(TSKID) /\ Uniq(Append(w, current))
        /\ Elems(Append(w, current)) = Elems(w) \cup {current}
    BY ONLY <1>1, <1>2, <2>1, AppendQueue
  <2>3. Elems(w) \cup {current} = Elems(ready_queue[q])
    BY <1>2, <1>3
  <2> QED
    BY <2>2, <2>3
<1>5. /\ rq \in [Pri -> Seq(TSKID)]
      /\ \A p \in Pri : Uniq(rq[p]) /\ Elems(rq[p]) = Elems(ready_queue[p])
  BY <1>1, <1>4 DEF TaskTypes, QueueTypes, QueuesConsistent
<1>6. /\ ready_queue' = rq
      /\ next' = Highest(rq) /\ msip' = (msip \/ Highest(rq) # current)
      /\ pc' = [pc EXCEPT ![current] = pcAfter]
      /\ UNCHANGED <<tskstat, tskwait, itskpri, delay_ticks, wupcause, wupcnt, sp,
                     timer_queue, free_tcb, current, mie, isr, halted, left, credit>>
  BY DEF tkmc_yield, DispatchIfNeeded, cpuVars, w
<1> HIDE DEF rq
<1>7. TaskTypes'
  <2>1. TcbTypes'
    BY <1>1, <1>6 DEF TaskTypes, TcbTypes
  <2>2. QueueTypes'
    BY <1>5, <1>6 DEF TaskTypes, QueueTypes
  <2>3. next' \in TSKID \cup {NULL} /\ msip' \in BOOLEAN
    BY <1>5, <1>6, HighestReady DEF TaskTypes, CpuTypes
  <2>4. CpuTypes'
    BY <1>6, <2>3 DEF TaskTypes, CpuTypes
  <2> QED
    BY <2>1, <2>2, <2>4 DEF TaskTypes
<1>8. TasksStanding'
  BY <1>1, <1>6 DEF TasksStanding, TaskTypes, TcbTypes
<1>9. QueuesConsistent'
  BY <1>5, <1>6 DEF QueuesConsistent
<1>10. DispatchRight'
  <2>1. CASE msip
    BY <1>6, <2>1 DEF DispatchRight
  <2>2. CASE ~msip /\ Highest(rq) # current
    BY <1>6, <2>2 DEF DispatchRight
  <2>3. CASE ~msip /\ Highest(rq) = current
    BY <1>1, <1>6, <2>3 DEF DispatchRight
  <2> QED
    BY <2>1, <2>2, <2>3
<1> QED
  BY <1>7, <1>8, <1>9, <1>10

\* The edges that wait for the timer handler are bounded.
LEMMA EdgesNat == TaskTypes => edges \in Nat /\ edges <= MaxEdges
  BY TimerAssumption DEF TaskTypes, CpuTypes

\* tk_slp_tsk() takes a counted wakeup, fails, or begins a wait.
LEMMA SlpTskInv ==
  ASSUME KernelInv, NEW tmout \in Tmo, tk_slp_tsk(tmout)
  PROVE  KernelInv'
<1>0. Caller /\ UNCHANGED edges /\ tmout \in Int /\ "SLP" \in WaitKind
  BY TimerAssumption DEF tk_slp_tsk, WaitKind
<1>1. CASE UNCHANGED taskVars
  BY <1>0, <1>1, StutterInv
<1>2. CASE /\ tmout >= TMO_FEVR /\ tkmc_can_block /\ wupcnt[current] > 0
  <2>1. /\ wupcnt' = [wupcnt EXCEPT ![current] = @ - 1]
        /\ credit' = [credit EXCEPT ![current] = @ - 1]
        /\ UNCHANGED <<tskstat, tskwait, itskpri, delay_ticks, wupcause, sp, pc,
                       queueVars, current, next, msip, mie, isr, halted, left, edges>>
    BY <1>0, <1>2 DEF tk_slp_tsk, cpuVars, TMO_FEVR
  <2>2. QueueTypes' /\ QueuesConsistent' /\ DispatchRight'
    BY <2>1, QuietStep
  <2>3. current \in TSKID
    BY DEF KernelInv, TaskTypes, CpuTypes
  <2>4. wupcnt[current] - 1 \in 0..TK_WAKEUP_MAXCNT
    BY <1>2, <2>3, TaskAssumption DEF KernelInv, TaskTypes, TcbTypes
  <2>5. TcbTypes'
    BY <2>1, <2>3, <2>4 DEF KernelInv, TaskTypes, TcbTypes
  <2>6. CpuTypes' /\ TasksStanding'
    BY <2>1 DEF KernelInv, TaskTypes, CpuTypes, TasksStanding
  <2> QED
    BY <2>2, <2>5, <2>6 DEF KernelInv, TaskTypes
<1>3. CASE tkmc_can_block /\ tmout > 0 /\ BeginWait("SLP", tkmc_ms_to_ticks(tmout), edges)
  <2>1. tkmc_ms_to_ticks(tmout) \in Nat /\ edges \in Nat
    BY <1>0, <1>3, TicksCoverTime, EdgesNat DEF KernelInv
  <2> QED
    BY <1>0, <1>3, <2>1, BeginWaitInv
<1>4. CASE tkmc_can_block /\ BeginWait("SLP", 0, 0)
  BY <1>0, <1>4, BeginWaitInv
<1> QED
  BY <1>0, <1>1, <1>2, <1>3, <1>4 DEF tk_slp_tsk, tkmc_schedule_timer, TMO_FEVR

\* tk_dly_tsk() returns at once, fails, or begins a wait.
LEMMA DlyTskInv ==
  ASSUME KernelInv, NEW dlytm \in RelTim, tk_dly_tsk(dlytm)
  PROVE  KernelInv'
<1>0. Caller /\ UNCHANGED edges /\ dlytm \in Nat /\ "DLY" \in WaitKind
  BY TimerAssumption DEF tk_dly_tsk, WaitKind
<1>1. CASE ~tkmc_can_block
  BY <1>0, <1>1, StutterInv DEF tk_dly_tsk
<1>2. CASE tkmc_can_block /\ dlytm = 0
  <2>1. TaskRuns /\ "run" \in PC /\ current # IdlTsk /\ "run" \notin IdlePC
    BY <1>0, <1>2, BlockingCaller DEF Caller, PC, IdlePC, TaskRuns
  <2> QED
    BY <1>0, <1>2, <2>1, YieldInv DEF tk_dly_tsk
<1>3. CASE tkmc_can_block /\ dlytm # 0
  <2>1. tkmc_ms_to_ticks(dlytm) \in Nat /\ edges \in Nat
    BY <1>0, <1>3, TicksCoverTime, EdgesNat DEF KernelInv
  <2>2. BeginWait("DLY", tkmc_ms_to_ticks(dlytm), edges)
    BY <1>3 DEF tk_dly_tsk, tkmc_schedule_timer
  <2> QED
    BY <1>0, <1>3, <2>1, <2>2, BeginWaitInv
<1> QED
  BY <1>1, <1>2, <1>3

\* A blocked call returns in its own task, which runs again.
LEMMA WaitReturnInv ==
  ASSUME KernelInv, NEW wkind \in WaitKind, WaitReturn(wkind)
  PROVE  KernelInv'
<1>1. /\ pc[current] = wkind
      /\ pc' = [pc EXCEPT ![current] = "run"]
      /\ wupcause' = [wupcause EXCEPT ![current] = "E_OK"]
      /\ credit' = credit \/ credit' = [credit EXCEPT ![current] = @ - 1]
      /\ UNCHANGED <<tskstat, tskwait, itskpri, delay_ticks, wupcnt, sp, queueVars,
                     current, next, msip, mie, isr, halted, left, edges>>
  BY DEF WaitReturn, CauseTaken, cpuVars
<1>2. QueueTypes' /\ QueuesConsistent' /\ DispatchRight'
  BY <1>1, QuietStep
<1>3. current \in TSKID
  BY DEF KernelInv, TaskTypes, CpuTypes
<1>4. TcbTypes'
  BY <1>1, <1>3 DEF KernelInv, TaskTypes, TcbTypes, Ercd, PC
<1>5. CpuTypes'
  BY <1>1 DEF KernelInv, TaskTypes, CpuTypes
<1>6. TasksStanding'
  BY <1>1, <1>3 DEF KernelInv, TaskTypes, TcbTypes, TasksStanding, IdlePC, WaitKind
<1> QED
  BY <1>2, <1>4, <1>5, <1>6 DEF KernelInv, TaskTypes

-----------------------------------------------------------------------------
(* Traps. *)

\* schedule(), when a switch is pending: next is a ready task, and the best one.
LEMMA ScheduleInv ==
  ASSUME KernelInv, msip, MsipCleared, schedule,
         UNCHANGED <<tskwait, itskpri, delay_ticks, wupcause, wupcnt, queueVars, next,
                     mie, halted, left, credit, edges>>,
         isr' \in {"no", "ext", "timer"}
  PROVE  KernelInv'
<1> USE DEF KernelInv
<1>1. /\ next = Highest(ready_queue) /\ next \in TSKID /\ current \in TSKID
      /\ tskstat[next] \in {"RDY", "RUN"}
  BY IdleIsReady DEF DispatchRight, TaskTypes, CpuTypes
<1> DEFINE stopped == IF tskstat[current] = "RUN"
                      THEN [tskstat EXCEPT ![current] = "RDY"] ELSE tskstat
           saved == [sp EXCEPT ![current] = "live"]
<1>2. /\ tskstat' = [stopped EXCEPT ![next] = "RUN"]
      /\ sp' = saved
      /\ current' = next /\ msip' = FALSE
      /\ pc' = IF saved[next] = "init" THEN [pc EXCEPT ![next] = Entry(next)] ELSE pc
  BY DEF schedule, MsipCleared
<1>3. /\ stopped \in [TSKID -> TskStat]
      /\ \A t \in TSKID : stopped[t] # "RUN"
      /\ \A t \in TSKID : t # current => stopped[t] = tskstat[t]
      /\ stopped[current] = IF tskstat[current] = "RUN" THEN "RDY" ELSE tskstat[current]
  BY <1>1 DEF TaskTypes, TcbTypes, TskStat, TasksStanding
<1> HIDE DEF stopped
<1>4. /\ tskstat' \in [TSKID -> TskStat]
      /\ tskstat'[next] = "RUN"
      /\ \A t \in TSKID : t # next => tskstat'[t] = stopped[t]
  BY <1>1, <1>2, <1>3 DEF TskStat
<1>5. \A t \in TSKID : /\ tskstat'[t] \in {"RDY", "RUN"} <=> tskstat[t] \in {"RDY", "RUN"}
                       /\ tskstat'[t] = "WAI" <=> tskstat[t] = "WAI"
                       /\ tskstat'[t] = "NOEXS" <=> tskstat[t] = "NOEXS"
                       /\ tskstat'[t] = "RUN" => t = next
  <2> SUFFICES ASSUME NEW t \in TSKID
               PROVE  /\ tskstat'[t] \in {"RDY", "RUN"} <=> tskstat[t] \in {"RDY", "RUN"}
                      /\ tskstat'[t] = "WAI" <=> tskstat[t] = "WAI"
                      /\ tskstat'[t] = "NOEXS" <=> tskstat[t] = "NOEXS"
                      /\ tskstat'[t] = "RUN" => t = next
    OBVIOUS
  <2>1. CASE t = next
    BY <1>1, <1>4, <2>1
  <2>2. CASE t # next /\ t = current
    BY <1>3, <1>4, <2>2
  <2>3. CASE t # next /\ t # current
    BY <1>3, <1>4, <2>3
  <2> QED
    BY <2>1, <2>2, <2>3
<1>6. TaskTypes'
  <2>1. sp' \in [TSKID -> {"null", "init", "live"}]
    BY <1>2 DEF TaskTypes, TcbTypes
  <2>2. pc' \in [TSKID -> PC]
    BY <1>1, <1>2 DEF TaskTypes, TcbTypes, Entry, PC, IdlePC
  <2>3. TcbTypes'
    BY <1>4, <2>1, <2>2 DEF TaskTypes, TcbTypes
  <2>4. QueueTypes'
    BY DEF TaskTypes, QueueTypes, queueVars
  <2>5. CpuTypes'
    BY <1>1, <1>2 DEF TaskTypes, CpuTypes
  <2> QED
    BY <2>3, <2>4, <2>5 DEF TaskTypes
<1>7. TasksStanding'
  <2>1. \A t \in TSKID : pc'[t] \in IdlePC <=> t = IdlTsk
    <3>1. \A t \in TSKID : pc[t] \in IdlePC <=> t = IdlTsk
      BY DEF TasksStanding
    <3>2. Entry(next) \in IdlePC <=> next = IdlTsk
      BY DEF Entry, IdlePC
    <3>3. pc' = pc \/ pc' = [pc EXCEPT ![next] = Entry(next)]
      BY <1>2
    <3> QED
      BY <1>1, <3>1, <3>2, <3>3 DEF TaskTypes, TcbTypes
  <2>2. /\ \A t \in TSKID : tskstat'[t] # "NOEXS" => itskpri'[t] \in Pri
        /\ tskstat'[IdlTsk] \in {"RDY", "RUN"} /\ itskpri'[IdlTsk] = CFN_MAX_PRI
    BY <1>5, Numbers DEF TasksStanding
  <2> QED
    BY <1>2, <1>4, <1>5, <2>1, <2>2 DEF TasksStanding
<1>8. QueuesConsistent'
  <2>1. UNCHANGED <<ready_queue, timer_queue, free_tcb, itskpri, delay_ticks>>
    BY DEF queueVars
  <2>2. \A t \in TSKID, p \in Pri :
          t \in Elems(ready_queue'[p]) <=> tskstat'[t] \in {"RDY", "RUN"} /\ itskpri'[t] = p
    BY <1>5, <2>1 DEF QueuesConsistent
  <2>3. \A t \in TSKID :
          t \in Elems(timer_queue') <=> tskstat'[t] = "WAI" /\ delay_ticks'[t] > 0
    BY <1>5, <2>1 DEF QueuesConsistent
  <2>4. \A t \in TSKID : t \in Elems(free_tcb') <=> tskstat'[t] = "NOEXS"
    BY <1>5, <2>1 DEF QueuesConsistent
  <2> QED
    BY <2>1, <2>2, <2>3, <2>4 DEF QueuesConsistent
<1>9. DispatchRight'
  BY <1>1, <1>2, <1>4 DEF DispatchRight, queueVars
<1> QED
  BY <1>6, <1>7, <1>8, <1>9

\* The software interrupt.
LEMMA MtrapInv ==
  ASSUME KernelInv, mtrap_handler
  PROVE  KernelInv'
<1>1. isr' \in {"no", "ext", "timer"}
  BY DEF mtrap_handler, cpuVars
<1> QED
  BY <1>1, ScheduleInv DEF mtrap_handler, cpuVars

\* The timer interrupt ends the waits whose count its edges reach, and no other
\* count is taken to 0 or below.
LEMMA TimerInterruptInv ==
  ASSUME KernelInv, WaitInv, timer_interrupt
  PROVE  KernelInv'
<1> DEFINE b == TimedOut(edges)
           ts == b.ts
           cause == Causes(b, "E_TMOUT")
<1>1. edges \in Nat
  BY EdgesNat DEF KernelInv
<1>2. /\ b \in Ends
      /\ \A t \in Elems(timer_queue) : delay_ticks[t] <= edges => t \in Elems(ts)
  BY <1>1, TimedOutProperties
<1>3. cause \in [TSKID -> Ercd]
  BY CausesType DEF Ercd
<1>4. /\ CompleteWaits(ts, cause, edges)
      /\ DispatchIfNeeded(Enqueued(ts)) \/ (ts = << >> /\ UNCHANGED <<next, msip>>)
      /\ UNCHANGED <<itskpri, wupcnt, sp, pc, free_tcb, current, mie, halted>>
      /\ UNCHANGED credit /\ isr' = "timer" /\ edges' = 0
  BY DEF timer_interrupt, EndWaits
<1> HIDE DEF b, cause
<1>5. ts \in Seq(TSKID) /\ Uniq(ts) /\ \A t \in Elems(ts) : tskstat[t] = "WAI"
  BY <1>2 DEF Ends
<1>6. \A t \in Elems(timer_queue) : delay_ticks[t] \in Nat
  BY SmallQueues DEF KernelInv, TaskTypes, TcbTypes, QueueTypes
<1> HIDE DEF ts
<1>7. ASSUME NEW t \in Elems(timer_queue) PROVE t \in Elems(ts) \/ delay_ticks[t] > edges
  <2>1. delay_ticks[t] <= edges \/ delay_ticks[t] > edges
    BY <1>1, <1>6
  <2> QED
    BY <1>2, <2>1
<1>8. credit' \in [TSKID -> Int] /\ isr' \in {"no", "ext", "timer"} /\ edges' \in 0..MaxEdges
  BY <1>4, TimerAssumption DEF KernelInv, TaskTypes, TcbTypes
<1> QED
  BY <1>1, <1>3, <1>4, <1>5, <1>7, <1>8, CompleteWaitsInv

\* The entry of an external interrupt's handler.
LEMMA ExternalInterruptInv ==
  ASSUME KernelInv, external_interrupt
  PROVE  KernelInv'
<1>1. QueueTypes' /\ QueuesConsistent' /\ DispatchRight'
  BY QuietStep DEF external_interrupt, tcbVars
<1>2. TcbTypes'
  BY DEF KernelInv, TaskTypes, TcbTypes, external_interrupt, tcbVars
<1>3. CpuTypes'
  BY DEF KernelInv, TaskTypes, CpuTypes, external_interrupt
<1>4. TasksStanding'
  BY DEF KernelInv, TasksStanding, external_interrupt, tcbVars
<1> QED
  BY <1>1, <1>2, <1>3, <1>4 DEF KernelInv, TaskTypes

\* The exit of a trap, with and without a switch.
LEMMA TrapExitInv ==
  ASSUME KernelInv, TrapExit
  PROVE  KernelInv'
<1>0. isr' \in {"no", "ext", "timer"}
  BY DEF TrapExit
<1>1. CASE msip
  BY <1>0, <1>1, ScheduleInv DEF TrapExit
<1>2. CASE ~msip
  <2>1. UNCHANGED <<tskstat, itskpri, delay_ticks, queueVars, current, next, msip, sp, pc,
                    tskwait, wupcause, wupcnt, mie, halted, left, credit, edges>>
    BY <1>2 DEF TrapExit
  <2>2. QueueTypes' /\ QueuesConsistent' /\ DispatchRight'
    BY <2>1, QuietStep
  <2>3. TcbTypes'
    BY <2>1 DEF KernelInv, TaskTypes, TcbTypes
  <2>4. CpuTypes'
    BY <1>0, <2>1 DEF KernelInv, TaskTypes, CpuTypes
  <2>5. TasksStanding'
    BY <2>1 DEF KernelInv, TasksStanding
  <2> QED
    BY <2>2, <2>3, <2>4, <2>5 DEF KernelInv, TaskTypes
<1> QED
  BY <1>1, <1>2

-----------------------------------------------------------------------------
(* The tasks' own steps. *)

\* A task that runs moves on, with interrupts turned on or off.
LEMMA SetMieInv ==
  ASSUME KernelInv, TaskRuns, NEW on \in BOOLEAN, NEW pcAfter \in PC,
         pcAfter \in IdlePC <=> current = IdlTsk, SetMie(on, pcAfter)
  PROVE  KernelInv'
<1>1. current \in TSKID /\ tskstat[current] = "RUN"
  BY RunningTask
<1>2. QueueTypes' /\ QueuesConsistent' /\ DispatchRight'
  BY QuietStep DEF SetMie
<1>3. TcbTypes'
  BY DEF KernelInv, TaskTypes, TcbTypes, SetMie
<1>4. CpuTypes'
  BY DEF KernelInv, TaskTypes, CpuTypes, SetMie
<1>5. TasksStanding'
  BY <1>1 DEF KernelInv, TaskTypes, TcbTypes, TasksStanding, SetMie
<1> QED
  BY <1>2, <1>3, <1>4, <1>5 DEF KernelInv, TaskTypes

\* DI() and EI() in the application.
LEMMA TaskMieInv ==
  ASSUME KernelInv, TaskDI \/ TaskEI
  PROVE  KernelInv'
<1>1. /\ TaskRuns /\ pc[current] = "run"
      /\ SetMie(FALSE, "run") \/ SetMie(TRUE, "run")
  BY DEF TaskDI, TaskEI
<1>2. "run" \in PC /\ (("run" \in IdlePC) <=> current = IdlTsk)
  BY <1>1, RunningTask DEF PC, IdlePC, KernelInv, TasksStanding
<1> QED
  BY <1>1, <1>2, SetMieInv

\* The idle loop.
LEMMA IdleInv ==
  ASSUME KernelInv, Idle
  PROVE  KernelInv'
<1>1. TaskRuns /\ pc[current] \in IdlePC
  BY DEF Idle, IdleCheck, IdleWfi, IdleEI, IdleYield, IdlePC
<1>2. current = IdlTsk
  BY <1>1, RunningTask DEF KernelInv, TasksStanding
<1>3. \A x \in IdlePC : x \in PC /\ (x \in IdlePC <=> current = IdlTsk)
  BY <1>2 DEF PC
<1>4. "wfi" \in IdlePC /\ "ei" \in IdlePC /\ "yield" \in IdlePC /\ "check" \in IdlePC
  BY DEF IdlePC
<1>5. CASE IdleCheck \/ IdleWfi \/ IdleEI
  <2>1. PICK on \in BOOLEAN, x \in IdlePC : SetMie(on, x)
    BY <1>4, <1>5 DEF IdleCheck, IdleWfi, IdleEI
  <2> QED
    BY <1>1, <1>3, <2>1, SetMieInv
<1>6. CASE IdleYield
  BY <1>1, <1>3, <1>4, <1>6, YieldInv DEF IdleYield
<1> QED
  BY <1>5, <1>6 DEF Idle

\* A task that was switched to after it had ended.
LEMMA ExitReturnsInv ==
  ASSUME KernelInv, ExitReturns
  PROVE  KernelInv'
<1>1. /\ current \in TSKID /\ tskstat[current] = "RUN" /\ current # IdlTsk
  BY RunningTask DEF ExitReturns, KernelInv, TasksStanding, IdlePC
<1>2. QueueTypes' /\ QueuesConsistent' /\ DispatchRight'
  BY QuietStep DEF ExitReturns
<1>3. TcbTypes'
  BY <1>1 DEF KernelInv, TaskTypes, TcbTypes, ExitReturns, PC
<1>4. CpuTypes'
  BY DEF KernelInv, TaskTypes, CpuTypes, ExitReturns
<1>5. TasksStanding'
  BY <1>1 DEF KernelInv, TaskTypes, TcbTypes, TasksStanding, ExitReturns, IdlePC
<1> QED
  BY <1>2, <1>3, <1>4, <1>5 DEF KernelInv, TaskTypes

\* The machine time passes an edge.
LEMMA TickEdgeInv ==
  ASSUME KernelInv, TickEdge
  PROVE  KernelInv'
<1>1. QueueTypes' /\ QueuesConsistent' /\ DispatchRight'
  BY QuietStep DEF TickEdge, tcbVars
<1>2. left' \in [TSKID -> Int]
  BY DEF KernelInv, TaskTypes, TcbTypes, TickEdge
<1>3. TcbTypes'
  BY <1>2 DEF KernelInv, TaskTypes, TcbTypes, TickEdge, tcbVars
<1>4. CpuTypes'
  BY TimerAssumption DEF KernelInv, TaskTypes, CpuTypes, TickEdge, cpuVars
<1>5. TasksStanding'
  BY DEF KernelInv, TasksStanding, TickEdge, tcbVars, cpuVars
<1> QED
  BY <1>1, <1>3, <1>4, <1>5 DEF KernelInv, TaskTypes

-----------------------------------------------------------------------------
(* The semaphore calls. *)

\* A call that begins a wait, with a time limit or without.
LEMMA BeginsInv ==
  ASSUME KernelInv, Caller, tkmc_can_block, UNCHANGED edges, NEW wkind \in WaitKind,
         NEW tmout \in Int,
         IF tmout > 0 THEN tkmc_schedule_timer(tkmc_ms_to_ticks(tmout), wkind)
                      ELSE BeginWait(wkind, 0, 0)
  PROVE  KernelInv'
<1>1. CASE tmout > 0
  <2>1. tkmc_ms_to_ticks(tmout) \in Nat /\ edges \in Nat
    BY <1>1, TicksCoverTime, EdgesNat DEF KernelInv
  <2> QED
    BY <1>1, <2>1, BeginWaitInv DEF tkmc_schedule_timer
<1>2. CASE ~(tmout > 0)
  BY <1>2, BeginWaitInv
<1> QED
  BY <1>1, <1>2

\* tk_wai_sem() takes its units, fails, or begins a wait.
LEMMA WaiSemInv ==
  ASSUME KernelInv, NEW semid \in SEMID, NEW cnt \in SemCnt, NEW tmout \in SemTmo,
         tk_wai_sem(semid, cnt, tmout)
  PROVE  KernelInv'
<1>0. Caller /\ UNCHANGED edges /\ "SEM" \in WaitKind /\ tmout \in Int
  BY SemaphoreAssumption DEF tk_wai_sem, WaitKind
<1>1. CASE UNCHANGED taskVars
  BY <1>0, <1>1, StutterInv
<1>2. CASE /\ tkmc_can_block
           /\ IF tmout > 0 THEN tkmc_schedule_timer(tkmc_ms_to_ticks(tmout), "SEM")
                           ELSE BeginWait("SEM", 0, 0)
  BY <1>0, <1>2, BeginsInv
<1> QED
  BY <1>1, <1>2 DEF tk_wai_sem

\* What the wait queue of an object holds: tasks that wait, each once.
LEMMA ObjWaiters ==
  ASSUME WaitInv, NEW o \in Obj
  PROVE  /\ wait_queue[o] \in Seq(TSKID) /\ Uniq(wait_queue[o])
         /\ \A t \in Elems(wait_queue[o]) : t \in TSKID /\ tskstat[t] = "WAI"
<1>1. wait_queue[o] \in Seq(TSKID)
  BY DEF WaitInv, WaitTypes
<1>2. Elems(wait_queue[o]) \subseteq TSKID
  BY <1>1, SmallQueues
<1> QED
  BY <1>1, <1>2 DEF WaitInv, WaitQueuesConsistent, WaitersQueued, Queued

\* tk_sig_sem() ends the waits that its units cover, or fails.
LEMMA SigSemInv ==
  ASSUME KernelInv, WaitInv, NEW semid \in SEMID, NEW cnt \in SemCnt, tk_sig_sem(semid, cnt)
  PROVE  KernelInv'
<1>0. UNCHANGED edges
  BY DEF tk_sig_sem
<1>1. CASE UNCHANGED taskVars
  BY <1>0, <1>1, StutterInv
<1>2. CASE cnt > 0 /\ ~UNCHANGED taskVars
  <2> DEFINE q == wait_queue[Sem(semid)]
             u == semcnt[semid] + cnt
             ts == Serve(semid, q, u).served
             cause == AllCause("E_OK")
  <2>1. /\ CompleteWaits(ts, cause, 0) /\ DispatchIfNeeded(Enqueued(ts))
        /\ UNCHANGED <<itskpri, wupcnt, sp, pc, free_tcb, current, mie, isr, halted, credit>>
    BY <1>2 DEF tk_sig_sem, cpuVars
  <2>2. u \in Nat /\ \A t \in TSKID : winfo[t].req \in Nat
    BY <1>2, SemaphoreAssumption DEF WaitInv, WaitTypes, SemTypes
  <2>3. /\ q \in Seq(TSKID) /\ Uniq(q)
        /\ \A t \in Elems(q) : t \in TSKID /\ tskstat[t] = "WAI"
    BY Objects, ObjWaiters
  <2> HIDE DEF q, u, cause
  <2>4. ts \in Seq(TSKID) /\ Uniq(ts) /\ Elems(ts) \subseteq Elems(q)
    BY <2>2, <2>3, ServeProperties
  <2>5. cause \in [TSKID -> Ercd]
    BY DEF cause, AllCause, Ercd
  <2>6. credit' \in [TSKID -> Int]
    BY <2>1 DEF KernelInv, TaskTypes, TcbTypes
  <2> HIDE DEF ts
  <2> QED
    BY <1>0, <2>1, <2>3, <2>4, <2>5, <2>6, CompleteNowInv
<1> QED
  BY <1>1, <1>2, SemaphoreAssumption DEF tk_sig_sem

\* tk_del_sem() ends the wait of every waiter, or fails.
LEMMA DelSemInv ==
  ASSUME KernelInv, WaitInv, NEW semid \in SEMID, tk_del_sem(semid)
  PROVE  KernelInv'
<1>0. UNCHANGED edges
  BY DEF tk_del_sem
<1>1. CASE ~semexs[semid]
  BY <1>0, <1>1, StutterInv DEF tk_del_sem
<1>2. CASE semexs[semid]
  <2> DEFINE ts == Released(semid)
             cause == AllCause("E_DLT")
  <2>1. /\ CompleteWaits(ts, cause, 0)
        /\ DispatchIfNeeded(Enqueued(ts)) \/ (ts = << >> /\ UNCHANGED <<next, msip>>)
        /\ UNCHANGED <<itskpri, wupcnt, sp, pc, free_tcb, current, mie, isr, halted, credit>>
    BY <1>2 DEF tk_del_sem, cpuVars
  <2>2. ts \in Seq(TSKID) /\ Uniq(ts) /\ \A t \in Elems(ts) : tskstat[t] = "WAI"
    BY Objects, ObjWaiters DEF Released
  <2>3. cause \in [TSKID -> Ercd]
    BY DEF AllCause, Ercd
  <2> HIDE DEF ts, cause
  <2>4. credit' \in [TSKID -> Int]
    BY <2>1 DEF KernelInv, TaskTypes, TcbTypes
  <2> QED
    BY <1>0, <2>1, <2>2, <2>3, <2>4, CompleteNowInv
<1> QED
  BY <1>1, <1>2

-----------------------------------------------------------------------------
(* The event flag calls. *)

\* tk_wai_flg() finds its pattern, fails, or begins a wait.
LEMMA WaiFlgInv ==
  ASSUME KernelInv, NEW flgid \in FLGID, NEW waiptn \in FlgPtn, NEW wfmode \in WfMode,
         NEW tmout \in FlgTmo, tk_wai_flg(flgid, waiptn, wfmode, tmout)
  PROVE  KernelInv'
<1>0. Caller /\ UNCHANGED edges /\ "FLG" \in WaitKind /\ tmout \in Int
  BY EventFlagAssumption DEF tk_wai_flg, WaitKind
<1>1. CASE UNCHANGED taskVars
  BY <1>0, <1>1, StutterInv
<1>2. CASE /\ tkmc_can_block
           /\ IF tmout > 0 THEN tkmc_schedule_timer(tkmc_ms_to_ticks(tmout), "FLG")
                           ELSE BeginWait("FLG", 0, 0)
  BY <1>0, <1>2, BeginsInv
<1> QED
  BY <1>1, <1>2 DEF tk_wai_flg

\* What tk_set_flg() finds and serves.
LEMMA SetFlgServes ==
  ASSUME WaitInv, NEW flgid \in FLGID, NEW setptn \in FlgPtn
  PROVE  LET q == wait_queue[Flg(flgid)]
             v == SetWalk(q, flgptn[flgid] \cup setptn)
         IN /\ v.served \in Seq(TSKID) /\ Uniq(v.served)
            /\ \A t \in Elems(v.served) : t \in TSKID /\ tskstat[t] = "WAI"
            /\ q = << >> => v.served = << >>
            /\ v.ptn \in SUBSET Bit /\ v.got \in [TSKID -> SUBSET Bit]
<1> DEFINE q == wait_queue[Flg(flgid)]
           ptn == flgptn[flgid] \cup setptn
<1>1. /\ q \in Seq(TSKID) /\ Uniq(q)
      /\ \A t \in Elems(q) : t \in TSKID /\ tskstat[t] = "WAI"
  BY Objects, ObjWaiters
<1>2. ptn \in SUBSET Bit
  BY EventFlagAssumption DEF WaitInv, FlgTypes
<1> HIDE DEF q, ptn
<1> DEFINE v == SetWalk(q, ptn)
<1>3. /\ v.served \in Seq(TSKID) /\ Uniq(v.served) /\ Elems(v.served) \subseteq Elems(q)
      /\ v.ptn \in SUBSET Bit /\ v.got \in [TSKID -> SUBSET Bit]
  BY <1>1, <1>2, SetWalkProperties
<1> HIDE DEF v
<1>4. q = << >> => v.served = << >>
  BY <1>1, <1>3, SmallQueues
<1> QED
  BY <1>1, <1>3, <1>4 DEF q, v, ptn

\* tk_set_flg() ends the waits that its pattern meets, or fails.
LEMMA SetFlgInv ==
  ASSUME KernelInv, WaitInv, NEW flgid \in FLGID, NEW setptn \in FlgPtn,
         tk_set_flg(flgid, setptn)
  PROVE  KernelInv'
<1>0. UNCHANGED edges
  BY DEF tk_set_flg
<1>1. CASE ~flgexs[flgid]
  BY <1>0, <1>1, StutterInv DEF tk_set_flg
<1>2. CASE flgexs[flgid]
  <2> DEFINE q == wait_queue[Flg(flgid)]
             ts == SetWalk(q, flgptn[flgid] \cup setptn).served
             cause == AllCause("E_OK")
  <2>1. /\ CompleteWaits(ts, cause, 0)
        /\ DispatchIfNeeded(Enqueued(ts)) \/ (q = << >> /\ UNCHANGED <<next, msip>>)
        /\ UNCHANGED <<itskpri, wupcnt, sp, pc, free_tcb, current, mie, isr, halted, credit>>
    BY <1>2 DEF tk_set_flg, cpuVars
  <2>2. /\ ts \in Seq(TSKID) /\ Uniq(ts) /\ \A t \in Elems(ts) : tskstat[t] = "WAI"
        /\ q = << >> => ts = << >>
    BY SetFlgServes
  <2>3. cause \in [TSKID -> Ercd]
    BY DEF AllCause, Ercd
  <2> HIDE DEF ts, cause, q
  <2>4. credit' \in [TSKID -> Int]
    BY <2>1 DEF KernelInv, TaskTypes, TcbTypes
  <2> QED
    BY <1>0, <2>1, <2>2, <2>3, <2>4, CompleteNowInv
<1> QED
  BY <1>1, <1>2

-----------------------------------------------------------------------------
(* The mailbox calls. *)

\* tk_del_mbx() ends the wait of every receiver, or fails.
LEMMA DelMbxInv ==
  ASSUME KernelInv, WaitInv, NEW mbxid \in MBXID, tk_del_mbx(mbxid)
  PROVE  KernelInv'
<1>0. UNCHANGED edges
  BY DEF tk_del_mbx
<1>1. CASE ~mbxexs[mbxid]
  BY <1>0, <1>1, StutterInv DEF tk_del_mbx
<1>2. CASE mbxexs[mbxid]
  <2> DEFINE ts == wait_queue[Mbx(mbxid)]
             cause == AllCause("E_DLT")
  <2>1. /\ CompleteWaits(ts, cause, 0) /\ DispatchIfNeeded(Enqueued(ts))
        /\ UNCHANGED <<itskpri, wupcnt, sp, pc, free_tcb, current, mie, isr, halted, credit>>
    BY <1>2 DEF tk_del_mbx, cpuVars
  <2>2. ts \in Seq(TSKID) /\ Uniq(ts) /\ \A t \in Elems(ts) : tskstat[t] = "WAI"
    BY Objects, ObjWaiters
  <2>3. cause \in [TSKID -> Ercd]
    BY DEF AllCause, Ercd
  <2> HIDE DEF ts, cause
  <2>4. credit' \in [TSKID -> Int]
    BY <2>1 DEF KernelInv, TaskTypes, TcbTypes
  <2> QED
    BY <1>0, <2>1, <2>2, <2>3, <2>4, CompleteNowInv
<1> QED
  BY <1>1, <1>2

\* pop_waiting_receiver() finds a task that waits, or none.
LEMMA PoppedWaits ==
  ASSUME WaitInv, NEW mbxid \in MBXID, pop_waiting_receiver(mbxid) # NULL
  PROVE  /\ pop_waiting_receiver(mbxid) \in TSKID
         /\ tskstat[pop_waiting_receiver(mbxid)] = "WAI"
<1> DEFINE q == wait_queue[Mbx(mbxid)]
<1>1. /\ q \in Seq(TSKID) /\ Uniq(q)
      /\ \A t \in Elems(q) : t \in TSKID /\ tskstat[t] = "WAI"
  BY Objects, ObjWaiters
<1>2. q # << >> /\ pop_waiting_receiver(mbxid) = Head(q)
  BY DEF pop_waiting_receiver
<1> HIDE DEF q
<1>3. Head(q) \in Elems(q)
  BY <1>1, <1>2, TailQueue
<1> QED
  BY <1>1, <1>2, <1>3

\* tk_snd_mbx() ends the wait of the first receiver, queues its message, or fails.
LEMMA SndMbxInv ==
  ASSUME KernelInv, WaitInv, NEW mbxid \in MBXID, NEW msg \in Msg, tk_snd_mbx(mbxid, msg)
  PROVE  KernelInv'
<1> DEFINE t == pop_waiting_receiver(mbxid)
<1>0. UNCHANGED edges
  BY DEF tk_snd_mbx
<1>1. CASE UNCHANGED taskVars
  BY <1>0, <1>1, StutterInv
<1>2. CASE /\ t # NULL
           /\ CompleteWaits(<<t>>, AllCause("E_OK"), 0) /\ DispatchIfNeeded(Enqueued(<<t>>))
           /\ UNCHANGED <<itskpri, wupcnt, sp, winfo, pc, free_tcb, current, cpuVars, credit>>
  <2>1. t \in TSKID /\ tskstat[t] = "WAI" /\ "E_OK" \in Ercd
    BY <1>2, PoppedWaits DEF Ercd
  <2>2. /\ credit' \in [TSKID -> Int]
        /\ UNCHANGED <<itskpri, wupcnt, sp, pc, free_tcb, current, mie, isr, halted>>
    BY <1>2 DEF KernelInv, TaskTypes, TcbTypes, cpuVars
  <2> HIDE DEF t
  <2> QED
    BY <1>0, <1>2, <2>1, <2>2, CompleteOneInv
<1> QED
  BY <1>1, <1>2 DEF tk_snd_mbx

\* tk_rcv_mbx() takes a message, fails, or begins a wait.
LEMMA RcvMbxInv ==
  ASSUME KernelInv, NEW mbxid \in MBXID, NEW tmout \in MbxTmo, tk_rcv_mbx(mbxid, tmout)
  PROVE  KernelInv'
<1>0. Caller /\ UNCHANGED edges /\ "MBX" \in WaitKind /\ tmout \in Int
  BY MailboxAssumption DEF tk_rcv_mbx, WaitKind
<1>1. CASE UNCHANGED taskVars
  BY <1>0, <1>1, StutterInv
<1>2. CASE /\ tkmc_can_block
           /\ IF tmout > 0 THEN tkmc_schedule_timer(tkmc_ms_to_ticks(tmout), "MBX")
                           ELSE BeginWait("MBX", 0, 0)
  BY <1>0, <1>2, BeginsInv
<1> QED
  BY <1>1, <1>2 DEF tk_rcv_mbx

\* The return from tk_rcv_mbx() resets fields of a task that runs.
LEMMA MbxReturnInv ==
  ASSUME KernelInv, MbxReturn
  PROVE  KernelInv'
<1>1. /\ pc[current] = "MBX"
      /\ pc' = [pc EXCEPT ![current] = "run"]
      /\ wupcause' = [wupcause EXCEPT ![current] = "E_OK"]
      /\ delay_ticks' = [delay_ticks EXCEPT ![current] = 0]
      /\ tskwait' = [tskwait EXCEPT ![current] = "none"]
      /\ UNCHANGED <<tskstat, itskpri, wupcnt, sp, ready_queue, timer_queue, free_tcb,
                     current, next, msip, mie, isr, halted, left, credit, edges>>
  BY DEF MbxReturn, CauseTaken, cpuVars
<1>2. current \in TSKID /\ tskstat[current] = "RUN"
  BY RunningTask DEF MbxReturn
<1>3. QueuesConsistent'
  <2>1. \A t \in TSKID : tskstat[t] = "WAI" => delay_ticks'[t] = delay_ticks[t]
    BY <1>1, <1>2 DEF KernelInv, TaskTypes, TcbTypes
  <2> QED
    BY <1>1, <2>1 DEF KernelInv, QueuesConsistent
<1>4. DispatchRight'
  BY <1>1 DEF KernelInv, DispatchRight
<1>5. TcbTypes'
  BY <1>1, <1>2 DEF KernelInv, TaskTypes, TcbTypes, Ercd, PC
<1>6. QueueTypes' /\ CpuTypes'
  BY <1>1 DEF KernelInv, TaskTypes, QueueTypes, CpuTypes
<1>7. TasksStanding'
  BY <1>1, <1>2 DEF KernelInv, TaskTypes, TcbTypes, TasksStanding, IdlePC
<1> QED
  BY <1>3, <1>4, <1>5, <1>6, <1>7 DEF KernelInv, TaskTypes

-----------------------------------------------------------------------------
(* The kernel. *)

\* Every step of the kernel keeps the invariant.
LEMMA NextInv == KernelInv /\ WaitInv /\ [Next]_vars => KernelInv'
<1> SUFFICES ASSUME KernelInv, WaitInv, [Next]_vars PROVE KernelInv'
  OBVIOUS
<1>1. CASE TaskCall
  <2>1. UNCHANGED edges
    BY <1>1 DEF TaskCall
  <2>2. ASSUME NEW pri \in CrePri, tk_cre_tsk(pri) PROVE KernelInv'
    BY <2>1, <2>2, CreTskInv
  <2>3. ASSUME NEW tskid \in TSKID, tk_sta_tsk(tskid) PROVE KernelInv'
    BY <2>1, <2>3, StaTskInv
  <2>5. ASSUME NEW tskid \in TSKID, tk_wup_tsk(tskid) PROVE KernelInv'
    BY <2>1, <2>5, WupTskInv
  <2>6. CASE tk_ext_tsk
    BY <2>1, <2>6, ExtTskInv
  <2>7. CASE tk_exd_tsk
    BY <2>1, <2>7, ExdTskInv
  <2> QED
    BY <1>1, <2>2, <2>3, <2>5, <2>6, <2>7 DEF TaskCall
<1>2. CASE TimerCall
  <2>1. ASSUME NEW wkind \in {"SLP", "DLY"}, WaitReturn(wkind) PROVE KernelInv'
    <3>1. wkind \in WaitKind
      BY DEF WaitKind
    <3> QED
      BY <2>1, <3>1, WaitReturnInv
  <2>2. ASSUME NEW tmout \in Tmo, tk_slp_tsk(tmout) PROVE KernelInv'
    BY <2>2, SlpTskInv
  <2>3. ASSUME NEW dlytm \in RelTim, tk_dly_tsk(dlytm) PROVE KernelInv'
    BY <2>3, DlyTskInv
  <2> QED
    BY <1>2, <2>1, <2>2, <2>3 DEF TimerCall
<1>3. CASE SemaphoreCall
  <2>1. ASSUME NEW tskid \in TSKID, tk_rel_wai(tskid) PROVE KernelInv'
    BY <2>1, RelWaiInv
  <2>2. ASSUME NEW atr \in SemAtr, NEW isemcnt \in SemCnt, NEW max \in SemCnt,
               tk_cre_sem(atr, isemcnt, max)
        PROVE  KernelInv'
    BY <2>2, StutterInv DEF tk_cre_sem
  <2>3. ASSUME NEW semid \in SEMID, tk_del_sem(semid) PROVE KernelInv'
    BY <2>3, DelSemInv
  <2>4. ASSUME NEW semid \in SEMID, NEW cnt \in SemCnt, NEW tmout \in SemTmo,
               tk_wai_sem(semid, cnt, tmout)
        PROVE  KernelInv'
    BY <2>4, WaiSemInv
  <2>5. ASSUME NEW semid \in SEMID, NEW cnt \in SemCnt, tk_sig_sem(semid, cnt)
        PROVE  KernelInv'
    BY <2>5, SigSemInv
  <2>6. ASSUME SemReturn PROVE KernelInv'
    <3>1. WaitReturn("SEM") /\ "SEM" \in WaitKind
      BY <2>6 DEF SemReturn, WaitKind
    <3> QED
      BY <3>1, WaitReturnInv
  <2> QED
    BY <1>3, <2>1, <2>2, <2>3, <2>4, <2>5, <2>6 DEF SemaphoreCall
<1>4. CASE Trap
  BY <1>4, MtrapInv, TimerInterruptInv, ExternalInterruptInv, TrapExitInv DEF Trap
<1>5. CASE Idle
  BY <1>5, IdleInv
<1>6. CASE TaskDI \/ TaskEI
  BY <1>6, TaskMieInv
<1>7. CASE ExitReturns
  BY <1>7, ExitReturnsInv
<1>8. CASE ClockTick
  BY <1>8, TickEdgeInv DEF ClockTick
<1>9. CASE UNCHANGED vars
  BY <1>9, StutterInv DEF vars
<1>10. CASE FlagCall
  <2>1. ASSUME NEW atr \in FlgAtr, NEW iflgptn \in FlgPtn, tk_cre_flg(atr, iflgptn)
        PROVE  KernelInv'
    BY <2>1, StutterInv DEF tk_cre_flg
  <2>2. ASSUME NEW flgid \in FLGID, NEW waiptn \in FlgPtn, NEW wfmode \in WfMode,
               NEW tmout \in FlgTmo, tk_wai_flg(flgid, waiptn, wfmode, tmout)
        PROVE  KernelInv'
    BY <2>2, WaiFlgInv
  <2>3. ASSUME NEW flgid \in FLGID, NEW setptn \in FlgPtn, tk_set_flg(flgid, setptn)
        PROVE  KernelInv'
    BY <2>3, SetFlgInv
  <2>4. ASSUME NEW flgid \in FLGID, NEW clrptn \in FlgPtn, tk_clr_flg(flgid, clrptn)
        PROVE  KernelInv'
    BY <2>4, StutterInv DEF tk_clr_flg
  <2>5. ASSUME FlgReturn PROVE KernelInv'
    <3>1. WaitReturn("FLG") /\ "FLG" \in WaitKind
      BY <2>5 DEF FlgReturn, WaitKind
    <3> QED
      BY <3>1, WaitReturnInv
  <2> QED
    BY <1>10, <2>1, <2>2, <2>3, <2>4, <2>5 DEF FlagCall
<1>11. CASE MailboxCall
  <2>1. ASSUME NEW atr \in MbxAtr, tk_cre_mbx(atr) PROVE KernelInv'
    BY <2>1, StutterInv DEF tk_cre_mbx
  <2>2. ASSUME NEW mbxid \in MBXID, tk_del_mbx(mbxid) PROVE KernelInv'
    BY <2>2, DelMbxInv
  <2>3. ASSUME NEW mbxid \in MBXID, NEW msg \in Msg, tk_snd_mbx(mbxid, msg) PROVE KernelInv'
    BY <2>3, SndMbxInv
  <2>4. ASSUME NEW mbxid \in MBXID, NEW tmout \in MbxTmo, tk_rcv_mbx(mbxid, tmout)
        PROVE  KernelInv'
    BY <2>4, RcvMbxInv
  <2>5. ASSUME MbxReturn PROVE KernelInv'
    BY <2>5, MbxReturnInv
  <2> QED
    BY <1>11, <2>1, <2>2, <2>3, <2>4, <2>5 DEF MailboxCall
<1> QED
  BY <1>1, <1>2, <1>3, <1>4, <1>5, <1>6, <1>7, <1>8, <1>9, <1>10, <1>11 DEF Next, Stopped

-----------------------------------------------------------------------------
(* The ways in which a step can touch a wait. *)

\* Where the SEMCBs are not touched and no queue of one gets a first waiter, they
\* stay right.
LEMMA SemcbsStay ==
  ASSUME WaitInv, UNCHANGED <<semexs, free_semcb>>,
         \A s \in SEMID : wait_queue[Sem(s)] = << >> => wait_queue'[Sem(s)] = << >>
  PROVE  SemcbsLinked'
  BY DEF WaitInv, WaitQueuesConsistent, SemcbsLinked

\* The same of the FLGCBs,
LEMMA FlgcbsStay ==
  ASSUME WaitInv, UNCHANGED <<flgexs, free_flgcb>>,
         \A f \in FLGID : wait_queue[Flg(f)] = << >> => wait_queue'[Flg(f)] = << >>
  PROVE  FlgcbsLinked'
  BY DEF WaitInv, WaitQueuesConsistent, FlgcbsLinked

\* and of the MBXCBs.
LEMMA MbxcbsStay ==
  ASSUME WaitInv, UNCHANGED <<mbxexs, free_mbxcb>>,
         \A m \in MBXID : wait_queue[Mbx(m)] = << >> => wait_queue'[Mbx(m)] = << >>
  PROVE  MbxcbsLinked'
  BY DEF WaitInv, WaitQueuesConsistent, MbxcbsLinked

\* The types of the objects that a step does not touch.
LEMMA TypesStay ==
  ASSUME WaitInv
  PROVE  /\ UNCHANGED semVars => SemTypes' /\ UNCHANGED <<semexs, free_semcb>>
         /\ UNCHANGED flgVars => FlgTypes' /\ UNCHANGED <<flgexs, free_flgcb>>
         /\ UNCHANGED mbxVars => MbxTypes' /\ UNCHANGED <<mbxexs, free_mbxcb>>
<1>1. ASSUME UNCHANGED semVars PROVE SemTypes' /\ UNCHANGED <<semexs, free_semcb>>
  BY <1>1 DEF WaitInv, SemTypes, semVars
<1>2. ASSUME UNCHANGED flgVars PROVE FlgTypes' /\ UNCHANGED <<flgexs, free_flgcb>>
  BY <1>2 DEF WaitInv, FlgTypes, flgVars
<1>3. ASSUME UNCHANGED mbxVars PROVE MbxTypes' /\ UNCHANGED <<mbxexs, free_mbxcb>>
  BY <1>3 DEF WaitInv, MbxTypes, mbxVars
<1> QED
  BY <1>1, <1>2, <1>3

\* A step that creates and deletes no object and gives no queue a first waiter.
LEMMA ObjectsStay ==
  ASSUME WaitInv, SemTypes', FlgTypes', MbxTypes', WaitTypes', WaitersQueued',
         UNCHANGED <<semexs, free_semcb, flgexs, free_flgcb, mbxexs, free_mbxcb>>,
         \A o \in Obj : wait_queue[o] = << >> => wait_queue'[o] = << >>
  PROVE  WaitInv'
<1>1. SemcbsLinked' /\ FlgcbsLinked' /\ MbxcbsLinked'
  BY Objects, SemcbsStay, FlgcbsStay, MbxcbsStay
<1> QED
  BY <1>1 DEF WaitInv, WaitQueuesConsistent

\* A step that begins and ends no wait keeps the wait queues right.
LEMMA QuietWaits ==
  ASSUME WaitInv, UNCHANGED wait_queue, UNCHANGED objVars, WaitTypes',
         \A t \in TSKID :
           /\ tskstat'[t] = "WAI" <=> tskstat[t] = "WAI"
           /\ tskstat[t] = "WAI" => tskwait'[t] = tskwait[t] /\ winfo'[t] = winfo[t]
  PROVE  WaitInv'
<1>1. /\ SemTypes' /\ FlgTypes' /\ MbxTypes'
      /\ UNCHANGED <<semexs, free_semcb, flgexs, free_flgcb, mbxexs, free_mbxcb>>
  BY TypesStay DEF objVars
<1>2. WaitersQueued'
  BY DEF WaitInv, WaitQueuesConsistent, WaitersQueued, Queued
<1> QED
  BY <1>1, <1>2, ObjectsStay

\* A step that changes no task state.
LEMMA StillWaits ==
  ASSUME WaitInv, UNCHANGED <<tskstat, tskwait, winfo, wait_queue>>, UNCHANGED objVars
  PROVE  WaitInv'
<1>1. WaitTypes'
  BY DEF WaitInv, WaitTypes
<1> QED
  BY <1>1, QuietWaits

\* A step that changes no task state, and of the objects what is not linked.
LEMMA ObjectWaits ==
  ASSUME WaitInv, UNCHANGED <<tskstat, tskwait, winfo, wait_queue>>,
         SemTypes', FlgTypes', MbxTypes',
         UNCHANGED <<semexs, free_semcb, flgexs, free_flgcb, mbxexs, free_mbxcb>>
  PROVE  WaitInv'
<1>1. WaitTypes' /\ WaitersQueued'
  BY DEF WaitInv, WaitTypes, WaitQueuesConsistent, WaitersQueued, Queued
<1> QED
  BY <1>1, ObjectsStay

\* tkmc_complete_wait() takes the tasks off the wait queues, and no other.
LEMMA CompletedWaits ==
  ASSUME WaitInv, NEW ts, NEW cause, NEW elapsed, CompleteWaits(ts, cause, elapsed),
         UNCHANGED winfo
  PROVE  /\ WaitTypes' /\ WaitersQueued'
         /\ \A o \in Obj : /\ Elems(wait_queue'[o]) = Elems(wait_queue[o]) \ Elems(ts)
                           /\ wait_queue'[o] \in Seq(TSKID)
                           /\ wait_queue[o] = << >> => wait_queue'[o] = << >>
<1>1. /\ wait_queue' = [o \in Obj |-> Without(wait_queue[o], Elems(ts))]
      /\ \A t \in TSKID : t \in Elems(ts) => tskstat'[t] = "RDY"
      /\ \A t \in TSKID : t \notin Elems(ts) => tskstat'[t] = tskstat[t] /\ tskwait'[t] = tskwait[t]
  BY DEF CompleteWaits, Unqueued
<1>2. ASSUME NEW o \in Obj
      PROVE  /\ wait_queue'[o] \in Seq(TSKID) /\ Uniq(wait_queue'[o])
             /\ Elems(wait_queue'[o]) = Elems(wait_queue[o]) \ Elems(ts)
             /\ wait_queue[o] = << >> => wait_queue'[o] = << >>
  <2>1. wait_queue[o] \in Seq(TSKID) /\ Uniq(wait_queue[o])
    BY DEF WaitInv, WaitTypes, WaitQueuesConsistent, WaitersQueued
  <2>2. wait_queue'[o] = Without(wait_queue[o], Elems(ts))
    BY <1>1
  <2>3. /\ wait_queue'[o] \in Seq(TSKID) /\ Uniq(wait_queue'[o])
        /\ Elems(wait_queue'[o]) = Elems(wait_queue[o]) \ Elems(ts)
    BY <2>1, <2>2, WithoutProperties
  <2>4. wait_queue[o] = << >> => Elems(wait_queue'[o]) = {}
    BY <2>3, SmallQueues
  <2> QED
    BY <2>3, <2>4, SmallQueues
<1>3. WaitTypes'
  BY <1>1, <1>2 DEF WaitInv, WaitTypes
<1>4. WaitersQueued'
  <2>1. ASSUME NEW t \in TSKID, NEW o \in Obj
        PROVE  t \in Elems(wait_queue'[o]) <=> Queued(t)' /\ winfo'[t].obj = o
    BY <1>1, <1>2 DEF WaitInv, WaitQueuesConsistent, WaitersQueued, Queued
  <2>2. ASSUME NEW t \in TSKID, Queued(t)'
        PROVE  winfo'[t].obj \in Obj /\ tskwait'[t] = Kind(winfo'[t].obj)
    BY <1>1, <2>2 DEF WaitInv, WaitQueuesConsistent, WaitersQueued, Queued
  <2> QED
    BY <1>2, <2>1, <2>2 DEF WaitersQueued
<1> QED
  BY <1>2, <1>3, <1>4

\* The end of waits, when no object is created or deleted.
LEMMA CompletedInv ==
  ASSUME WaitInv, NEW ts, NEW cause, NEW elapsed, CompleteWaits(ts, cause, elapsed),
         UNCHANGED winfo, SemTypes', FlgTypes', MbxTypes',
         UNCHANGED <<semexs, free_semcb, flgexs, free_flgcb, mbxexs, free_mbxcb>>
  PROVE  WaitInv'
<1>1. /\ WaitTypes' /\ WaitersQueued'
      /\ \A o \in Obj : wait_queue[o] = << >> => wait_queue'[o] = << >>
  BY CompletedWaits
<1> QED
  BY <1>1, ObjectsStay

\* A wait that is for no object.
LEMMA PlainWaits ==
  ASSUME KernelInv, WaitInv, Caller, tkmc_can_block, NEW wkind \in {"SLP", "DLY"},
         NEW ticks, NEW elapsed, BeginWait(wkind, ticks, elapsed),
         UNCHANGED <<winfo, wait_queue>>, UNCHANGED objVars
  PROVE  WaitInv'
<1>1. current \in TSKID /\ tskstat[current] = "RUN"
  BY BlockingCaller
<1>2. /\ tskwait'[current] \notin {"SEM", "FLG", "MBX"}
      /\ \A t \in TSKID : t # current => tskstat'[t] = tskstat[t] /\ tskwait'[t] = tskwait[t]
  BY <1>1 DEF BeginWait, KernelInv, TaskTypes, TcbTypes
<1>3. /\ WaitTypes' /\ SemTypes' /\ FlgTypes' /\ MbxTypes'
      /\ UNCHANGED <<semexs, free_semcb, flgexs, free_flgcb, mbxexs, free_mbxcb>>
  BY TypesStay DEF WaitInv, WaitTypes, objVars
<1>4. WaitersQueued'
  BY <1>1, <1>2 DEF WaitInv, WaitQueuesConsistent, WaitersQueued, Queued
<1> QED
  BY <1>3, <1>4, ObjectsStay

\* A wait for an object: the current task joins the queue of o, and no other.
LEMMA JoinedWaits ==
  ASSUME KernelInv, WaitInv, Caller, tkmc_can_block, NEW o \in Obj, NEW req \in Nat,
         NEW byPri, NEW wkind, NEW ticks, NEW elapsed,
         wkind = Kind(o), BeginWait(wkind, ticks, elapsed), JoinQueue(o, req, byPri)
  PROVE  /\ WaitTypes' /\ WaitersQueued'
         /\ \A p \in Obj : p # o => wait_queue'[p] = wait_queue[p]
<1> DEFINE q == wait_queue[o]
           r == Inserted(q, current, byPri)
<1>1. current \in TSKID /\ tskstat[current] = "RUN"
  BY BlockingCaller
<1>2. /\ q \in Seq(TSKID) /\ Uniq(q) /\ current \notin Elems(q)
  BY <1>1 DEF WaitInv, WaitTypes, WaitQueuesConsistent, WaitersQueued, Queued
<1>3. r \in Seq(TSKID) /\ Uniq(r) /\ Elems(r) = Elems(q) \cup {current}
  <2> HIDE DEF q
  <2> QED
    BY <1>1, <1>2, InsertedQueue
<1>4. /\ wait_queue' = [wait_queue EXCEPT ![o] = r]
      /\ winfo' = [winfo EXCEPT ![current] = [obj |-> o, req |-> req]]
  BY DEF JoinQueue
<1> HIDE DEF r
<1>5. /\ wait_queue'[o] = r
      /\ \A p \in Obj : p # o => wait_queue'[p] = wait_queue[p]
      /\ winfo'[current].obj = o
      /\ \A t \in TSKID : t # current => winfo'[t] = winfo[t]
  BY <1>1, <1>4 DEF WaitInv, WaitTypes
<1>6. /\ tskstat'[current] = "WAI" /\ tskwait'[current] = Kind(o)
      /\ Kind(o) \in {"SEM", "FLG", "MBX"}
      /\ \A t \in TSKID : t # current => tskstat'[t] = tskstat[t] /\ tskwait'[t] = tskwait[t]
  BY <1>1 DEF BeginWait, KernelInv, TaskTypes, TcbTypes, Kind
<1>7. WaitTypes'
  <2>1. winfo' \in [TSKID -> [obj : Obj \cup {NoWait.obj}, req : Nat]]
    BY <1>1, <1>4 DEF WaitInv, WaitTypes
  <2>2. wait_queue' \in [Obj -> Seq(TSKID)]
    BY <1>3, <1>4 DEF WaitInv, WaitTypes
  <2> QED
    BY <2>1, <2>2 DEF WaitTypes
<1>8. WaitersQueued'
  <2>1. \A p \in Obj : Uniq(wait_queue'[p])
    BY <1>3, <1>5 DEF WaitInv, WaitQueuesConsistent, WaitersQueued
  <2>2. ASSUME NEW t \in TSKID, NEW p \in Obj
        PROVE  t \in Elems(wait_queue'[p]) <=> Queued(t)' /\ winfo'[t].obj = p
    <3>1. t \in Elems(wait_queue[p]) <=> Queued(t) /\ winfo[t].obj = p
      BY DEF WaitInv, WaitQueuesConsistent, WaitersQueued
    <3>2. t \in Elems(wait_queue'[p]) <=> t \in Elems(wait_queue[p]) \/ (t = current /\ p = o)
      BY <1>3, <1>5
    <3>3. CASE t = current
      BY <1>1, <1>5, <1>6, <3>1, <3>2, <3>3 DEF Queued
    <3>4. CASE t # current
      BY <1>5, <1>6, <3>1, <3>2, <3>4 DEF Queued
    <3> QED
      BY <3>3, <3>4
  <2>3. ASSUME NEW t \in TSKID, Queued(t)'
        PROVE  winfo'[t].obj \in Obj /\ tskwait'[t] = Kind(winfo'[t].obj)
    <3>1. CASE t = current
      BY <1>5, <1>6, <3>1
    <3>2. CASE t # current
      BY <1>5, <1>6, <2>3, <3>2 DEF WaitInv, WaitQueuesConsistent, WaitersQueued, Queued
    <3> QED
      BY <3>1, <3>2
  <2> QED
    BY <2>1, <2>2, <2>3 DEF WaitersQueued
<1> QED
  BY <1>5, <1>7, <1>8

-----------------------------------------------------------------------------
(* Control blocks. *)

\* A control block that is taken from the free list exists, and is off the list.
LEMMA CbTaken ==
  ASSUME NEW ID, NEW exs \in [ID -> BOOLEAN], NEW free \in Seq(ID), Uniq(free), free # << >>,
         \A i \in ID : i \in Elems(free) <=> ~exs[i]
  PROVE  LET now == [exs EXCEPT ![Head(free)] = TRUE]
         IN /\ Head(free) \in ID /\ Tail(free) \in Seq(ID) /\ Uniq(Tail(free))
            /\ now \in [ID -> BOOLEAN]
            /\ \A i \in ID : (i \in Elems(Tail(free)) <=> ~now[i]) /\ (~now[i] => ~exs[i])
<1> DEFINE c == Head(free)
           rest == Tail(free)
<1>1. /\ c \in ID /\ c \in Elems(free) /\ rest \in Seq(ID) /\ Uniq(rest)
      /\ Elems(rest) = Elems(free) \ {c}
  BY TailQueue
<1> HIDE DEF c, rest
<1> DEFINE now == [exs EXCEPT ![c] = TRUE]
<1>2. now \in [ID -> BOOLEAN] /\ now[c] /\ \A i \in ID : i # c => now[i] = exs[i]
  BY <1>1
<1>3. \A i \in ID : (i \in Elems(rest) <=> ~now[i]) /\ (~now[i] => ~exs[i])
  <2> HIDE DEF now
  <2> QED
    BY <1>1, <1>2
<1> QED
  BY <1>1, <1>2, <1>3 DEF c, rest

\* A control block that goes back to the free list does not exist.
LEMMA CbFreed ==
  ASSUME NEW ID, NEW exs \in [ID -> BOOLEAN], NEW free \in Seq(ID), Uniq(free),
         \A i \in ID : i \in Elems(free) <=> ~exs[i], NEW c \in ID, exs[c]
  PROVE  LET now == [exs EXCEPT ![c] = FALSE]
         IN /\ Append(free, c) \in Seq(ID) /\ Uniq(Append(free, c))
            /\ now \in [ID -> BOOLEAN]
            /\ \A i \in ID : (i \in Elems(Append(free, c)) <=> ~now[i])
                             /\ (~now[i] => i = c \/ ~exs[i])
<1> DEFINE list == Append(free, c)
           now == [exs EXCEPT ![c] = FALSE]
<1>1. list \in Seq(ID) /\ Uniq(list) /\ Elems(list) = Elems(free) \cup {c}
  BY AppendQueue
<1> HIDE DEF list
<1>2. now \in [ID -> BOOLEAN] /\ ~now[c] /\ \A i \in ID : i # c => now[i] = exs[i]
  OBVIOUS
<1> HIDE DEF now
<1>3. \A i \in ID : (i \in Elems(list) <=> ~now[i]) /\ (~now[i] => i = c \/ ~exs[i])
  BY <1>1, <1>2
<1> QED
  BY <1>1, <1>2, <1>3 DEF list, now

\* A queue that a task joins is that of an object that exists.
LEMMA JoinedCbs ==
  ASSUME WaitInv, NEW o \in Obj, \A p \in Obj : p # o => wait_queue'[p] = wait_queue[p],
         \A s \in SEMID : o = Sem(s) => semexs[s],
         \A f \in FLGID : o = Flg(f) => flgexs[f],
         \A m \in MBXID : o = Mbx(m) => mbxexs[m],
         UNCHANGED <<semexs, free_semcb, flgexs, free_flgcb, mbxexs, free_mbxcb>>
  PROVE  SemcbsLinked' /\ FlgcbsLinked' /\ MbxcbsLinked'
<1>1. SemcbsLinked'
  BY Objects DEF WaitInv, WaitQueuesConsistent, SemcbsLinked
<1>2. FlgcbsLinked'
  BY Objects DEF WaitInv, WaitQueuesConsistent, FlgcbsLinked
<1>3. MbxcbsLinked'
  BY Objects DEF WaitInv, WaitQueuesConsistent, MbxcbsLinked
<1> QED
  BY <1>1, <1>2, <1>3

-----------------------------------------------------------------------------
(* The calls. *)

\* The task calls: a task that is created, started or ends does not wait.
LEMMA TaskCallWaits ==
  ASSUME KernelInv, WaitInv, TaskCall
  PROVE  WaitInv'
<1>0. UNCHANGED objVars
  BY DEF TaskCall
<1>a. CASE UNCHANGED taskVars
  BY <1>0, <1>a, StillWaits DEF taskVars, tcbVars, queueVars
<1>b. NoWait \in [obj : Obj \cup {NoWait.obj}, req : Nat]
  BY DEF NoWait
<1>1. ASSUME NEW pri \in CrePri, tk_cre_tsk(pri) PROVE WaitInv'
  <2>1. CASE pri \notin Pri \/ free_tcb = << >>
    BY <1>a, <1>1, <2>1 DEF tk_cre_tsk
  <2>2. CASE pri \in Pri /\ free_tcb # << >>
    <3> DEFINE t == Head(free_tcb)
    <3>1. t \in TSKID /\ t \in Elems(free_tcb)
      BY <2>2, TailQueue DEF KernelInv, TaskTypes, QueueTypes, QueuesConsistent
    <3>2. tskstat[t] = "NOEXS"
      BY <3>1 DEF KernelInv, QueuesConsistent
    <3> HIDE DEF t
    <3>3. /\ tskstat' = [tskstat EXCEPT ![t] = "DMT"]
          /\ tskwait' = [tskwait EXCEPT ![t] = "none"]
          /\ winfo' = [winfo EXCEPT ![t] = NoWait]
          /\ UNCHANGED wait_queue
      BY <1>1, <2>2 DEF tk_cre_tsk, t
    <3>4. WaitTypes'
      BY <1>b, <3>1, <3>3 DEF WaitInv, WaitTypes
    <3>5. \A x \in TSKID :
            /\ tskstat'[x] = "WAI" <=> tskstat[x] = "WAI"
            /\ tskstat[x] = "WAI" => tskwait'[x] = tskwait[x] /\ winfo'[x] = winfo[x]
      BY <3>1, <3>2, <3>3 DEF KernelInv, TaskTypes, TcbTypes, WaitInv, WaitTypes
    <3> QED
      BY <1>0, <3>3, <3>4, <3>5, QuietWaits
  <2> QED
    BY <2>1, <2>2
<1>2. ASSUME NEW t \in TSKID, tk_sta_tsk(t) PROVE WaitInv'
  <2>1. CASE tskstat[t] # "DMT"
    BY <1>a, <1>2, <2>1 DEF tk_sta_tsk
  <2>2. CASE tskstat[t] = "DMT"
    <3>3. /\ tskstat' = [tskstat EXCEPT ![t] = "RDY"]
          /\ tskwait' = [tskwait EXCEPT ![t] = "none"]
          /\ winfo' = [winfo EXCEPT ![t] = NoWait]
          /\ UNCHANGED wait_queue
      BY <1>2, <2>2 DEF tk_sta_tsk
    <3>4. WaitTypes'
      BY <1>b, <3>3 DEF WaitInv, WaitTypes
    <3>5. \A x \in TSKID :
            /\ tskstat'[x] = "WAI" <=> tskstat[x] = "WAI"
            /\ tskstat[x] = "WAI" => tskwait'[x] = tskwait[x] /\ winfo'[x] = winfo[x]
      BY <2>2, <3>3 DEF KernelInv, TaskTypes, TcbTypes, WaitInv, WaitTypes
    <3> QED
      BY <1>0, <3>3, <3>4, <3>5, QuietWaits
  <2> QED
    BY <2>1, <2>2
<1>3. ASSUME NEW t \in TSKID, tk_wup_tsk(t) PROVE WaitInv'
  <2>1. CASE UNCHANGED <<tskstat, tskwait, winfo, wait_queue>>
    BY <1>0, <2>1, StillWaits
  <2>2. CASE CompleteWaits(<<t>>, AllCause("E_OK"), 0) /\ UNCHANGED winfo
    <3>1. /\ SemTypes' /\ FlgTypes' /\ MbxTypes'
          /\ UNCHANGED <<semexs, free_semcb, flgexs, free_flgcb, mbxexs, free_mbxcb>>
      BY <1>0, TypesStay DEF objVars
    <3> QED
      BY <2>2, <3>1, CompletedInv
  <2> QED
    BY <1>3, <2>1, <2>2 DEF tk_wup_tsk, taskVars, tcbVars, queueVars
<1>4. ASSUME tk_ext_tsk \/ tk_exd_tsk PROVE WaitInv'
  <2>1. CASE ~tkmc_can_block
    BY <1>0, <1>4, <2>1, StillWaits
      DEF tk_ext_tsk, tk_exd_tsk, tkmc_fatal_context, tcbVars, queueVars
  <2>2. CASE tkmc_can_block
    <3>1. current \in TSKID /\ tskstat[current] = "RUN"
      BY <1>4, <2>2, BlockingCaller DEF tk_ext_tsk, tk_exd_tsk
    <3>2. /\ UNCHANGED <<winfo, wait_queue>>
          /\ tskstat'[current] # "WAI"
          /\ \A x \in TSKID : x # current => tskstat'[x] = tskstat[x] /\ tskwait'[x] = tskwait[x]
      BY <1>4, <2>2, <3>1 DEF tk_ext_tsk, tk_exd_tsk, KernelInv, TaskTypes, TcbTypes
    <3>3. WaitTypes'
      BY <3>2 DEF WaitInv, WaitTypes
    <3> QED
      BY <1>0, <3>1, <3>2, <3>3, QuietWaits
  <2> QED
    BY <2>1, <2>2
<1> QED
  BY <1>1, <1>2, <1>3, <1>4 DEF TaskCall

\* The timer calls wait for no object.
LEMMA TimerCallWaits ==
  ASSUME KernelInv, WaitInv, TimerCall
  PROVE  WaitInv'
<1>0. UNCHANGED objVars
  BY DEF TimerCall
<1>1. CASE UNCHANGED <<tskstat, tskwait, winfo, wait_queue>>
  BY <1>0, <1>1, StillWaits
<1>2. ASSUME NEW tmout \in Tmo, tk_slp_tsk(tmout) PROVE WaitInv'
  <2>1. Caller
    BY <1>2 DEF tk_slp_tsk
  <2>2. ASSUME NEW ticks, NEW elapsed, tkmc_can_block, BeginWait("SLP", ticks, elapsed),
               UNCHANGED <<winfo, wait_queue>>
        PROVE  WaitInv'
    BY <1>0, <2>1, <2>2, PlainWaits
  <2> QED
    BY <1>1, <1>2, <2>2
      DEF tk_slp_tsk, tkmc_schedule_timer, taskVars, tcbVars, queueVars
<1>3. ASSUME NEW dlytm \in RelTim, tk_dly_tsk(dlytm) PROVE WaitInv'
  <2>1. Caller
    BY <1>3 DEF tk_dly_tsk
  <2>2. ASSUME NEW ticks, NEW elapsed, tkmc_can_block, BeginWait("DLY", ticks, elapsed),
               UNCHANGED <<winfo, wait_queue>>
        PROVE  WaitInv'
    BY <1>0, <2>1, <2>2, PlainWaits
  <2> QED
    BY <1>1, <1>3, <2>2
      DEF tk_dly_tsk, tkmc_schedule_timer, tkmc_yield, taskVars, tcbVars, queueVars
<1>4. ASSUME NEW wkind, WaitReturn(wkind) PROVE WaitInv'
  BY <1>1, <1>4 DEF WaitReturn, queueVars
<1> QED
  BY <1>2, <1>3, <1>4 DEF TimerCall

\* Waits that end with the units that Ends allows leave a semaphore's count
\* within its bounds.
LEMMA EndWaitsInv ==
  ASSUME WaitInv, NEW b \in Ends, NEW ercd, NEW elapsed, EndWaits(b, ercd, elapsed),
         UNCHANGED <<winfo, semcbVars, ledger, orphan>>, UNCHANGED flgVars, UNCHANGED mbxVars
  PROVE  WaitInv'
<1>1. /\ CompleteWaits(b.ts, Causes(b, ercd), elapsed) /\ semcnt' = b.units
      /\ UNCHANGED <<semexs, sematr, maxsem, free_semcb>>
  BY DEF EndWaits, semcbVars
<1>2. b.units \in [SEMID -> Nat] /\ \A s \in SEMID : b.units[s] <= semcnt[s]
  BY DEF Ends
<1>3. \A s \in SEMID : /\ semcnt[s] \in Nat /\ maxsem[s] \in Nat /\ b.units[s] \in Nat
                       /\ semcnt[s] <= maxsem[s]
  BY <1>2, SemaphoreAssumption DEF WaitInv, SemTypes
<1>4. \A s \in SEMID : semcnt'[s] <= maxsem'[s]
  BY <1>1, <1>2, <1>3
<1>5. SemTypes'
  BY <1>1, <1>2, <1>4 DEF WaitInv, SemTypes
<1> QED
  BY <1>1, <1>5, TypesStay, CompletedInv

\* tk_rel_wai().
LEMMA RelWaiWaits ==
  ASSUME WaitInv, NEW tskid \in TSKID, tk_rel_wai(tskid), UNCHANGED flgVars, UNCHANGED mbxVars
  PROVE  WaitInv'
<1>1. CASE RelWaiRefused(tskid)
  BY <1>1, StillWaits
    DEF tk_rel_wai, taskVars, tcbVars, queueVars, semVars, semcbVars, objVars
<1>2. CASE ~RelWaiRefused(tskid)
  <2> DEFINE b == Leave(NoneLeft, tskid)
  <2>1. tskstat[tskid] = "WAI"
    BY <1>2 DEF RelWaiRefused
  <2>2. b \in Ends
    BY <2>1, NoneLeftEnds, LeaveProperties
  <2>3. EndWaits(b, "E_RLWAI", 0) /\ UNCHANGED <<winfo, semcbVars, ledger, orphan>>
    BY <1>2 DEF tk_rel_wai
  <2> HIDE DEF b
  <2> QED
    BY <2>2, <2>3, EndWaitsInv
<1> QED
  BY <1>1, <1>2

\* tk_cre_sem() takes a semaphore with no waiters from the free list.
LEMMA CreSemWaits ==
  ASSUME WaitInv, NEW atr \in SemAtr, NEW isemcnt \in SemCnt, NEW max \in SemCnt,
         tk_cre_sem(atr, isemcnt, max), UNCHANGED flgVars, UNCHANGED mbxVars
  PROVE  WaitInv'
<1> DEFINE refused == \/ max < 1 \/ max > TK_SEMAPHORE_MAXCNT \/ isemcnt < 0 \/ isemcnt > max
                      \/ free_semcb = << >>
<1>0. UNCHANGED <<tskstat, tskwait, winfo, wait_queue, orphan>>
  BY DEF tk_cre_sem, taskVars, tcbVars, queueVars
<1>1. CASE refused
  BY <1>0, <1>1, StillWaits DEF tk_cre_sem, semVars, objVars
<1>2. CASE ~refused
  <2> DEFINE s == Head(free_semcb)
  <2>1. free_semcb \in Seq(SEMID) /\ Uniq(free_semcb) /\ free_semcb # << >>
    BY <1>2 DEF WaitInv, SemTypes, WaitQueuesConsistent, SemcbsLinked
  <2>2. /\ s \in SEMID /\ s \in Elems(free_semcb)
        /\ Tail(free_semcb) \in Seq(SEMID) /\ Uniq(Tail(free_semcb))
        /\ Elems(Tail(free_semcb)) = Elems(free_semcb) \ {s}
    BY <2>1, TailQueue
  <2> HIDE DEF s
  <2>3. /\ free_semcb' = Tail(free_semcb)
        /\ semexs' = [semexs EXCEPT ![s] = TRUE]
        /\ sematr' = [sematr EXCEPT ![s] = atr]
        /\ semcnt' = [semcnt EXCEPT ![s] = isemcnt]
        /\ maxsem' = [maxsem EXCEPT ![s] = max]
        /\ ledger' = [ledger EXCEPT ![s] = isemcnt]
    BY <1>2 DEF tk_cre_sem, s
  <2>4. /\ isemcnt \in Nat /\ max \in 0..TK_SEMAPHORE_MAXCNT /\ isemcnt <= max
        /\ isemcnt \in Int /\ atr \in Atr
    BY <1>2, SemaphoreAssumption
  <2>5. SemTypes'
    <3>1. semexs' \in [SEMID -> BOOLEAN] /\ sematr' \in [SEMID -> Atr]
      BY <2>2, <2>3, <2>4 DEF WaitInv, SemTypes
    <3>2. maxsem' \in [SEMID -> 0..TK_SEMAPHORE_MAXCNT]
      BY <2>2, <2>3, <2>4 DEF WaitInv, SemTypes
    <3>3. semcnt' \in [SEMID -> Nat] /\ ledger' \in [SEMID -> Int]
      BY <2>2, <2>3, <2>4 DEF WaitInv, SemTypes
    <3>4. \A r \in SEMID : semcnt'[r] <= maxsem'[r]
      BY <2>2, <2>3, <2>4 DEF WaitInv, SemTypes
    <3> QED
      BY <1>0, <2>2, <2>3, <3>1, <3>2, <3>3, <3>4 DEF WaitInv, SemTypes
  <2>6. SemcbsLinked'
    <3>1. semexs'[s] /\ \A r \in SEMID : r # s => semexs'[r] = semexs[r]
      BY <2>2, <2>3 DEF WaitInv, SemTypes
    <3>2. \A r \in SEMID : r \in Elems(free_semcb') <=> ~semexs'[r]
      BY <2>2, <2>3, <3>1 DEF WaitInv, WaitQueuesConsistent, SemcbsLinked
    <3>3. \A r \in SEMID : ~semexs'[r] => wait_queue'[Sem(r)] = << >>
      BY <1>0, <3>1 DEF WaitInv, WaitQueuesConsistent, SemcbsLinked
    <3> QED
      BY <2>2, <2>3, <3>2, <3>3 DEF SemcbsLinked
  <2>7. WaitTypes' /\ WaitersQueued'
    BY <1>0 DEF WaitInv, WaitTypes, WaitQueuesConsistent, WaitersQueued, Queued
  <2>8. FlgTypes' /\ MbxTypes' /\ FlgcbsLinked' /\ MbxcbsLinked'
    BY <1>0, TypesStay, FlgcbsStay, MbxcbsStay
  <2> QED
    BY <2>5, <2>6, <2>7, <2>8 DEF WaitInv, WaitQueuesConsistent
<1> QED
  BY <1>1, <1>2

\* tk_del_sem() leaves no waiter on the queue whose link goes to the free list.
LEMMA DelSemWaits ==
  ASSUME WaitInv, NEW semid \in SEMID, tk_del_sem(semid), UNCHANGED flgVars, UNCHANGED mbxVars
  PROVE  WaitInv'
<1>1. CASE ~semexs[semid]
  BY <1>1, StillWaits DEF tk_del_sem, taskVars, tcbVars, queueVars, objVars
<1>2. CASE semexs[semid]
  <2>1. /\ CompleteWaits(wait_queue[Sem(semid)], AllCause("E_DLT"), 0)
        /\ semexs' = [semexs EXCEPT ![semid] = FALSE]
        /\ sematr' = [sematr EXCEPT ![semid] = NoAtr]
        /\ semcnt' = [semcnt EXCEPT ![semid] = 0]
        /\ maxsem' = [maxsem EXCEPT ![semid] = 0]
        /\ free_semcb' = Append(free_semcb, semid)
        /\ ledger' = [ledger EXCEPT ![semid] = 0]
        /\ orphan' = orphan \cup InFlight(semid)
        /\ UNCHANGED winfo
    BY <1>2 DEF tk_del_sem, Released
  <2>2. /\ WaitTypes' /\ WaitersQueued'
        /\ \A o \in Obj : /\ Elems(wait_queue'[o]) = Elems(wait_queue[o]) \ Elems(wait_queue[Sem(semid)])
                          /\ wait_queue'[o] \in Seq(TSKID)
                          /\ wait_queue[o] = << >> => wait_queue'[o] = << >>
    BY <2>1, CompletedWaits
  <2>3. wait_queue'[Sem(semid)] = << >>
    <3>1. Sem(semid) \in Obj
      BY Objects
    <3>2. wait_queue'[Sem(semid)] \in Seq(TSKID) /\ Elems(wait_queue'[Sem(semid)]) = {}
      BY <2>2, <3>1
    <3> QED
      BY <3>2, SmallQueues
  <2>4. /\ free_semcb' \in Seq(SEMID) /\ Uniq(free_semcb')
        /\ Elems(free_semcb') = Elems(free_semcb) \cup {semid}
    <3>1. free_semcb \in Seq(SEMID) /\ Uniq(free_semcb) /\ semid \notin Elems(free_semcb)
      BY <1>2 DEF WaitInv, SemTypes, WaitQueuesConsistent, SemcbsLinked
    <3> QED
      BY <2>1, <3>1, AppendQueue
  <2>5. SemTypes'
    <3>1. 0 \in 0..TK_SEMAPHORE_MAXCNT /\ NoAtr \in Atr /\ InFlight(semid) \subseteq TSKID
      BY SemaphoreAssumption DEF NoAtr, Atr, InFlight
    <3>2. semexs' \in [SEMID -> BOOLEAN] /\ sematr' \in [SEMID -> Atr]
      BY <2>1, <3>1 DEF WaitInv, SemTypes
    <3>3. maxsem' \in [SEMID -> 0..TK_SEMAPHORE_MAXCNT]
      BY <2>1, <3>1 DEF WaitInv, SemTypes
    <3>4. semcnt' \in [SEMID -> Nat] /\ ledger' \in [SEMID -> Int]
      BY <2>1 DEF WaitInv, SemTypes
    <3>5. \A r \in SEMID : semcnt'[r] <= maxsem'[r]
      BY <2>1 DEF WaitInv, SemTypes
    <3>6. orphan' \subseteq TSKID
      BY <2>1, <3>1 DEF WaitInv, SemTypes
    <3> QED
      BY <2>4, <3>2, <3>3, <3>4, <3>5, <3>6 DEF SemTypes
  <2>6. SemcbsLinked'
    <3>1. ~semexs'[semid] /\ \A r \in SEMID : r # semid => semexs'[r] = semexs[r]
      BY <2>1 DEF WaitInv, SemTypes
    <3>2. \A r \in SEMID : r \in Elems(free_semcb') <=> ~semexs'[r]
      BY <2>4, <3>1 DEF WaitInv, WaitQueuesConsistent, SemcbsLinked
    <3>3. ASSUME NEW r \in SEMID, ~semexs'[r] PROVE wait_queue'[Sem(r)] = << >>
      <4>1. CASE r = semid
        BY <2>3, <4>1
      <4>2. CASE r # semid
        <5>1. wait_queue[Sem(r)] = << >> /\ Sem(r) \in Obj
          BY <3>1, <3>3, <4>2, Objects DEF WaitInv, WaitQueuesConsistent, SemcbsLinked
        <5> QED
          BY <2>2, <5>1
      <4> QED
        BY <4>1, <4>2
    <3> QED
      BY <2>4, <3>2, <3>3 DEF SemcbsLinked
  <2>7. FlgTypes' /\ MbxTypes' /\ FlgcbsLinked' /\ MbxcbsLinked'
    BY <2>2, Objects, TypesStay, FlgcbsStay, MbxcbsStay
  <2> QED
    BY <2>2, <2>5, <2>6, <2>7 DEF WaitInv, WaitQueuesConsistent
<1> QED
  BY <1>1, <1>2

\* tk_wai_sem() takes units that are there, or puts the task on the wait queue of
\* a semaphore that exists.
LEMMA WaiSemWaits ==
  ASSUME KernelInv, WaitInv, NEW semid \in SEMID, NEW cnt \in SemCnt, NEW tmout \in SemTmo,
         tk_wai_sem(semid, cnt, tmout), UNCHANGED flgVars, UNCHANGED mbxVars
  PROVE  WaitInv'
<1>0. cnt \in Int /\ UNCHANGED <<semexs, sematr, maxsem, free_semcb, orphan>> /\ Caller
  BY SemaphoreAssumption DEF tk_wai_sem, semcbVars
<1>1. CASE UNCHANGED <<taskVars, semcnt, ledger>>
  BY <1>0, <1>1, StillWaits DEF taskVars, tcbVars, queueVars, semVars, objVars
<1>2. CASE /\ cnt > 0 /\ MayTake(semid, cnt)
           /\ semcnt' = [semcnt EXCEPT ![semid] = @ - cnt]
           /\ ledger' = [ledger EXCEPT ![semid] = @ - cnt]
           /\ UNCHANGED taskVars
  <2>1. UNCHANGED <<tskstat, tskwait, winfo, wait_queue>>
    BY <1>2 DEF taskVars, tcbVars, queueVars
  <2>2. semcnt[semid] >= cnt /\ semcnt[semid] \in Nat /\ maxsem[semid] \in Nat
    BY <1>2, SemaphoreAssumption DEF MayTake, WaitInv, SemTypes
  <2>3. semcnt[semid] - cnt \in Nat /\ semcnt[semid] - cnt <= maxsem[semid]
    BY <1>0, <1>2, <2>2 DEF WaitInv, SemTypes
  <2>4. semcnt' \in [SEMID -> Nat] /\ ledger' \in [SEMID -> Int]
    <3>1. semcnt' \in [SEMID -> Nat]
      BY <1>2, <2>3 DEF WaitInv, SemTypes
    <3>2. ledger[semid] - cnt \in Int
      BY <1>0 DEF WaitInv, SemTypes
    <3>3. ledger' \in [SEMID -> Int]
      BY <1>2, <3>2 DEF WaitInv, SemTypes
    <3> QED
      BY <3>1, <3>3
  <2>5. \A s \in SEMID : semcnt'[s] <= maxsem'[s]
    BY <1>0, <1>2, <2>3 DEF WaitInv, SemTypes
  <2>6. SemTypes'
    BY <1>0, <2>4, <2>5 DEF WaitInv, SemTypes
  <2> QED
    BY <1>0, <2>1, <2>6, TypesStay, ObjectWaits
<1>3. ASSUME cnt > 0, tkmc_can_block, semexs[semid], NEW ticks, NEW elapsed,
             BeginWait("SEM", ticks, elapsed),
             JoinQueue(Sem(semid), cnt, sematr[semid].tpri),
             UNCHANGED <<semcnt, ledger>>
      PROVE  WaitInv'
  <2>1. Sem(semid) \in Obj /\ Kind(Sem(semid)) = "SEM" /\ cnt \in Nat
    BY <1>0, <1>3, Objects
  <2>2. /\ WaitTypes' /\ WaitersQueued'
        /\ \A p \in Obj : p # Sem(semid) => wait_queue'[p] = wait_queue[p]
    BY <1>0, <1>3, <2>1, JoinedWaits
  <2>3. SemTypes'
    BY <1>0, <1>3 DEF WaitInv, SemTypes
  <2>4. FlgTypes' /\ MbxTypes' /\ UNCHANGED <<flgexs, free_flgcb, mbxexs, free_mbxcb>>
    BY TypesStay
  <2>5. SemcbsLinked' /\ FlgcbsLinked' /\ MbxcbsLinked'
    <3>1. /\ \A s \in SEMID : Sem(semid) = Sem(s) => semexs[s]
          /\ \A f \in FLGID : Sem(semid) # Flg(f)
          /\ \A m \in MBXID : Sem(semid) # Mbx(m)
      BY <1>3, Objects
    <3> QED
      BY <1>0, <2>1, <2>2, <2>4, <3>1, JoinedCbs
  <2> QED
    BY <2>2, <2>3, <2>4, <2>5 DEF WaitInv, WaitQueuesConsistent
<1>4. cnt <= 0 \/ cnt > 0
  BY <1>0
<1> QED
  BY <1>1, <1>2, <1>3, <1>4 DEF tk_wai_sem, tkmc_schedule_timer

\* tk_sig_sem() adds its units only if they fit, and hands out no more than there
\* are.
LEMMA SigSemWaits ==
  ASSUME WaitInv, NEW semid \in SEMID, NEW cnt \in SemCnt, tk_sig_sem(semid, cnt),
         UNCHANGED flgVars, UNCHANGED mbxVars
  PROVE  WaitInv'
<1> DEFINE q == wait_queue[Sem(semid)]
           u == semcnt[semid] + cnt
           v == Serve(semid, q, u)
<1>0. cnt \in Int /\ UNCHANGED <<semexs, sematr, maxsem, free_semcb, orphan>>
  BY SemaphoreAssumption DEF tk_sig_sem, semcbVars
<1>1. CASE cnt <= 0 \/ ~semexs[semid] \/ ~SigRoom(semid, cnt)
  BY <1>0, <1>1, StillWaits DEF tk_sig_sem, taskVars, tcbVars, queueVars, semVars, objVars
<1>2. CASE ~(cnt <= 0 \/ ~semexs[semid] \/ ~SigRoom(semid, cnt))
  <2>1. /\ CompleteWaits(v.served, AllCause("E_OK"), 0)
        /\ semcnt' = [semcnt EXCEPT ![semid] = v.units]
        /\ ledger' = [ledger EXCEPT ![semid] = @ + cnt]
        /\ UNCHANGED winfo
    BY <1>2 DEF tk_sig_sem
  <2>2. semcnt[semid] \in Nat /\ maxsem[semid] \in Nat
    BY SemaphoreAssumption DEF WaitInv, SemTypes
  <2>3. u \in Nat /\ u <= maxsem[semid]
    BY <1>0, <1>2, <2>2 DEF SigRoom
  <2>4. q \in Seq(TSKID) /\ Uniq(q) /\ \A t \in TSKID : winfo[t].req \in Nat
    BY Objects, ObjWaiters DEF WaitInv, WaitTypes
  <2> HIDE DEF q, u
  <2>5. v.units \in 0..u
    BY <2>3, <2>4, ServeProperties
  <2> HIDE DEF v
  <2>6. v.units \in Nat /\ v.units <= maxsem[semid]
    BY <2>2, <2>3, <2>5
  <2>7. semcnt' \in [SEMID -> Nat] /\ ledger' \in [SEMID -> Int]
    BY <1>0, <2>1, <2>6 DEF WaitInv, SemTypes
  <2>8. \A s \in SEMID : semcnt'[s] <= maxsem'[s]
    BY <1>0, <2>1, <2>6 DEF WaitInv, SemTypes
  <2>9. SemTypes'
    BY <1>0, <2>7, <2>8 DEF WaitInv, SemTypes
  <2> QED
    BY <1>0, <2>1, <2>9, TypesStay, CompletedInv
<1> QED
  BY <1>1, <1>2

\* The return from tk_wai_sem() touches no semaphore.
LEMMA SemReturnWaits ==
  ASSUME WaitInv, SemReturn, UNCHANGED flgVars, UNCHANGED mbxVars
  PROVE  WaitInv'
<1>1. UNCHANGED <<tskstat, tskwait, winfo, wait_queue, semexs, sematr, semcnt, maxsem, free_semcb>>
  BY DEF SemReturn, WaitReturn, queueVars, semcbVars
<1>2. ledger' \in [SEMID -> Int] /\ orphan' \subseteq TSKID
  <2> DEFINE s == winfo[current].obj[2]
  <2>1. CASE current \in InFlight(s) \ orphan
    <3>1. ledger' = [ledger EXCEPT ![s] = @ - winfo[current].req]
      BY <2>1 DEF SemReturn
    <3>2. winfo[current].req \in Nat
      BY <2>1 DEF InFlight, WaitInv, WaitTypes
    <3>3. ledger \in [SEMID -> Int] /\ orphan' \subseteq TSKID
      BY DEF WaitInv, SemTypes, SemReturn
    <3>4. CASE s \in SEMID
      <4> HIDE DEF s
      <4> QED
        BY <3>1, <3>2, <3>3, <3>4
    <3>5. CASE s \notin SEMID
      <4> HIDE DEF s
      <4>1. ledger' = ledger
        BY <3>1, <3>3, <3>5
      <4> QED
        BY <3>3, <4>1
    <3> QED
      BY <3>4, <3>5
  <2>2. CASE current \notin InFlight(s) \ orphan
    BY <2>2 DEF SemReturn, WaitInv, SemTypes
  <2> QED
    BY <2>1, <2>2
<1>3. SemTypes'
  BY <1>1, <1>2 DEF WaitInv, SemTypes
<1> QED
  BY <1>1, <1>3, TypesStay, ObjectWaits

-----------------------------------------------------------------------------
(* The event flag calls. *)

\* tk_cre_flg() takes an event flag with no waiters from the free list.
LEMMA CreFlgWaits ==
  ASSUME WaitInv, NEW atr \in FlgAtr, NEW iflgptn \in FlgPtn, tk_cre_flg(atr, iflgptn),
         UNCHANGED semVars, UNCHANGED mbxVars
  PROVE  WaitInv'
<1>0. UNCHANGED <<tskstat, tskwait, winfo, wait_queue, flgwait>>
  BY DEF tk_cre_flg, taskVars, tcbVars, queueVars
<1>1. CASE free_flgcb = << >>
  BY <1>0, <1>1, StillWaits DEF tk_cre_flg, flgVars, objVars
<1>2. CASE free_flgcb # << >>
  <2> DEFINE f == Head(free_flgcb)
  <2>1. /\ free_flgcb' = Tail(free_flgcb)
        /\ flgexs' = [flgexs EXCEPT ![f] = TRUE]
        /\ flgatr' = [flgatr EXCEPT ![f] = atr]
        /\ flgptn' = [flgptn EXCEPT ![f] = iflgptn]
    BY <1>2 DEF tk_cre_flg
  <2>2. /\ f \in FLGID /\ free_flgcb' \in Seq(FLGID) /\ Uniq(free_flgcb')
        /\ flgexs' \in [FLGID -> BOOLEAN]
        /\ \A i \in FLGID : (i \in Elems(free_flgcb') <=> ~flgexs'[i])
                            /\ (~flgexs'[i] => ~flgexs[i])
    <3>1. /\ flgexs \in [FLGID -> BOOLEAN] /\ free_flgcb \in Seq(FLGID) /\ Uniq(free_flgcb)
          /\ \A i \in FLGID : i \in Elems(free_flgcb) <=> ~flgexs[i]
      BY DEF WaitInv, FlgTypes, WaitQueuesConsistent, FlgcbsLinked
    <3> QED
      BY <1>2, <2>1, <3>1, CbTaken
  <2> HIDE DEF f
  <2>3. FlgTypes'
    BY <1>0, <2>1, <2>2, EventFlagAssumption DEF WaitInv, FlgTypes
  <2>4. FlgcbsLinked'
    BY <1>0, <2>2 DEF WaitInv, WaitQueuesConsistent, FlgcbsLinked
  <2>5. WaitTypes' /\ WaitersQueued'
    BY <1>0 DEF WaitInv, WaitTypes, WaitQueuesConsistent, WaitersQueued, Queued
  <2>6. SemTypes' /\ MbxTypes' /\ SemcbsLinked' /\ MbxcbsLinked'
    BY <1>0, TypesStay, SemcbsStay, MbxcbsStay
  <2> QED
    BY <2>3, <2>4, <2>5, <2>6 DEF WaitInv, WaitQueuesConsistent
<1> QED
  BY <1>1, <1>2

\* tk_wai_flg() clears bits, or puts the task on the wait queue of a flag that
\* exists.
LEMMA WaiFlgWaits ==
  ASSUME KernelInv, WaitInv, NEW flgid \in FLGID, NEW waiptn \in FlgPtn,
         NEW wfmode \in WfMode, NEW tmout \in FlgTmo,
         tk_wai_flg(flgid, waiptn, wfmode, tmout), UNCHANGED semVars, UNCHANGED mbxVars
  PROVE  WaitInv'
<1>0. UNCHANGED <<flgexs, flgatr, free_flgcb>> /\ Caller
  BY DEF tk_wai_flg
<1>1. CASE UNCHANGED <<taskVars, flgptn, flgwait>>
  BY <1>0, <1>1, StillWaits DEF taskVars, tcbVars, queueVars, flgVars, objVars
<1>2. CASE /\ flgptn' = [flgptn EXCEPT ![flgid] = ClearedBy(@, waiptn, wfmode)]
           /\ UNCHANGED <<taskVars, flgwait>>
  <2>1. UNCHANGED <<tskstat, tskwait, winfo, wait_queue>>
    BY <1>2 DEF taskVars, tcbVars, queueVars
  <2>2. ClearedBy(flgptn[flgid], waiptn, wfmode) \in SUBSET Bit
    BY DEF ClearedBy, WaitInv, FlgTypes
  <2>3. FlgTypes'
    BY <1>0, <1>2, <2>2 DEF WaitInv, FlgTypes
  <2> QED
    BY <1>0, <2>1, <2>3, TypesStay, ObjectWaits
<1>3. ASSUME tkmc_can_block, flgexs[flgid], NEW ticks, NEW elapsed,
             BeginWait("FLG", ticks, elapsed), JoinQueue(Flg(flgid), 0, flgatr[flgid].tpri),
             flgwait' = [flgwait EXCEPT ![current] =
                           [waiptn |-> waiptn, wfmode |-> wfmode, flgptn |-> {}]],
             UNCHANGED flgptn
      PROVE  WaitInv'
  <2>1. Flg(flgid) \in Obj /\ Kind(Flg(flgid)) = "FLG" /\ current \in TSKID
    BY <1>0, <1>3, Objects, BlockingCaller
  <2>2. /\ WaitTypes' /\ WaitersQueued'
        /\ \A p \in Obj : p # Flg(flgid) => wait_queue'[p] = wait_queue[p]
    BY <1>0, <1>3, <2>1, JoinedWaits
  <2>3. FlgTypes'
    <3>1. [waiptn |-> waiptn, wfmode |-> wfmode, flgptn |-> {}]
            \in [waiptn : SUBSET Bit, flgptn : SUBSET Bit, wfmode : Mode]
      BY EventFlagAssumption
    <3> QED
      BY <1>0, <1>3, <2>1, <3>1 DEF WaitInv, FlgTypes
  <2>4. SemTypes' /\ MbxTypes' /\ UNCHANGED <<semexs, free_semcb, mbxexs, free_mbxcb>>
    BY TypesStay
  <2>5. SemcbsLinked' /\ FlgcbsLinked' /\ MbxcbsLinked'
    <3>1. /\ \A s \in SEMID : Flg(flgid) # Sem(s)
          /\ \A f \in FLGID : Flg(flgid) = Flg(f) => flgexs[f]
          /\ \A m \in MBXID : Flg(flgid) # Mbx(m)
      BY <1>3, Objects
    <3> QED
      BY <1>0, <2>1, <2>2, <2>4, <3>1, JoinedCbs
  <2> QED
    BY <2>2, <2>3, <2>4, <2>5 DEF WaitInv, WaitQueuesConsistent
<1> QED
  BY <1>1, <1>2, <1>3 DEF tk_wai_flg, tkmc_schedule_timer

\* tk_set_flg() takes the waiters that it serves off the queue, and no other.
LEMMA SetFlgWaits ==
  ASSUME WaitInv, NEW flgid \in FLGID, NEW setptn \in FlgPtn, tk_set_flg(flgid, setptn),
         UNCHANGED semVars, UNCHANGED mbxVars
  PROVE  WaitInv'
<1>0. UNCHANGED <<flgexs, flgatr, free_flgcb>>
  BY DEF tk_set_flg
<1>1. CASE ~flgexs[flgid]
  BY <1>0, <1>1, StillWaits DEF tk_set_flg, taskVars, tcbVars, queueVars, flgVars, objVars
<1>2. CASE flgexs[flgid]
  <2> DEFINE v == SetWalk(wait_queue[Flg(flgid)], flgptn[flgid] \cup setptn)
  <2>1. /\ flgptn' = [flgptn EXCEPT ![flgid] = v.ptn]
        /\ flgwait' = [t \in TSKID |-> IF t \in Elems(v.served)
                         THEN [flgwait[t] EXCEPT !.flgptn = v.got[t]] ELSE flgwait[t]]
        /\ CompleteWaits(v.served, AllCause("E_OK"), 0)
        /\ UNCHANGED winfo
    BY <1>2 DEF tk_set_flg
  <2>2. v.ptn \in SUBSET Bit /\ v.got \in [TSKID -> SUBSET Bit]
    BY SetFlgServes
  <2> HIDE DEF v
  <2>3. flgwait' \in [TSKID -> [waiptn : SUBSET Bit, flgptn : SUBSET Bit, wfmode : Mode]]
    BY <2>1, <2>2 DEF WaitInv, FlgTypes
  <2>4. FlgTypes'
    BY <1>0, <2>1, <2>2, <2>3 DEF WaitInv, FlgTypes
  <2> QED
    BY <1>0, <2>1, <2>4, TypesStay, CompletedInv
<1> QED
  BY <1>1, <1>2

\* tk_clr_flg() and the return from tk_wai_flg() end no wait.
LEMMA ClrFlgWaits ==
  ASSUME KernelInv, WaitInv, UNCHANGED semVars, UNCHANGED mbxVars,
         \/ \E flgid \in FLGID, clrptn \in FlgPtn : tk_clr_flg(flgid, clrptn)
         \/ FlgReturn
  PROVE  WaitInv'
<1>1. /\ UNCHANGED <<tskstat, tskwait, winfo, wait_queue>>
      /\ UNCHANGED <<flgexs, flgatr, free_flgcb>>
  BY DEF tk_clr_flg, FlgReturn, WaitReturn, taskVars, tcbVars, queueVars
<1>2. ASSUME NEW flgid \in FLGID, NEW clrptn \in FlgPtn, tk_clr_flg(flgid, clrptn)
      PROVE  FlgTypes'
  <2>1. flgptn[flgid] \cap clrptn \in SUBSET Bit
    BY DEF WaitInv, FlgTypes
  <2> QED
    BY <1>1, <1>2, <2>1 DEF tk_clr_flg, WaitInv, FlgTypes
<1>3. ASSUME FlgReturn PROVE FlgTypes'
  <2>1. NoFlgWait \in [waiptn : SUBSET Bit, flgptn : SUBSET Bit, wfmode : Mode]
    BY DEF NoFlgWait, Mode
  <2> QED
    BY <1>1, <1>3, <2>1 DEF FlgReturn, WaitInv, FlgTypes
<1> QED
  BY <1>1, <1>2, <1>3, TypesStay, ObjectWaits

-----------------------------------------------------------------------------
(* The mailbox calls. *)

\* tk_cre_mbx() takes a mailbox with no waiters from the free list.
LEMMA CreMbxWaits ==
  ASSUME WaitInv, NEW atr \in MbxAtr, tk_cre_mbx(atr), UNCHANGED semVars, UNCHANGED flgVars
  PROVE  WaitInv'
<1>0. UNCHANGED <<tskstat, tskwait, winfo, wait_queue, mbxmsg, owned>>
  BY DEF tk_cre_mbx, taskVars, tcbVars, queueVars
<1>1. CASE free_mbxcb = << >>
  BY <1>0, <1>1, StillWaits DEF tk_cre_mbx, mbxVars, objVars
<1>2. CASE free_mbxcb # << >>
  <2> DEFINE m == Head(free_mbxcb)
  <2>1. /\ free_mbxcb' = Tail(free_mbxcb)
        /\ mbxexs' = [mbxexs EXCEPT ![m] = TRUE]
        /\ mbxatr' = [mbxatr EXCEPT ![m] = atr]
        /\ mbx_queue' = [mbx_queue EXCEPT ![m] = << >>]
    BY <1>2 DEF tk_cre_mbx
  <2>2. /\ m \in MBXID /\ free_mbxcb' \in Seq(MBXID) /\ Uniq(free_mbxcb')
        /\ mbxexs' \in [MBXID -> BOOLEAN]
        /\ \A i \in MBXID : (i \in Elems(free_mbxcb') <=> ~mbxexs'[i])
                            /\ (~mbxexs'[i] => ~mbxexs[i])
    <3>1. /\ mbxexs \in [MBXID -> BOOLEAN] /\ free_mbxcb \in Seq(MBXID) /\ Uniq(free_mbxcb)
          /\ \A i \in MBXID : i \in Elems(free_mbxcb) <=> ~mbxexs[i]
      BY DEF WaitInv, MbxTypes, WaitQueuesConsistent, MbxcbsLinked
    <3> QED
      BY <1>2, <2>1, <3>1, CbTaken
  <2> HIDE DEF m
  <2>3. MbxTypes'
    BY <1>0, <2>1, <2>2, MailboxAssumption DEF WaitInv, MbxTypes
  <2>4. MbxcbsLinked'
    BY <1>0, <2>2 DEF WaitInv, WaitQueuesConsistent, MbxcbsLinked
  <2>5. WaitTypes' /\ WaitersQueued'
    BY <1>0 DEF WaitInv, WaitTypes, WaitQueuesConsistent, WaitersQueued, Queued
  <2>6. SemTypes' /\ FlgTypes' /\ SemcbsLinked' /\ FlgcbsLinked'
    BY <1>0, TypesStay, SemcbsStay, FlgcbsStay
  <2> QED
    BY <2>3, <2>4, <2>5, <2>6 DEF WaitInv, WaitQueuesConsistent
<1> QED
  BY <1>1, <1>2

\* tk_del_mbx() leaves no receiver on the queue of the mailbox that it frees.
LEMMA DelMbxWaits ==
  ASSUME WaitInv, NEW mbxid \in MBXID, tk_del_mbx(mbxid), UNCHANGED semVars, UNCHANGED flgVars
  PROVE  WaitInv'
<1>1. CASE ~mbxexs[mbxid]
  BY <1>1, StillWaits DEF tk_del_mbx, taskVars, tcbVars, queueVars, objVars
<1>2. CASE mbxexs[mbxid]
  <2>1. /\ CompleteWaits(wait_queue[Mbx(mbxid)], AllCause("E_DLT"), 0)
        /\ mbxmsg' = [t \in TSKID |-> IF t \in Elems(wait_queue[Mbx(mbxid)])
                                      THEN NULL ELSE mbxmsg[t]]
        /\ mbxexs' = [mbxexs EXCEPT ![mbxid] = FALSE]
        /\ mbxatr' = [mbxatr EXCEPT ![mbxid] = NoMAtr]
        /\ mbx_queue' = [mbx_queue EXCEPT ![mbxid] = << >>]
        /\ free_mbxcb' = Append(free_mbxcb, mbxid)
        /\ owned' = owned \cup Elems(mbx_queue[mbxid])
        /\ UNCHANGED winfo
    BY <1>2 DEF tk_del_mbx
  <2>2. /\ WaitTypes' /\ WaitersQueued'
        /\ \A o \in Obj : /\ Elems(wait_queue'[o]) = Elems(wait_queue[o]) \ Elems(wait_queue[Mbx(mbxid)])
                          /\ wait_queue'[o] \in Seq(TSKID)
                          /\ wait_queue[o] = << >> => wait_queue'[o] = << >>
    BY <2>1, CompletedWaits
  <2>3. /\ free_mbxcb' \in Seq(MBXID) /\ Uniq(free_mbxcb')
        /\ mbxexs' \in [MBXID -> BOOLEAN]
        /\ \A i \in MBXID : (i \in Elems(free_mbxcb') <=> ~mbxexs'[i])
                            /\ (~mbxexs'[i] => i = mbxid \/ ~mbxexs[i])
    <3>1. /\ mbxexs \in [MBXID -> BOOLEAN] /\ free_mbxcb \in Seq(MBXID) /\ Uniq(free_mbxcb)
          /\ \A i \in MBXID : i \in Elems(free_mbxcb) <=> ~mbxexs[i]
      BY DEF WaitInv, MbxTypes, WaitQueuesConsistent, MbxcbsLinked
    <3> QED
      BY <1>2, <2>1, <3>1, CbFreed
  <2>4. MbxTypes'
    <3>1. Elems(mbx_queue[mbxid]) \subseteq Msg /\ NoMAtr \in MAtr
      BY SmallQueues DEF WaitInv, MbxTypes, NoMAtr, MAtr
    <3>2. mbx_queue' \in [MBXID -> Seq(Msg)] /\ mbxatr' \in [MBXID -> MAtr]
      BY <2>1, <3>1 DEF WaitInv, MbxTypes
    <3>3. mbxmsg' \in [TSKID -> Msg \cup {NULL}] /\ owned' \subseteq Msg \cup {NULL}
      BY <2>1, <3>1 DEF WaitInv, MbxTypes
    <3> QED
      BY <2>3, <3>2, <3>3 DEF MbxTypes
  <2>5. MbxcbsLinked'
    <3>1. wait_queue'[Mbx(mbxid)] = << >>
      <4>1. Mbx(mbxid) \in Obj
        BY Objects
      <4>2. wait_queue'[Mbx(mbxid)] \in Seq(TSKID) /\ Elems(wait_queue'[Mbx(mbxid)]) = {}
        BY <2>2, <4>1
      <4> QED
        BY <4>2, SmallQueues
    <3>2. ASSUME NEW i \in MBXID, ~mbxexs[i] PROVE wait_queue'[Mbx(i)] = << >>
      <4>1. wait_queue[Mbx(i)] = << >> /\ Mbx(i) \in Obj
        BY <3>2, Objects DEF WaitInv, WaitQueuesConsistent, MbxcbsLinked
      <4> QED
        BY <2>2, <4>1
    <3> QED
      BY <2>3, <3>1, <3>2 DEF MbxcbsLinked
  <2>6. SemTypes' /\ FlgTypes' /\ SemcbsLinked' /\ FlgcbsLinked'
    BY <2>2, Objects, TypesStay, SemcbsStay, FlgcbsStay
  <2> QED
    BY <2>2, <2>4, <2>5, <2>6 DEF WaitInv, WaitQueuesConsistent
<1> QED
  BY <1>1, <1>2

\* tk_snd_mbx() takes the first receiver off the queue, or queues its message.
LEMMA SndMbxWaits ==
  ASSUME WaitInv, NEW mbxid \in MBXID, NEW msg \in Msg, tk_snd_mbx(mbxid, msg),
         UNCHANGED semVars, UNCHANGED flgVars
  PROVE  WaitInv'
<1> DEFINE t == pop_waiting_receiver(mbxid)
<1>0. UNCHANGED <<mbxexs, mbxatr, free_mbxcb>>
  BY DEF tk_snd_mbx
<1>1. CASE UNCHANGED <<taskVars, mbx_queue, mbxmsg, owned>>
  BY <1>0, <1>1, StillWaits DEF taskVars, tcbVars, queueVars, mbxVars, objVars
<1>2. CASE /\ t # NULL
           /\ owned' = owned \ {msg}
           /\ mbxmsg' = [mbxmsg EXCEPT ![t] = msg]
           /\ CompleteWaits(<<t>>, AllCause("E_OK"), 0)
           /\ UNCHANGED <<winfo, mbx_queue>>
  <2>1. t \in TSKID
    BY <1>2, PoppedWaits
  <2> HIDE DEF t
  <2>2. MbxTypes'
    BY <1>0, <1>2, <2>1 DEF WaitInv, MbxTypes
  <2> QED
    BY <1>0, <1>2, <2>2, TypesStay, CompletedInv
<1>3. CASE /\ owned' = owned \ {msg}
           /\ mbx_queue' = [mbx_queue EXCEPT ![mbxid] = IF mbxatr[mbxid].mpri
                                                        THEN insert_msg_pri(@, msg)
                                                        ELSE Append(@, msg)]
           /\ UNCHANGED <<taskVars, mbxmsg>>
  <2>1. UNCHANGED <<tskstat, tskwait, winfo, wait_queue>>
    BY <1>3 DEF taskVars, tcbVars, queueVars
  <2>2. mbx_queue[mbxid] \in Seq(Msg)
    BY DEF WaitInv, MbxTypes
  <2>3. insert_msg_pri(mbx_queue[mbxid], msg) \in Seq(Msg) /\ Append(mbx_queue[mbxid], msg) \in Seq(Msg)
    BY <2>2, InsertedMsg
  <2>4. mbx_queue' \in [MBXID -> Seq(Msg)]
    BY <1>3, <2>3 DEF WaitInv, MbxTypes
  <2>5. MbxTypes'
    BY <1>0, <1>3, <2>4 DEF WaitInv, MbxTypes
  <2> QED
    BY <1>0, <2>1, <2>5, TypesStay, ObjectWaits
<1> QED
  BY <1>1, <1>2, <1>3 DEF tk_snd_mbx

\* tk_rcv_mbx() takes a message that is there, or puts the task on the wait queue
\* of a mailbox that exists.
LEMMA RcvMbxWaits ==
  ASSUME KernelInv, WaitInv, NEW mbxid \in MBXID, NEW tmout \in MbxTmo,
         tk_rcv_mbx(mbxid, tmout), UNCHANGED semVars, UNCHANGED flgVars
  PROVE  WaitInv'
<1>0. UNCHANGED <<mbxexs, mbxatr, free_mbxcb>> /\ Caller
  BY DEF tk_rcv_mbx
<1>1. CASE UNCHANGED <<taskVars, mbx_queue, mbxmsg, owned>>
  BY <1>0, <1>1, StillWaits DEF taskVars, tcbVars, queueVars, mbxVars, objVars
<1>2. CASE /\ mbx_queue[mbxid] # << >>
           /\ mbx_queue' = [mbx_queue EXCEPT ![mbxid] = Tail(@)]
           /\ owned' = owned \cup {Head(mbx_queue[mbxid])}
           /\ UNCHANGED <<taskVars, mbxmsg>>
  <2>1. UNCHANGED <<tskstat, tskwait, winfo, wait_queue>>
    BY <1>2 DEF taskVars, tcbVars, queueVars
  <2>2. mbx_queue[mbxid] \in Seq(Msg)
    BY DEF WaitInv, MbxTypes
  <2>3. Tail(mbx_queue[mbxid]) \in Seq(Msg) /\ Head(mbx_queue[mbxid]) \in Msg
    BY <1>2, <2>2
  <2>4. mbx_queue' \in [MBXID -> Seq(Msg)]
    BY <1>2, <2>3 DEF WaitInv, MbxTypes
  <2>5. MbxTypes'
    BY <1>0, <1>2, <2>3, <2>4 DEF WaitInv, MbxTypes
  <2> QED
    BY <1>0, <2>1, <2>5, TypesStay, ObjectWaits
<1>3. ASSUME tkmc_can_block, mbxexs[mbxid], NEW ticks, NEW elapsed,
             BeginWait("MBX", ticks, elapsed), JoinQueue(Mbx(mbxid), 0, mbxatr[mbxid].tpri),
             mbxmsg' = [mbxmsg EXCEPT ![current] = NULL],
             UNCHANGED <<mbx_queue, owned>>
      PROVE  WaitInv'
  <2>1. Mbx(mbxid) \in Obj /\ Kind(Mbx(mbxid)) = "MBX" /\ current \in TSKID
    BY <1>0, <1>3, Objects, BlockingCaller
  <2>2. /\ WaitTypes' /\ WaitersQueued'
        /\ \A p \in Obj : p # Mbx(mbxid) => wait_queue'[p] = wait_queue[p]
    BY <1>0, <1>3, <2>1, JoinedWaits
  <2>3. MbxTypes'
    BY <1>0, <1>3, <2>1 DEF WaitInv, MbxTypes
  <2>4. SemTypes' /\ FlgTypes' /\ UNCHANGED <<semexs, free_semcb, flgexs, free_flgcb>>
    BY TypesStay
  <2>5. SemcbsLinked' /\ FlgcbsLinked' /\ MbxcbsLinked'
    <3>1. /\ \A s \in SEMID : Mbx(mbxid) # Sem(s)
          /\ \A f \in FLGID : Mbx(mbxid) # Flg(f)
          /\ \A m \in MBXID : Mbx(mbxid) = Mbx(m) => mbxexs[m]
      BY <1>3, Objects
    <3> QED
      BY <1>0, <2>1, <2>2, <2>4, <3>1, JoinedCbs
  <2> QED
    BY <2>2, <2>3, <2>4, <2>5 DEF WaitInv, WaitQueuesConsistent
<1> QED
  BY <1>1, <1>2, <1>3 DEF tk_rcv_mbx, tkmc_schedule_timer

\* The return from tk_rcv_mbx() unlinks a task that is on no wait queue.
LEMMA MbxReturnWaits ==
  ASSUME KernelInv, WaitInv, MbxReturn, UNCHANGED semVars, UNCHANGED flgVars
  PROVE  WaitInv'
<1>1. current \in TSKID /\ tskstat[current] = "RUN"
  BY RunningTask DEF MbxReturn
<1>2. /\ wait_queue' = [o \in Obj |-> Without(wait_queue[o], {current})]
      /\ tskwait' = [tskwait EXCEPT ![current] = "none"]
      /\ mbxmsg' = [mbxmsg EXCEPT ![current] = NULL]
      /\ owned' = owned \/ owned' = owned \cup {mbxmsg[current]}
      /\ UNCHANGED <<tskstat, winfo, mbxexs, mbxatr, mbx_queue, free_mbxcb>>
  BY DEF MbxReturn, Unqueued
<1>3. ASSUME NEW o \in Obj
      PROVE  /\ wait_queue'[o] \in Seq(TSKID) /\ Uniq(wait_queue'[o])
             /\ Elems(wait_queue'[o]) = Elems(wait_queue[o])
             /\ wait_queue[o] = << >> => wait_queue'[o] = << >>
  <2>1. /\ wait_queue[o] \in Seq(TSKID) /\ Uniq(wait_queue[o])
        /\ current \notin Elems(wait_queue[o])
    BY <1>1, ObjWaiters
  <2> DEFINE q == wait_queue[o]
             S == {current}
  <2>2. wait_queue'[o] = Without(q, S)
    BY <1>2
  <2>3. /\ wait_queue'[o] \in Seq(TSKID) /\ Uniq(wait_queue'[o])
        /\ Elems(wait_queue'[o]) = Elems(q) \ S
    <3> HIDE DEF q, S
    <3> QED
      BY <2>1, <2>2, WithoutProperties DEF q
  <2> QED
    BY <2>1, <2>3, SmallQueues
<1>4. WaitTypes'
  BY <1>2, <1>3 DEF WaitInv, WaitTypes
<1>5. \A t \in TSKID : tskstat[t] = "WAI" => tskwait'[t] = tskwait[t]
  BY <1>1, <1>2 DEF KernelInv, TaskTypes, TcbTypes
<1>6. WaitersQueued'
  BY <1>2, <1>3, <1>5 DEF WaitInv, WaitQueuesConsistent, WaitersQueued, Queued
<1>7. MbxTypes'
  BY <1>1, <1>2 DEF WaitInv, MbxTypes
<1> QED
  BY <1>2, <1>3, <1>4, <1>6, <1>7, TypesStay, ObjectsStay

-----------------------------------------------------------------------------
(* Traps, and the tasks' own steps. *)

\* A task switch begins and ends no wait: next is ready.
LEMMA ScheduleWaits ==
  ASSUME KernelInv, WaitInv, msip, schedule, UNCHANGED <<tskwait, winfo, wait_queue>>,
         UNCHANGED objVars
  PROVE  WaitInv'
<1>1. next \in TSKID /\ current \in TSKID /\ tskstat[next] \in {"RDY", "RUN"}
  BY IdleIsReady DEF KernelInv, DispatchRight, TaskTypes, CpuTypes
<1>2. \A t \in TSKID : tskstat'[t] = "WAI" <=> tskstat[t] = "WAI"
  BY <1>1 DEF schedule, KernelInv, TaskTypes, TcbTypes
<1>3. WaitTypes'
  BY DEF WaitInv, WaitTypes
<1> QED
  BY <1>2, <1>3, QuietWaits

\* The traps.
LEMMA TrapWaits ==
  ASSUME KernelInv, WaitInv, Trap
  PROVE  WaitInv'
<1>1. CASE mtrap_handler
  BY <1>1, ScheduleWaits DEF mtrap_handler, queueVars
<1>2. CASE timer_interrupt
  <2> DEFINE b == TimedOut(edges)
  <2>1. b \in Ends
    BY EdgesNat, TimedOutProperties DEF KernelInv
  <2>2. EndWaits(b, "E_TMOUT", edges) /\ UNCHANGED <<winfo, semcbVars, ledger, orphan>>
    BY <1>2 DEF timer_interrupt
  <2>3. UNCHANGED flgVars /\ UNCHANGED mbxVars
    BY <1>2 DEF timer_interrupt
  <2> HIDE DEF b
  <2> QED
    BY <2>1, <2>2, <2>3, EndWaitsInv
<1>3. CASE external_interrupt
  BY <1>3, StillWaits DEF external_interrupt, tcbVars, queueVars
<1>4. CASE TrapExit
  <2>1. CASE msip
    BY <1>4, <2>1, ScheduleWaits DEF TrapExit, queueVars
  <2>2. CASE ~msip
    BY <1>4, <2>2, StillWaits DEF TrapExit, queueVars
  <2> QED
    BY <2>1, <2>2
<1> QED
  BY <1>1, <1>2, <1>3, <1>4 DEF Trap

\* The rest: no task state changes.
LEMMA OtherWaits ==
  ASSUME WaitInv, Idle \/ TaskDI \/ TaskEI \/ ExitReturns \/ ClockTick \/ UNCHANGED vars
  PROVE  WaitInv'
<1>1. UNCHANGED <<tskstat, tskwait, winfo, wait_queue>> /\ UNCHANGED objVars
  BY DEF Idle, IdleCheck, IdleWfi, IdleEI, IdleYield, tkmc_yield, TaskDI, TaskEI, SetMie,
         ExitReturns, ClockTick, TickEdge, vars, taskVars, tcbVars, queueVars
<1> QED
  BY <1>1, StillWaits

-----------------------------------------------------------------------------
(* The kernel. *)

\* The free list that the kernel starts with.
LEMMA AllFree ==
  ASSUME NEW N \in Nat
  PROVE  LET free == [i \in 1..N |-> i]
         IN free \in Seq(1..N) /\ Uniq(free) /\ Elems(free) = 1..N
<1> DEFINE free == [i \in 1..N |-> i]
<1>1. free \in Seq(1..N) /\ Len(free) = N /\ \A i \in 1..N : free[i] = i
  OBVIOUS
<1> HIDE DEF free
<1>2. Uniq(free) /\ Elems(free) = 1..N
  BY <1>1 DEF Uniq, Elems
<1> QED
  BY <1>1, <1>2 DEF free

\* No task waits when the kernel starts, and every control block is free.
LEMMA InitWaits == Init => WaitInv
<1> SUFFICES ASSUME Init PROVE WaitInv
  OBVIOUS
<1>1. /\ winfo = [t \in TSKID |-> NoWait]
      /\ wait_queue = [o \in Obj |-> << >>]
      /\ \A t \in TSKID : tskstat[t] # "WAI"
      /\ tkmc_init_semcb /\ tkmc_init_flgcb /\ tkmc_init_mbxcb
  BY DEF Init
<1>2. WaitTypes
  <2>1. NoWait \in [obj : Obj \cup {NoWait.obj}, req : Nat]
    BY DEF NoWait
  <2> QED
    BY <1>1, <2>1 DEF WaitTypes
<1>3. WaitersQueued
  <2>1. Elems(<< >>) = {} /\ Uniq(<< >>)
    BY SmallQueues
  <2> QED
    BY <1>1, <2>1 DEF WaitersQueued, Queued
<1>4. SemTypes /\ SemcbsLinked
  <2>1. free_semcb \in Seq(SEMID) /\ Uniq(free_semcb) /\ Elems(free_semcb) = SEMID
    BY <1>1, TaskAssumption, AllFree DEF tkmc_init_semcb, SEMID
  <2>2. 0 \in 0..TK_SEMAPHORE_MAXCNT /\ NoAtr \in Atr
    BY SemaphoreAssumption DEF NoAtr, Atr
  <2> QED
    BY <1>1, <2>1, <2>2, Objects DEF tkmc_init_semcb, SemTypes, SemcbsLinked
<1>5. FlgTypes /\ FlgcbsLinked
  <2>1. free_flgcb \in Seq(FLGID) /\ Uniq(free_flgcb) /\ Elems(free_flgcb) = FLGID
    BY <1>1, TaskAssumption, AllFree DEF tkmc_init_flgcb, FLGID
  <2>2. /\ NoFAtr \in FAtr
        /\ NoFlgWait \in [waiptn : SUBSET Bit, flgptn : SUBSET Bit, wfmode : Mode]
    BY DEF NoFAtr, FAtr, NoFlgWait, Mode
  <2>3. FlgTypes
    BY <1>1, <2>1, <2>2 DEF tkmc_init_flgcb, FlgTypes
  <2>4. FlgcbsLinked
    BY <1>1, <2>1, Objects DEF tkmc_init_flgcb, FlgcbsLinked
  <2> QED
    BY <2>3, <2>4
<1>6. MbxTypes /\ MbxcbsLinked
  <2>1. free_mbxcb \in Seq(MBXID) /\ Uniq(free_mbxcb) /\ Elems(free_mbxcb) = MBXID
    BY <1>1, TaskAssumption, AllFree DEF tkmc_init_mbxcb, MBXID
  <2>2. NoMAtr \in MAtr
    BY DEF NoMAtr, MAtr
  <2>3. MbxTypes
    BY <1>1, <2>1, <2>2 DEF tkmc_init_mbxcb, MbxTypes
  <2>4. MbxcbsLinked
    BY <1>1, <2>1, Objects DEF tkmc_init_mbxcb, MbxcbsLinked
  <2> QED
    BY <2>3, <2>4
<1> QED
  BY <1>2, <1>3, <1>4, <1>5, <1>6 DEF WaitInv, WaitQueuesConsistent

\* Every step of the kernel keeps the wait queues right.
LEMMA NextWaits == KernelInv /\ WaitInv /\ [Next]_vars => WaitInv'
<1> SUFFICES ASSUME KernelInv, WaitInv, [Next]_vars PROVE WaitInv'
  OBVIOUS
<1>1. CASE SemaphoreCall
  BY <1>1, RelWaiWaits, CreSemWaits, DelSemWaits, WaiSemWaits, SigSemWaits, SemReturnWaits
    DEF SemaphoreCall
<1>2. CASE FlagCall
  BY <1>2, CreFlgWaits, WaiFlgWaits, SetFlgWaits, ClrFlgWaits DEF FlagCall
<1>3. CASE MailboxCall
  BY <1>3, CreMbxWaits, DelMbxWaits, SndMbxWaits, RcvMbxWaits, MbxReturnWaits
    DEF MailboxCall
<1> QED
  BY <1>1, <1>2, <1>3, TaskCallWaits, TimerCallWaits, TrapWaits, OtherWaits DEF Next, Stopped

\* The inductive invariant: in every reachable state of the kernel, types, task
\* states, queues, wait queues and the scheduler's choice agree.
THEOREM KernelSafe == Spec => [](KernelInv /\ WaitInv)
<1>1. Init => KernelInv /\ WaitInv
  BY InitInv, InitWaits
<1>2. KernelInv /\ WaitInv /\ [Next]_vars => (KernelInv /\ WaitInv)'
  BY NextInv, NextWaits
<1> QED
  BY <1>1, <1>2, PTL DEF Spec

\* Every variable keeps its type: current is never NULL, the wakeup count never
\* passes TK_WAKEUP_MAXCNT, and a semaphore's count stays from 0 to maxsem.
THEOREM TypesHold == Spec => []TypeOK
<1>1. KernelInv /\ WaitInv => TypeOK
  BY DEF KernelInv, WaitInv, TypeOK
<1> QED
  BY <1>1, KernelSafe, PTL

\* The one link of a TCB is on the queue that its state says, and nowhere twice,
\* whatever interrupts come between a call and the switch it asks for.
THEOREM QueuesHold == Spec => []QueuesConsistent
<1>1. KernelInv => QueuesConsistent
  BY DEF KernelInv
<1> QED
  BY <1>1, KernelSafe, PTL

\* The scheduler never runs, or is about to run, any task but the first one of
\* the highest priority that is ready.
THEOREM DispatchHolds == Spec => []DispatchRight
<1>1. KernelInv => DispatchRight
  BY DEF KernelInv
<1> QED
  BY <1>1, KernelSafe, PTL

\* A task is on the wait queue of a semaphore, an event flag or a mailbox exactly
\* while it waits for it, and one that was deleted has no waiter, whether waits
\* end by a signal, a pattern, a message, a time limit, tk_rel_wai() or a deletion.
THEOREM WaitQueuesHold == Spec => []WaitQueuesConsistent
<1>1. WaitInv => WaitQueuesConsistent
  BY DEF WaitInv
<1> QED
  BY <1>1, KernelSafe, PTL
=============================================================================
