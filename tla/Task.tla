------------------------------- MODULE Task -------------------------------
(***************************************************************************)
(* The task manager (kernel/task.c): task control blocks, the free list,   *)
(* the ready queues, the end of a wait, and the task calls.  tk_rel_wai()  *)
(* is in module Semaphore: the end of a wait for a semaphore may serve the *)
(* waiters behind it.                                                      *)
(*                                                                         *)
(* A kernel call runs with interrupts off from its DI() to its EI(), so    *)
(* the whole call is one action.  Calls that return an error change        *)
(* nothing and are stuttering steps.                                       *)
(***************************************************************************)
EXTENDS KernelQueue, FiniteSets

CONSTANTS
  CFN_MAX_TSKID,    \* number of task control blocks
  CFN_MAX_PRI,      \* number of priorities; 1 is the highest
  TK_WAKEUP_MAXCNT, \* most wakeup requests a task queues
  CFN_MAX_SEMID,    \* number of semaphore control blocks,
  CFN_MAX_FLGID,    \* of event flag control blocks
  CFN_MAX_MBXID,    \* and of mailbox control blocks
  CrePri            \* priorities that callers of tk_cre_tsk() ask for

ASSUME TaskAssumption ==
  /\ CFN_MAX_TSKID \in Nat /\ CFN_MAX_TSKID >= 2
  /\ CFN_MAX_PRI \in Nat /\ CFN_MAX_PRI >= 1
  /\ TK_WAKEUP_MAXCNT \in Nat
  /\ CFN_MAX_SEMID \in Nat
  /\ CFN_MAX_FLGID \in Nat
  /\ CFN_MAX_MBXID \in Nat
  /\ CrePri \subseteq Int

VARIABLES
  (* One function per field of the TCBs tkmc_tcbs[]. *)
  tskstat, tskwait, itskpri, delay_ticks, wupcause, wupcnt,
  sp,           \* saved stack pointer: "null", the frame that tk_sta_tsk()
                \* builds at initial_sp ("init"), or a trap's frame ("live")
  winfo,        \* what the task waits for, or waited for last: the object
                \* whose wait queue it was put on, and its request
  pc,           \* where the task's own code stands: see PC
  (* Queues and scheduler. *)
  ready_queue,  \* tkmc_ready_queue[], by priority
  timer_queue,  \* tkmc_timer_queue
  free_tcb,     \* tkmc_free_tcb
  wait_queue,   \* the wait queue of every object
  current, next,
  (* The processor. *)
  msip,         \* software interrupt pending: a task switch is requested
  mie,          \* mstatus.MIE of the task that runs (or is interrupted)
  isr,          \* the trap that runs C code: "no", "ext" (an external
                \* interrupt's handler) or "timer"
  halted,       \* "no", or why the system stopped
  (* History, never read by the kernel's steps. *)
  left,         \* tick edges that a timed wait has still to see
  credit        \* wakeups granted to the task minus sleeps they have ended

tcbVars == <<tskstat, tskwait, itskpri, delay_ticks, wupcause, wupcnt, sp,
             winfo, pc>>
queueVars == <<ready_queue, timer_queue, free_tcb, wait_queue>>
cpuVars == <<mie, isr, halted>>
taskVars == <<tcbVars, queueVars, current, next, msip, cpuVars, left, credit>>

TSKID == 1..CFN_MAX_TSKID
Pri == 1..CFN_MAX_PRI
NULL == 0
SEMID == 1..CFN_MAX_SEMID
FLGID == 1..CFN_MAX_FLGID
MBXID == 1..CFN_MAX_MBXID
Sem(semid) == <<"SEM", semid>>
Flg(flgid) == <<"FLG", flgid>>
Mbx(mbxid) == <<"MBX", mbxid>>
SemObj == {Sem(semid) : semid \in SEMID}
FlgObj == {Flg(flgid) : flgid \in FLGID}
MbxObj == {Mbx(mbxid) : mbxid \in MBXID}
Obj == SemObj \cup FlgObj \cup MbxObj   \* what tasks wait for in a queue
Kind(o) == IF o \in SemObj THEN "SEM" ELSE IF o \in FlgObj THEN "FLG" ELSE "MBX"
NoWait == [obj |-> <<"none", 0>>, req |-> 0]   \* winfo after its memset()
IniTsk == 1   \* tkmc_start() creates tkmc_ini_tsk first,
IdlTsk == 2   \* then tkmc_idl_tsk

TskStat == {"NOEXS", "DMT", "RDY", "RUN", "WAI"}
WaitKind == {"SLP", "DLY", "SEM", "FLG", "MBX"}
Ercd == {"E_OK", "E_TMOUT", "E_RLWAI", "E_DLT"}

\* "run": in the application; a wait kind: inside that call, after its wait
\* began; "exit": after dispatch() in tk_ext_tsk() or tk_exd_tsk(); the rest:
\* the steps of the idle loop.
IdlePC == {"check", "wfi", "ei", "yield"}
PC == {"run", "exit"} \cup WaitKind \cup IdlePC
Entry(t) == IF t = IdlTsk THEN "check" ELSE "run"

-----------------------------------------------------------------------------
(* Scheduling primitives. *)

\* tkmc_get_highest_priority_task() on the ready queues rq.
Highest(rq) ==
  IF \A p \in Pri : rq[p] = << >> THEN NULL
  ELSE Head(rq[CHOOSE p \in Pri : /\ rq[p] # << >>
                                  /\ \A q \in Pri : q < p => rq[q] = << >>])

\* next = tkmc_get_highest_priority_task(); dispatch();
Dispatch(rq) == /\ next' = Highest(rq)
                /\ msip' = TRUE

\* Mutation: a switch that is already pending keeps the task it was to go to.
DispatchOnce(rq) == /\ next' = IF msip THEN next ELSE Highest(rq)
                    /\ msip' = (msip \/ Highest(rq) # current)

\* next = tkmc_get_highest_priority_task(); if (next != current) dispatch();
DispatchIfNeeded(rq) == /\ next' = Highest(rq)
                        /\ msip' = (msip \/ Highest(rq) # current)

\* Mutation: a task becomes ready at the head of its queue.
EnqueuedAtHead(ts) ==
  [p \in Pri |-> Keep(ts, {t \in TSKID : itskpri[t] = p}) \o ready_queue[p]]

\* The ready queues after the tasks of the sequence ts are added at the tail,
\* in that order, each to the queue of its priority.
Enqueued(ts) ==
  [p \in Pri |-> ready_queue[p] \o Keep(ts, {t \in TSKID : itskpri[t] = p})]

\* The ready queues after t leaves them.
Dequeued(t) == [p \in Pri |-> Without(ready_queue[p], {t})]

tkmc_in_isr == isr # "no"

\* tkmc_can_block(): interrupts on, a current task, outside every handler.
tkmc_can_block == mie /\ current # NULL /\ ~tkmc_in_isr

\* The current task runs: no handler does, and no switch it asked for is due.
TaskRuns == halted = "no" /\ isr = "no" /\ (mie => ~msip)

\* Code that may call the kernel: the current task, or a handler.
Caller == \/ TaskRuns /\ pc[current] = "run"
          \/ halted = "no" /\ isr = "ext"

-----------------------------------------------------------------------------
\* The wait queues without the tasks in done.
Unqueued(done) == [o \in Obj |-> Without(wait_queue[o], done)]

(* tkmc_complete_wait() of the tasks of the sequence ts, in that order, with *)
(* the causes that cause gives, when elapsed ticks have been taken off every *)
(* task on the timer queue.                                                  *)
CompleteWaits(ts, cause, elapsed) ==
  LET done == Elems(ts)
  IN /\ tskstat' = [t \in TSKID |-> IF t \in done THEN "RDY" ELSE tskstat[t]]
     /\ tskwait' = [t \in TSKID |-> IF t \in done THEN "none" ELSE tskwait[t]]
     /\ wupcause' = [t \in TSKID |-> IF t \in done THEN cause[t] ELSE wupcause[t]]
     /\ delay_ticks' = [t \in TSKID |->
                          IF t \in done THEN 0
                          ELSE IF t \in Elems(timer_queue)
                               THEN delay_ticks[t] - elapsed
                               ELSE delay_ticks[t]]
     /\ left' = [t \in TSKID |-> IF t \in done THEN 0 ELSE left[t]]
     /\ timer_queue' = Without(timer_queue, done)
     /\ wait_queue' = Unqueued(done)
     /\ ready_queue' = Enqueued(ts)

AllCause(ercd) == [t \in TSKID |-> ercd]

\* The current task leaves its ready queue and waits, of kind wkind, on the
\* timer queue for ticks ticks, or for ever when ticks is 0.  The state change
\* of tkmc_schedule_timer() and of the waits without a time limit.  The caller
\* gives the wait queue and the object.
BeginWait(wkind, ticks, elapsed) ==
  /\ tskstat' = [tskstat EXCEPT ![current] = "WAI"]
  /\ tskwait' = [tskwait EXCEPT ![current] = wkind]
  /\ delay_ticks' = [delay_ticks EXCEPT
                       ![current] = IF ticks = 0 THEN 0 ELSE ticks + elapsed]
  /\ left' = [left EXCEPT ![current] = ticks]
  /\ timer_queue' = IF ticks = 0 THEN timer_queue
                                 ELSE Append(timer_queue, current)
  /\ pc' = [pc EXCEPT ![current] = wkind]
  /\ ready_queue' = Dequeued(current)
  /\ Dispatch(Dequeued(current))
  /\ UNCHANGED <<itskpri, wupcause, wupcnt, sp, free_tcb, current, cpuVars, credit>>

\* Mutation: a waiter is put ahead of those of its own priority.
InsertedBeforePeers(q, t, byPri) ==
  LET after == {i \in 1..Len(q) : itskpri[t] <= itskpri[q[i]]}
      n == CHOOSE i \in after : \A j \in after : i <= j
  IN IF byPri /\ after # {} THEN LinkedBefore(q, n, t) ELSE Append(q, t)

\* The wait queue q after t joins it: before the first task of a lower priority
\* if the queue is by priority, at the tail otherwise.
Inserted(q, t, byPri) ==
  LET after == {i \in 1..Len(q) : itskpri[t] < itskpri[q[i]]}
      n == CHOOSE i \in after : \A j \in after : i <= j
  IN IF byPri /\ after # {} THEN LinkedBefore(q, n, t) ELSE Append(q, t)

\* The current task joins the wait queue of the object o, with the request req.
JoinQueue(o, req, byPri) ==
  /\ winfo' = [winfo EXCEPT ![current] = [obj |-> o, req |-> req]]
  /\ wait_queue' = [wait_queue EXCEPT ![o] = Inserted(@, current, byPri)]

-----------------------------------------------------------------------------
(* The calls. *)

\* Takes a TCB from the head of the free list and resets it (reset_tcb());
\* E_PAR and E_LIMIT change nothing.
tk_cre_tsk(pri) ==
  /\ Caller
  /\ IF pri \notin Pri \/ free_tcb = << >>
     THEN UNCHANGED taskVars
     ELSE LET t == Head(free_tcb)
          IN /\ free_tcb' = Tail(free_tcb)
             /\ tskstat' = [tskstat EXCEPT ![t] = "DMT"]
             /\ tskwait' = [tskwait EXCEPT ![t] = "none"]
             /\ itskpri' = [itskpri EXCEPT ![t] = pri]
             /\ delay_ticks' = [delay_ticks EXCEPT ![t] = 0]
             /\ wupcause' = [wupcause EXCEPT ![t] = "E_OK"]
             /\ wupcnt' = [wupcnt EXCEPT ![t] = 0]
             /\ sp' = [sp EXCEPT ![t] = "init"]
             /\ winfo' = [winfo EXCEPT ![t] = NoWait]
             /\ credit' = [credit EXCEPT ![t] = 0]
             /\ UNCHANGED <<pc, ready_queue, timer_queue, wait_queue, current, next,
                            msip, cpuVars, left>>

\* E_NOEXS and E_OBJ unless the task is dormant.
tk_sta_tsk(tskid) ==
  /\ Caller
  /\ IF tskstat[tskid] # "DMT"
     THEN UNCHANGED taskVars
     ELSE /\ tskstat' = [tskstat EXCEPT ![tskid] = "RDY"]
          /\ tskwait' = [tskwait EXCEPT ![tskid] = "none"]
          /\ delay_ticks' = [delay_ticks EXCEPT ![tskid] = 0]
          /\ wupcause' = [wupcause EXCEPT ![tskid] = "E_OK"]
          /\ wupcnt' = [wupcnt EXCEPT ![tskid] = 0]
          /\ sp' = [sp EXCEPT ![tskid] = "init"]
          /\ winfo' = [winfo EXCEPT ![tskid] = NoWait]
          /\ credit' = [credit EXCEPT ![tskid] = 0]
          /\ ready_queue' = Enqueued(<<tskid>>)
          /\ DispatchIfNeeded(Enqueued(<<tskid>>))
          /\ UNCHANGED <<itskpri, pc, timer_queue, free_tcb, wait_queue, current,
                         cpuVars, left>>

\* tkmc_fatal_context(): the system stops with interrupts off.
tkmc_fatal_context ==
  /\ halted' = "context"
  /\ mie' = FALSE
  /\ UNCHANGED <<tcbVars, queueVars, current, next, msip, isr, left, credit>>

tk_ext_tsk ==
  /\ Caller
  /\ IF ~tkmc_can_block
     THEN tkmc_fatal_context
     ELSE /\ tskstat' = [tskstat EXCEPT ![current] = "DMT"]
          /\ tskwait' = [tskwait EXCEPT ![current] = "none"]
          /\ pc' = [pc EXCEPT ![current] = "exit"]
          /\ ready_queue' = Dequeued(current)
          /\ Dispatch(Dequeued(current))
          /\ UNCHANGED <<itskpri, delay_ticks, wupcause, wupcnt, sp, winfo, timer_queue,
                         free_tcb, wait_queue, current, cpuVars, left, credit>>

tk_exd_tsk ==
  /\ Caller
  /\ IF ~tkmc_can_block
     THEN tkmc_fatal_context
     ELSE /\ tskstat' = [tskstat EXCEPT ![current] = "NOEXS"]
          /\ pc' = [pc EXCEPT ![current] = "exit"]
          /\ free_tcb' = Append(free_tcb, current)
          /\ ready_queue' = Dequeued(current)
          /\ Dispatch(Dequeued(current))
          /\ UNCHANGED <<tskwait, itskpri, delay_ticks, wupcause, wupcnt, sp, winfo,
                         timer_queue, wait_queue, current, cpuVars, left, credit>>

\* Mutation: the state of the task is not looked at.
RelWaiUnchecked(tskid) == tskid = current \/ tskstat[tskid] = "NOEXS"

\* The current task, even one that waits and has not been switched out yet,
\* cannot be released.
RelWaiRefused(tskid) == tskid = current \/ tskstat[tskid] # "WAI"

\* Mutation: any wait is taken for a sleep.
WakesAnyWait(tskid) == tskstat[tskid] = "WAI"

\* tk_wup_tsk() ends a wait of tk_slp_tsk(), and no other.
WakesSleep(tskid) == tskstat[tskid] = "WAI" /\ tskwait[tskid] = "SLP"

\* Another wakeup request can be queued; E_QOVR otherwise.
WakeupRoom(tskid) == wupcnt[tskid] < TK_WAKEUP_MAXCNT

\* A task may not wake itself; a handler may wake the task it interrupted.
tk_wup_tsk(tskid) ==
  /\ Caller
  /\ IF \/ tskid = current /\ ~tkmc_in_isr             \* E_OBJ
        \/ tskstat[tskid] \in {"NOEXS", "DMT"}           \* E_NOEXS, E_OBJ
     THEN UNCHANGED taskVars
     ELSE IF WakesSleep(tskid)
     THEN /\ CompleteWaits(<<tskid>>, AllCause("E_OK"), 0)
          /\ DispatchIfNeeded(Enqueued(<<tskid>>))
          /\ credit' = [credit EXCEPT ![tskid] = @ + 1]
          /\ UNCHANGED <<itskpri, wupcnt, sp, winfo, pc, free_tcb, current, cpuVars>>
     ELSE IF WakeupRoom(tskid)
     THEN /\ wupcnt' = [wupcnt EXCEPT ![tskid] = @ + 1]
          /\ credit' = [credit EXCEPT ![tskid] = @ + 1]
          /\ UNCHANGED <<tskstat, tskwait, itskpri, delay_ticks, wupcause, sp, winfo, pc,
                         queueVars, current, next, msip, cpuVars, left>>
     ELSE UNCHANGED taskVars                             \* E_QOVR

\* The current task goes to the tail of its ready queue.  pcAfter is where it
\* goes on.
tkmc_yield(pcAfter) ==
  LET rq == [ready_queue EXCEPT
               ![itskpri[current]] = Append(Without(@, {current}), current)]
  IN /\ ready_queue' = rq
     /\ DispatchIfNeeded(rq)
     /\ pc' = [pc EXCEPT ![current] = pcAfter]
     /\ UNCHANGED <<tskstat, tskwait, itskpri, delay_ticks, wupcause, wupcnt, sp, winfo,
                    timer_queue, free_tcb, wait_queue, current, cpuVars, left, credit>>

\* Mutation: the idle task does not look for a peer behind it.
IdleCanHaltNoPeer == Highest(ready_queue) = current

\* tkmc_idle_can_halt(): the idle task is the only task that is ready.
tkmc_idle_can_halt == /\ Highest(ready_queue) = current
                      /\ Len(ready_queue[CFN_MAX_PRI]) <= 1
=============================================================================
