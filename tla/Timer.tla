------------------------------- MODULE Timer -------------------------------
(***************************************************************************)
(* The kernel timer (kernel/timer.c): waits with a time limit, counted in  *)
(* 10 ms ticks, and the timer interrupt that ends them.                    *)
(*                                                                         *)
(* The machine timer is seen through edges: the number of tick edges at or *)
(* after s_mtimecmp that the machine time has passed and the handler has   *)
(* not counted, which is what pass_elapsed_periods() returns.  It is above *)
(* 1 when interrupts were off, or a handler ran, for more than a tick.     *)
(***************************************************************************)
EXTENDS Task

CONSTANTS
  Tmo,      \* time limits of tk_slp_tsk(), in ms, TMO_POL and TMO_FEVR
  RelTim,   \* delays of tk_dly_tsk(), in ms
  MaxEdges  \* bound: tick edges the timer interrupt may be late by

ASSUME TimerAssumption ==
  /\ Tmo \subseteq Int
  /\ RelTim \subseteq Nat
  /\ MaxEdges \in Nat

VARIABLE edges

TMO_POL == 0
TMO_FEVR == -1

\* Ticks a wait of ms > 0 milliseconds lasts: rounded up, plus the tick that
\* may come at once.
tkmc_ms_to_ticks(ms) == ms \div 10 + (IF ms % 10 # 0 THEN 1 ELSE 0) + 1

-----------------------------------------------------------------------------
\* The hardware: the machine time passes a tick edge.
TickEdge ==
  /\ edges < MaxEdges
  /\ edges' = edges + 1
  /\ left' = [t \in TSKID |-> IF t \in Elems(timer_queue) THEN left[t] - 1 ELSE left[t]]
  /\ UNCHANGED <<tcbVars, queueVars, current, next, msip, cpuVars, credit>>

\* Mutation: a wait that has one tick left is ended too.
ExpiredTooSoon(n) == Keep(timer_queue, {t \in TSKID : delay_ticks[t] <= n + 1})

\* The tasks whose wait ends within n ticks, in the order in which the handler
\* ends them: first_deadline() takes the shortest wait, and the queue order
\* decides between equal ones.
Expired(n) ==
  LET upTo[d \in 0..n] ==
        IF d = 0 THEN Keep(timer_queue, {t \in TSKID : delay_ticks[t] = 0})
        ELSE upTo[d - 1] \o Keep(timer_queue, {t \in TSKID : delay_ticks[t] = d})
  IN upTo[n]

\* Mutation: the edges that are pending are taken off the new wait.
ScheduleTimerPlain(ticks, wkind) == BeginWait(wkind, ticks, 0)

\* An edge that passed before the wait began is added to its count: the handler
\* will take it off again.
tkmc_schedule_timer(ticks, wkind) == BeginWait(wkind, ticks, edges)

tk_slp_tsk(tmout) ==
  /\ Caller
  /\ UNCHANGED edges
  /\ IF tmout < TMO_FEVR \/ ~tkmc_can_block                    \* E_PAR, E_CTX
     THEN UNCHANGED taskVars
     ELSE IF wupcnt[current] > 0
     THEN /\ wupcnt' = [wupcnt EXCEPT ![current] = @ - 1]
          /\ credit' = [credit EXCEPT ![current] = @ - 1]
          /\ UNCHANGED <<tskstat, tskwait, itskpri, delay_ticks, wupcause, sp, winfo, pc,
                         queueVars, current, next, msip, cpuVars, left>>
     ELSE IF tmout > 0
     THEN /\ tkmc_schedule_timer(tkmc_ms_to_ticks(tmout), "SLP")
          /\ UNCHANGED <<winfo, wait_queue>>
     ELSE IF tmout = TMO_POL
     THEN UNCHANGED taskVars                             \* E_TMOUT
     ELSE /\ BeginWait("SLP", 0, 0)
          /\ UNCHANGED <<winfo, wait_queue>>

\* dlytm = 0 yields the processor.
tk_dly_tsk(dlytm) ==
  /\ Caller
  /\ UNCHANGED edges
  /\ IF ~tkmc_can_block                                        \* E_CTX
     THEN UNCHANGED taskVars
     ELSE IF dlytm = 0
     THEN tkmc_yield("run")
     ELSE /\ tkmc_schedule_timer(tkmc_ms_to_ticks(dlytm), "DLY")
          /\ UNCHANGED <<winfo, wait_queue>>

\* Mutation: the cause stays for the next wait.
CauseKept == UNCHANGED wupcause

\* current->wupcause = E_OK, after the cause was read.
CauseTaken == wupcause' = [wupcause EXCEPT ![current] = "E_OK"]

\* The second half of a call that waited: the task runs again, takes the cause
\* of its wakeup and resets it.
WaitReturn(wkind) ==
  /\ TaskRuns
  /\ pc[current] = wkind
  /\ pc' = [pc EXCEPT ![current] = "run"]
  /\ CauseTaken
  /\ credit' = IF wkind = "SLP" /\ wupcause[current] = "E_OK"
               THEN [credit EXCEPT ![current] = @ - 1] ELSE credit
  /\ UNCHANGED <<tskstat, tskwait, itskpri, delay_ticks, wupcnt, sp, winfo, queueVars,
                 current, next, msip, cpuVars, left, edges>>
=============================================================================
