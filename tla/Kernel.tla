------------------------------- MODULE Kernel -------------------------------
(***************************************************************************)
(* The running kernel: the task, timer, semaphore, event flag and mailbox  *)
(* calls with the traps (kernel/asm/rv32/start.S), schedule()              *)
(* (kernel/start.c) and the idle task (kernel/asm/rv32/idl_tsk.S).         *)
(*                                                                         *)
(* A trap is taken between two instructions when mie is on, an external    *)
(* interrupt before a software interrupt before a timer interrupt.  An     *)
(* external interrupt may come at any time, also between the EI() of a     *)
(* call that gave up the processor and the switch that the call asked for. *)
(***************************************************************************)
EXTENDS Mailbox, FiniteSetsExt

CONSTANT Uses   \* what the application does: kernel calls, "DI" for sections with
                \* interrupts off, "irq" for external interrupts

objVars == <<semVars, flgVars, mbxVars>>
vars == <<taskVars, edges, objVars>>

-----------------------------------------------------------------------------
\* The state tkmc_start() leaves when it launches the initial task.
Init ==
  /\ tskstat = [t \in TSKID |-> IF t = IniTsk THEN "RUN"
                                ELSE IF t = IdlTsk THEN "RDY" ELSE "NOEXS"]
  /\ tskwait = [t \in TSKID |-> "none"]
  /\ itskpri = [t \in TSKID |-> IF t = IniTsk THEN 1
                                ELSE IF t = IdlTsk THEN CFN_MAX_PRI ELSE 0]
  /\ delay_ticks = [t \in TSKID |-> 0]
  /\ wupcause = [t \in TSKID |-> "E_OK"]
  /\ wupcnt = [t \in TSKID |-> 0]
  /\ sp = [t \in TSKID |-> IF t \in {IniTsk, IdlTsk} THEN "init" ELSE "null"]
  /\ winfo = [t \in TSKID |-> NoWait]
  /\ pc = [t \in TSKID |-> Entry(t)]
  /\ ready_queue = [p \in Pri |-> (IF p = 1 THEN <<IniTsk>> ELSE << >>) \o
                                  (IF p = CFN_MAX_PRI THEN <<IdlTsk>> ELSE << >>)]
  /\ timer_queue = << >>
  /\ free_tcb = [i \in 1..CFN_MAX_TSKID - 2 |-> i + 2]
  /\ wait_queue = [o \in Obj |-> << >>]
  /\ current = IniTsk
  /\ next = NULL
  /\ msip = FALSE /\ mie = TRUE /\ isr = "no" /\ halted = "no"
  /\ left = [t \in TSKID |-> 0]
  /\ credit = [t \in TSKID |-> 0]
  /\ edges = 0
  /\ tkmc_init_semcb
  /\ tkmc_init_flgcb
  /\ tkmc_init_mbxcb

-----------------------------------------------------------------------------
(* Traps. *)

\* schedule(): the frame of the interrupted task is stored in the current TCB,
\* whatever state that task is in by now, and next goes on from its saved stack
\* pointer, at its entry if that is the frame of tk_sta_tsk().
schedule ==
  LET saved == [sp EXCEPT ![current] = "live"]
      stopped == IF tskstat[current] = "RUN"
                 THEN [tskstat EXCEPT ![current] = "RDY"] ELSE tskstat
  IN /\ sp' = saved
     /\ tskstat' = [stopped EXCEPT ![next] = "RUN"]
     /\ current' = next
     /\ pc' = IF saved[next] = "init" THEN [pc EXCEPT ![next] = Entry(next)] ELSE pc

\* Mutation: the request is served but not cleared.
MsipLeft == UNCHANGED msip

\* sw zero to MSIP, before schedule().
MsipCleared == msip' = FALSE

\* mtrap_handler: the software interrupt always switches.
mtrap_handler ==
  /\ halted = "no" /\ isr = "no" /\ mie /\ msip
  /\ MsipCleared
  /\ schedule
  /\ UNCHANGED <<tskwait, itskpri, delay_ticks, wupcause, wupcnt, winfo, queueVars,
                 next, cpuVars, left, credit, edges, objVars>>

\* timer_interrupt up to the return of tkmc_timer_handler(): every edge that has
\* passed is taken off the waits, and the waits that this ends become ready,
\* with those that get the units an ended wait had held back.
timer_interrupt ==
  LET b == TimedOut(edges)
  IN /\ halted = "no" /\ isr = "no" /\ mie /\ ~msip
     /\ edges > 0
     /\ edges' = 0
     /\ isr' = "timer"
     /\ EndWaits(b, "E_TMOUT", edges)
     /\ IF b.ts # << >> THEN DispatchIfNeeded(Enqueued(b.ts))
                        ELSE UNCHANGED <<next, msip>>
     /\ UNCHANGED <<itskpri, wupcnt, sp, winfo, pc, free_tcb, current, mie, halted,
                    credit, semcbVars, ledger, orphan, flgVars, mbxVars>>

\* external_interrupt up to the handler, which makes kernel calls of its own.
\* The timer and software interrupts are masked until the exit.
external_interrupt ==
  /\ halted = "no" /\ isr = "no" /\ mie
  /\ isr' = "ext"
  /\ UNCHANGED <<tcbVars, queueVars, current, next, msip, mie, halted, left, credit,
                 edges, objVars>>

\* The exit of timer_interrupt and of the outermost external_interrupt: a switch
\* that was requested, before or during the trap, is made here.
TrapExit ==
  /\ halted = "no" /\ tkmc_in_isr
  /\ isr' = "no"
  /\ IF msip THEN MsipCleared /\ schedule
             ELSE UNCHANGED <<msip, sp, tskstat, current, pc>>
  /\ UNCHANGED <<tskwait, itskpri, delay_ticks, wupcause, wupcnt, winfo, queueVars,
                 next, mie, halted, left, credit, edges, objVars>>

-----------------------------------------------------------------------------
(* What tasks do besides calling the kernel. *)

SetMie(on, pcAfter) ==
  /\ mie' = on
  /\ pc' = [pc EXCEPT ![current] = pcAfter]
  /\ UNCHANGED <<tskstat, tskwait, itskpri, delay_ticks, wupcause, wupcnt, sp,
                 winfo, queueVars, current, next, msip, isr, halted, left, credit,
                 edges, objVars>>

\* The application turns interrupts off and on with DI() and EI().
TaskDI == TaskRuns /\ pc[current] = "run" /\ mie /\ SetMie(FALSE, "run")
TaskEI == TaskRuns /\ pc[current] = "run" /\ ~mie /\ SetMie(TRUE, "run")

\* A task that is run after tk_ext_tsk() or tk_exd_tsk(): the call returns into
\* a stack that tk_sta_tsk() may have overwritten, so that the task goes on
\* after the call or takes a synchronous exception (tkmc_fatal_trap()).
ExitReturns ==
  /\ TaskRuns /\ pc[current] = "exit"
  /\ \/ /\ pc' = [pc EXCEPT ![current] = "run"]
        /\ UNCHANGED <<mie, halted>>
     \/ /\ halted' = "trap" /\ mie' = FALSE
        /\ UNCHANGED pc
  /\ UNCHANGED <<tskstat, tskwait, itskpri, delay_ticks, wupcause, wupcnt, sp,
                 winfo, queueVars, current, next, msip, isr, left, credit, edges, objVars>>

\* tkmc_idl_tsk: csrrci, then the test; wfi; csrs; the call of tkmc_yield().
IdleCheck == /\ TaskRuns /\ pc[current] = "check"
             /\ SetMie(FALSE, IF tkmc_idle_can_halt THEN "wfi" ELSE "ei")

\* wfi returns when an interrupt is pending, and may return at any time.
IdleWfi == TaskRuns /\ pc[current] = "wfi" /\ SetMie(FALSE, "ei")

\* Mutation: interrupts stay off.
IdleStaysDI == TaskRuns /\ pc[current] = "ei" /\ SetMie(FALSE, "yield")

IdleEI == TaskRuns /\ pc[current] = "ei" /\ SetMie(TRUE, "yield")
IdleYield == /\ TaskRuns /\ pc[current] = "yield"
             /\ tkmc_yield("check")
             /\ UNCHANGED <<edges, objVars>>

\* tkmc_panic() and its kin wait for ever.
Stopped == halted # "no" /\ UNCHANGED vars

-----------------------------------------------------------------------------
TaskCall ==
  /\ \/ \E pri \in CrePri : tk_cre_tsk(pri)
     \/ \E tskid \in TSKID : tk_sta_tsk(tskid)
     \/ "tk_wup_tsk" \in Uses /\ \E tskid \in TSKID : tk_wup_tsk(tskid)
     \/ "tk_ext_tsk" \in Uses /\ tk_ext_tsk
     \/ "tk_exd_tsk" \in Uses /\ tk_exd_tsk
  /\ UNCHANGED <<edges, objVars>>

TimerCall ==
  /\ \/ \E tmout \in Tmo : tk_slp_tsk(tmout)
     \/ \E dlytm \in RelTim : tk_dly_tsk(dlytm)
     \/ \E wkind \in {"SLP", "DLY"} : WaitReturn(wkind)
  /\ UNCHANGED objVars

SemaphoreCall ==
  /\ \/ "tk_rel_wai" \in Uses /\ \E tskid \in TSKID : tk_rel_wai(tskid)
     \/ \E atr \in SemAtr, isemcnt, max \in SemCnt : tk_cre_sem(atr, isemcnt, max)
     \/ "tk_del_sem" \in Uses /\ \E semid \in SEMID : tk_del_sem(semid)
     \/ \E semid \in SEMID, cnt \in SemCnt, tmout \in SemTmo : tk_wai_sem(semid, cnt, tmout)
     \/ \E semid \in SEMID, cnt \in SemCnt : tk_sig_sem(semid, cnt)
     \/ SemReturn
  /\ UNCHANGED <<flgVars, mbxVars>>

FlagCall ==
  /\ \/ \E atr \in FlgAtr, iflgptn \in FlgPtn : tk_cre_flg(atr, iflgptn)
     \/ \E flgid \in FLGID, waiptn \in FlgPtn, wfmode \in WfMode, tmout \in FlgTmo :
          tk_wai_flg(flgid, waiptn, wfmode, tmout)
     \/ \E flgid \in FLGID, setptn \in FlgPtn : tk_set_flg(flgid, setptn)
     \/ \E flgid \in FLGID, clrptn \in FlgPtn : tk_clr_flg(flgid, clrptn)
     \/ FlgReturn
  /\ UNCHANGED <<semVars, mbxVars>>

MailboxCall ==
  /\ \/ \E atr \in MbxAtr : tk_cre_mbx(atr)
     \/ "tk_del_mbx" \in Uses /\ \E mbxid \in MBXID : tk_del_mbx(mbxid)
     \/ \E mbxid \in MBXID, msg \in Msg : tk_snd_mbx(mbxid, msg)
     \/ \E mbxid \in MBXID, tmout \in MbxTmo : tk_rcv_mbx(mbxid, tmout)
     \/ MbxReturn
  /\ UNCHANGED <<semVars, flgVars>>

ClockTick == halted = "no" /\ TickEdge /\ UNCHANGED objVars

Trap == \/ mtrap_handler \/ timer_interrupt \/ TrapExit
        \/ "irq" \in Uses /\ external_interrupt
Idle == IdleCheck \/ IdleWfi \/ IdleEI \/ IdleYield
Next == \/ TaskCall \/ TimerCall \/ SemaphoreCall \/ FlagCall \/ MailboxCall
        \/ Trap \/ Idle
        \/ "DI" \in Uses /\ TaskDI
        \/ TaskEI \/ ExitReturns
        \/ ClockTick
        \/ Stopped

Spec == Init /\ [][Next]_vars

-----------------------------------------------------------------------------
(* Safety. *)

TcbTypes ==
  /\ tskstat \in [TSKID -> TskStat]
  /\ tskwait \in [TSKID -> WaitKind \cup {"none"}]
  /\ itskpri \in [TSKID -> 0..CFN_MAX_PRI]
  /\ delay_ticks \in [TSKID -> Nat]
  /\ wupcause \in [TSKID -> Ercd]
  /\ wupcnt \in [TSKID -> 0..TK_WAKEUP_MAXCNT]
  /\ sp \in [TSKID -> {"null", "init", "live"}]
  /\ pc \in [TSKID -> PC]
  /\ left \in [TSKID -> Int]
  /\ credit \in [TSKID -> Int]

QueueTypes ==
  /\ ready_queue \in [Pri -> Seq(TSKID)]
  /\ timer_queue \in Seq(TSKID)
  /\ free_tcb \in Seq(TSKID)

CpuTypes ==
  /\ current \in TSKID
  /\ next \in TSKID \cup {NULL}
  /\ msip \in BOOLEAN
  /\ mie \in BOOLEAN
  /\ isr \in {"no", "ext", "timer"}
  /\ halted \in {"no", "context", "trap"}
  /\ edges \in 0..MaxEdges

TaskTypes == TcbTypes /\ QueueTypes /\ CpuTypes

WaitTypes ==
  /\ winfo \in [TSKID -> [obj : Obj \cup {NoWait.obj}, req : Nat]]
  /\ wait_queue \in [Obj -> Seq(TSKID)]

SemTypes ==
  /\ semexs \in [SEMID -> BOOLEAN]
  /\ sematr \in [SEMID -> Atr]
  /\ maxsem \in [SEMID -> 0..TK_SEMAPHORE_MAXCNT]
  /\ semcnt \in [SEMID -> Nat] /\ \A s \in SEMID : semcnt[s] <= maxsem[s]
  /\ free_semcb \in Seq(SEMID)
  /\ ledger \in [SEMID -> Int]
  /\ orphan \subseteq TSKID

FlgTypes ==
  /\ flgexs \in [FLGID -> BOOLEAN]
  /\ flgatr \in [FLGID -> FAtr]
  /\ flgptn \in [FLGID -> SUBSET Bit]
  /\ free_flgcb \in Seq(FLGID)
  /\ flgwait \in [TSKID -> [waiptn : SUBSET Bit, flgptn : SUBSET Bit, wfmode : Mode]]

MbxTypes ==
  /\ mbxexs \in [MBXID -> BOOLEAN]
  /\ mbxatr \in [MBXID -> MAtr]
  /\ mbx_queue \in [MBXID -> Seq(Msg)]
  /\ free_mbxcb \in Seq(MBXID)
  /\ mbxmsg \in [TSKID -> Msg \cup {NULL}]
  /\ owned \subseteq Msg \cup {NULL}

\* Every variable has its type: the current task is a TCB, never NULL, a task
\* queues at most TK_WAKEUP_MAXCNT wakeups, and a semaphore holds from 0 to
\* maxsem units, which is what the comparison of tk_sig_sem() relies on.
TypeOK == TaskTypes /\ WaitTypes /\ SemTypes /\ FlgTypes /\ MbxTypes

\* A TCB has one link, head, for the ready queues, the timer queue and the free
\* list: every TCB is linked exactly where its state says, and only once.  A
\* call that relinked a TCB it had not unlinked (tkmc_complete_wait(), a restart
\* or a reuse of a TCB that has not been switched out yet) would break this.
QueuesConsistent ==
  /\ \A p \in Pri : Uniq(ready_queue[p])
  /\ Uniq(timer_queue)
  /\ Uniq(free_tcb)
  /\ \A t \in TSKID, p \in Pri :
       t \in Elems(ready_queue[p]) <=> tskstat[t] \in {"RDY", "RUN"} /\ itskpri[t] = p
  /\ \A t \in TSKID :
       t \in Elems(timer_queue) <=> tskstat[t] = "WAI" /\ delay_ticks[t] > 0
  /\ \A t \in TSKID : t \in Elems(free_tcb) <=> tskstat[t] = "NOEXS"

\* With no switch pending, the running task is the first of the highest
\* priority that is ready; with one pending, next is that task, whatever calls
\* were made between the request and the switch (with interrupts off, or by
\* handlers that came first).  schedule() trusts next and looks at no queue.
DispatchRight ==
  IF msip THEN next = Highest(ready_queue)
  ELSE current = Highest(ready_queue) /\ tskstat[current] = "RUN"

\* What the invariants above rest on: a task that exists has a priority, only
\* the current task is marked as running, the idle task never waits or ends, and
\* a task with interrupts off runs.
TasksStanding ==
  /\ \A t \in TSKID : tskstat[t] # "NOEXS" => itskpri[t] \in Pri
  /\ \A t \in TSKID : tskstat[t] = "RUN" => t = current
  /\ tskstat[IdlTsk] \in {"RDY", "RUN"} /\ itskpri[IdlTsk] = CFN_MAX_PRI
  /\ \A t \in TSKID : pc[t] \in IdlePC <=> t = IdlTsk
  /\ mie \/ halted # "no" \/ tskstat[current] = "RUN"

\* The inductive invariant of the kernel.
KernelInv == TaskTypes /\ TasksStanding /\ QueuesConsistent /\ DispatchRight

\* The count of a timed wait is what is still to come plus the edges that the
\* handler has yet to take off, also when the wait began with edges pending or
\* the handler came several edges late.
TimersExact == \A t \in Elems(timer_queue) : delay_ticks[t] = left[t] + edges

\* A wait that ends with E_TMOUT has seen every tick edge it was to see, and
\* once the handler has run none that has seen them is left waiting.
TimeoutNeverEarly ==
  [][\A t \in TSKID : /\ wupcause'[t] = "E_TMOUT" /\ wupcause[t] # "E_TMOUT" => left[t] <= 0
                      /\ edges' < edges /\ t \in Elems(timer_queue') => left[t] > 0]_vars

\* No wakeup is lost or used twice: the wakeups granted to a task that no sleep
\* has returned for are the queued ones, plus one for a sleep that was ended
\* and has not returned yet.
WakeupsConserved ==
  \A t \in TSKID : tskstat[t] \in {"RDY", "RUN", "WAI"} =>
    credit[t] = wupcnt[t] + (IF /\ pc[t] = "SLP" /\ tskstat[t] # "WAI"
                                /\ wupcause[t] = "E_OK" THEN 1 ELSE 0)

\* A wait begins with the cause of the one before cleared: no call can return
\* a cause that another wait left behind.
CauseFresh ==
  \A t \in TSKID : tskstat[t] = "WAI" \/ (tskstat[t] \in {"RDY", "RUN"} /\ pc[t] \notin WaitKind)
                     => wupcause[t] = "E_OK"

\* The idle task is inside wfi only when no other task is ready and no switch
\* is pending: a wakeup between its test and wfi is never slept through.
IdleHaltsAlone ==
  pc[IdlTsk] = "wfi" => /\ current = IdlTsk /\ ~msip
                        /\ \A t \in TSKID : tskstat[t] \in {"RDY", "RUN"} => t = IdlTsk

\* Ready tasks of one priority are served in the order in which they became
\* ready: no step moves a ready task, or one that becomes ready, ahead of
\* another, and only a task that yields loses its place.
FifoWithinPriority ==
  [][\A p \in Pri : LET q == ready_queue[p]
                       r == ready_queue'[p]
                   IN \A a \in Elems(q) \cap Elems(r), b \in Elems(r) :
                        \/ Ahead(r, a, b) \/ a = b \/ Ahead(q, b, a)
                        \/ a = current /\ current' = current /\ r[Len(r)] = a]_vars

\* The task is on the wait queue of an object.
Queued(t) == tskstat[t] = "WAI" /\ tskwait[t] \in {"SEM", "FLG", "MBX"}

WaitersQueued ==
  /\ \A o \in Obj : Uniq(wait_queue[o])
  /\ \A t \in TSKID, o \in Obj :
       t \in Elems(wait_queue[o]) <=> Queued(t) /\ winfo[t].obj = o
  /\ \A t \in TSKID : Queued(t) => winfo[t].obj \in Obj /\ tskwait[t] = Kind(winfo[t].obj)

SemcbsLinked ==
  /\ Uniq(free_semcb)
  /\ \A s \in SEMID : /\ s \in Elems(free_semcb) <=> ~semexs[s]
                      /\ ~semexs[s] => wait_queue[Sem(s)] = << >>

FlgcbsLinked ==
  /\ Uniq(free_flgcb)
  /\ \A f \in FLGID : /\ f \in Elems(free_flgcb) <=> ~flgexs[f]
                      /\ ~flgexs[f] => wait_queue[Flg(f)] = << >>

MbxcbsLinked ==
  /\ Uniq(free_mbxcb)
  /\ \A m \in MBXID : /\ m \in Elems(free_mbxcb) <=> ~mbxexs[m]
                      /\ ~mbxexs[m] => wait_queue[Mbx(m)] = << >>

\* A task is on the wait queue of an object exactly while it waits for it, once,
\* however its wait ends; an object that does not exist has no waiter, so that
\* the link of its wait queue can be its link on the free list.
WaitQueuesConsistent == WaitersQueued /\ SemcbsLinked /\ FlgcbsLinked /\ MbxcbsLinked

\* The inductive invariant of the waits for objects.
WaitInv == WaitTypes /\ SemTypes /\ FlgTypes /\ MbxTypes /\ WaitQueuesConsistent

\* No unit is lost or made: the units put into a semaphore are in its count,
\* with a task that was served and has not returned yet, or with one that did
\* return, and a wait that a time limit or tk_rel_wai() ended took none.
UnitsConserved ==
  \A s \in SEMID : semexs[s] =>
    ledger[s] = semcnt[s] + MapThenSumSet(LAMBDA t : winfo[t].req, InFlight(s) \ orphan)

\* No task waits for units that are there: under TA_FIRST the first waiter asks
\* for more than the count, under TA_CNT every waiter does, also after a waiter
\* that held the others back has left.
NoUnitsWithheld ==
  \A s \in SEMID : \A i \in 1..Len(wait_queue[Sem(s)]) :
    i = 1 \/ sematr[s].cnt => winfo[wait_queue[Sem(s)][i]].req > semcnt[s]

\* The queue r comes from q: what stays keeps its order, and a newcomer b stands
\* ahead of an older a exactly if Passes(b, a).
KeepsPlaces(q, r, Passes(_, _)) ==
  \A a \in Elems(q) \cap Elems(r), b \in Elems(r) : a # b =>
    (Ahead(r, b, a) <=> IF b \in Elems(q) THEN Ahead(q, b, a) ELSE Passes(b, a))

\* The attributes of an object with TA_TPRI.
Tpri(o) == \/ \E s \in SEMID : o = Sem(s) /\ sematr[s].tpri
           \/ \E f \in FLGID : o = Flg(f) /\ flgatr[f].tpri
           \/ \E m \in MBXID : o = Mbx(m) /\ mbxatr[m].tpri

\* No waiter loses its place: one that stays keeps the others ahead of it and
\* behind it, and a newcomer comes before it exactly when the object is TA_TPRI
\* and the newcomer has a higher priority.
WaitersKeepPlace ==
  [][\A o \in Obj :
       KeepsPlaces(wait_queue[o], wait_queue'[o],
                   LAMBDA b, a : Tpri(o) /\ itskpri[b] < itskpri[a])]_vars

\* t is served by the object o in this step.
Served(o, t) == /\ t \in Elems(wait_queue[o])
                /\ tskstat'[t] = "RDY" /\ wupcause'[t] = "E_OK"

\* Under TA_FIRST no waiter is served while one ahead of it goes on waiting.
ServedInOrder ==
  [][\A s \in SEMID : ~sematr[s].cnt =>
       \A a, b \in TSKID : Ahead(wait_queue[Sem(s)], a, b) /\ Served(Sem(s), b)
                            => a \notin Elems(wait_queue'[Sem(s)])]_vars

\* Under TA_FIRST the units that come in are kept for the first waiter: while it
\* waits, only a task of a higher priority at a TA_TPRI semaphore takes any.
HeadNotPassed ==
  [][\A s \in SEMID :
       LET q == wait_queue[Sem(s)]
           r == wait_queue'[Sem(s)]
       IN /\ semexs[s] /\ semexs'[s] /\ ~sematr[s].cnt /\ semcnt'[s] < semcnt[s]
          /\ q # << >> /\ r # << >> /\ Head(q) = Head(r)
          => sematr[s].tpri /\ itskpri[current] < itskpri[Head(q)]]_vars

\* A timer handler that comes several ticks late gives the result of one that
\* came with every tick: a waiter does not time out with those ahead of it if they
\* all had earlier deadlines and the units cover its request.
LateHandlerServes ==
  [][\A s \in SEMID : ~sematr[s].cnt => LET q == wait_queue[Sem(s)]
       IN \A i \in 2..Len(q) :
            /\ wupcause'[q[i]] = "E_TMOUT"
            /\ \A j \in 1..i - 1 : /\ wupcause'[q[j]] = "E_TMOUT"
                                   /\ delay_ticks[q[j]] < delay_ticks[q[i]]
            => winfo[q[i]].req > semcnt[s]]_vars

\* The condition of a task that waits for a flag is met by the pattern ptn.
Met(t, ptn) == check_ptn(ptn, flgwait[t].waiptn, flgwait[t].wfmode)

\* No task waits for a pattern that is there, whatever was set, cleared by other
\* waiters and cleared by calls since its wait began.
NoFlagMissed == \A f \in FLGID : \A t \in Elems(wait_queue[Flg(f)]) : ~Met(t, flgptn[f])

\* A task whose wait for a flag has ended with E_OK finds, however late it runs
\* and whatever has become of the flag, a pattern that meets its condition.
PatternDelivered ==
  \A t \in TSKID : /\ pc[t] = "FLG" /\ tskstat[t] \in {"RDY", "RUN"}
                   /\ wupcause[t] = "E_OK"
                   => Met(t, flgwait[t].flgptn)

\* Waiters that one tk_set_flg() serves use the bits in turn: each one sees the
\* bits that were there and those that the call sets, without those that the ones
\* served ahead of it have cleared, all of them and no other, and a waiter that is
\* passed over would not have been served by what it sees.
BitsUsedInTurn ==
  [][\A f \in FLGID, b \in TSKID : Served(Flg(f), b) =>
       LET seen == flgwait'[b].flgptn
           ahead == {a \in TSKID : Ahead(wait_queue[Flg(f)], a, b)}
           used == {x \in Bit : \E a \in ahead :
                      /\ Served(Flg(f), a)
                      /\ x \notin ClearedBy({x}, flgwait[a].waiptn, flgwait[a].wfmode)}
       IN /\ \E setptn \in FlgPtn : tk_set_flg(f, setptn)
          /\ \A setptn \in FlgPtn :
               tk_set_flg(f, setptn) => seen = (flgptn[f] \cup setptn) \ used
          /\ \A a \in ahead : ~Served(Flg(f), a) => ~Met(a, seen)]_vars

\* No message is lost or doubled: each is with the application, on one queue
\* once, or with one task that has been given it and will return it, also when
\* a time limit, tk_rel_wai() or a deletion comes between.
MessagesConserved ==
  /\ \A msg \in Msg :
       (IF msg \in owned THEN 1 ELSE 0)
         + Cardinality({m \in MBXID : msg \in Elems(mbx_queue[m])})
         + Cardinality({t \in TSKID : mbxmsg[t] = msg}) = 1
  /\ \A m \in MBXID : Uniq(mbx_queue[m])
  /\ \A t \in TSKID : mbxmsg[t] # NULL <=> /\ pc[t] = "MBX" /\ tskstat[t] # "WAI"
                                           /\ wupcause[t] = "E_OK"

\* No task waits at a mailbox that holds a message.
NoMessageWithheld ==
  \A m \in MBXID : mbx_queue[m] # << >> => wait_queue[Mbx(m)] = << >>

\* Messages keep their order: one that is sent stands ahead of a queued one
\* exactly when the mailbox is TA_MPRI and its priority is higher, they are taken
\* from the head, and a message that finds receivers goes to the first of them.
MessagesKeepOrder ==
  [][/\ \A m \in MBXID : mbxexs[m] /\ mbxexs'[m] =>
          LET q == mbx_queue[m]
              r == mbx_queue'[m]
          IN /\ KeepsPlaces(q, r, LAMBDA b, a : mbxatr[m].mpri /\ MsgPri[b] < MsgPri[a])
             /\ \/ Elems(q) \subseteq Elems(r)
                \/ r = Tail(q)
     /\ \A m \in MBXID, b \in TSKID : Served(Mbx(m), b) => b = Head(wait_queue[Mbx(m)])]_vars

\* A task that tk_sta_tsk() has started runs from its entry.
StartRunsFromEntry == TaskRuns => pc[current] # "exit"

-----------------------------------------------------------------------------
(* Liveness.  Traps are fair because the hardware takes a pending interrupt  *)
(* that is enabled, and strongly so because external interrupts and DI()     *)
(* sections come between; handlers and the tail of a wait end; applications  *)
(* turn interrupts on again.                                                 *)
Fairness ==
  /\ SF_vars(timer_interrupt) /\ SF_vars(mtrap_handler)
  /\ WF_vars(TrapExit)
  /\ WF_vars(TaskEI)
  /\ WF_vars(Idle)
  /\ WF_vars(ClockTick)

FairSpec == Spec /\ Fairness

\* A switch that was requested is made.
SwitchServed == msip ~> (~msip \/ halted # "no")

\* A wait with a time limit ends.
TimedWaitEnds ==
  \A t \in TSKID : t \in Elems(timer_queue) ~> (t \notin Elems(timer_queue) \/ halted # "no")
=============================================================================
