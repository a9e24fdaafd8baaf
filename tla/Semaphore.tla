----------------------------- MODULE Semaphore -----------------------------
(***************************************************************************)
(* Semaphores (kernel/semaphore.c), and the two ways in which a waiter     *)
(* leaves one without its units, tk_rel_wai() and the time limit: both     *)
(* serve the waiters behind it (tkmc_complete_wait()).                     *)
(***************************************************************************)
EXTENDS Timer

CONSTANTS
  TK_SEMAPHORE_MAXCNT,
  SemAtr,   \* attributes that callers of tk_cre_sem() ask for: see Atr
  SemCnt,   \* counts that callers give
  SemTmo    \* time limits of tk_wai_sem()

\* TA_TPRI (else TA_TFIFO) and TA_CNT (else TA_FIRST).
Atr == [tpri : BOOLEAN, cnt : BOOLEAN]

ASSUME SemaphoreAssumption ==
  /\ TK_SEMAPHORE_MAXCNT \in Nat
  /\ SemAtr \subseteq Atr
  /\ SemCnt \subseteq Int
  /\ SemTmo \subseteq Int

VARIABLES
  (* One function per field of the SEMCBs; semexs is FALSE where the ID has *)
  (* NOEXS_MASK.                                                            *)
  semexs, sematr, semcnt, maxsem,
  free_semcb,   \* tkmc_free_semcb
  (* History. *)
  ledger,       \* units put into the semaphore minus units its takers have
                \* returned with
  orphan        \* tasks that have their units, of a semaphore that was deleted
                \* before they returned

semVars == <<semexs, sematr, semcnt, maxsem, free_semcb, ledger, orphan>>
semcbVars == <<semexs, sematr, maxsem, free_semcb>>

NoAtr == [tpri |-> FALSE, cnt |-> FALSE]

\* tkmc_init_semcb().
tkmc_init_semcb ==
  /\ semexs = [s \in SEMID |-> FALSE]
  /\ sematr = [s \in SEMID |-> NoAtr]
  /\ semcnt = [s \in SEMID |-> 0]
  /\ maxsem = [s \in SEMID |-> 0]
  /\ free_semcb = [i \in SEMID |-> i]
  /\ ledger = [s \in SEMID |-> 0]
  /\ orphan = {}

-----------------------------------------------------------------------------
\* Mutation: the walk goes past a request that is not covered, as under TA_CNT.
ServePast(semid, q, units) ==
  LET walk[n \in 0..Len(q)] ==
        IF n = 0 THEN [units |-> units, served |-> {}]
        ELSE LET w == walk[n - 1]
                 req == winfo[q[n]].req
             IN IF req <= w.units
                THEN [units |-> w.units - req, served |-> w.served \cup {q[n]}] ELSE w
  IN [units |-> walk[Len(q)].units, served |-> Keep(q, walk[Len(q)].served)]

\* Mutation: the units that are handed out are left in the count.
ServeFree(semid, q, units) ==
  [units |-> units, served |-> Keep(q, {t \in TSKID : winfo[t].req <= units})]

\* tkmc_sem_serve_waiters(): the walk along the wait queue q with units units.
\* Under TA_FIRST a request that is not covered ends the walk, so that a waiter
\* is served only if all those ahead of it are.  (The code stops when no unit is
\* left; the walk then serves no one, as a request is never for 0.)
Serve(semid, q, units) ==
  LET walk[n \in 0..Len(q)] ==
        IF n = 0 THEN [units |-> units, served |-> {}]
        ELSE LET w == walk[n - 1]
                 req == winfo[q[n]].req
             IN IF /\ req <= w.units
                   /\ sematr[semid].cnt \/ \A i \in 1..n - 1 : q[i] \in w.served
                THEN [units |-> w.units - req, served |-> w.served \cup {q[n]}]
                ELSE w
  IN [units |-> walk[Len(q)].units, served |-> Keep(q, walk[Len(q)].served)]

\* Mutation: a waiter that leaves serves no one.
LeaveAlone(b, t) == [b EXCEPT !.ts = Append(@, t)]

\* tkmc_complete_wait() of t, with E_TMOUT or E_RLWAI, after the waits of b.ts
\* were ended: t, then the waiters that its semaphore can serve without it.
\* b.given are the tasks served so far, b.units the counts of the semaphores.
Leave(b, t) ==
  IF tskwait[t] # "SEM" THEN [b EXCEPT !.ts = Append(@, t)]
  ELSE LET s == winfo[t].obj[2]
           v == Serve(s, Without(wait_queue[winfo[t].obj], Elems(b.ts) \cup {t}), b.units[s])
       IN [ts    |-> Append(b.ts, t) \o v.served,
           given |-> b.given \cup Elems(v.served),
           units |-> [b.units EXCEPT ![s] = v.units]]

NoneLeft == [ts |-> << >>, given |-> {}, units |-> semcnt]

\* The causes of the waits that end in b.
Causes(b, ercd) == [t \in TSKID |-> IF t \in b.given THEN "E_OK" ELSE ercd]

\* Mutation: every wait that is over ends, and the units are handed out last.
TimedOutTogether(n) ==
  LET e == Expired(n)
      all == [NoneLeft EXCEPT !.ts = e]
  IN IF e = << >> \/ tskwait[e[1]] # "SEM" THEN all
     ELSE LET s == winfo[e[1]].obj[2]
              v == Serve(s, Without(wait_queue[Sem(s)], Elems(e)), semcnt[s])
          IN [ts    |-> e \o v.served,
              given |-> Elems(v.served),
              units |-> [semcnt EXCEPT ![s] = v.units]]

\* Mutation: a wait that a hand-off has ended is ended again.
TimedOutTwice(n) ==
  LET e == Expired(n)
      upTo[i \in 0..Len(e)] == IF i = 0 THEN NoneLeft ELSE Leave(upTo[i - 1], e[i])
  IN upTo[Len(e)]

\* The end of the waits of tkmc_timer_handler(): deadline by deadline, without
\* the waits that an earlier one has ended by a hand-off.
TimedOut(n) ==
  LET e == Expired(n)
      upTo[i \in 0..Len(e)] ==
        IF i = 0 THEN NoneLeft
        ELSE IF e[i] \in Elems(upTo[i - 1].ts) THEN upTo[i - 1]
        ELSE Leave(upTo[i - 1], e[i])
  IN upTo[Len(e)]

\* The waits of b end.
EndWaits(b, ercd, elapsed) ==
  /\ CompleteWaits(b.ts, Causes(b, ercd), elapsed)
  /\ semcnt' = b.units

tk_rel_wai(tskid) ==
  /\ Caller
  /\ IF RelWaiRefused(tskid)
     THEN UNCHANGED <<taskVars, semcnt>>
     ELSE LET b == Leave(NoneLeft, tskid)
          IN /\ EndWaits(b, "E_RLWAI", 0)
             /\ DispatchIfNeeded(Enqueued(b.ts))
             /\ UNCHANGED <<itskpri, wupcnt, sp, winfo, pc, free_tcb, current, cpuVars,
                            credit>>
  /\ UNCHANGED <<edges, semcbVars, ledger, orphan>>

-----------------------------------------------------------------------------
(* The calls. *)

\* E_RSATR, E_PAR and E_LIMIT change nothing.
tk_cre_sem(atr, isemcnt, max) ==
  /\ Caller
  /\ UNCHANGED <<taskVars, edges, orphan>>
  /\ IF \/ max < 1 \/ max > TK_SEMAPHORE_MAXCNT \/ isemcnt < 0 \/ isemcnt > max
        \/ free_semcb = << >>
     THEN UNCHANGED <<semexs, sematr, semcnt, maxsem, free_semcb, ledger>>
     ELSE LET s == Head(free_semcb)
          IN /\ free_semcb' = Tail(free_semcb)
             /\ semexs' = [semexs EXCEPT ![s] = TRUE]
             /\ sematr' = [sematr EXCEPT ![s] = atr]
             /\ semcnt' = [semcnt EXCEPT ![s] = isemcnt]
             /\ maxsem' = [maxsem EXCEPT ![s] = max]
             /\ ledger' = [ledger EXCEPT ![s] = isemcnt]

\* Tasks that were served by the semaphore and have not returned yet.
InFlight(s) == {t \in TSKID : /\ pc[t] = "SEM" /\ tskstat[t] \in {"RDY", "RUN"}
                              /\ wupcause[t] = "E_OK" /\ winfo[t].obj = Sem(s)}

\* Mutation: the waiters are left where they are.
NoneReleased(semid) == << >>

\* The tasks that tk_del_sem() releases: the wait queue, from its head.
Released(semid) == wait_queue[Sem(semid)]

\* Every waiter is released before the SEMCB goes back to the free list.
tk_del_sem(semid) ==
  /\ Caller
  /\ UNCHANGED edges
  /\ IF ~semexs[semid]
     THEN UNCHANGED <<taskVars, semVars>>
     ELSE LET ts == Released(semid)
          IN /\ CompleteWaits(ts, AllCause("E_DLT"), 0)
             /\ IF ts # << >> THEN DispatchIfNeeded(Enqueued(ts))
                              ELSE UNCHANGED <<next, msip>>
             /\ semexs' = [semexs EXCEPT ![semid] = FALSE]
             /\ sematr' = [sematr EXCEPT ![semid] = NoAtr]
             /\ semcnt' = [semcnt EXCEPT ![semid] = 0]
             /\ maxsem' = [maxsem EXCEPT ![semid] = 0]
             /\ free_semcb' = Append(free_semcb, semid)
             /\ ledger' = [ledger EXCEPT ![semid] = 0]
             /\ orphan' = orphan \cup InFlight(semid)
             /\ UNCHANGED <<itskpri, wupcnt, sp, winfo, pc, free_tcb, current, cpuVars,
                            credit>>

\* Mutation: a look at the count alone.
MayTakeAnyway(semid, cnt) == semcnt[semid] >= cnt

\* Enough units, and no waiter comes before the current task.
MayTake(semid, cnt) ==
  LET q == wait_queue[Sem(semid)]
  IN /\ semcnt[semid] >= cnt
     /\ \/ q = << >>
        \/ sematr[semid].cnt
        \/ sematr[semid].tpri /\ itskpri[current] < itskpri[Head(q)]

tk_wai_sem(semid, cnt, tmout) ==
  /\ Caller
  /\ UNCHANGED <<edges, semcbVars, orphan>>
  /\ IF \/ cnt <= 0 \/ tmout < TMO_FEVR                  \* E_PAR
        \/ ~tkmc_can_block                               \* E_CTX
        \/ ~semexs[semid] \/ cnt > maxsem[semid]         \* E_NOEXS, E_PAR
     THEN UNCHANGED <<taskVars, semcnt, ledger>>
     ELSE IF MayTake(semid, cnt)
     THEN /\ semcnt' = [semcnt EXCEPT ![semid] = @ - cnt]
          /\ ledger' = [ledger EXCEPT ![semid] = @ - cnt]
          /\ UNCHANGED taskVars
     ELSE IF tmout = TMO_POL                             \* E_TMOUT
     THEN UNCHANGED <<taskVars, semcnt, ledger>>
     ELSE /\ JoinQueue(Sem(semid), cnt, sematr[semid].tpri)
          /\ IF tmout > 0 THEN tkmc_schedule_timer(tkmc_ms_to_ticks(tmout), "SEM")
                          ELSE BeginWait("SEM", 0, 0)
          /\ UNCHANGED <<semcnt, ledger>>

\* Mutation: the sum is taken without the units that are there already.
SigRoomEmpty(semid, cnt) == cnt <= maxsem[semid]

\* The units fit, before any of them goes to a waiter; E_QOVR otherwise.
SigRoom(semid, cnt) == cnt <= maxsem[semid] - semcnt[semid]

tk_sig_sem(semid, cnt) ==
  /\ Caller
  /\ UNCHANGED <<edges, semcbVars, orphan>>
  /\ IF cnt <= 0 \/ ~semexs[semid] \/ ~SigRoom(semid, cnt)
     THEN UNCHANGED <<taskVars, semcnt, ledger>>
     ELSE LET v == Serve(semid, wait_queue[Sem(semid)], semcnt[semid] + cnt)
          IN /\ CompleteWaits(v.served, AllCause("E_OK"), 0)
             /\ DispatchIfNeeded(Enqueued(v.served))
             /\ semcnt' = [semcnt EXCEPT ![semid] = v.units]
             /\ ledger' = [ledger EXCEPT ![semid] = @ + cnt]
             /\ UNCHANGED <<itskpri, wupcnt, sp, winfo, pc, free_tcb, current, cpuVars,
                            credit>>

\* The second half of tk_wai_sem().
SemReturn ==
  /\ WaitReturn("SEM")
  /\ ledger' = IF current \in InFlight(winfo[current].obj[2]) \ orphan
               THEN [ledger EXCEPT ![winfo[current].obj[2]] = @ - winfo[current].req] ELSE ledger
  /\ orphan' = orphan \ {current}
  /\ UNCHANGED <<semexs, sematr, semcnt, maxsem, free_semcb>>
=============================================================================
