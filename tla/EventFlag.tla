----------------------------- MODULE EventFlag -----------------------------
(***************************************************************************)
(* Event flags (kernel/event_flag.c).  A pattern is the set of its bits    *)
(* that are 1.                                                             *)
(***************************************************************************)
EXTENDS Semaphore

CONSTANTS
  Bit,      \* the bits of a pattern
  FlgAtr,   \* attributes that callers of tk_cre_flg() ask for: see FAtr
  FlgPtn,   \* patterns that callers give
  WfMode,   \* modes that callers of tk_wai_flg() give: see Mode
  FlgTmo    \* time limits of tk_wai_flg()

\* TA_TPRI (else TA_TFIFO) and TA_WMUL (else TA_WSGL).
FAtr == [tpri : BOOLEAN, wmul : BOOLEAN]

\* TWF_ORW (else TWF_ANDW), TWF_CLR and TWF_BITCLR.
Mode == [orw : BOOLEAN, clr : BOOLEAN, bitclr : BOOLEAN]

ASSUME EventFlagAssumption ==
  /\ FlgAtr \subseteq FAtr
  /\ FlgPtn \subseteq SUBSET Bit
  /\ WfMode \subseteq Mode
  /\ FlgTmo \subseteq Int

VARIABLES
  (* One function per field of the FLGCBs; flgexs is FALSE where the ID has *)
  (* NOEXS_MASK.                                                            *)
  flgexs, flgatr, flgptn,
  free_flgcb,   \* tkmc_free_flbcb
  flgwait       \* winfo.event_flag of every TCB: NoFlgWait outside tk_wai_flg(),
                \* where nothing reads it

flgVars == <<flgexs, flgatr, flgptn, free_flgcb, flgwait>>

NoFAtr == [tpri |-> FALSE, wmul |-> FALSE]
NoFlgWait == [waiptn |-> {}, flgptn |-> {},
              wfmode |-> [orw |-> FALSE, clr |-> FALSE, bitclr |-> FALSE]]

tkmc_init_flgcb ==
  /\ flgexs = [f \in FLGID |-> FALSE]
  /\ flgatr = [f \in FLGID |-> NoFAtr]
  /\ flgptn = [f \in FLGID |-> {}]
  /\ free_flgcb = [i \in FLGID |-> i]
  /\ flgwait = [t \in TSKID |-> NoFlgWait]

-----------------------------------------------------------------------------
check_ptn(ptn, waiptn, wfmode) ==
  IF wfmode.orw THEN ptn \cap waiptn # {} ELSE waiptn \subseteq ptn

\* The pattern that a wait leaves behind: TWF_CLR goes before TWF_BITCLR.
ClearedBy(ptn, waiptn, wfmode) ==
  IF wfmode.clr THEN {} ELSE IF wfmode.bitclr THEN ptn \ waiptn ELSE ptn

\* Mutation: one waiter is served.
SetStepOnce(w, t) ==
  IF w.met = {} /\ check_ptn(w.ptn, flgwait[t].waiptn, flgwait[t].wfmode)
  THEN [ptn |-> ClearedBy(w.ptn, flgwait[t].waiptn, flgwait[t].wfmode),
        met |-> {t}, got |-> [w.got EXCEPT ![t] = w.ptn]]
  ELSE w

\* Mutation: a waiter gets the pattern that its own clearing has left.
SetStepClearsFirst(w, t) ==
  LET after == ClearedBy(w.ptn, flgwait[t].waiptn, flgwait[t].wfmode)
  IN IF check_ptn(w.ptn, flgwait[t].waiptn, flgwait[t].wfmode)
     THEN [ptn |-> after, met |-> w.met \cup {t}, got |-> [w.got EXCEPT ![t] = after]]
     ELSE w

\* Mutation: a waiter that is served clears nothing.
SetStepKeeps(w, t) ==
  IF check_ptn(w.ptn, flgwait[t].waiptn, flgwait[t].wfmode)
  THEN [w EXCEPT !.met = @ \cup {t}, !.got = [@ EXCEPT ![t] = w.ptn]]
  ELSE w

\* The body of the loop of tk_set_flg(), for the waiter t: if the pattern w.ptn
\* meets its condition it gets the pattern and then clears its part of it.
SetStep(w, t) ==
  IF check_ptn(w.ptn, flgwait[t].waiptn, flgwait[t].wfmode)
  THEN [ptn |-> ClearedBy(w.ptn, flgwait[t].waiptn, flgwait[t].wfmode),
        met |-> w.met \cup {t},
        got |-> [w.got EXCEPT ![t] = w.ptn]]
  ELSE w

\* The loop of tk_set_flg() along the wait queue q, with the pattern ptn.
SetWalk(q, ptn) ==
  LET walk[n \in 0..Len(q)] ==
        IF n = 0 THEN [ptn |-> ptn, met |-> {}, got |-> [t \in TSKID |-> {}]]
        ELSE SetStep(walk[n - 1], q[n])
      end == walk[Len(q)]
  IN [ptn |-> end.ptn, served |-> Keep(q, end.met), got |-> end.got]

-----------------------------------------------------------------------------
(* The calls. *)

\* E_RSATR and E_LIMIT change nothing.
tk_cre_flg(atr, iflgptn) ==
  /\ Caller
  /\ UNCHANGED <<taskVars, edges, flgwait>>
  /\ IF free_flgcb = << >>
     THEN UNCHANGED <<flgexs, flgatr, flgptn, free_flgcb>>
     ELSE LET f == Head(free_flgcb)
          IN /\ free_flgcb' = Tail(free_flgcb)
             /\ flgexs' = [flgexs EXCEPT ![f] = TRUE]
             /\ flgatr' = [flgatr EXCEPT ![f] = atr]
             /\ flgptn' = [flgptn EXCEPT ![f] = iflgptn]

tk_wai_flg(flgid, waiptn, wfmode, tmout) ==
  /\ Caller
  /\ UNCHANGED <<edges, flgexs, flgatr, free_flgcb>>
  /\ IF \/ waiptn = {} \/ tmout < TMO_FEVR               \* E_PAR
        \/ ~tkmc_can_block                               \* E_CTX
        \/ ~flgexs[flgid]                                \* E_NOEXS
        \/ ~flgatr[flgid].wmul /\ wait_queue[Flg(flgid)] # << >>   \* E_OBJ
     THEN UNCHANGED <<taskVars, flgptn, flgwait>>
     ELSE IF check_ptn(flgptn[flgid], waiptn, wfmode)
     THEN /\ flgptn' = [flgptn EXCEPT ![flgid] = ClearedBy(@, waiptn, wfmode)]
          /\ UNCHANGED <<taskVars, flgwait>>
     ELSE IF tmout = TMO_POL                             \* E_TMOUT
     THEN UNCHANGED <<taskVars, flgptn, flgwait>>
     ELSE /\ flgwait' = [flgwait EXCEPT ![current] =
                           [waiptn |-> waiptn, wfmode |-> wfmode, flgptn |-> {}]]
          /\ JoinQueue(Flg(flgid), 0, flgatr[flgid].tpri)
          /\ IF tmout > 0 THEN tkmc_schedule_timer(tkmc_ms_to_ticks(tmout), "FLG")
                          ELSE BeginWait("FLG", 0, 0)
          /\ UNCHANGED flgptn

tk_set_flg(flgid, setptn) ==
  /\ Caller
  /\ UNCHANGED <<edges, flgexs, flgatr, free_flgcb>>
  /\ IF ~flgexs[flgid]
     THEN UNCHANGED <<taskVars, flgptn, flgwait>>
     ELSE LET q == wait_queue[Flg(flgid)]
              v == SetWalk(q, flgptn[flgid] \cup setptn)
          IN /\ flgptn' = [flgptn EXCEPT ![flgid] = v.ptn]
             /\ flgwait' = [t \in TSKID |->
                              IF t \in Elems(v.served)
                              THEN [flgwait[t] EXCEPT !.flgptn = v.got[t]] ELSE flgwait[t]]
             /\ CompleteWaits(v.served, AllCause("E_OK"), 0)
             /\ IF q # << >> THEN DispatchIfNeeded(Enqueued(v.served))
                             ELSE UNCHANGED <<next, msip>>
             /\ UNCHANGED <<itskpri, wupcnt, sp, winfo, pc, free_tcb, current, cpuVars,
                            credit>>

\* clrptn has the bits to keep.
tk_clr_flg(flgid, clrptn) ==
  /\ Caller
  /\ flgptn' = IF flgexs[flgid] THEN [flgptn EXCEPT ![flgid] = @ \cap clrptn] ELSE flgptn
  /\ UNCHANGED <<taskVars, edges, flgexs, flgatr, free_flgcb, flgwait>>

\* The second half of tk_wai_flg(): the task takes the pattern, if it got one.
FlgReturn ==
  /\ WaitReturn("FLG")
  /\ flgwait' = [flgwait EXCEPT ![current] = NoFlgWait]
  /\ UNCHANGED <<flgexs, flgatr, flgptn, free_flgcb>>
=============================================================================
