------------------------------ MODULE Mailbox ------------------------------
(***************************************************************************)
(* Mailboxes (kernel/mailbox.c).  A message is linked into the queue of    *)
(* its mailbox, so that the application must not send a message again      *)
(* before it has it back: owned is what the application holds.             *)
(***************************************************************************)
EXTENDS EventFlag

CONSTANTS
  Msg,      \* the messages of the application
  MsgPri,   \* their msgpri
  MbxAtr,   \* attributes that callers of tk_cre_mbx() ask for: see MAtr
  MbxTmo    \* time limits of tk_rcv_mbx()

\* TA_TPRI (else TA_TFIFO) and TA_MPRI (else TA_MFIFO).
MAtr == [tpri : BOOLEAN, mpri : BOOLEAN]

ASSUME MailboxAssumption ==
  /\ NULL \notin Msg
  /\ MsgPri \in [Msg -> Int]
  /\ MbxAtr \subseteq MAtr
  /\ MbxTmo \subseteq Int

VARIABLES
  (* One function per field of the MBXCBs; mbxexs is FALSE where the ID has *)
  (* NOEXS_MASK.                                                            *)
  mbxexs, mbxatr, mbx_queue,
  free_mbxcb,   \* tkmc_free_mbxcb
  mbxmsg,       \* winfo.mailbox.msg of every TCB
  owned         \* the messages that the application holds

mbxVars == <<mbxexs, mbxatr, mbx_queue, free_mbxcb, mbxmsg, owned>>

NoMAtr == [tpri |-> FALSE, mpri |-> FALSE]

tkmc_init_mbxcb ==
  /\ mbxexs = [m \in MBXID |-> FALSE]
  /\ mbxatr = [m \in MBXID |-> NoMAtr]
  /\ mbx_queue = [m \in MBXID |-> << >>]
  /\ free_mbxcb = [i \in MBXID |-> i]
  /\ mbxmsg = [t \in TSKID |-> NULL]
  /\ owned = Msg

-----------------------------------------------------------------------------
\* Mutation: a message that does not go to the head goes to the tail.
InsertMsgAtEnds(q, msg) ==
  IF q # << >> /\ MsgPri[msg] < MsgPri[Head(q)] THEN <<msg>> \o q ELSE Append(q, msg)

\* The message queue q after insert_msg_pri() of msg: behind the last message if
\* that is not of a lower priority, else before the first that is.
insert_msg_pri(q, msg) ==
  LET lower == {i \in 1..Len(q) : MsgPri[msg] < MsgPri[q[i]]}
      n == CHOOSE i \in lower : \A j \in lower : i <= j
  IN IF q # << >> /\ MsgPri[msg] >= MsgPri[q[Len(q)]] THEN Append(q, msg)
     ELSE IF lower # {} THEN LinkedBefore(q, n, msg)
     ELSE Append(q, msg)

\* Mutation: a task with a time limit is not taken for a receiver.
PopEndless(mbxid) ==
  LET q == wait_queue[Mbx(mbxid)]
  IN IF q # << >> /\ delay_ticks[Head(q)] = 0 THEN Head(q) ELSE NULL

\* Mutation: a receiver whose wait is over and that has not run yet is found too.
PopLate(mbxid) ==
  LET late == {t \in TSKID : pc[t] = "MBX" /\ winfo[t].obj = Mbx(mbxid)}
  IN IF late # {} THEN CHOOSE t \in late : TRUE ELSE NULL

\* The head of the wait queue: every task on the queue of a mailbox waits for it
\* (WaitersQueued), so that the code's loop never goes round.
pop_waiting_receiver(mbxid) ==
  LET q == wait_queue[Mbx(mbxid)] IN IF q # << >> THEN Head(q) ELSE NULL

-----------------------------------------------------------------------------
(* The calls. *)

\* E_RSATR and E_LIMIT change nothing.
tk_cre_mbx(atr) ==
  /\ Caller
  /\ UNCHANGED <<taskVars, edges, mbxmsg, owned>>
  /\ IF free_mbxcb = << >>
     THEN UNCHANGED <<mbxexs, mbxatr, mbx_queue, free_mbxcb>>
     ELSE LET m == Head(free_mbxcb)
          IN /\ free_mbxcb' = Tail(free_mbxcb)
             /\ mbxexs' = [mbxexs EXCEPT ![m] = TRUE]
             /\ mbxatr' = [mbxatr EXCEPT ![m] = atr]
             /\ mbx_queue' = [mbx_queue EXCEPT ![m] = << >>]

\* Every receiver is released; the messages that are queued are the
\* application's again.
tk_del_mbx(mbxid) ==
  /\ Caller
  /\ UNCHANGED edges
  /\ IF ~mbxexs[mbxid]
     THEN UNCHANGED <<taskVars, mbxVars>>
     ELSE LET ts == wait_queue[Mbx(mbxid)]
          IN /\ CompleteWaits(ts, AllCause("E_DLT"), 0)
             /\ DispatchIfNeeded(Enqueued(ts))
             /\ mbxmsg' = [t \in TSKID |-> IF t \in Elems(ts) THEN NULL ELSE mbxmsg[t]]
             /\ mbxexs' = [mbxexs EXCEPT ![mbxid] = FALSE]
             /\ mbxatr' = [mbxatr EXCEPT ![mbxid] = NoMAtr]
             /\ mbx_queue' = [mbx_queue EXCEPT ![mbxid] = << >>]
             /\ free_mbxcb' = Append(free_mbxcb, mbxid)
             /\ owned' = owned \cup Elems(mbx_queue[mbxid])
             /\ UNCHANGED <<itskpri, wupcnt, sp, winfo, pc, free_tcb, current, cpuVars,
                            credit>>

\* The first receiver gets the message; without one it is queued.
tk_snd_mbx(mbxid, msg) ==
  /\ Caller
  /\ msg \in owned
  /\ UNCHANGED <<edges, mbxexs, mbxatr, free_mbxcb>>
  /\ IF \/ ~mbxexs[mbxid]                                \* E_NOEXS
        \/ mbxatr[mbxid].mpri /\ MsgPri[msg] <= 0        \* E_PAR
     THEN UNCHANGED <<taskVars, mbx_queue, mbxmsg, owned>>
     ELSE /\ owned' = owned \ {msg}
          /\ LET t == pop_waiting_receiver(mbxid)
             IN IF t # NULL
             THEN /\ mbxmsg' = [mbxmsg EXCEPT ![t] = msg]
                  /\ CompleteWaits(<<t>>, AllCause("E_OK"), 0)
                  /\ DispatchIfNeeded(Enqueued(<<t>>))
                  /\ UNCHANGED <<itskpri, wupcnt, sp, winfo, pc, free_tcb, current,
                                 cpuVars, credit, mbx_queue>>
             ELSE /\ mbx_queue' = [mbx_queue EXCEPT
                                     ![mbxid] = IF mbxatr[mbxid].mpri
                                                THEN insert_msg_pri(@, msg)
                                                ELSE Append(@, msg)]
                  /\ UNCHANGED <<taskVars, mbxmsg>>

tk_rcv_mbx(mbxid, tmout) ==
  /\ Caller
  /\ UNCHANGED <<edges, mbxexs, mbxatr, free_mbxcb>>
  /\ IF \/ tmout < TMO_FEVR                              \* E_PAR
        \/ ~tkmc_can_block                               \* E_CTX
        \/ ~mbxexs[mbxid]                                \* E_NOEXS
     THEN UNCHANGED <<taskVars, mbx_queue, mbxmsg, owned>>
     ELSE IF mbx_queue[mbxid] # << >>
     THEN /\ mbx_queue' = [mbx_queue EXCEPT ![mbxid] = Tail(@)]
          /\ owned' = owned \cup {Head(mbx_queue[mbxid])}
          /\ UNCHANGED <<taskVars, mbxmsg>>
     ELSE IF tmout = TMO_POL                             \* E_TMOUT
     THEN UNCHANGED <<taskVars, mbx_queue, mbxmsg, owned>>
     ELSE /\ mbxmsg' = [mbxmsg EXCEPT ![current] = NULL]
          /\ JoinQueue(Mbx(mbxid), 0, mbxatr[mbxid].tpri)
          /\ IF tmout > 0 THEN tkmc_schedule_timer(tkmc_ms_to_ticks(tmout), "MBX")
                          ELSE BeginWait("MBX", 0, 0)
          /\ UNCHANGED <<mbx_queue, owned>>

\* The second half of tk_rcv_mbx(): the task takes the message, if it got one.
MbxReturn ==
  /\ TaskRuns
  /\ pc[current] = "MBX"
  /\ pc' = [pc EXCEPT ![current] = "run"]
  /\ CauseTaken
  /\ wait_queue' = Unqueued({current})
  /\ delay_ticks' = [delay_ticks EXCEPT ![current] = 0]
  /\ tskwait' = [tskwait EXCEPT ![current] = "none"]
  /\ mbxmsg' = [mbxmsg EXCEPT ![current] = NULL]
  /\ owned' = IF wupcause[current] = "E_OK" THEN owned \cup {mbxmsg[current]} ELSE owned
  /\ UNCHANGED <<tskstat, itskpri, wupcnt, sp, winfo, ready_queue, timer_queue, free_tcb,
                 current, next, msip, cpuVars, left, credit, edges,
                 mbxexs, mbxatr, mbx_queue, free_mbxcb>>
=============================================================================
