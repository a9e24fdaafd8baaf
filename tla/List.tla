------------------------------- MODULE List -------------------------------
(***************************************************************************)
(* The lists of the kernel (kernel/list.h): circular, doubly linked, with  *)
(* the links inside the control blocks.  The state is the memory: the two  *)
(* pointers of every link.  An action is a sequence of list operations     *)
(* that the kernel makes in one critical section, at the places named.     *)
(***************************************************************************)
EXTENDS KernelQueue, FiniteSets

CONSTANTS
  Queue,    \* the links that are heads of queues
  Entry,    \* the links in TCBs, control blocks and messages
  Poison,   \* (tkmc_list_head *)0xdeadbeef
  None

ASSUME ListAssumption ==
  /\ Queue \cap Entry = {} /\ IsFiniteSet(Entry)
  /\ Poison \notin Queue \cup Entry
  /\ None \notin Queue \cup Entry

VARIABLES
  mem,      \* mem.next and mem.prev, of every link
  on,       \* what the owner of an entry knows (from tskstat, NOEXS_MASK and the
            \* like): the queue it has linked the entry on, or None
  tested,   \* the entries that their owner may ask whether they are on a queue: it
            \* has not left them poisoned, or with the links of a queue given up
  scan,     \* the head that tkmc_list_for_each_entry_safe() is given, or None
  pos, n,   \* its two cursors
  call      \* history: the last operation, its arguments and the entry it came to

listVars == <<mem, on, tested, scan, pos, n, call>>

Link == Queue \cup Entry

-----------------------------------------------------------------------------
(* The operations, as functions of the memory.  The assignments of an EXCEPT *)
(* are made one after the other, like those of the code.                     *)

tkmc_init_list_head(m, head) == [m EXCEPT !.next[head] = head, !.prev[head] = head]

tkmc_list_empty(m, head) == m.next[head] = head

tkmc_list_del(m, head) ==
  [m EXCEPT !.next[m.prev[head]] = m.next[head],
            !.prev[m.next[head]] = m.prev[head],
            !.next[head] = Poison,
            !.prev[head] = Poison]

\* Mutation: the link that comes after is read again, as prev->next, once new is
\* linked in.
AddBetweenRereads(m, new, prev, next) ==
  [m EXCEPT !.next[new] = next, !.prev[new] = prev, !.next[prev] = new, !.prev[new] = new]

tkmc_list_add_between(m, new, prev, next) ==
  [m EXCEPT !.prev[next] = new,
            !.next[new] = next,
            !.prev[new] = prev,
            !.next[prev] = new]

tkmc_list_add(m, new, head) == tkmc_list_add_between(m, new, head, m.next[head])
tkmc_list_add_tail(m, new, head) == tkmc_list_add_between(m, new, m.prev[head], head)

-----------------------------------------------------------------------------
\* tkmc_init_tcb(), tkmc_init_semcb() and their like.
Init ==
  /\ mem = [next |-> [x \in Link |-> x], prev |-> [x \in Link |-> x]]
  /\ on = [e \in Entry |-> None]
  /\ tested = Entry
  /\ scan = None /\ pos = None /\ n = None
  /\ call = << >>

\* A walk of for_each_entry_safe() runs inside a critical section: what comes in
\* between are the calls of its body, on other queues.
Free(q) == scan # q
Walk == <<scan, pos, n>>

\* tkmc_list_add_tail() of an entry that is on no queue (tk_sta_tsk(),
\* insert_msg_fifo(), tk_del_sem()).
AddTail(e, q) ==
  /\ Free(q) /\ on[e] = None
  /\ mem' = tkmc_list_add_tail(mem, e, q)
  /\ on' = [on EXCEPT ![e] = q]
  /\ tested' = tested \cup {e}
  /\ call' = <<"AddTail", e, q>>
  /\ UNCHANGED Walk

\* Mutation: tkmc_list_add() behind f itself.
AddBehind(e, f) ==
  /\ on[f] # None /\ Free(on[f]) /\ on[e] = None
  /\ mem' = tkmc_list_add(mem, e, f)
  /\ on' = [on EXCEPT ![e] = on[f]]
  /\ tested' = tested \cup {e}
  /\ call' = <<"AddBefore", e, f>>
  /\ UNCHANGED Walk

\* tkmc_list_add() behind the predecessor of f (insert_waiter(),
\* insert_msg_pri()).
AddBefore(e, f) ==
  /\ on[f] # None /\ Free(on[f]) /\ on[e] = None
  /\ mem' = tkmc_list_add(mem, e, mem.prev[f])
  /\ on' = [on EXCEPT ![e] = on[f]]
  /\ tested' = tested \cup {e}
  /\ call' = <<"AddBefore", e, f>>
  /\ UNCHANGED Walk

\* tkmc_list_del() alone, of a task that ends (tk_ext_tsk()).
Del(e) ==
  /\ on[e] # None /\ Free(on[e])
  /\ mem' = tkmc_list_del(mem, e)
  /\ on' = [on EXCEPT ![e] = None]
  /\ tested' = tested \ {e}
  /\ call' = <<"Del", e>>
  /\ UNCHANGED Walk

\* Mutation: the entry is left poisoned.
UnlinkedPoisoned(m, e) == IF tkmc_list_empty(m, e) THEN m ELSE tkmc_list_del(m, e)

\* tkmc_list_del() and tkmc_init_list_head() of an entry, if its own link says that
\* it is on a queue (tkmc_complete_wait(), tk_rcv_mbx()).
Unlinked(m, e) ==
  IF tkmc_list_empty(m, e) THEN m ELSE tkmc_init_list_head(tkmc_list_del(m, e), e)

\* The owner asks the link whether or not it is on a queue, and so must have left it
\* in a state that answers: a sleep is on no wait queue, and tk_rcv_mbx() asks again
\* when tkmc_complete_wait() has unlinked it.
Unlink(e) ==
  /\ e \in tested /\ (on[e] # None => Free(on[e]))
  /\ mem' = Unlinked(mem, e)
  /\ on' = [on EXCEPT ![e] = None]
  /\ tested' = tested
  /\ call' = <<"Unlink", e>>
  /\ UNCHANGED Walk

\* tkmc_list_del() and tkmc_list_add_tail() (tkmc_yield(),
\* tkmc_schedule_timer(), tk_exd_tsk()).
Requeue(e, q) ==
  /\ on[e] # None /\ Free(on[e]) /\ Free(q)
  /\ mem' = tkmc_list_add_tail(tkmc_list_del(mem, e), e, q)
  /\ on' = [on EXCEPT ![e] = q]
  /\ tested' = tested
  /\ call' = <<"Requeue", e, q>>
  /\ UNCHANGED Walk

\* tkmc_list_add_tail() of an entry, and before it tkmc_list_del() if its own link
\* says that it is on a queue (tkmc_complete_wait(), of the link that has a task on
\* the timer queue or, in a wait without a limit, on none).
Rejoin(e, q) ==
  /\ e \in tested /\ (on[e] # None => Free(on[e])) /\ Free(q)
  /\ mem' = tkmc_list_add_tail(IF tkmc_list_empty(mem, e) THEN mem ELSE tkmc_list_del(mem, e), e, q)
  /\ on' = [on EXCEPT ![e] = q]
  /\ tested' = tested
  /\ call' = <<"Rejoin", e, q>>
  /\ UNCHANGED Walk

\* tkmc_list_first_entry() of a queue that is not empty, unlinked and initialised
\* (tk_cre_tsk(), pop_waiting_receiver()).
TakeFirst(q) ==
  /\ Free(q) /\ ~tkmc_list_empty(mem, q)
  /\ LET e == mem.next[q]
     IN /\ mem' = tkmc_init_list_head(tkmc_list_del(mem, e), e)
        /\ on' = [on EXCEPT ![e] = None]
        /\ call' = <<"TakeFirst", q, e>>
  /\ tested' = tested
  /\ UNCHANGED Walk

\* The head alone is initialised (tk_del_mbx()): the entries keep their links, to
\* the head and to each other, and may be linked again.
Abandon(q) ==
  /\ Free(q)
  /\ mem' = tkmc_init_list_head(mem, q)
  /\ on' = [e \in Entry |-> IF on[e] = q THEN None ELSE on[e]]
  /\ tested' = {e \in tested : on[e] # q}
  /\ call' = <<"Abandon", q>>
  /\ UNCHANGED Walk

\* The first part of for_each_entry_safe().
ForEachStart(q) ==
  /\ scan = None
  /\ scan' = q
  /\ pos' = mem.next[q]
  /\ n' = mem.next[mem.next[q]]
  /\ call' = <<"ForEachStart", q>>
  /\ UNCHANGED <<mem, on, tested>>

\* Mutation: tkmc_list_for_each_entry(), which reads the link of the entry that
\* the body may have unlinked.
AdvanceUnsafe(m) == /\ pos' = m.next[pos]
                    /\ n' = m.next[pos]

\* pos = n, n = tkmc_list_next_entry(n), on the memory m that the body leaves.
Advance(m) == /\ pos' = n
              /\ n' = m.next[n]

\* A turn of the loop: the body leaves the entry on the queue, or unlinks it
\* (tk_set_flg(), tkmc_sem_serve_waiters()).
ForEachBody ==
  /\ scan # None /\ pos # scan
  /\ \/ /\ Advance(mem)
        /\ call' = <<"Passed", pos>>
        /\ UNCHANGED <<mem, on>>
     \/ /\ mem' = Unlinked(mem, pos)
        /\ Advance(Unlinked(mem, pos))
        /\ on' = [on EXCEPT ![pos] = None]
        /\ call' = <<"Unlinked", pos>>
  /\ UNCHANGED <<scan, tested>>

ForEachEnd ==
  /\ scan # None /\ pos = scan
  /\ scan' = None /\ pos' = None /\ n' = None
  /\ call' = <<"ForEachEnd">>
  /\ UNCHANGED <<mem, on, tested>>

Next ==
  \/ \E e \in Entry : \/ Del(e) \/ Unlink(e)
                      \/ \E q \in Queue : AddTail(e, q) \/ Requeue(e, q) \/ Rejoin(e, q)
                      \/ \E f \in Entry : AddBefore(e, f)
  \/ \E q \in Queue : TakeFirst(q) \/ Abandon(q) \/ ForEachStart(q)
  \/ ForEachBody
  \/ ForEachEnd

Spec == Init /\ [][Next]_listVars

-----------------------------------------------------------------------------
ListTypes ==
  /\ mem \in [next : [Link -> Link \cup {Poison}], prev : [Link -> Link \cup {Poison}]]
  /\ on \in [Entry -> Queue \cup {None}]
  /\ scan \in Queue \cup {None} /\ tested \in SUBSET Entry

\* The links that are on a queue, with the heads.
Linked == Queue \cup {e \in Entry : on[e] # None}

\* The two pointers of every link on a queue agree with those of its neighbours,
\* which are on a queue too, whatever was linked, unlinked and abandoned: no
\* queue leads to an entry that has left, or was left behind with old pointers.
\* An entry that tkmc_complete_wait() may ask tells the truth: it is linked to
\* itself if it is on no queue, and else it is not.
LinksMatched ==
  /\ ListTypes
  /\ \A x \in Linked : /\ {mem.next[x], mem.prev[x]} \subseteq Linked
                       /\ mem.prev[mem.next[x]] = x /\ mem.next[mem.prev[x]] = x
  /\ \A e \in Entry : on[e] # None => e \in tested
  /\ \A e \in tested : tkmc_list_empty(mem, e) <=> on[e] = None

-----------------------------------------------------------------------------
\* The entries from the link x on to the head q, following next in the memory m; a
\* value that is no queue if they do not lead there.
Entries(m, x, q) ==
  LET at[i \in 0..Cardinality(Entry)] ==
        IF i = 0 THEN x ELSE IF at[i - 1] \in Link THEN m.next[at[i - 1]] ELSE Poison
      ends == {i \in 0..Cardinality(Entry) : at[i] = q}
      len == CHOOSE i \in ends : \A j \in ends : i <= j
  IN IF ends = {} THEN <<q>> ELSE [i \in 1..len |-> at[i - 1]]

Queues == INSTANCE QueueSpec
            WITH queue <- [q \in Queue |-> Entries(mem, mem.next[q], q)],
                 todo <- IF scan = None THEN << >> ELSE Entries(mem, pos, scan)

\* The pointers implement queues: every operation does to the sequence of
\* entries what the one of its name does in QueueSpec, at the same place (the
\* tail, before the entry it is given, the first one), and a walk visits every
\* entry once, in order, also when its body unlinks the one it is at.
ImplementsQueues == Queues!Spec
=============================================================================
