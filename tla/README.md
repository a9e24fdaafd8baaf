# tsukumo-core in TLA+

A model of the tsukumo-core kernel (a small uT-Kernel for one RV32 hart): its
tasks, time limits, semaphores, event flags, mailboxes, traps and scheduler, its
lists, interrupt controller, machine timer and memory routines as TLA+ modules,
model-checked with TLC on small instances and proved with TLAPS for every number
of tasks, priorities, objects, messages, limits and interrupt sources.  Source
paths below are relative to `src/`.

## The system

| Part | Source | State | Operations |
| --- | --- | --- | --- |
| Task manager | `kernel/task.c`, `context.h`, `dispatch.h` | TCBs, ready queues by priority, free list, `current`, `next` | `tk_cre_tsk`, `tk_sta_tsk`, `tk_ext_tsk`, `tk_exd_tsk`, `tk_rel_wai`, `tk_wup_tsk`, `tkmc_yield`, `tkmc_complete_wait`, `tkmc_idle_can_halt` |
| Kernel timer | `kernel/timer.c`, `timer.h` | timer queue, `delay_ticks`, `s_mtimecmp`, the CLINT | `tk_slp_tsk`, `tk_dly_tsk`, `tkmc_schedule_timer`, `tkmc_timer_handler` |
| Traps, scheduler | `kernel/asm/rv32/start.S`, `kernel/start.c` | saved frames, MSIP, `mstatus.MIE`, `mie`, `tkmc_isr_depth` | software, timer and external trap, `schedule` |
| Idle task | `kernel/asm/rv32/idl_tsk.S` | - | test, `wfi`, yield |
| Semaphores | `kernel/semaphore.c` | count, maximum, attributes, wait queue, free list | create, delete, wait, signal, hand-off |
| Event flags | `kernel/event_flag.c` | pattern, attributes, wait queue, free list | create, wait, set, clear |
| Mailboxes | `kernel/mailbox.c` | message queue, wait queue, attributes, free list | create, delete, send, receive |
| Interrupt controller | `kernel/intctl.c` | handler table, PLIC priority, enable, threshold, claim | define, enable, disable, dispatch of a claim |
| Lists | `kernel/list.h` | two links in every control block | insert, delete, traverse |
| Startup, panic | `kernel/start.c`, `panic.c` | the first failure | `tkmc_start`, fatal stops |
| Memory routines | `kernel/memset.c`, `memcpy.c` | - | fill, copy |

One processor runs the kernel and the application.  A kernel call disables
interrupts from its `DI()` to its `EI()`.  A call that wants another task to run
stores the choice in `next` and raises the software interrupt; the switch is made
later, by whichever trap comes next.  What makes this hard is that window: an
external interrupt is taken before the software interrupt, so its handler may
make calls about a task that has given up the processor and has not left it, and
a task that holds interrupts off may make many calls between a request and the
switch.  Time is a second source of trouble: tick edges pass while interrupts are
off, waits begin with edges pending, and one late interrupt may end many waits.
Semaphores add a third: a waiter that leaves without its units may have held back
the ones behind it, so that the end of one wait ends others, inside the loop of
the timer handler too.  Event flags and mailboxes hand a result to a task that
runs later, when the flag or the mailbox has changed again or is gone.

What makes each part correct: every control block is linked on exactly the queue
that its state says; the processor runs the first ready task of the highest
priority; equal priorities take turns; a wait lasts at least as long as asked
and ends; wakeups are neither lost nor used twice; the idle task never halts with
work to do; units, patterns and messages go to exactly one taker.

## Modules

| Module | Models |
| --- | --- |
| `KernelQueue` | queues as sequences: what the list operations do to the order of control blocks |
| `Task` | `kernel/task.c`: a function per TCB field, the queues, the scheduling primitives, the beginning and end of a wait, the task calls |
| `Timer` | `kernel/timer.c`: timed waits over the number of tick edges the handler has not counted |
| `Semaphore` | `kernel/semaphore.c`, and the ends of a wait that hand units on: `tk_rel_wai` and the walk of the timer handler over its deadlines |
| `EventFlag` | `kernel/event_flag.c`: patterns, and the walk of `tk_set_flg` along its waiters |
| `Mailbox` | `kernel/mailbox.c`: messages, queued or handed to a receiver |
| `Kernel` | the composition with traps, `schedule()`, idle loop and the application's `DI()`/`EI()`; the properties |
| `MCKernel` | values for TLC |
| `List` | `kernel/list.h`: the pointers, and the sequences of list operations that the kernel makes |
| `QueueSpec` | what the other modules take a list for, operation by operation: the abstract specification that `List` implements |
| `Intctl` | `kernel/intctl.c` and the entry and exit of the external trap: handlers that nest |
| `Clint` | the accesses of `kernel/timer.c` to the two words of the clock and of the compare value |
| `Memory` | `kernel/memset.c`, `kernel/memcpy.c`, loop by loop |
| `KernelQueueProofs`, `SemaphoreProofs` | lemmas about queues, and about what a hand-off does |
| `KernelProofs` | the steps preserve the invariants of the queues and of the waits; their theorems |
| `OutcomeProofs` | what a wait ends with, time limits, the idle task, and what flags, mailboxes and semaphores promise their waiters |
| `ListProofs`, `IntctlProofs`, `ClintProofs`, `MemoryProofs` | theorems about the pointers of the lists and the queues they implement, about nested interrupts, about the two-word timer and about the memory routines |

`Task` <- `Timer` <- `Semaphore` <- `EventFlag` <- `Mailbox` <- `Kernel` <-
`MCKernel` by `EXTENDS`.  `List`, `Intctl`, `Clint` and `Memory` stand alone; their
variables are not those of `Kernel`.
They look closer at what `Kernel` takes as one step: its external trap
(`isr = "ext"`) is a stack of nested traps in `Intctl`, whose `HandlersMasked` is
why no timer or software trap is taken meanwhile; its count of tick edges is
a loop of two-word reads in `Clint`, whose `CountTrue` and `EdgesKept` are why
`Timer` may treat the edges as a number.

State and code.  `tskstat`, `tskwait`, `itskpri`, `delay_ticks`, `wupcause`,
`wupcnt` and `sp` are the TCB fields; a stack pointer is `"null"`, `"init"` (the
frame that `tk_sta_tsk()` builds) or `"live"` (a trap's frame).  `pc` says where
a task's own code stands: in the application, in the second half of a call that
waited, in the tail of an exit call, or in the idle loop.  `msip` is the software
interrupt, `mie` the interrupt flag of the task that runs or is interrupted,
`isr` the trap whose C code runs.  `winfo` is the object a task waits for, or
waited for last, with its request, and `wait_queue` the wait queue of every
object.  `semexs`, `sematr`, `semcnt` and `maxsem` are the SEMCB fields, `flgexs`,
`flgatr` and `flgptn` those of the FLGCBs, `mbxexs`, `mbxatr` and `mbx_queue` those
of the MBXCBs.  `flgwait` is what a TCB holds of a wait for a flag (condition and
pattern handed over), `mbxmsg` the message that a receiver was given.  A pattern
is the set of its bits; a message is a name with a priority (`MsgPri`).  `owned`
is what the application holds: it sends only such messages, since a message is
linked by a field of its own, and `tk_del_mbx()` leaves it the queued ones.  `left`,
`credit`, `ledger` and `orphan` are history variables that no step of the kernel
reads: tick edges a wait has still to see, wakeups granted minus sleeps they
ended, units put into a semaphore minus units its takers have returned with, and
the tasks that hold units of a semaphore that was deleted before they returned.

A call that ends several waits, or one whose end ends others, is still one
action: `Serve` walks a wait queue like `tkmc_sem_serve_waiters()`, `Leave` adds
to the ended waits the ones that a departure lets through, `TimedOut` repeats
`Leave` deadline by deadline, and `CompleteWaits` makes them all ready in that
order.  `Leave` works on the counts and the queue as the departures before it
left them.  `SetWalk` is the loop of `tk_set_flg()`, with the pattern as the waiters
ahead have left it.

`Uses` names what an application does (calls, `DI()` sections, external
interrupts).  It restricts the runs, to keep their state spaces small; the
theorems hold for every value of it.

Each call is one action, because it runs with interrupts off; a refused call is
a stuttering step.  `tk_dly_tsk(0)` turns interrupts on and off again between its
test and `tkmc_yield()`; the test reads only the context, which a trap leaves as
it was, so a trap in the gap is the same as one before the call, and the call is
one action.  A call may run with tick edges pending, since the clock does not stop.
External handlers are one state, `isr = "ext"`, in which any sequence of calls is
made; nested handlers add no other sequences.  A synchronous exception is
possible only where the code runs into a stack that was overwritten
(`ExitReturns`).  The idle task's steps are separate, as its code is outside any
`DI()` section before the test.  `Init` is the state `tkmc_start()` leaves: the
initial task running, the idle task ready.

`Intctl`.  `stack` holds the external traps that have not returned, each with
the place its code has reached, its source and the threshold it saved; `level`
is history.  The calls are actions of their own, by a task or by the handler on
top, which may turn interrupts on; it turns them off before it returns, as
`start.S` demands of it.  The PLIC is external and modelled from what `intctl.c`
says of it (QEMU's virt board): it looks for a source to raise only when a line
or the threshold changes and at a claim or completion, and it ignores the
completion of a source that is off.  The switch of tasks at the outermost exit is
in `Kernel`.

`Clint`.  One access to a word is one step, and the clock may advance between any
two.  `call` is the function that runs; `asked` and `old` are history.

`List`.  `mem` is the two pointers of every link, `on` what the owner of an entry
knows of it.  The operations are functions of the memory; an action is a sequence
of them that a call of the kernel makes, and a traversal is a step per turn, whose
body may unlink the entry it is at, with operations on other queues in between.
`tkmc_complete_wait()` decides from the two links of a task whether to unlink them
(`Rejoin`, `Unlink`).  Which links it may ask is in `tested`: not one that `tk_ext_tsk()` left poisoned
(`Del`), nor a message that `tk_del_mbx()` left behind.  That function initialises the
head of its messages alone (`Abandon`): they keep their pointers and are sent again.

`ImplementsQueues` maps every head to the sequence of entries its pointers lead
through (`Entries`) and a traversal to the entries it has still to visit.
`QueueSpec` has an action for each operation of `List`, by the same name, that says
where an entry comes to stand or from where it is taken.  That alone would not tie
an operation to its place: an entry linked in behind `f` stands before the one that
follows `f`, as if that one had been given.  So both modules write the operation, its
arguments and the entry it came to in `call`, a history variable that they share, and
a step of `List` has to be the step of `QueueSpec` that it says it is.  This is why
`Kernel` may have sequences, with `LinkedBefore`, `Append`, `Head` and `Tail`.

`Memory`.  A step is a turn of a loop.  The two cursors `d8` and `s8` move on their
own, and `mem` records which source byte was stored where, around the destination
too.

## Runs

| Run | Instance | Shows |
| --- | --- | --- |
| `kernel_tasks` | 4 TCBs, 2 priorities (and one invalid), no queued wakeups, no time | queues, dispatch, idle and FIFO order through creation, start, exit, deletion and reuse of TCBs |
| `kernel_timers` | 3 TCBs, 1 queued wakeup, limits of 10 ms, polls and waits for ever, up to 2 late edges | timers, wakeup counts and causes |
| `kernel_semaphores` | 4 TCBs (initial task of priority 1, two of 2), 1 semaphore of up to 2 units in 3 attribute combinations, waits for ever and polls, handlers | types and limits, wait queues, units, order of waiters through waits, signals, releases and deletion |
| `kernel_semtimers` | 4 TCBs, 3 of priority 1, 1 TA_FIRST semaphore, limits of 10 ms and polls, up to 2 late edges | the hand-off inside a late timer handler |
| `kernel_flags` | 4 TCBs, 2 priorities, 1 flag of 2 bits (TA_WMUL by arrival, TA_WSGL by priority), 3 wait modes, waits for ever and polls | no pattern missed, every waiter gets one that meets its condition, bits used in turn |
| `kernel_mailboxes` | 4 TCBs, 2 priorities, 1 mailbox (by arrival or by priority), 4 messages (one of an invalid priority, two equal ones), limits of 10 ms, 1 late edge | messages conserved, not withheld, in order, through limits, releases and deletion |
| `lists` | 2 queues, 3 entries | pointers consistent, links that may be tested tell the truth, and the refinement of `QueueSpec` |
| `kernel_live` | 3 TCBs, 1 flag, sleeps and flag waits of 10 ms, 1 late edge, fair | every requested switch is made, every timed wait ends |
| `interrupt_controller` | 3 sources, 3 priorities, a number and levels out of range | nesting by priority, thresholds, claims, pending sources, masks |
| `machine_timer` | words of 4 values, 3 counts a tick, 12 counts | true reads, every edge counted once, safe writes of the compare value |
| `memory_routines` | real word and block, all alignments, sizes up to 72 | bounds, alignment and result of both routines |
| `kernel_restart` | 3 TCBs | violation: a task restarted by a handler before it was switched out does not run from its entry |

Bounds.  Two TCBs are the initial and the idle task; one or two more give a task
that waits, one that is not current, and a reuse of a TCB.  Two priorities give
preemption and, with the idle task's priority shared, turns.  A limit of 10 ms is
two ticks, so two late edges reach and pass it; `MaxEdges` bounds only how late
the timer interrupt may be.  `TK_WAKEUP_MAXCNT` 0 and 1 reach the limit from both
sides.  At a semaphore three application tasks give a waiter, one behind it and
a third that signals, takes or deletes; two units and requests for 1 and 2 give a
head that is held back while units are there.  In `kernel_semtimers` waits that
begin in different ticks have different deadlines, and two late edges reach both.
At a flag two or three waiters with two bits give one that is served, one that is
passed over and one whose bits the first has cleared.  At a mailbox four messages
give a queue of three valid priorities with a tie and a place between two, and
two receivers with another sender give a message that meets a receiver whose limit
runs out.  Three entries give the middle of a queue to insert at and to unlink.
The types of all variables of `Kernel` are checked in `kernel_semaphores` and proved;
those of `Clint` and `List` are not stated apart from their properties.
Three sources of three priorities nest as deep as the priorities allow, with two
of equal priority in other states.  Words of 4 values make the clock carry into
the high word during reads and writes, and a tick is not a divisor of a word; the
clock stops before the high word wraps, which takes thousands of years.  72 bytes
are two blocks, with every remainder of words and bytes after the first.

Fairness (`kernel_live`).  The hardware takes a pending interrupt that is enabled;
it is strong fairness because external interrupts and `DI()` sections may disable
the trap again and again.  Handlers return, an application that turned interrupts
off turns them on again, the idle loop and the clock go on.  No fairness is
assumed of the application's calls.  In `memory_routines` the routine's own loops
go on (weak fairness of its next step).

## The finding

`schedule()` stores the frame of the interrupted task in `current->sp` whatever
has happened to that TCB since (`kernel/start.c:153`).  `tk_ext_tsk()` makes the
task dormant and turns interrupts on; an external interrupt that is pending then
is taken before the software interrupt.  If its handler starts the dormant task
again, `tk_sta_tsk()` resets `sp` and builds the first frame, and the switch at
the exit of the trap overwrites `sp` with the frame of the dead run.  The task
goes on in the tail of `tk_ext_tsk()`, on a stack that has been written to.
`kernel/task.c:303` promises otherwise.  The same holds for `tk_exd_tsk()`
followed by `tk_cre_tsk()` and `tk_sta_tsk()` of the TCB.  The other runs and the
proofs include these behaviours: the queues and the scheduler stay consistent.

## Proofs

The theorems hold for all constants that satisfy the assumptions of the modules
(`TaskAssumption`, `TimerAssumption`, `SemaphoreAssumption`, `EventFlagAssumption`,
`MailboxAssumption`, `ListAssumption`, `IntctlAssumption`, `ClintAssumption`, `MemoryAssumption`),
which TLC evaluates in the runs.

### Queues and dispatch (`KernelProofs`)

`Spec => [](KernelInv /\ WaitInv)` (`KernelSafe`) gives `TypesHold`, `QueuesHold`,
`DispatchHolds` and `WaitQueuesHold`.

`KernelInv` is `TaskTypes /\ TasksStanding /\ QueuesConsistent /\ DispatchRight`.
`QueuesConsistent` and `DispatchRight` are not inductive alone: `schedule()` needs
a ready task in `next`, which exists because the idle task is always ready, and
the queues need every existing task to have a valid priority and only the current
task to be marked as running (`TasksStanding`).  `WaitInv` is
`WaitTypes /\ SemTypes /\ FlgTypes /\ MbxTypes /\ WaitQueuesConsistent`.  The two
need each other: a hand-off makes ready every task it finds on a wait queue, which keeps the ready
queues right only because those tasks wait and stand there once, and a wait queue
is right only because the tasks that join it were running.

`KernelProofs` shows `KernelInv /\ WaitInv /\ [Next]_vars => KernelInv'`, one lemma
per action on top of two shared ones, `BeginWaitInv` and `CompleteWaitsInv`, and
then the same for `WaitInv'`, on top of `CompletedInv` (waits that
end), `JoinedWaits` (a task that joins a wait queue), and `CbTaken` and `CbFreed`
(the free list of a kind of object).  `TicksCoverTime` is about the rounding of a
limit to ticks.

`SemaphoreProofs` proves what the others use of `Serve`, `Leave` and `TimedOut`:
the waits that end are waits, each ends once, every expired one does and no other
is timed out, no more units are handed out than there are, and the units that leave
the count are those the tasks that were served asked for (`HandedOut`).
`KernelQueueProofs` proves what `Keep`, `Without`, `Append`, `Tail`, concatenation
and the insertion by priority do to the elements, uniqueness and order of a queue.
`Keep`, `Serve` and `TimedOut` are recursive functions; `StepwiseFunction` shows
that such a function exists and `StepwiseStays` that what its steps keep holds at
its end, both from the least counterexample (`LeastNat`), as the provers cannot
use an induction principle.

### What a wait ends with (`OutcomeProofs`)

`OutcomeInv` is `StandInv /\ TimersExact`.  `CauseFresh` and `WakeupsConserved` are
not inductive: a cause is fresh because a waiting task stands inside the call of
its wait, one that does not exist or is dormant stands in none, and a task that
was switched out inside a call has a live frame, from which the scheduler makes it
go on there; `Stands` says this of one task.  With it come `CausesHold`,
`WakeupsHold`, `TimersHold`, and `TimeoutsHold`, for which `NoOtherTimeout` shows
that only the timer handler ends a wait with `E_TMOUT`.  `IdleHolds` needs
`IdleSafe`: from the test to the end of `wfi` interrupts are off and the idle task is
the one that runs, so that no call comes between.

`QueuesMove` sorts the steps of the system by what they do to the wait queues:
nothing, tasks leave, or the current task joins one queue.  From it come:

- `PatternsHold` and `NoFlagMissedHolds` (`FlagInv`).  The walk of `tk_set_flg()` shows
  every waiter a pattern that contains the one it leaves behind, so that a waiter
  it passed over is not met by the rest.
- `MessagesHold` and `NoMessageHolds`.  Counting the places of a message is beyond
  an inductive step, so `MailInv` names them: a message has exactly one holder
  (`OnePlace`) among the application, the mailboxes and the receivers, and a step
  moves messages from one holder to another (`MovedOnce`).
- `PlacesHold`, from the wait queue of a TA_TPRI object being in the order of the
  priorities (`PlacesInv`) and no attribute or priority changing under a waiter.
- `NoUnitsHolds`, `ServedHolds` and `HeadHolds`.  `Short` says that the waiters that
  are left cannot be served, relative to a set of tasks that have been taken off
  and to the units that are left, so that it can be carried through a walk
  (`InOrder`): `Serve`, `Leave` and the deadlines of `TimedOut` each leave it true.
  `SemMoves` then sorts the steps into those that leave a semaphore alone, hand
  units out in order, close it, take from it, or wait at it.
- `LateHandlerHolds`.  `EndedInTime` is carried through the walk of the timer handler
  with `InOrder`: the deadlines come in order (`ByDeadline`, from `Expired`), so that
  when the handler comes to a waiter all that leave before its deadline have left.
- `BitsHold`.  `InTurn` says, behind every waiter of the walk of `tk_set_flg()`, which
  of the bits that were there or that the call sets are left, that those that were
  served got exactly these, and that it would not have served the ones that were
  passed over.  `SetServes` shows that only `tk_set_flg()` ends a
  wait for a flag with `E_OK`.
- `MessageOrderHolds`.  `insert_msg_pri()` looks at the last message before it searches,
  which is right only for a queue in the order of the priorities: that of a TA_MPRI
  mailbox is (`OrderInv`), as `MsgMoves` shows that a step adds one message in its
  place, takes the head, or empties the queue.  The receiver that is served is the
  first (`FirstReceives`), because a wait at a mailbox that ends with `E_OK` is one
  that was given a message (`MailInv`).
- `FifoHolds`.  `ReadyMoves` sorts the steps by what they do to the ready queues: tasks
  come in at a tail, the current task leaves, or it goes to the tail of its queue.
- `UnitsHold`.  `UnitsConserved` is not inductive: a semaphore that is created again
  has no units out only because a deletion makes orphans of the tasks that have some, and a
  task that keeps units of a deleted semaphore stops doing so when it returns.
  `UnitInv` says both.  A signal, a late timer handler and a forced release each serve
  several tasks: `Accounts` carries the balance through the walk (`LeaveAccounts`,
  `TimedOutAccounts`) with `HandedOut`, and `UnitsGrow` turns it into the step.  The
  other steps change nothing that is counted (`OthersKeepUnits`), as the request of a
  task inside its call stays as it is (`FieldsKept`).

  The sum is the community modules' fold, a recursive function on sets.
  `SumFunExists` shows that the fold is the function its equation defines, with
  `StepwiseFunction` over the cardinalities, and `UnitsChoose` gives that equation.
  That the element taken off does not matter (`UnitsRemove`), and so the sum of a
  disjoint union (`UnitsUnion`), come from the smallest set of which it would not hold
  (`LeastSet`), again instead of an induction principle.

### The other modules

`LinksHold` (`ListProofs`).  `LinksMatched` is not inductive: nothing in it keeps two
entries from forming a ring of their own, of which unlinking one leaves the other
linked to itself.  `ListInv` adds the queue that a link belongs to, which its
neighbours share, and a rank that grows along `next` up to the head, so that every
ring has its head, and that the cursors of a walk are at two links of the queue that
it walks.  The rank is a witness only: inserting an entry doubles all ranks to make
room for one.  That an entry which may be tested and is on no queue leads to itself
(`Honest`) holds because no operation writes the link of an entry that is on no queue,
but for the one it is given (`DelLoose`, `AddLoose`, `UnlinkLoose`).  The lemmas on the
operations (`DelOrdered`, `AddOrdered`, ...) take the
memory as an argument, so that actions that make several in a row compose them.

`QueuesImplemented` (`ListProofs`) is the refinement of `QueueSpec` by the pointers.
`Represents(m, o, Q)` says which sequences the memory stands for: along `next` the
head of a queue, its entries in order and the head again (`Ring`), each entry on the
queue its owner knows.  A lemma for each operation says what it does to the
sequences (`AddRing`, `DelRing`, `InitRing`, `ClearRing`, and `TailRing`, `UnlinkRing` from
them), and `EntriesRead` that the refinement mapping, which follows `next` until it is
at the head, reads exactly these, from every place of the ring.  Then there is a
lemma for each action, that it is the one of its name in `QueueSpec`: for `AddBefore`
the link ahead of `f` is that of the place before, for `TakeFirst` the queue without
its first entry is its tail (`WithoutFirst`), and for a turn of the loop (`BodyStep`) the
link read in advance is the next place also in the ring without the entry.
The theorem needs that the entries are finitely many (in
`ListAssumption`; the control blocks are static arrays), which bounds the mapping.

`NestingHolds`, `ThresholdHolds` and `IntctlTypesHold` (`IntctlProofs`) follow from
`NestInv`.  That frames are ordered by priority is not inductive: a new trap is
above those below it because the PLIC raised its source above the threshold, so
the invariant says what the threshold is (`Guarded`), that it comes back when a
handler returns because every handler saved the level below it, and that only
the trap on top is outside its handler (`Shape`).  The bound on the depth needs
that the trap at place i has a level of at least i and that the PLIC raises
nothing at the highest threshold.  `ServiceInv` adds the claims to it, and gives
`ClaimsHold`, `NoneMissedHolds`, `MasksHold` and `OffHolds`.

`ClintProofs`: `ClintInv` says at every access what the words read so far tell of
the clock, so that `ReadsHold`, `CountsHold`, `WritesHold` and `EdgesHold` follow for
every word size and tick length.

`MemoryProofs`: `MemoryInBounds` follows from no loop taking off more bytes than
are left and the two cursors moving together (`BoundsInv`), `MemoryStoredRight` from
the bytes stored so far being right (`StoredInv`), `MemoryAligned` from the word loops
starting at a multiple of a word, in both buffers, and moving by words (`AlignInv`).  `MemoryTurnsEnd` is a variant: the
bytes and the loops that are left are a natural number that every turn lowers, for
which a word and a block must not be empty.

### Only model-checked

- `SwitchServed`, `TimedWaitEnds` and `StoresAll` are liveness properties, which the
  prover cannot treat.  `MemoryStoredRight` is the safety half of `StoresAll`, and
  `MemoryTurnsEnd` leaves to it only that the loops go on.
- `StartRunsFromEntry` does not hold; its run shows the finding.

Every invariant and every action property of the other runs has a theorem.

## Not modelled

There is no abstract semaphore that `Semaphore` is shown to implement: what it would
promise (the units are conserved, none is withheld, those that can be served are, in
the order of the queue) is stated of the kernel itself, by `UnitsConserved`,
`NoUnitsWithheld`, `ServedInOrder` and `HeadNotPassed`.

The stages of `tkmc_start()` are not steps: they run in order, before interrupts
are on and with no other actor, and a failure of one stops the system at once
(`tkmc_fatal_startup()`).  `Init` is what they leave.  The words that the fatal
stops record for a debugger (`kernel/panic.c`) are left out; that the system stops
is in `halted`.

Board code, tests and the initial task are application code: any sequence of
calls the model allows.
