-------------------------------- MODULE Clint --------------------------------
(***************************************************************************)
(* The machine timer (kernel/timer.c): a 64 bit clock and compare value    *)
(* that an RV32 processor reads and writes as two words while the clock    *)
(* runs.  Module Timer sees it as a number of tick edges; here are the     *)
(* accesses that count them.  They are made with interrupts off, by one    *)
(* caller at a time: tkmc_start_timer(), tkmc_timer_handler() or           *)
(* tkmc_schedule_timer().                                                  *)
(***************************************************************************)
EXTENDS Integers

CONSTANTS
  Word,         \* number of values of a word, 2^32
  TICK_COUNTS,
  MaxTime       \* bound: the clock stops there, before the high word wraps

ASSUME ClintAssumption ==
  /\ Word \in Nat /\ Word >= 2
  /\ TICK_COUNTS \in Nat /\ TICK_COUNTS >= 1
  /\ MaxTime \in Nat /\ MaxTime + TICK_COUNTS < Word * Word

VARIABLES
  mtime, mtimecmp,   \* the registers
  s_mtimecmp,        \* the kernel's copy of the compare value
  (* The caller that runs, or none, and its locals. *)
  call, pc,
  high, low, value,  \* of read_mtime(); value also is what write_mtimecmp() writes
  edge,              \* the local mtimecmp of pass_elapsed_periods()
  periods,
  (* History. *)
  asked,             \* the time at which the read, or its caller, began
  old                \* the compare value before the write began

vars == <<mtime, mtimecmp, s_mtimecmp, call, pc, high, low, value, edge, periods,
          asked, old>>

Init ==
  /\ mtime = 0
  /\ mtimecmp \in 0..Word * Word - 1   \* reset and boot code may leave any value
  /\ s_mtimecmp = 0
  /\ call = "tkmc_start_timer" /\ pc = "high"
  /\ high = 0 /\ low = 0 /\ value = 0 /\ edge = 0 /\ periods = 0
  /\ asked = [read |-> 0, call |-> 0]
  /\ old = mtimecmp

\* The hardware.
Clock ==
  /\ mtime < MaxTime
  /\ mtime' = mtime + 1
  /\ UNCHANGED <<mtimecmp, s_mtimecmp, call, pc, high, low, value, edge, periods, asked, old>>

\* The timer interrupt, or one that comes when MTIP is cleared late; or a call
\* that begins a timed wait.
Begin(c) ==
  /\ call = "none"
  /\ call' = c
  /\ pc' = "high"
  /\ edge' = s_mtimecmp
  /\ periods' = 0
  /\ asked' = [read |-> mtime, call |-> mtime]
  /\ UNCHANGED <<mtime, mtimecmp, s_mtimecmp, high, low, value, old>>

-----------------------------------------------------------------------------
(* read_mtime(). *)

ReadHigh ==
  /\ pc = "high"
  /\ high' = mtime \div Word
  /\ pc' = "low"
  /\ UNCHANGED <<mtime, mtimecmp, s_mtimecmp, call, low, value, edge, periods, asked, old>>

ReadLow ==
  /\ pc = "low"
  /\ low' = mtime % Word
  /\ pc' = "next_high"
  /\ UNCHANGED <<mtime, mtimecmp, s_mtimecmp, call, high, value, edge, periods, asked, old>>

\* Mutation: the high word is not compared.
SameHighUnchecked == TRUE

SameHigh == high = mtime \div Word

ReadNextHigh ==
  /\ pc = "next_high"
  /\ IF SameHigh THEN value' = high * Word + low /\ pc' = "value"
                 ELSE UNCHANGED value /\ pc' = "high"
  /\ UNCHANGED <<mtime, mtimecmp, s_mtimecmp, call, high, low, edge, periods, asked, old>>

-----------------------------------------------------------------------------
\* Mutation: an edge is counted when the time is past it.
EdgePassedLate == value > edge

EdgePassed == value >= edge

\* One turn of the loop of pass_elapsed_periods(), with the time just read.
pass_elapsed_periods ==
  /\ pc = "value" /\ call # "tkmc_start_timer"
  /\ IF EdgePassed
     THEN /\ edge' = edge + TICK_COUNTS
          /\ periods' = periods + 1
          /\ pc' = "high"
          /\ asked' = [asked EXCEPT !.read = mtime]
     ELSE /\ pc' = "counted"
          /\ UNCHANGED <<edge, periods, asked>>
  /\ UNCHANGED <<mtime, mtimecmp, s_mtimecmp, call, high, low, value, old>>

\* tkmc_start_timer(): the first edge is a tick from now.
StartEdge ==
  /\ pc = "value" /\ call = "tkmc_start_timer"
  /\ s_mtimecmp' = value + TICK_COUNTS
  /\ value' = value + TICK_COUNTS
  /\ pc' = "write_first"
  /\ UNCHANGED <<mtime, mtimecmp, call, high, low, edge, periods, asked, old>>

\* Mutation: the next edge is a tick after the time that was read.
NextEdgeFromNow == value + TICK_COUNTS

\* The first edge that is still ahead.
NextEdge == edge

\* tkmc_timer_handler() goes on if an edge has passed; tkmc_schedule_timer() adds
\* the count to the wait and leaves the compare value alone.
Counted ==
  /\ pc = "counted"
  /\ IF call = "tkmc_timer_handler" /\ periods > 0
     THEN /\ s_mtimecmp' = NextEdge
          /\ value' = NextEdge
          /\ pc' = "write_first"
          /\ UNCHANGED call
     ELSE /\ call' = "none" /\ pc' = "done"
          /\ UNCHANGED <<s_mtimecmp, value>>
  /\ UNCHANGED <<mtime, mtimecmp, high, low, edge, periods, asked, old>>

-----------------------------------------------------------------------------
(* write_mtimecmp(). *)

Hi(v) == v \div Word
Lo(v) == v % Word

\* Mutation: the first store is left out.
FirstStoreLeftOut == mtimecmp

\* The low word is all ones first.
FirstStore == Hi(mtimecmp) * Word + Word - 1

WriteFirst ==
  /\ pc = "write_first"
  /\ old' = mtimecmp
  /\ mtimecmp' = FirstStore
  /\ pc' = "write_high"
  /\ UNCHANGED <<mtime, s_mtimecmp, call, high, low, value, edge, periods, asked>>

SecondStore == Hi(value) * Word + Lo(mtimecmp)

WriteHigh ==
  /\ pc = "write_high"
  /\ mtimecmp' = SecondStore
  /\ pc' = "write_low"
  /\ UNCHANGED <<mtime, s_mtimecmp, call, high, low, value, edge, periods, asked, old>>

WriteLow ==
  /\ pc = "write_low"
  /\ mtimecmp' = Hi(mtimecmp) * Word + Lo(value)
  /\ pc' = "done"
  /\ call' = "none"
  /\ old' = value
  /\ UNCHANGED <<mtime, s_mtimecmp, high, low, value, edge, periods, asked>>

Next ==
  \/ Clock
  \/ \E c \in {"tkmc_timer_handler", "tkmc_schedule_timer"} : Begin(c)
  \/ ReadHigh \/ ReadLow \/ ReadNextHigh
  \/ pass_elapsed_periods \/ StartEdge \/ Counted
  \/ WriteFirst \/ WriteHigh \/ WriteLow

Spec == Init /\ [][Next]_vars

-----------------------------------------------------------------------------
\* A read returns a time that the clock showed during it, though the words were
\* read one by one while the clock ran: never half of one time and half of
\* another.
ReadsTrue == pc = "value" => asked.read <= value /\ value <= mtime

\* Tick edges from s_mtimecmp that the clock had passed at time t.
EdgesAt(t) == IF t < s_mtimecmp THEN 0 ELSE (t - s_mtimecmp) \div TICK_COUNTS + 1

\* The count takes every edge that had passed when the call began, and none that
\* has not passed yet: module Timer may count the edges in one step.
CountTrue ==
  pc = "counted" => EdgesAt(asked.call) <= periods /\ periods <= EdgesAt(mtime)

\* While the compare value is written word by word it never is below both its
\* old and its new value, so that the timer does not fire before either, and
\* between calls the hardware compares with the edge the kernel counts from.
WriteNotEarly ==
  /\ pc \in {"write_high", "write_low"} => mtimecmp >= old \/ mtimecmp >= value
  /\ call = "none" => mtimecmp = s_mtimecmp

\* No edge is skipped or counted twice, over any number of interrupts: the edge
\* that the next interrupt counts from is as many ticks on as periods were counted,
\* however long the count took.
EdgesKept ==
  [][s_mtimecmp' # s_mtimecmp /\ call = "tkmc_timer_handler"
       => s_mtimecmp' = s_mtimecmp + periods * TICK_COUNTS]_vars
=============================================================================
