------------------------------- MODULE Intctl -------------------------------
(***************************************************************************)
(* The interrupt controller (kernel/intctl.c) and the entry and exit of    *)
(* the external trap (kernel/asm/rv32/start.S), which may nest: a handler  *)
(* that turns interrupts on is interrupted by sources of higher priority.  *)
(*                                                                         *)
(* The PLIC is the one of the QEMU virt board as the code relies on it: it *)
(* raises a source that is pending, enabled, not claimed and above the     *)
(* threshold; it looks for one only when a line or the threshold changes   *)
(* and at a claim or a completion; it ignores the completion of a source   *)
(* that is off.                                                            *)
(***************************************************************************)
EXTENDS Integers, Sequences

CONSTANTS
  CFN_MAX_INTNO,     \* the handler table has the numbers below this one
  PLIC_SOURCE_COUNT, \* the PLIC has the sources below this one
  PLIC_MAX_PRIORITY,
  Level              \* levels that callers of EnableInt() give

ASSUME IntctlAssumption ==
  /\ CFN_MAX_INTNO \in Nat /\ PLIC_SOURCE_COUNT \in Nat
  /\ CFN_MAX_INTNO >= 1 /\ CFN_MAX_INTNO <= PLIC_SOURCE_COUNT
  /\ PLIC_MAX_PRIORITY \in Nat /\ PLIC_MAX_PRIORITY >= 1
  /\ Level \subseteq Int

VARIABLES
  s_handlers,  \* the numbers that have a handler
  (* The PLIC. *)
  priority, enable, pending, claimed, threshold,
  meip,        \* it raises the external interrupt
  (* The processor. *)
  mie,         \* mstatus.MIE
  masked,      \* MTIE and MSIE are off
  stack        \* the external traps that have not returned, outermost first:
               \* where the trap stands, its source and the threshold it found;
               \* level (history) is the priority of the source when claimed

vars == <<s_handlers, priority, enable, pending, claimed, threshold, meip,
          mie, masked, stack>>

Src == 1..PLIC_SOURCE_COUNT - 1
is_intno(intno) == intno \in 1..CFN_MAX_INTNO - 1

Depth == Len(stack)
Top == stack[Depth]

\* The sources that may be raised, given the registers.
Raisable(pe, cl, en, pr, th) ==
  {s \in Src : s \in pe /\ s \notin cl /\ s \in en /\ pr[s] > th}

\* The PLIC looks for a source, with the registers as they are now written.
Look == meip' = (Raisable(pending', claimed', enable', priority', threshold') # {})

\* tkmc_init_intctl(), and boot: no trap runs.
Init ==
  /\ s_handlers = {}
  /\ priority = [s \in Src |-> 0]
  /\ enable = {} /\ pending = {} /\ claimed = {}
  /\ threshold = 0
  /\ meip = FALSE
  /\ mie = TRUE /\ masked = FALSE
  /\ stack = << >>

-----------------------------------------------------------------------------
(* Calls, by a task or by the handler on top of the stack. *)

Caller == Depth > 0 => Top.at = "handler"

\* handler says whether a handler is defined or the definition cancelled.
tk_def_int(intno, handler) ==
  /\ Caller
  /\ s_handlers' = IF ~mie \/ Depth > 0 \/ ~is_intno(intno) THEN s_handlers
                   ELSE IF handler THEN s_handlers \cup {intno} ELSE s_handlers \ {intno}
  /\ UNCHANGED <<priority, enable, pending, claimed, threshold, meip, mie, masked, stack>>

LevelOk(level) == level >= 1 /\ level <= PLIC_MAX_PRIORITY

\* Mutation: the threshold is not written.
NoThresholdWrite == UNCHANGED <<threshold, meip>>

\* Mutation: the threshold is written as 0.
ThresholdOpened == threshold' = 0 /\ Look

\* out_w(PLIC_THRESHOLD, in_w(PLIC_THRESHOLD)): the PLIC looks again.
ThresholdRewritten == UNCHANGED threshold /\ Look

EnableInt(intno, level) ==
  /\ Caller
  /\ is_intno(intno) /\ LevelOk(level)
  /\ priority' = [priority EXCEPT ![intno] = level]
  /\ enable' = enable \cup {intno}
  /\ UNCHANGED <<s_handlers, pending, claimed, mie, masked, stack>>
  /\ ThresholdRewritten

\* The PLIC does not look: it may go on raising the interrupt.
DisableInt(intno) ==
  /\ Caller
  /\ is_intno(intno)
  /\ enable' = enable \ {intno}
  /\ UNCHANGED <<s_handlers, priority, pending, claimed, threshold, meip, mie, masked, stack>>

\* DI() and EI() of a task or a handler.
SetMie(on) ==
  /\ Caller
  /\ mie' = on
  /\ UNCHANGED <<s_handlers, priority, enable, pending, claimed, threshold, meip, masked, stack>>

-----------------------------------------------------------------------------
\* A device asserts its line, or keeps it asserted while its source is claimed.
Assert(s) ==
  /\ pending' = pending \cup {s}
  /\ UNCHANGED <<s_handlers, priority, enable, claimed, threshold, mie, masked, stack>>
  /\ Look

\* The top frame goes on at at.
Moved(at) == [stack EXCEPT ![Depth].at = at]

\* Entry of external_interrupt: the outermost trap masks MTIE and MSIE.
external_interrupt ==
  /\ mie /\ meip
  /\ mie' = FALSE
  /\ masked' = (masked \/ Depth = 0)
  /\ stack' = Append(stack, [at |-> "claim", intno |-> 0, threshold |-> 0, level |-> 0])
  /\ UNCHANGED <<s_handlers, priority, enable, pending, claimed, threshold, meip>>

\* Mutation: the handler runs with the threshold it finds.
ThresholdLeft(s) == UNCHANGED threshold

\* The threshold while the handler of s runs.
ThresholdRaised(s) == threshold' = priority[s]

\* tkmc_external_interrupt() up to the call of the handler.  The claim gives the
\* lowest number of the highest priority, or 0 when the source that was raised
\* has been switched off meanwhile.
Claim ==
  /\ Depth > 0 /\ Top.at = "claim"
  /\ LET r == Raisable(pending, claimed, enable, priority, threshold)
     IN \/ /\ r = {}
           /\ stack' = Moved("exit")
           /\ UNCHANGED <<pending, claimed, threshold>>
        \/ \E s \in r :
             /\ \A q \in r : priority[q] < priority[s] \/ (priority[q] = priority[s] /\ s <= q)
             /\ pending' = pending \ {s}
             /\ claimed' = claimed \cup {s}
             /\ LET handled == is_intno(s) /\ s \in s_handlers
                IN /\ stack' = [stack EXCEPT ![Depth] =
                                  [at |-> IF handled THEN "handler" ELSE "default",
                                   intno |-> s, threshold |-> threshold,
                                   level |-> priority[s]]]
                   /\ IF handled THEN ThresholdRaised(s) ELSE UNCHANGED threshold
  /\ UNCHANGED <<s_handlers, priority, enable, mie, masked>>
  /\ Look

\* The handler returns, with interrupts off: the threshold is put back.
HandlerReturn ==
  /\ Depth > 0 /\ Top.at = "handler" /\ ~mie
  /\ threshold' = Top.threshold
  /\ stack' = Moved("served")
  /\ UNCHANGED <<s_handlers, priority, enable, pending, claimed, mie, masked>>
  /\ Look

\* Mutation: the source is switched on for its completion and left on.
CompletedLeftOn(s, staysOn) == claimed' = claimed \ {s} /\ enable' = enable \cup {s}

\* Mutation: the completion is written with the source as it is.
CompletedAsIs(s, staysOn) ==
  /\ claimed' = IF s \in enable THEN claimed \ {s} ELSE claimed
  /\ enable' = IF staysOn THEN enable ELSE enable \ {s}

\* The source is on while its completion is written.
Completed(s, staysOn) ==
  /\ claimed' = claimed \ {s}
  /\ enable' = IF staysOn THEN enable \cup {s} ELSE enable \ {s}

\* The rest of tkmc_external_interrupt(): the completion, at which the PLIC
\* looks, and the switching off after it, at which it does not.
Complete ==
  /\ Depth > 0 /\ Top.at \in {"served", "default"}
  /\ LET s == Top.intno
     IN /\ Completed(s, Top.at = "served" /\ s \in enable)
        /\ meip' = (Raisable(pending, claimed \ {s}, enable \cup {s}, priority, threshold) # {})
  /\ stack' = Moved("exit")
  /\ UNCHANGED <<s_handlers, priority, pending, threshold, mie, masked>>

\* Mutation: every exit unmasks.
UnmaskAlways == masked' = FALSE

\* Only the outermost exit unmasks MTIE and MSIE.
Unmask == masked' = (masked /\ Depth # 1)

\* The exit of external_interrupt; mret turns interrupts on again.
Exit ==
  /\ Depth > 0 /\ Top.at = "exit"
  /\ stack' = SubSeq(stack, 1, Depth - 1)
  /\ mie' = TRUE
  /\ Unmask
  /\ UNCHANGED <<s_handlers, priority, enable, pending, claimed, threshold, meip>>

Next ==
  \/ \E intno \in 0..CFN_MAX_INTNO, handler \in BOOLEAN : tk_def_int(intno, handler)
  \/ \E intno \in 0..CFN_MAX_INTNO, level \in Level : EnableInt(intno, level)
  \/ \E intno \in 0..CFN_MAX_INTNO : DisableInt(intno)
  \/ \E on \in BOOLEAN : SetMie(on)
  \/ \E s \in Src : Assert(s)
  \/ external_interrupt
  \/ Claim
  \/ HandlerReturn
  \/ Complete
  \/ Exit

Spec == Init /\ [][Next]_vars

-----------------------------------------------------------------------------
At == {"claim", "handler", "default", "served", "exit"}

\* Every variable has its type: the PLIC is never given a priority it does not
\* have, and only numbers of the table have a handler or are switched on.
IntctlTypeOK ==
  /\ s_handlers \subseteq 1..CFN_MAX_INTNO - 1
  /\ priority \in [Src -> 0..PLIC_MAX_PRIORITY]
  /\ enable \subseteq 1..CFN_MAX_INTNO - 1
  /\ pending \subseteq Src /\ claimed \subseteq Src
  /\ threshold \in 0..PLIC_MAX_PRIORITY
  /\ meip \in BOOLEAN /\ mie \in BOOLEAN /\ masked \in BOOLEAN
  /\ stack \in Seq([at : At, intno : Src \cup {0},
                    threshold : 0..PLIC_MAX_PRIORITY, level : 0..PLIC_MAX_PRIORITY])

\* A handler is interrupted by sources of a higher priority than its own and by
\* no other, whatever the handlers do to the levels meanwhile, so that the
\* interrupt stack never holds more frames than there are priorities.
NestingOrdered ==
  /\ \A i, j \in 1..Depth : i < j /\ stack[j].intno # 0 => stack[i].level < stack[j].level
  /\ Depth <= PLIC_MAX_PRIORITY

\* The threshold is the level of the innermost handler that runs, and 0 when
\* none does: it is put back in the order in which it was raised.
ThresholdMatches ==
  LET hs == {i \in 1..Depth : stack[i].at = "handler"}
  IN threshold = IF hs = {} THEN 0
                 ELSE stack[CHOOSE i \in hs : \A j \in hs : j <= i].level

\* No source stays claimed for ever: the claimed ones are those of the traps
\* that have not come to their completion, also when a handler has switched its
\* own source off, and every trap has one of its own.
ClaimsHeld ==
  /\ claimed = {stack[i].intno : i \in {j \in 1..Depth : stack[j].at \in {"handler", "default", "served"}}}
  /\ \A i, j \in 1..Depth : i # j /\ stack[i].at # "exit" /\ stack[j].at # "exit"
                             => stack[i].intno # stack[j].intno

\* The interrupt is raised whenever a source could be: none that was pending when
\* it was switched on waits until another line changes.
NoneMissed == Raisable(pending, claimed, enable, priority, threshold) # {} => meip

\* The timer and software interrupts are masked while an external trap runs,
\* and unmasked in a task.
HandlersMasked == masked <=> Depth > 0

\* A source that is off is switched on by EnableInt() only: the completion of a
\* source that its handler switched off, or that has no handler, leaves it off.
OffStaysOff == [][stack' # stack => enable' \subseteq enable]_vars
=============================================================================
