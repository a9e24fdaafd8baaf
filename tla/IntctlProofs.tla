---------------------------- MODULE IntctlProofs ----------------------------
(* Nesting of external interrupts, for every number of sources, priorities   *)
(* and levels: a handler is interrupted by higher priorities only, and the   *)
(* traps are never more than the priorities.                                 *)
EXTENDS Intctl, SequenceTheorems, TLAPS

Frame == [at : At, intno : Src \cup {0},
          threshold : 0..PLIC_MAX_PRIORITY, level : 0..PLIC_MAX_PRIORITY]

\* The level of the trap below frame i.
Below(i) == IF i = 1 THEN 0 ELSE stack[i - 1].level

\* The shape of the stack: a trap below another one is in its handler, a
\* handler has a source, whose level is at least its place, and has saved the
\* level below it, which is lower.
Shape ==
  /\ \A i \in 1..Depth : i < Depth => stack[i].at = "handler"
  /\ \A i \in 1..Depth : stack[i].at = "handler" =>
       stack[i].intno # 0 /\ stack[i].level >= i /\ stack[i].threshold = Below(i)
  /\ \A i \in 1..Depth : stack[i].intno # 0 => Below(i) < stack[i].level
  /\ Depth > 0 /\ Top.at = "claim" => Top.intno = 0

\* The threshold is the level of the innermost handler.
Guarded ==
  threshold = IF Depth = 0 THEN 0
              ELSE IF Top.at = "handler" THEN Top.level ELSE Below(Depth)

\* The inductive invariant: interrupts are on in handlers and in tasks only, and
\* the PLIC raises nothing when the threshold is at its highest.
NestInv ==
  /\ IntctlTypeOK
  /\ Shape
  /\ Guarded
  /\ mie /\ Depth > 0 => Top.at = "handler"
  /\ meip => threshold < PLIC_MAX_PRIORITY
  /\ NestingOrdered

-----------------------------------------------------------------------------
\* The invariant when the stack and the threshold stay as they are.
LEMMA SameStack ==
  ASSUME NestInv, UNCHANGED <<stack, threshold>>, IntctlTypeOK',
         mie' => mie \/ Caller,
         meip' => meip \/ Raisable(pending', claimed', enable', priority', threshold') # {}
  PROVE  NestInv'
<1>1. Shape' /\ Guarded' /\ NestingOrdered'
  BY DEF NestInv, Shape, Guarded, NestingOrdered, Depth, Top, Below
<1>2. mie' /\ Depth' > 0 => Top'.at = "handler"
  BY DEF NestInv, Caller, Depth, Top
<1>3. meip' => threshold' < PLIC_MAX_PRIORITY'
  <2>1. ASSUME NEW s \in Src, priority'[s] > threshold' PROVE threshold' < PLIC_MAX_PRIORITY
    <3>1. priority'[s] \in 0..PLIC_MAX_PRIORITY /\ threshold' \in 0..PLIC_MAX_PRIORITY
      BY DEF IntctlTypeOK
    <3> QED
      BY <2>1, <3>1, IntctlAssumption
  <2> QED
    BY <2>1 DEF NestInv, Raisable
<1> QED
  BY <1>1, <1>2, <1>3 DEF NestInv

\* The PLIC raises the interrupt only above the threshold.
LEMMA LookBelowMax ==
  ASSUME priority' \in [Src -> 0..PLIC_MAX_PRIORITY], threshold' \in 0..PLIC_MAX_PRIORITY, Look
  PROVE  meip' => threshold' < PLIC_MAX_PRIORITY
<1>1. \A s \in Src : priority'[s] > threshold' => threshold' < PLIC_MAX_PRIORITY
  BY IntctlAssumption
<1> QED
  BY <1>1 DEF Look, Raisable

\* A frame of its type.
LEMMA StackFrames ==
  ASSUME NestInv
  PROVE  /\ stack \in Seq(Frame) /\ Depth \in Nat
         /\ \A i \in 1..Depth : stack[i] \in Frame
<1>1. stack \in Seq(Frame)
  BY DEF NestInv, IntctlTypeOK, Frame
<1> QED
  BY <1>1 DEF Depth

\* Calls and devices leave the stack and the threshold as they are.
LEMMA CallsNest ==
  ASSUME NestInv,
         \/ \E intno \in 0..CFN_MAX_INTNO, handler \in BOOLEAN : tk_def_int(intno, handler)
         \/ \E intno \in 0..CFN_MAX_INTNO, level \in Level : EnableInt(intno, level)
         \/ \E intno \in 0..CFN_MAX_INTNO : DisableInt(intno)
         \/ \E on \in BOOLEAN : SetMie(on)
         \/ \E s \in Src : Assert(s)
  PROVE  NestInv'
<1>1. ASSUME NEW intno, NEW handler, tk_def_int(intno, handler) PROVE NestInv'
  <2>1. IntctlTypeOK'
    BY <1>1 DEF tk_def_int, NestInv, IntctlTypeOK, is_intno
  <2> QED
    BY <1>1, <2>1, SameStack DEF tk_def_int
<1>2. ASSUME NEW intno, NEW level \in Level, EnableInt(intno, level) PROVE NestInv'
  <2>1. level \in 0..PLIC_MAX_PRIORITY
    BY <1>2, IntctlAssumption DEF EnableInt, LevelOk
  <2>2. meip' \in BOOLEAN
    BY <1>2 DEF EnableInt, ThresholdRewritten, Look
  <2>3. IntctlTypeOK'
    BY <1>2, <2>1, <2>2 DEF EnableInt, ThresholdRewritten, NestInv, IntctlTypeOK, is_intno
  <2> QED
    BY <1>2, <2>3, SameStack DEF EnableInt, ThresholdRewritten, Look
<1>3. ASSUME NEW intno, DisableInt(intno) PROVE NestInv'
  <2>1. IntctlTypeOK'
    BY <1>3 DEF DisableInt, NestInv, IntctlTypeOK
  <2> QED
    BY <1>3, <2>1, SameStack DEF DisableInt
<1>4. ASSUME NEW on \in BOOLEAN, SetMie(on) PROVE NestInv'
  <2>1. IntctlTypeOK'
    BY <1>4 DEF SetMie, NestInv, IntctlTypeOK
  <2> QED
    BY <1>4, <2>1, SameStack DEF SetMie
<1>5. ASSUME NEW s \in Src, Assert(s) PROVE NestInv'
  <2>1. meip' \in BOOLEAN
    BY <1>5 DEF Assert, Look
  <2>2. IntctlTypeOK'
    BY <1>5, <2>1 DEF Assert, NestInv, IntctlTypeOK
  <2> QED
    BY <1>5, <2>2, SameStack DEF Assert, Look
<1> QED
  BY <1>1, <1>2, <1>3, <1>4, <1>5

\* A trap is taken in a task or a handler, below the highest threshold.
LEMMA EntryNests ==
  ASSUME NestInv, external_interrupt
  PROVE  NestInv'
<1> DEFINE f == [at |-> "claim", intno |-> 0, threshold |-> 0, level |-> 0]
<1>1. stack \in Seq(Frame) /\ Depth \in Nat /\ \A i \in 1..Depth : stack[i] \in Frame
  BY StackFrames
<1>2. f \in Frame
  BY IntctlAssumption DEF Frame, At
<1>3. stack' = Append(stack, f)
  BY DEF external_interrupt
<1>4. f.at = "claim" /\ f.intno = 0
  OBVIOUS
<1> HIDE DEF f
<1>5. /\ Depth' = Depth + 1 /\ stack' \in Seq(Frame)
      /\ stack'[Depth + 1] = f /\ \A i \in 1..Depth : stack'[i] = stack[i]
  BY <1>1, <1>2, <1>3 DEF Depth
<1>6. Depth > 0 => Top.at = "handler" /\ threshold = stack[Depth].level /\ Depth <= stack[Depth].level
  BY <1>1 DEF external_interrupt, NestInv, Guarded, Shape, Top
<1>7. threshold \in Nat /\ threshold < PLIC_MAX_PRIORITY /\ PLIC_MAX_PRIORITY \in Nat
  BY IntctlAssumption DEF external_interrupt, NestInv, IntctlTypeOK
<1>8. Depth' <= PLIC_MAX_PRIORITY
  <2>1. CASE Depth = 0
    BY <1>5, <1>7, <2>1
  <2>2. CASE Depth > 0
    <3>1. stack[Depth].level = threshold /\ Depth <= threshold
      BY <1>6, <2>2
    <3> QED
      BY <1>1, <1>5, <1>7, <3>1
  <2> QED
    BY <1>1, <2>1, <2>2
<1>9. \A i \in 1..Depth : stack[i].at = "handler"
  BY <1>1, <1>6 DEF NestInv, Shape, Top
<1>10. \A i \in 1..Depth' : i \in 1..Depth \/ i = Depth + 1
  BY <1>1, <1>5
<1>11. \A i \in 1..Depth : Below(i)' = Below(i)
  BY <1>1, <1>5 DEF Below
<1>12. Shape'
  <2>1. \A i \in 1..Depth' : i < Depth' => stack'[i].at = "handler"
    BY <1>1, <1>5, <1>9, <1>10
  <2>2. \A i \in 1..Depth' : stack'[i].at = "handler" =>
          stack'[i].intno # 0 /\ stack'[i].level >= i /\ stack'[i].threshold = Below(i)'
    BY <1>4, <1>5, <1>10, <1>11 DEF NestInv, Shape
  <2>3. Top'.intno = 0
    BY <1>4, <1>5 DEF Top
  <2>4. \A i \in 1..Depth' : stack'[i].intno # 0 => Below(i)' < stack'[i].level
    BY <1>4, <1>5, <1>10, <1>11 DEF NestInv, Shape
  <2> QED
    BY <2>1, <2>2, <2>3, <2>4 DEF Shape
<1>13. Guarded'
  <2>1. threshold' = threshold
    BY DEF external_interrupt
  <2>2. Top'.at = "claim" /\ Depth' > 0
    BY <1>1, <1>4, <1>5 DEF Top
  <2>3. CASE Depth = 0
    <3>1. threshold = 0 /\ Depth' = 1
      BY <1>5, <2>3 DEF NestInv, Guarded
    <3> QED
      BY <2>1, <2>2, <3>1 DEF Guarded, Below
  <2>4. CASE Depth > 0
    <3>1. threshold = stack[Depth].level /\ Depth' # 1 /\ stack'[Depth' - 1] = stack[Depth]
      BY <1>1, <1>5, <1>6, <2>4
    <3> QED
      BY <2>1, <2>2, <3>1 DEF Guarded, Below
  <2> QED
    BY <1>1, <2>3, <2>4
<1>14. NestingOrdered'
  <2>1. ASSUME NEW i \in 1..Depth', NEW j \in 1..Depth', i < j, stack'[j].intno # 0
        PROVE  stack'[i].level < stack'[j].level
    <3>1. j \in 1..Depth /\ i \in 1..Depth
      BY <1>1, <1>4, <1>5, <1>10, <2>1
    <3> QED
      BY <1>5, <2>1, <3>1 DEF NestInv, NestingOrdered
  <2> QED
    BY <1>8, <2>1 DEF NestingOrdered
<1>15. IntctlTypeOK'
  BY <1>5 DEF external_interrupt, NestInv, IntctlTypeOK, Frame
<1>16. ~mie' /\ (meip' => threshold' < PLIC_MAX_PRIORITY)
  BY DEF external_interrupt, NestInv
<1> QED
  BY <1>12, <1>13, <1>14, <1>15, <1>16 DEF NestInv

\* The frame on top changes and those below it stay: the invariant when the new
\* frame is above them.
LEMMA TopChanged ==
  ASSUME NestInv, Depth > 0, IntctlTypeOK', ~mie',
         meip' => threshold' < PLIC_MAX_PRIORITY,
         NEW g \in Frame, stack' = [stack EXCEPT ![Depth] = g],
         g.at # "claim",
         g.at = "handler" => g.intno # 0 /\ g.level >= Depth /\ g.threshold = Below(Depth),
         g.intno # 0 => Below(Depth) < g.level,
         threshold' = IF g.at = "handler" THEN g.level ELSE Below(Depth)
  PROVE  NestInv'
<1>1. stack \in Seq(Frame) /\ Depth \in Nat /\ \A i \in 1..Depth : stack[i] \in Frame
  BY StackFrames
<1>2. /\ Depth' = Depth /\ stack'[Depth] = g
      /\ \A i \in 1..Depth : i # Depth => stack'[i] = stack[i]
  BY <1>1 DEF Depth
<1>3. Top' = g
  BY <1>2 DEF Top
<1>4. \A i \in 1..Depth : Below(i)' = Below(i)
  <2>1. ASSUME NEW i \in 1..Depth PROVE Below(i)' = Below(i)
    <3>1. i # 1 => i - 1 \in 1..Depth /\ i - 1 # Depth
      BY <1>1
    <3> QED
      BY <1>2, <3>1 DEF Below
  <2> QED
    BY <2>1
<1>5. Shape'
  <2>1. \A i \in 1..Depth' : i < Depth' => stack'[i].at = "handler"
    BY <1>1, <1>2 DEF NestInv, Shape
  <2>2. \A i \in 1..Depth' : stack'[i].at = "handler" =>
          stack'[i].intno # 0 /\ stack'[i].level >= i /\ stack'[i].threshold = Below(i)'
    BY <1>2, <1>4 DEF NestInv, Shape
  <2>3. \A i \in 1..Depth' : stack'[i].intno # 0 => Below(i)' < stack'[i].level
    BY <1>2, <1>4 DEF NestInv, Shape
  <2> QED
    BY <1>3, <2>1, <2>2, <2>3 DEF Shape
<1>6. Guarded'
  BY <1>1, <1>2, <1>3, <1>4 DEF Guarded
<1>7. NestingOrdered'
  <2>1. ASSUME NEW i \in 1..Depth, NEW j \in 1..Depth, i < j, stack'[j].intno # 0
        PROVE  stack'[i].level < stack'[j].level
    <3>1. i # Depth /\ stack'[i] = stack[i]
      BY <1>1, <1>2, <2>1
    <3>2. CASE j # Depth
      BY <1>2, <2>1, <3>1, <3>2 DEF NestInv, NestingOrdered
    <3>3. CASE j = Depth
      <4>1. Depth - 1 \in 1..Depth /\ Depth - 1 < Depth /\ Depth # 1 /\ (i = Depth - 1 \/ i < Depth - 1)
        BY <1>1, <2>1, <3>3
      <4>2. stack[Depth - 1].at = "handler" /\ stack[Depth - 1].intno # 0
        BY <4>1 DEF NestInv, Shape
      <4>3. i = Depth - 1 \/ stack[i].level < stack[Depth - 1].level
        BY <4>1, <4>2 DEF NestInv, NestingOrdered
      <4>4. stack[Depth - 1].level < g.level
        BY <1>2, <2>1, <3>3, <4>1 DEF Below
      <4>5. stack[i].level \in Int /\ stack[Depth - 1].level \in Int /\ g.level \in Int
        BY <1>1, <4>1 DEF Frame
      <4>6. stack[i].level < g.level
        BY <4>3, <4>4, <4>5
      <4> QED
        BY <1>2, <3>1, <3>3, <4>6
    <3> QED
      BY <3>2, <3>3
  <2> QED
    BY <1>2, <2>1 DEF NestInv, NestingOrdered
<1> QED
  BY <1>5, <1>6, <1>7 DEF NestInv

\* The frame on top with another place in the code.
LEMMA MovedFrame ==
  ASSUME NestInv, Depth > 0, NEW at \in At
  PROVE  \E g \in Frame : /\ Moved(at) = [stack EXCEPT ![Depth] = g] /\ g.at = at
                          /\ g.intno = Top.intno /\ g.level = Top.level
<1> DEFINE g == [Top EXCEPT !.at = at]
<1>1. Top \in Frame
  BY StackFrames DEF Top
<1>2. g \in Frame /\ g.at = at /\ g.intno = Top.intno /\ g.level = Top.level
  BY <1>1 DEF Frame
<1>3. Moved(at) = [stack EXCEPT ![Depth] = g]
  BY DEF Moved, Top
<1> HIDE DEF g
<1> QED
  BY <1>2, <1>3

\* The handler of s runs above the threshold it found; the default handler does
\* not touch it.
LEMMA ClaimNests ==
  ASSUME NestInv, Claim
  PROVE  NestInv'
<1>0. /\ stack \in Seq(Frame) /\ Depth \in Nat /\ Depth > 0
      /\ \A i \in 1..Depth : stack[i] \in Frame
  BY StackFrames DEF Claim
<1>1. threshold = Below(Depth) /\ ~mie /\ Top.intno = 0
  BY <1>0 DEF Claim, NestInv, Guarded, Shape
<1>2. ~mie' /\ meip' \in BOOLEAN /\ Look
  BY <1>1 DEF Claim, Look
<1>3. CASE stack' = Moved("exit") /\ UNCHANGED <<pending, claimed, threshold>>
  <2>1. "exit" \in At
    BY DEF At
  <2>2. PICK g \in Frame : /\ Moved("exit") = [stack EXCEPT ![Depth] = g] /\ g.at = "exit"
                           /\ g.intno = Top.intno /\ g.level = Top.level
    BY <1>0, <2>1, MovedFrame
  <2>3. stack' \in Seq(Frame)
    BY <1>0, <1>3, <2>2 DEF Depth
  <2>4. IntctlTypeOK'
    BY <1>2, <1>3, <2>3 DEF Claim, NestInv, IntctlTypeOK, Frame
  <2>5. meip' => threshold' < PLIC_MAX_PRIORITY
    BY <1>2, <2>4, LookBelowMax DEF IntctlTypeOK
  <2> QED
    BY <1>0, <1>1, <1>2, <1>3, <2>2, <2>4, <2>5, TopChanged
<1>4. ASSUME NEW s \in Src, NEW handled \in BOOLEAN, priority[s] > threshold,
             pending' = pending \ {s}, claimed' = claimed \cup {s},
             stack' = [stack EXCEPT ![Depth] =
                         [at |-> IF handled THEN "handler" ELSE "default", intno |-> s,
                          threshold |-> threshold, level |-> priority[s]]],
             IF handled THEN ThresholdRaised(s) ELSE UNCHANGED threshold
      PROVE  NestInv'
  <2> DEFINE g == [at |-> IF handled THEN "handler" ELSE "default", intno |-> s,
                   threshold |-> threshold, level |-> priority[s]]
  <2>1. priority[s] \in 0..PLIC_MAX_PRIORITY /\ threshold \in 0..PLIC_MAX_PRIORITY
    BY DEF NestInv, IntctlTypeOK
  <2>2. g \in Frame
    BY <2>1 DEF Frame, At
  <2>3. /\ g.at = IF handled THEN "handler" ELSE "default"
        /\ g.intno = s /\ g.threshold = threshold /\ g.level = priority[s]
    OBVIOUS
  <2>4. stack' = [stack EXCEPT ![Depth] = g]
    BY <1>4
  <2> HIDE DEF g
  <2>5. s # 0 /\ threshold' = IF handled THEN priority[s] ELSE threshold
    BY <1>4 DEF ThresholdRaised, Src
  <2>6. stack' \in Seq(Frame) /\ threshold' \in 0..PLIC_MAX_PRIORITY
    BY <1>0, <2>1, <2>2, <2>4, <2>5 DEF Depth
  <2>7. IntctlTypeOK'
    BY <1>2, <1>4, <2>6 DEF Claim, NestInv, IntctlTypeOK, Frame
  <2>8. meip' => threshold' < PLIC_MAX_PRIORITY
    BY <1>2, <2>7, LookBelowMax DEF IntctlTypeOK
  <2>9. Below(Depth) < g.level
    BY <1>1, <1>4, <2>1, <2>3
  <2>10. Depth <= g.level
    <3>1. CASE Depth = 1
      BY <1>4, <2>1, <2>3, <3>1
    <3>2. CASE Depth # 1
      <4>1. Depth - 1 \in 1..Depth /\ Depth - 1 < Depth
        BY <1>0, <3>2
      <4>2. stack[Depth - 1].level >= Depth - 1 /\ stack[Depth - 1].level \in Int
        BY <1>0, <4>1 DEF NestInv, Shape, Frame
      <4>3. stack[Depth - 1].level < g.level /\ g.level \in Int
        BY <2>1, <2>3, <2>9, <3>2 DEF Below
      <4> QED
        BY <1>0, <4>2, <4>3
    <3> QED
      BY <3>1, <3>2
  <2>11. g.at # "claim" /\ (g.at = "handler" <=> handled)
    BY <2>3
  <2> QED
    BY <1>0, <1>1, <1>2, <2>2, <2>3, <2>4, <2>5, <2>7, <2>8, <2>9, <2>10, <2>11, TopChanged
<1> QED
  BY <1>3, <1>4 DEF Claim, Raisable

\* The handler is left with the threshold it found.
LEMMA HandlerReturnNests ==
  ASSUME NestInv, HandlerReturn
  PROVE  NestInv'
<1>0. /\ stack \in Seq(Frame) /\ Depth \in Nat /\ Depth > 0
      /\ \A i \in 1..Depth : stack[i] \in Frame
  BY StackFrames DEF HandlerReturn
<1>1. Top \in Frame /\ Top.at = "handler"
  BY <1>0 DEF HandlerReturn, Top
<1>2. Top.threshold = Below(Depth) /\ Below(Depth) < Top.level
  BY <1>0, <1>1 DEF NestInv, Shape, Top
<1>3. "served" \in At
  BY DEF At
<1>4. PICK g \in Frame : /\ Moved("served") = [stack EXCEPT ![Depth] = g] /\ g.at = "served"
                         /\ g.intno = Top.intno /\ g.level = Top.level
  BY <1>0, <1>3, MovedFrame
<1>5. stack' = [stack EXCEPT ![Depth] = g] /\ threshold' = Below(Depth) /\ Look /\ ~mie'
  BY <1>2, <1>4 DEF HandlerReturn
<1>6. stack' \in Seq(Frame) /\ threshold' \in 0..PLIC_MAX_PRIORITY /\ meip' \in BOOLEAN
  <2>1. stack' \in Seq(Frame)
    BY <1>0, <1>5 DEF Depth
  <2>2. threshold' \in 0..PLIC_MAX_PRIORITY
    BY <1>1, <1>2, <1>5 DEF Frame
  <2>3. meip' \in BOOLEAN
    BY <1>5 DEF Look
  <2> QED
    BY <2>1, <2>2, <2>3
<1>7. IntctlTypeOK'
  BY <1>6 DEF HandlerReturn, NestInv, IntctlTypeOK, Frame
<1>8. meip' => threshold' < PLIC_MAX_PRIORITY
  BY <1>5, <1>7, LookBelowMax DEF IntctlTypeOK
<1> QED
  BY <1>0, <1>2, <1>4, <1>5, <1>7, <1>8, TopChanged

\* The completion leaves the threshold as the trap found it.
LEMMA CompleteNests ==
  ASSUME NestInv, Complete
  PROVE  NestInv'
<1>0. /\ stack \in Seq(Frame) /\ Depth \in Nat /\ Depth > 0
      /\ \A i \in 1..Depth : stack[i] \in Frame
  BY StackFrames DEF Complete
<1>1. Top \in Frame /\ Top.at # "handler" /\ ~mie
  BY <1>0 DEF Complete, Top, NestInv
<1>2. threshold = Below(Depth) /\ (Top.intno # 0 => Below(Depth) < Top.level)
  BY <1>0, <1>1 DEF NestInv, Guarded, Shape, Top
<1>3. "exit" \in At
  BY DEF At
<1>4. PICK g \in Frame : /\ Moved("exit") = [stack EXCEPT ![Depth] = g] /\ g.at = "exit"
                         /\ g.intno = Top.intno /\ g.level = Top.level
  BY <1>0, <1>3, MovedFrame
<1>5. stack' = [stack EXCEPT ![Depth] = g] /\ threshold' = threshold /\ ~mie' /\ meip' \in BOOLEAN
  BY <1>1, <1>4 DEF Complete
<1>6. stack' \in Seq(Frame)
  BY <1>0, <1>5 DEF Depth
<1>7. claimed' \subseteq Src /\ enable' \subseteq 1..CFN_MAX_INTNO - 1
  <2>1. claimed \subseteq Src /\ enable \subseteq 1..CFN_MAX_INTNO - 1
    BY DEF NestInv, IntctlTypeOK
  <2>2. Completed(Top.intno, Top.at = "served" /\ Top.intno \in enable)
    BY DEF Complete
  <2>3. claimed' \subseteq claimed /\ enable' \subseteq enable
    BY <2>2 DEF Completed
  <2> QED
    BY <2>1, <2>3
<1>8. IntctlTypeOK'
  BY <1>5, <1>6, <1>7 DEF Complete, NestInv, IntctlTypeOK, Frame
<1>9. meip' => threshold' < PLIC_MAX_PRIORITY
  <2>1. \A s \in Src : priority[s] > threshold => threshold < PLIC_MAX_PRIORITY
    BY IntctlAssumption DEF NestInv, IntctlTypeOK
  <2> QED
    BY <1>5, <2>1 DEF Complete, Raisable
<1> QED
  BY <1>0, <1>2, <1>4, <1>5, <1>8, <1>9, TopChanged

\* The exit takes the frame on top away.
LEMMA ExitShortens ==
  ASSUME NestInv, Exit
  PROVE  /\ stack' \in Seq(Frame) /\ Depth' = Depth - 1
         /\ \A i \in 1..Depth' : stack'[i] = stack[i]
<1>0. /\ stack \in Seq(Frame) /\ Depth \in Nat /\ Depth > 0
      /\ \A i \in 1..Depth : stack[i] \in Frame
  BY StackFrames DEF Exit
<1>1. stack' = SubSeq(stack, 1, Len(stack) - 1) /\ Len(stack) \in Nat /\ Len(stack) >= 1
  BY <1>0 DEF Exit, Depth
<1>2. SubSeq(stack, 1, Len(stack) - 1) \in Seq(Frame)
  BY <1>0, <1>1, SubSeqProperties
<1>3. Len(stack') = Len(stack) - 1
  <2> DEFINE n == Len(stack) - 1
  <2>1. n \in Int /\ 1 \in Int /\ \A i \in 1..n : stack[i] \in Frame
    BY <1>0, <1>1 DEF Depth
  <2>2. n >= 0 /\ stack' = SubSeq(stack, 1, n)
    BY <1>1
  <2> HIDE DEF n
  <2>3. Len(SubSeq(stack, 1, n)) = IF 1 <= n THEN n - 1 + 1 ELSE 0
    BY ONLY <2>1, SubSeqProperties
  <2>4. Len(stack') = n
    BY <2>1, <2>2, <2>3
  <2> QED
    BY <2>4 DEF n
<1>4. \A i \in 1..Len(stack) - 1 : stack'[i] = stack[i]
  BY <1>0, <1>1, SubSeqProperties
<1> QED
  BY <1>1, <1>2, <1>3, <1>4 DEF Depth

\* The trap returns to a handler or to a task.
LEMMA ExitNests ==
  ASSUME NestInv, Exit
  PROVE  NestInv'
<1>0. /\ stack \in Seq(Frame) /\ Depth \in Nat /\ Depth > 0
      /\ \A i \in 1..Depth : stack[i] \in Frame
  BY StackFrames DEF Exit
<1>1. /\ stack' \in Seq(Frame) /\ Depth' = Depth - 1
      /\ \A i \in 1..Depth' : stack'[i] = stack[i]
  BY ExitShortens
<1>2. \A i \in 1..Depth' : i \in 1..Depth /\ i < Depth /\ stack'[i].at = "handler"
  BY <1>0, <1>1 DEF NestInv, Shape
<1>3. \A i \in 1..Depth' : Below(i)' = Below(i)
  <2>1. ASSUME NEW i \in 1..Depth' PROVE Below(i)' = Below(i)
    <3>1. i # 1 => i - 1 \in 1..Depth'
      BY <1>0, <1>1
    <3> QED
      BY <1>1, <3>1 DEF Below
  <2> QED
    BY <2>1
<1>4. Shape'
  <2>1. \A i \in 1..Depth' : stack'[i].at = "handler" =>
          stack'[i].intno # 0 /\ stack'[i].level >= i /\ stack'[i].threshold = Below(i)'
    BY <1>1, <1>2, <1>3 DEF NestInv, Shape
  <2>2. \A i \in 1..Depth' : stack'[i].intno # 0 => Below(i)' < stack'[i].level
    BY <1>1, <1>2, <1>3 DEF NestInv, Shape
  <2>3. Depth' > 0 => Top'.at # "claim"
    BY <1>0, <1>1, <1>2 DEF Top
  <2> QED
    BY <1>2, <2>1, <2>2, <2>3 DEF Shape
<1>5. Depth' > 0 => Top'.at = "handler"
  BY <1>0, <1>1, <1>2 DEF Top
<1>6. Guarded'
  <2>1. threshold' = threshold /\ threshold = Below(Depth)
    BY <1>0 DEF Exit, NestInv, Guarded
  <2>2. CASE Depth = 1
    BY <1>1, <2>1, <2>2 DEF Guarded, Below
  <2>3. CASE Depth # 1
    <3>1. Depth' > 0 /\ Depth' \in 1..Depth' /\ Top' = stack[Depth - 1]
      BY <1>0, <1>1, <2>3 DEF Top
    <3> QED
      BY <1>5, <2>1, <2>3, <3>1 DEF Guarded, Below
  <2> QED
    BY <2>2, <2>3
<1>7. NestingOrdered'
  <2>1. \A i, j \in 1..Depth' : i < j /\ stack'[j].intno # 0 => stack'[i].level < stack'[j].level
    BY <1>1, <1>2 DEF NestInv, NestingOrdered
  <2>2. Depth' <= PLIC_MAX_PRIORITY
    BY <1>0, <1>1, IntctlAssumption DEF NestInv, NestingOrdered
  <2> QED
    BY <2>1, <2>2 DEF NestingOrdered
<1>8. IntctlTypeOK'
  <2>1. masked' \in BOOLEAN
    BY DEF Exit, Unmask
  <2> QED
    BY <1>1, <2>1 DEF Exit, NestInv, IntctlTypeOK, Frame
<1>9. meip' => threshold' < PLIC_MAX_PRIORITY
  BY DEF Exit, NestInv
<1> QED
  BY <1>4, <1>5, <1>6, <1>7, <1>8, <1>9 DEF NestInv

\* The invariant holds throughout.
LEMMA NestInvHolds == Spec => []NestInv
<1>1. Init => NestInv
  <2> SUFFICES ASSUME Init PROVE NestInv
    OBVIOUS
  <2>1. stack \in Seq(Frame) /\ Depth = 0
    BY DEF Init, Depth
  <2>2. 0 \in 0..PLIC_MAX_PRIORITY /\ 0 < PLIC_MAX_PRIORITY
    BY IntctlAssumption
  <2>3. IntctlTypeOK
    BY <2>1, <2>2 DEF Init, IntctlTypeOK, Frame
  <2>4. Guarded /\ ~(Depth > 0) /\ threshold < PLIC_MAX_PRIORITY
    BY <2>1, <2>2 DEF Init, Guarded
  <2>5. 1..Depth = {} /\ Depth <= PLIC_MAX_PRIORITY
    BY <2>1, <2>2
  <2>6. Shape /\ NestingOrdered
    BY <2>4, <2>5 DEF Shape, NestingOrdered
  <2> QED
    BY <2>3, <2>4, <2>6 DEF NestInv
<1>2. NestInv /\ [Next]_vars => NestInv'
  <2>1. ASSUME NestInv, UNCHANGED vars PROVE NestInv'
    <3>1. IntctlTypeOK'
      BY <2>1 DEF NestInv, IntctlTypeOK, vars
    <3> QED
      BY <2>1, <3>1, SameStack DEF vars
  <2> QED
    BY <2>1, CallsNest, EntryNests, ClaimNests, HandlerReturnNests, CompleteNests, ExitNests DEF Next
<1> QED
  BY <1>1, <1>2, PTL DEF Spec

\* The registers and the table keep their types: EnableInt() writes no priority
\* that the PLIC does not have, however the calls and the traps interleave.
THEOREM IntctlTypesHold == Spec => []IntctlTypeOK
<1>1. NestInv => IntctlTypeOK
  BY DEF NestInv
<1> QED
  BY <1>1, NestInvHolds, PTL

\* tkmc_external_interrupt() nests by priority, and no deeper than there are
\* priorities, whatever the number of sources and what the handlers call.
THEOREM NestingHolds == Spec => []NestingOrdered
<1>1. NestInv => NestingOrdered
  BY DEF NestInv
<1> QED
  BY <1>1, NestInvHolds, PTL

\* The threshold is raised and put back in order: while a handler runs it is the
\* level of the innermost one, and 0 in a task.
THEOREM ThresholdHolds == Spec => []ThresholdMatches
<1>1. NestInv => ThresholdMatches
  <2> SUFFICES ASSUME NestInv PROVE ThresholdMatches
    OBVIOUS
  <2> DEFINE hs == {i \in 1..Depth : stack[i].at = "handler"}
             top == IF Depth > 0 /\ Top.at # "handler" THEN Depth - 1 ELSE Depth
  <2>1. Depth \in Nat /\ top \in Nat
    BY StackFrames
  <2>2. hs = 1..top
    <3>1. \A i \in 1..Depth : i \in hs <=> i <= top
      BY <2>1 DEF NestInv, Shape, Top
    <3> QED
      BY <2>1, <3>1
  <2>3. CASE top = 0
    <3>1. hs = {}
      BY <2>2, <2>3
    <3>2. threshold = 0
      BY <2>1, <2>3 DEF NestInv, Guarded, Below
    <3> QED
      BY <3>1, <3>2 DEF ThresholdMatches
  <2>4. CASE top > 0
    <3>1. top \in hs /\ \A j \in hs : j <= top /\ j \in Nat
      BY <2>1, <2>2, <2>4
    <3>2. threshold = stack[top].level
      BY <2>1, <2>4 DEF NestInv, Guarded, Below, Top
    <3> HIDE DEF top
    <3>3. \A i \in hs : (\A j \in hs : j <= i) => i = top
      BY <2>1, <3>1
    <3> HIDE DEF hs
    <3>4. (CHOOSE i \in hs : \A j \in hs : j <= i) = top
      BY <3>1, <3>3
    <3> QED
      BY <3>1, <3>2, <3>4 DEF ThresholdMatches, hs
  <2> QED
    BY <2>1, <2>3, <2>4
<1> QED
  BY <1>1, NestInvHolds, PTL

-----------------------------------------------------------------------------
(* Claims, pending sources and masks. *)

\* The traps that hold a source: from the claim to the completion.
Holds(f) == f.at \in {"handler", "default", "served"}

\* What NestInv leaves open: the claimed sources are those of the traps that
\* hold one, each its own, the PLIC raises what it can, and the masks are those
\* of the outermost trap.
ServiceInv == ClaimsHeld /\ NoneMissed /\ HandlersMasked

\* The claims are those of the frames.
LEMMA ClaimsOf ==
  ASSUME NestInv
  PROVE  ClaimsHeld <=>
           /\ \A s : s \in claimed <=> \E i \in 1..Depth : Holds(stack[i]) /\ stack[i].intno = s
           /\ \A i, j \in 1..Depth : i # j /\ stack[i].at # "exit" /\ stack[j].at # "exit"
                                      => stack[i].intno # stack[j].intno
  BY DEF ClaimsHeld, Holds

\* Steps that leave the stack and the claims as they are.
LEMMA SameClaims ==
  ASSUME ServiceInv, UNCHANGED <<stack, claimed, masked>>, NoneMissed'
  PROVE  ServiceInv'
  BY DEF ServiceInv, ClaimsHeld, HandlersMasked, Depth

\* When the PLIC looks it misses nothing.
LEMMA LookMissesNone ==
  ASSUME Look
  PROVE  NoneMissed'
  BY DEF Look, NoneMissed

\* Calls and devices.
LEMMA CallsServe ==
  ASSUME ServiceInv,
         \/ \E intno \in 0..CFN_MAX_INTNO, handler \in BOOLEAN : tk_def_int(intno, handler)
         \/ \E intno \in 0..CFN_MAX_INTNO, level \in Level : EnableInt(intno, level)
         \/ \E intno \in 0..CFN_MAX_INTNO : DisableInt(intno)
         \/ \E on \in BOOLEAN : SetMie(on)
         \/ \E s \in Src : Assert(s)
         \/ UNCHANGED vars
  PROVE  ServiceInv'
<1>1. ASSUME NEW intno, NEW level, EnableInt(intno, level) PROVE ServiceInv'
  BY <1>1, LookMissesNone, SameClaims DEF EnableInt, ThresholdRewritten
<1>2. ASSUME NEW s, Assert(s) PROVE ServiceInv'
  BY <1>2, LookMissesNone, SameClaims DEF Assert
<1>3. ASSUME UNCHANGED <<stack, claimed, masked, pending, priority, threshold, meip>>,
             enable' \subseteq enable
      PROVE  ServiceInv'
  <2>1. NoneMissed'
    BY <1>3 DEF ServiceInv, NoneMissed, Raisable
  <2> QED
    BY <1>3, <2>1, SameClaims
<1>4. ASSUME NEW intno, NEW handler, tk_def_int(intno, handler) PROVE ServiceInv'
  BY <1>3, <1>4 DEF tk_def_int
<1>5. ASSUME NEW intno, DisableInt(intno) PROVE ServiceInv'
  BY <1>3, <1>5 DEF DisableInt
<1>6. ASSUME NEW on, SetMie(on) PROVE ServiceInv'
  BY <1>3, <1>6 DEF SetMie
<1>7. ASSUME UNCHANGED vars PROVE ServiceInv'
  BY <1>3, <1>7 DEF vars
<1> QED
  BY <1>1, <1>2, <1>4, <1>5, <1>6, <1>7

\* A trap that has claimed nothing yet holds no source.
LEMMA EntryServes ==
  ASSUME NestInv, ServiceInv, external_interrupt
  PROVE  ServiceInv'
<1>1. stack \in Seq(Frame) /\ Depth \in Nat
  BY StackFrames
<1> DEFINE f == [at |-> "claim", intno |-> 0, threshold |-> 0, level |-> 0]
<1>2. stack' = Append(stack, f) /\ f.at = "claim" /\ f.intno = 0 /\ f \in Frame
  BY IntctlAssumption DEF external_interrupt, Frame, At
<1> HIDE DEF f
<1>3. /\ Depth' = Depth + 1
      /\ stack'[Depth + 1] = f /\ \A i \in 1..Depth : stack'[i] = stack[i]
  BY <1>1, <1>2 DEF Depth
<1>4. \A i \in 1..Depth' : i \in 1..Depth \/ i = Depth + 1
  BY <1>1, <1>3
<1>5. \A i \in 1..Depth : stack[i].at = "handler" /\ stack[i].intno # 0
  BY <1>1 DEF external_interrupt, NestInv, Shape, Top
<1>6. UNCHANGED <<pending, claimed, enable, priority, threshold, meip>>
  BY DEF external_interrupt
<1>7. ClaimsHeld'
  <2>1. \A s : s \in claimed' <=> \E i \in 1..Depth' : Holds(stack'[i]) /\ stack'[i].intno = s
    <3>1. \A s : s \in claimed <=> \E i \in 1..Depth : Holds(stack[i]) /\ stack[i].intno = s
      BY ClaimsOf DEF ServiceInv
    <3>2. \A i \in 1..Depth : Holds(stack'[i]) = Holds(stack[i]) /\ i \in 1..Depth'
      BY <1>1, <1>3 DEF Holds
    <3>3. ~Holds(f)
      BY <1>2, <1>3 DEF Holds
    <3> QED
      BY <1>3, <1>4, <1>6, <3>1, <3>2, <3>3
  <2>2. \A i, j \in 1..Depth' : i # j => stack'[i].intno # stack'[j].intno
    BY <1>2, <1>3, <1>4, <1>5 DEF ServiceInv, ClaimsHeld
  <2>3. NestInv'
    BY EntryNests
  <2> QED
    BY <2>1, <2>2, <2>3 DEF ClaimsHeld, Holds
<1>8. NoneMissed'
  BY <1>6 DEF ServiceInv, NoneMissed
<1>9. HandlersMasked'
  <2>1. masked' = (masked \/ Depth = 0) /\ (masked <=> Depth > 0)
    BY DEF external_interrupt, ServiceInv, HandlersMasked
  <2>2. Depth = 0 \/ Depth > 0
    BY <1>1
  <2>3. masked' = TRUE
    BY <2>1, <2>2
  <2>4. Depth' > 0
    BY <1>1, <1>3
  <2> QED
    BY <2>3, <2>4 DEF HandlersMasked
<1> QED
  BY <1>7, <1>8, <1>9 DEF ServiceInv

\* The frame on top changes: the claims follow it.
LEMMA TopServes ==
  ASSUME NestInv, ServiceInv, Depth > 0, NoneMissed', UNCHANGED masked,
         NEW g, stack' = [stack EXCEPT ![Depth] = g],
         g.at \in At \ {"claim"},
         claimed' = (IF Holds(Top) THEN claimed \ {Top.intno} ELSE claimed)
                      \cup (IF g.at # "exit" THEN {g.intno} ELSE {}),
         g.at # "exit" => g.intno \notin claimed \/ (Holds(Top) /\ g.intno = Top.intno)
  PROVE  ServiceInv'
<1>1. stack \in Seq(Frame) /\ Depth \in Nat /\ Depth > 0
  BY StackFrames
<1>2. /\ Depth' = Depth /\ stack'[Depth] = g
      /\ \A i \in 1..Depth : i # Depth => stack'[i] = stack[i]
  BY <1>1 DEF Depth
<1>3. Holds(g) <=> g.at # "exit"
  BY DEF Holds, At
<1>4. \A i \in 1..Depth : i # Depth => Holds(stack'[i]) /\ Holds(stack[i]) /\ stack[i].at # "exit"
  BY <1>1, <1>2 DEF NestInv, Shape, Holds
<1>5. /\ \A s : s \in claimed <=> \E i \in 1..Depth : Holds(stack[i]) /\ stack[i].intno = s
      /\ \A i, j \in 1..Depth : i # j /\ stack[i].at # "exit" /\ stack[j].at # "exit"
                                 => stack[i].intno # stack[j].intno
  BY ClaimsOf DEF ServiceInv
<1>6. Top = stack[Depth] /\ (Holds(Top) => stack[Depth].at # "exit")
  BY DEF Holds, Top
<1>7. Depth \in 1..Depth
  BY <1>1
<1>8. \A i \in 1..Depth : i # Depth /\ Holds(Top) => stack[i].intno # Top.intno
  BY <1>4, <1>5, <1>6, <1>7
<1>9. \A s : s \in claimed' <=> \E i \in 1..Depth' : Holds(stack'[i]) /\ stack'[i].intno = s
  <2>1. ASSUME NEW s, s \in claimed'
        PROVE  \E i \in 1..Depth' : Holds(stack'[i]) /\ stack'[i].intno = s
    <3>1. CASE g.at # "exit" /\ s = g.intno
      BY <1>2, <1>3, <1>7, <3>1
    <3>2. CASE s \in claimed /\ ~(Holds(Top) /\ s = Top.intno)
      <4>1. PICK i \in 1..Depth : Holds(stack[i]) /\ stack[i].intno = s
        BY <1>5, <3>2
      <4>2. i # Depth
        BY <1>6, <3>2, <4>1
      <4> QED
        BY <1>2, <1>4, <4>1, <4>2
    <3> QED
      BY <2>1, <3>1, <3>2
  <2>2. ASSUME NEW i \in 1..Depth', Holds(stack'[i]) PROVE stack'[i].intno \in claimed'
    <3>1. CASE i = Depth
      BY <1>2, <1>3, <2>2, <3>1
    <3>2. CASE i # Depth
      BY <1>2, <1>4, <1>5, <1>8, <3>2
    <3> QED
      BY <3>1, <3>2
  <2> QED
    BY <2>1, <2>2
<1>10. \A i \in 1..Depth : i # Depth /\ g.at # "exit" => stack[i].intno # g.intno
  BY <1>4, <1>5, <1>8
<1>11. \A i, j \in 1..Depth' : i # j /\ stack'[i].at # "exit" /\ stack'[j].at # "exit"
                                => stack'[i].intno # stack'[j].intno
  BY <1>2, <1>4, <1>5, <1>10
<1>12. ClaimsHeld'
  BY ONLY <1>9, <1>11 DEF ClaimsHeld, Holds
<1>13. HandlersMasked'
  BY <1>2 DEF ServiceInv, HandlersMasked
<1> QED
  BY <1>12, <1>13 DEF ServiceInv

\* A claim takes a source that no trap holds; when there is none the trap
\* goes to its exit and holds nothing.
LEMMA ClaimServes ==
  ASSUME NestInv, ServiceInv, Claim
  PROVE  ServiceInv'
<1>0. Depth > 0 /\ Top.at = "claim" /\ ~Holds(Top) /\ UNCHANGED masked
  BY DEF Claim, Holds
<1>1. NoneMissed'
  BY LookMissesNone DEF Claim
<1>2. CASE stack' = Moved("exit") /\ UNCHANGED claimed
  <2>1. "exit" \in At
    BY DEF At
  <2>2. PICK g \in Frame : Moved("exit") = [stack EXCEPT ![Depth] = g] /\ g.at = "exit"
    BY <1>0, <2>1, MovedFrame
  <2>3. g.at \in At \ {"claim"}
    BY <2>1, <2>2
  <2> QED
    BY <1>0, <1>1, <1>2, <2>2, <2>3, TopServes
<1>3. ASSUME NEW s, s \notin claimed, claimed' = claimed \cup {s},
             NEW handled \in BOOLEAN, NEW th, NEW le,
             stack' = [stack EXCEPT ![Depth] =
                         [at |-> IF handled THEN "handler" ELSE "default", intno |-> s,
                          threshold |-> th, level |-> le]]
      PROVE  ServiceInv'
  <2> DEFINE g == [at |-> IF handled THEN "handler" ELSE "default", intno |-> s,
                   threshold |-> th, level |-> le]
  <2>1. g.at \in At \ {"claim", "exit"} /\ g.intno = s
    BY DEF At
  <2>2. stack' = [stack EXCEPT ![Depth] = g]
    BY <1>3
  <2> HIDE DEF g
  <2> QED
    BY <1>0, <1>1, <1>3, <2>1, <2>2, TopServes
<1> QED
  BY <1>2, <1>3 DEF Claim, Raisable

\* The handler has returned: its trap still holds the source.
LEMMA HandlerReturnServes ==
  ASSUME NestInv, ServiceInv, HandlerReturn
  PROVE  ServiceInv'
<1>0. Depth > 0 /\ Top.at = "handler" /\ Holds(Top) /\ UNCHANGED <<masked, claimed>>
  BY DEF HandlerReturn, Holds
<1>1. NoneMissed'
  BY LookMissesNone DEF HandlerReturn
<1>2. "served" \in At
  BY DEF At
<1>3. PICK g \in Frame : /\ Moved("served") = [stack EXCEPT ![Depth] = g] /\ g.at = "served"
                         /\ g.intno = Top.intno
  BY <1>0, <1>2, MovedFrame
<1>4. Top.intno \in claimed
  <2>1. Depth \in 1..Depth
    BY <1>0, StackFrames
  <2> QED
    BY <1>0, <2>1, ClaimsOf DEF ServiceInv, Top
<1>5. claimed' = (claimed \ {Top.intno}) \cup {g.intno}
  BY <1>0, <1>3, <1>4
<1>6. stack' = [stack EXCEPT ![Depth] = g] /\ g.at \in At \ {"claim"}
  BY <1>2, <1>3 DEF HandlerReturn
<1> QED
  BY <1>0, <1>1, <1>3, <1>5, <1>6, TopServes

\* The completion gives the source back.  The PLIC looks while the source is
\* on, so that it misses nothing when the source is switched off after it.
LEMMA CompleteServes ==
  ASSUME NestInv, ServiceInv, Complete
  PROVE  ServiceInv'
<1>0. Depth > 0 /\ Top.at \in {"served", "default"} /\ Holds(Top) /\ UNCHANGED masked
  BY DEF Complete, Holds
<1>1. Completed(Top.intno, Top.at = "served" /\ Top.intno \in enable)
  BY DEF Complete
<1>2. claimed' = claimed \ {Top.intno} /\ enable' \subseteq enable \cup {Top.intno}
  BY <1>1 DEF Completed
<1>3. NoneMissed'
  BY <1>2 DEF Complete, NoneMissed, Raisable
<1>4. "exit" \in At
  BY DEF At
<1>5. PICK g \in Frame : Moved("exit") = [stack EXCEPT ![Depth] = g] /\ g.at = "exit"
  BY <1>0, <1>4, MovedFrame
<1>6. stack' = [stack EXCEPT ![Depth] = g] /\ g.at \in At \ {"claim"}
  BY <1>4, <1>5 DEF Complete
<1>7. claimed' = (claimed \ {Top.intno}) \cup {}
  BY <1>2
<1> QED
  BY <1>0, <1>3, <1>5, <1>6, <1>7, TopServes

\* The trap that returns holds no source; only the outermost one unmasks.
LEMMA ExitServes ==
  ASSUME NestInv, ServiceInv, Exit
  PROVE  ServiceInv'
<1>0. Depth \in Nat /\ Depth > 0 /\ Top.at = "exit" /\ Depth \in 1..Depth
  BY StackFrames DEF Exit
<1>1. Depth' = Depth - 1 /\ \A i \in 1..Depth' : stack'[i] = stack[i]
  BY <1>0, ExitShortens
<1>2. \A i \in 1..Depth : i \in 1..Depth' \/ i = Depth
  BY <1>0, <1>1
<1>3. 1..Depth' \subseteq 1..Depth
  BY <1>0, <1>1
<1>4. ~Holds(stack[Depth])
  BY <1>0 DEF Holds, Top
<1>5. /\ \A s : s \in claimed <=> \E i \in 1..Depth : Holds(stack[i]) /\ stack[i].intno = s
      /\ \A i, j \in 1..Depth : i # j /\ stack[i].at # "exit" /\ stack[j].at # "exit"
                                 => stack[i].intno # stack[j].intno
  BY ClaimsOf DEF ServiceInv
<1>6. claimed' = claimed
  BY DEF Exit
<1>7. \A s : s \in claimed' <=> \E i \in 1..Depth' : Holds(stack'[i]) /\ stack'[i].intno = s
  BY <1>1, <1>2, <1>3, <1>4, <1>5, <1>6
<1>8. \A i, j \in 1..Depth' : i # j /\ stack'[i].at # "exit" /\ stack'[j].at # "exit"
                               => stack'[i].intno # stack'[j].intno
  BY <1>1, <1>3, <1>5
<1>9. ClaimsHeld'
  BY <1>7, <1>8 DEF ClaimsHeld, Holds
<1>10. HandlersMasked'
  <2>1. masked' = (masked /\ Depth # 1) /\ masked
    BY <1>0 DEF Exit, Unmask, ServiceInv, HandlersMasked
  <2>2. Depth' > 0 <=> Depth # 1
    BY <1>0, <1>1
  <2> QED
    BY <2>1, <2>2 DEF HandlersMasked
<1>11. NoneMissed'
  BY DEF Exit, ServiceInv, NoneMissed
<1> QED
  BY <1>9, <1>10, <1>11 DEF ServiceInv

\* Both invariants hold throughout.
LEMMA ServiceInvHolds == Spec => [](NestInv /\ ServiceInv)
<1>1. Init => ServiceInv
  <2> SUFFICES ASSUME Init PROVE ServiceInv
    OBVIOUS
  <2>1. Depth = 0 /\ 1..Depth = {}
    BY DEF Init, Depth
  <2>2. ClaimsHeld
    BY <2>1 DEF Init, ClaimsHeld
  <2>3. NoneMissed /\ HandlersMasked
    BY <2>1 DEF Init, NoneMissed, Raisable, HandlersMasked
  <2> QED
    BY <2>2, <2>3 DEF ServiceInv
<1>2. NestInv /\ ServiceInv /\ [Next]_vars => ServiceInv'
  BY CallsServe, EntryServes, ClaimServes, HandlerReturnServes, CompleteServes, ExitServes DEF Next
<1> QED
  BY <1>1, <1>2, NestInvHolds, PTL DEF Spec

\* tkmc_external_interrupt() completes every source that it claims: no source
\* stays claimed after its trap, also when its handler switched it off, and two
\* nested traps never hold the same source.
THEOREM ClaimsHold == Spec => []ClaimsHeld
<1>1. ServiceInv => ClaimsHeld
  BY DEF ServiceInv
<1> QED
  BY <1>1, ServiceInvHolds, PTL

\* The rewriting of the threshold in EnableInt() is enough: a source that was
\* pending when it was switched on is raised, and no trap loses one.
THEOREM NoneMissedHolds == Spec => []NoneMissed
<1>1. ServiceInv => NoneMissed
  BY DEF ServiceInv
<1> QED
  BY <1>1, ServiceInvHolds, PTL

\* external_interrupt masks the timer and software interrupts in the outermost
\* trap and unmasks them when that one returns, however deep the traps nest.
THEOREM MasksHold == Spec => []HandlersMasked
<1>1. ServiceInv => HandlersMasked
  BY DEF ServiceInv
<1> QED
  BY <1>1, ServiceInvHolds, PTL

\* No step of a trap switches a source on: the completion, for which the source
\* is on for a moment, leaves one that was off as it found it.
THEOREM OffHolds == Spec => OffStaysOff
<1>1. Next => (stack' # stack => enable' \subseteq enable)
  <2>1. Complete => enable' \subseteq enable
    <3> SUFFICES ASSUME Complete PROVE enable' \subseteq enable
      OBVIOUS
    <3>1. Completed(Top.intno, Top.at = "served" /\ Top.intno \in enable)
      BY DEF Complete
    <3> QED
      BY <3>1 DEF Completed
  <2> QED
    BY <2>1 DEF Next, tk_def_int, EnableInt, DisableInt, SetMie, Assert, external_interrupt,
                Claim, HandlerReturn, Exit
<1> QED
  BY <1>1, PTL DEF Spec, OffStaysOff
=============================================================================
