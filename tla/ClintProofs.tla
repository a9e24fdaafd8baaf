---------------------------- MODULE ClintProofs -----------------------------
(* The machine timer for every size of a word, every tick and every run of   *)
(* the clock: what is read of it is a time it showed, what is counted of it  *)
(* is exact, and its compare value is never written too low.                 *)
EXTENDS Clint, TLAPS

Calls == {"none", "tkmc_start_timer", "tkmc_timer_handler", "tkmc_schedule_timer"}
Reading == {"high", "low", "next_high", "value", "counted"}
Writing == {"write_first", "write_high", "write_low"}

ClintTypeOK ==
  /\ mtime \in 0..MaxTime
  /\ mtimecmp \in 0..Word * Word - 1
  /\ s_mtimecmp \in 0..MaxTime + TICK_COUNTS
  /\ call \in Calls /\ pc \in Reading \cup Writing \cup {"done"}
  /\ high \in Nat /\ low \in Nat /\ value \in Nat /\ edge \in Nat /\ periods \in Nat
  /\ asked \in [read : Nat, call : Nat]
  /\ old \in Nat

\* The words were read at times after the read began, the low one last.
Reads ==
  /\ asked.call <= asked.read /\ asked.read <= mtime
  /\ pc = "low" => \E t \in Nat : asked.read <= t /\ t <= mtime /\ high = Hi(t)
  /\ pc = "next_high" =>
       \E t, u \in Nat : /\ asked.read <= t /\ t <= u /\ u <= mtime
                         /\ high = Hi(t) /\ low = Lo(u)
  /\ pc = "value" => asked.read <= value /\ value <= mtime

\* The edge is as many ticks on as were counted, the last one of them has
\* passed, and a count ends at an edge that was ahead when the call began.
Counts ==
  pc \in Reading =>
    /\ edge = s_mtimecmp + periods * TICK_COUNTS
    /\ periods > 0 => edge <= mtime + TICK_COUNTS
    /\ pc = "counted" => asked.call < edge /\ call # "tkmc_start_timer"

\* The three stores, and the compare value between writes.
Writes ==
  /\ call = "none" <=> pc = "done"
  /\ pc \in Writing => value = s_mtimecmp
  /\ pc = "write_high" => mtimecmp >= old /\ Lo(mtimecmp) = Word - 1
  /\ pc = "write_low" => mtimecmp >= value /\ Hi(mtimecmp) = Hi(value)
  /\ pc \notin Writing /\ call # "tkmc_start_timer" => mtimecmp = s_mtimecmp

ClintInv == ClintTypeOK /\ Reads /\ Counts /\ Writes

-----------------------------------------------------------------------------
(* The two words of a value. *)

\* A value is made of its words.
LEMMA Words ==
  ASSUME NEW v \in Nat
  PROVE  /\ Hi(v) \in Nat /\ Lo(v) \in Nat /\ Lo(v) <= Word - 1
         /\ v = Hi(v) * Word + Lo(v)
  BY ClintAssumption DEF Hi, Lo

\* A quotient is the only one with a remainder below the divisor.
LEMMA Quotient ==
  ASSUME NEW w \in Nat, NEW q \in Nat, NEW d \in Nat, NEW l \in Nat, NEW r \in Nat,
         l <= w - 1, r <= w - 1, q * w + l <= d * w + r
  PROVE  q <= d
<1>1. (q - d) * w <= r - l
  OBVIOUS
<1>2. q - d >= 1 => (q - d) * w >= w
  OBVIOUS
<1> QED
  BY <1>1, <1>2

\* Words put together are the words of the value.
LEMMA MadeOfWords ==
  ASSUME NEW h \in Nat, NEW l \in Nat, l <= Word - 1
  PROVE  h * Word + l \in Nat /\ Hi(h * Word + l) = h /\ Lo(h * Word + l) = l
<1>0. Word \in Nat
  BY ClintAssumption
<1> DEFINE v == h * Word + l
<1>1. v \in Nat
  BY <1>0
<1>2. /\ Hi(v) \in Nat /\ Lo(v) \in Nat /\ Lo(v) <= Word - 1
      /\ v = Hi(v) * Word + Lo(v)
  BY <1>1, Words
<1> DEFINE d == Hi(v)
           r == Lo(v)
<1>3. d \in Nat /\ r \in Nat /\ r <= Word - 1 /\ d * Word + r = h * Word + l
  BY <1>2
<1> HIDE DEF d, r
<1>4. d <= h /\ h <= d
  BY <1>0, <1>3, Quotient
<1>5. d = h
  BY <1>3, <1>4
<1>6. r = l
  BY <1>0, <1>3, <1>5
<1> QED
  BY <1>1, <1>5, <1>6 DEF d, r

\* The same with a low word of all ones.
LEMMA TopWord ==
  ASSUME NEW h \in Nat
  PROVE  Hi(h * Word + (Word - 1)) = h /\ Lo(h * Word + (Word - 1)) = Word - 1
<1> DEFINE l == Word - 1
<1>1. l \in Nat /\ l <= Word - 1
  BY ClintAssumption
<1> HIDE DEF l
<1>2. Hi(h * Word + l) = h /\ Lo(h * Word + l) = l
  BY <1>1, MadeOfWords
<1> QED
  BY <1>2 DEF l

\* The high word grows with the value.
LEMMA HighGrows ==
  ASSUME NEW u \in Nat, NEW v \in Nat, u <= v
  PROVE  Hi(u) <= Hi(v)
<1>1. /\ Hi(u) \in Nat /\ Lo(u) \in Nat /\ Lo(u) <= Word - 1 /\ u = Hi(u) * Word + Lo(u)
      /\ Hi(v) \in Nat /\ Lo(v) \in Nat /\ Lo(v) <= Word - 1 /\ v = Hi(v) * Word + Lo(v)
  BY Words
<1>2. Hi(u) * Word + Lo(u) <= Hi(v) * Word + Lo(v) /\ Word \in Nat
  BY <1>1, ClintAssumption
<1> QED
  BY <1>1, <1>2, Quotient

\* A low word read between two equal high words belongs to them.
LEMMA WordsMatch ==
  ASSUME NEW t \in Nat, NEW u \in Nat, NEW v \in Nat, t <= u, u <= v, Hi(t) = Hi(v)
  PROVE  Hi(t) * Word + Lo(u) = u
<1>1. Hi(t) <= Hi(u) /\ Hi(u) <= Hi(v)
  BY HighGrows
<1>2. Hi(t) \in Nat /\ Hi(u) \in Nat /\ Hi(v) \in Nat
  BY Words
<1>3. Hi(t) = Hi(u)
  BY <1>1, <1>2
<1> QED
  BY <1>3, Words

\* The high word of a register fits in a word.
LEMMA HighFits ==
  ASSUME NEW v \in Nat, v < Word * Word
  PROVE  Hi(v) <= Word - 1
<1>0. Word \in Nat /\ Word >= 1
  BY ClintAssumption
<1>1. Hi(v) \in Nat /\ Lo(v) \in Nat /\ v = Hi(v) * Word + Lo(v)
  BY Words
<1>2. Hi(v) >= Word => Hi(v) * Word >= Word * Word
  BY <1>0, <1>1
<1> QED
  BY <1>0, <1>1, <1>2

-----------------------------------------------------------------------------
(* The steps. *)

\* The clock goes on at any moment of a read, a count or a write.
LEMMA ClockStep ==
  ASSUME ClintInv, Clock
  PROVE  ClintInv'
<1>1. mtime \in Nat /\ mtime' = mtime + 1 /\ mtime' \in 0..MaxTime
  BY ClintAssumption DEF ClintInv, ClintTypeOK, Clock
<1>2. UNCHANGED <<mtimecmp, s_mtimecmp, call, pc, high, low, value, edge, periods, asked, old>>
  BY DEF Clock
<1>3. ClintTypeOK'
  BY <1>1, <1>2 DEF ClintInv, ClintTypeOK
<1>4. Reads'
  <2>1. asked.read \in Nat /\ value \in Nat /\ asked.call \in Nat
    BY DEF ClintInv, ClintTypeOK
  <2> QED
    BY <1>1, <1>2, <2>1 DEF ClintInv, Reads, Hi, Lo
<1>5. Counts'
  <2>1. edge \in Nat /\ TICK_COUNTS \in Nat
    BY ClintAssumption DEF ClintInv, ClintTypeOK
  <2>2. edge <= mtime + TICK_COUNTS => edge <= mtime' + TICK_COUNTS
    BY <1>1, <2>1
  <2> QED
    BY <1>2, <2>2 DEF ClintInv, Counts
<1>6. Writes'
  BY <1>2 DEF ClintInv, Writes, Hi, Lo
<1> QED
  BY <1>3, <1>4, <1>5, <1>6 DEF ClintInv

\* A call begins to count from the kernel's copy of the compare value.
LEMMA BeginStep ==
  ASSUME ClintInv, NEW c \in {"tkmc_timer_handler", "tkmc_schedule_timer"}, Begin(c)
  PROVE  ClintInv'
<1>1. /\ call = "none" /\ call' = c /\ pc' = "high" /\ edge' = s_mtimecmp /\ periods' = 0
      /\ asked' = [read |-> mtime, call |-> mtime]
      /\ UNCHANGED <<mtime, mtimecmp, s_mtimecmp, high, low, value, old>>
  BY DEF Begin
<1>2. mtime \in Nat /\ s_mtimecmp \in Nat /\ TICK_COUNTS \in Nat
  BY ClintAssumption DEF ClintInv, ClintTypeOK
<1>3. ClintTypeOK'
  BY <1>1, <1>2 DEF ClintInv, ClintTypeOK, Calls, Reading
<1>4. Reads'
  BY <1>1, <1>2 DEF Reads
<1>5. Counts'
  BY <1>1, <1>2 DEF Counts
<1>6. Writes'
  BY <1>1 DEF ClintInv, Writes, Writing
<1> QED
  BY <1>3, <1>4, <1>5, <1>6 DEF ClintInv

\* The accesses of read_mtime(): the time read lies between its beginning and
\* its end, whether or not the low word overflowed meanwhile.
LEMMA ReadStep ==
  ASSUME ClintInv, ReadHigh \/ ReadLow \/ ReadNextHigh
  PROVE  ClintInv'
<1>1. UNCHANGED <<mtime, mtimecmp, s_mtimecmp, call, edge, periods, asked, old>>
  BY DEF ReadHigh, ReadLow, ReadNextHigh
<1>2. /\ pc \in {"high", "low", "next_high"} /\ pc' \in {"high", "low", "next_high", "value"}
  BY DEF ReadHigh, ReadLow, ReadNextHigh
<1>3. mtime \in Nat /\ asked.read \in Nat /\ asked.call \in Nat
  BY DEF ClintInv, ClintTypeOK
<1>4. /\ Hi(mtime) \in Nat /\ Lo(mtime) \in Nat
      /\ Hi(mtime) = mtime \div Word /\ Lo(mtime) = mtime % Word
  BY <1>3, Words DEF Hi, Lo
<1>5. Counts'
  BY <1>1, <1>2 DEF ClintInv, Counts, Reading
<1>6. Writes'
  BY <1>1, <1>2 DEF ClintInv, Writes, Writing
<1>7. asked'.call <= asked'.read /\ asked'.read <= mtime'
  BY <1>1 DEF ClintInv, Reads
<1>8. CASE ReadHigh
  <2>1. high' = Hi(mtime) /\ pc' = "low" /\ UNCHANGED <<low, value>>
    BY <1>4, <1>8 DEF ReadHigh
  <2>2. ClintTypeOK'
    BY <1>1, <1>4, <2>1 DEF ClintInv, ClintTypeOK, Reading
  <2>3. \E t \in Nat : asked'.read <= t /\ t <= mtime' /\ high' = Hi(t)
    BY <1>1, <1>3, <1>7, <2>1
  <2>4. Reads'
    BY <1>7, <2>1, <2>3 DEF Reads, Hi
  <2> QED
    BY <1>5, <1>6, <2>2, <2>4 DEF ClintInv
<1>9. CASE ReadLow
  <2>1. low' = Lo(mtime) /\ pc' = "next_high" /\ UNCHANGED <<high, value>> /\ pc = "low"
    BY <1>4, <1>9 DEF ReadLow
  <2>2. ClintTypeOK'
    BY <1>1, <1>4, <2>1 DEF ClintInv, ClintTypeOK, Reading
  <2>3. PICK t \in Nat : asked.read <= t /\ t <= mtime /\ high = Hi(t)
    BY <2>1 DEF ClintInv, Reads
  <2>4. \E i, u \in Nat : /\ asked'.read <= i /\ i <= u /\ u <= mtime'
                          /\ high' = Hi(i) /\ low' = Lo(u)
    <3>1. /\ asked'.read <= t /\ t <= mtime /\ mtime <= mtime' /\ high' = Hi(t)
          /\ low' = Lo(mtime)
      BY <1>1, <1>3, <2>1, <2>3
    <3> QED
      BY <1>3, <3>1
  <2>5. Reads'
    BY <1>7, <2>1, <2>4 DEF Reads, Hi, Lo
  <2> QED
    BY <1>5, <1>6, <2>2, <2>5 DEF ClintInv
<1>10. CASE ReadNextHigh /\ SameHigh
  <2>1. /\ value' = high * Word + low /\ pc' = "value" /\ pc = "next_high" /\ high = Hi(mtime)
        /\ UNCHANGED <<high, low>>
    BY <1>4, <1>10 DEF ReadNextHigh, SameHigh
  <2>2. PICK t, u \in Nat : /\ asked.read <= t /\ t <= u /\ u <= mtime
                            /\ high = Hi(t) /\ low = Lo(u)
    BY <2>1 DEF ClintInv, Reads
  <2>3. value' = u
    BY <1>3, <2>1, <2>2, WordsMatch
  <2>4. ClintTypeOK'
    BY <1>1, <2>1, <2>3 DEF ClintInv, ClintTypeOK, Reading
  <2>5. asked'.read <= value' /\ value' <= mtime'
    BY <1>1, <1>3, <2>2, <2>3
  <2>6. Reads'
    BY <1>7, <2>1, <2>5 DEF Reads
  <2> QED
    BY <1>5, <1>6, <2>4, <2>6 DEF ClintInv
<1>11. CASE ReadNextHigh /\ ~SameHigh
  <2>1. pc' = "high" /\ UNCHANGED <<high, low, value>>
    BY <1>11 DEF ReadNextHigh
  <2>2. ClintTypeOK'
    BY <1>1, <2>1 DEF ClintInv, ClintTypeOK, Reading
  <2>3. Reads'
    BY <1>7, <2>1 DEF Reads
  <2> QED
    BY <1>5, <1>6, <2>2, <2>3 DEF ClintInv
<1> QED
  BY <1>8, <1>9, <1>10, <1>11

\* A turn of the loop of pass_elapsed_periods() counts an edge that has passed,
\* or ends at one that has not.
LEMMA CountStep ==
  ASSUME ClintInv, pass_elapsed_periods
  PROVE  ClintInv'
<1>1. /\ UNCHANGED <<mtime, mtimecmp, s_mtimecmp, call, high, low, value, old>>
      /\ pc = "value" /\ call # "tkmc_start_timer"
  BY DEF pass_elapsed_periods
<1>2. /\ mtime \in Nat /\ s_mtimecmp \in Nat /\ TICK_COUNTS \in Nat /\ edge \in Nat
      /\ periods \in Nat /\ value \in Nat /\ asked \in [read : Nat, call : Nat]
  BY ClintAssumption DEF ClintInv, ClintTypeOK
<1>3. /\ edge = s_mtimecmp + periods * TICK_COUNTS
      /\ asked.call <= asked.read /\ asked.read <= value /\ value <= mtime
  BY <1>1 DEF ClintInv, Counts, Reading, Reads
<1>4. CASE EdgePassed
  <2>1. /\ edge' = edge + TICK_COUNTS /\ periods' = periods + 1 /\ pc' = "high"
        /\ asked' = [asked EXCEPT !.read = mtime]
    BY <1>4 DEF pass_elapsed_periods
  <2>2. /\ asked' \in [read : Nat, call : Nat]
        /\ asked'.read = mtime /\ asked'.call = asked.call
    BY <1>2, <2>1
  <2>3. ClintTypeOK'
    BY <1>1, <1>2, <2>1, <2>2 DEF ClintInv, ClintTypeOK, Reading
  <2>4. Reads'
    BY <1>1, <1>2, <1>3, <2>1, <2>2 DEF Reads
  <2>5. edge' = s_mtimecmp' + periods' * TICK_COUNTS
    <3>1. (periods + 1) * TICK_COUNTS = periods * TICK_COUNTS + TICK_COUNTS
      BY <1>2
    <3> QED
      BY <1>1, <1>2, <1>3, <2>1, <3>1
  <2>6. edge' <= mtime' + TICK_COUNTS
    BY <1>1, <1>2, <1>3, <1>4, <2>1 DEF EdgePassed
  <2>7. Counts'
    BY <2>1, <2>5, <2>6 DEF Counts
  <2>8. Writes'
    BY <1>1, <2>1 DEF ClintInv, Writes, Writing
  <2> QED
    BY <2>3, <2>4, <2>7, <2>8 DEF ClintInv
<1>5. CASE ~EdgePassed
  <2>1. pc' = "counted" /\ UNCHANGED <<edge, periods, asked>>
    BY <1>5 DEF pass_elapsed_periods
  <2>2. ClintTypeOK'
    BY <1>1, <2>1 DEF ClintInv, ClintTypeOK, Reading
  <2>3. Reads'
    BY <1>1, <2>1 DEF ClintInv, Reads
  <2>4. asked.call < edge
    <3>1. asked.read \in Nat /\ asked.call \in Nat
      BY <1>2
    <3> QED
      BY <1>2, <1>3, <1>5, <3>1 DEF EdgePassed
  <2>5. Counts'
    BY <1>1, <2>1, <2>4 DEF ClintInv, Counts, Reading
  <2>6. Writes'
    BY <1>1, <2>1 DEF ClintInv, Writes, Writing
  <2> QED
    BY <2>2, <2>3, <2>5, <2>6 DEF ClintInv
<1> QED
  BY <1>4, <1>5

\* tkmc_start_timer() and tkmc_timer_handler() set the kernel's copy and go on
\* to the write; the other calls end.
LEMMA EdgeStep ==
  ASSUME ClintInv, StartEdge \/ Counted
  PROVE  ClintInv'
<1>1. UNCHANGED <<mtime, mtimecmp, high, low, edge, periods, asked, old>>
  BY DEF StartEdge, Counted
<1>2. /\ mtime \in Nat /\ mtime <= MaxTime /\ TICK_COUNTS \in Nat /\ edge \in Nat
      /\ MaxTime \in Nat /\ value \in Nat /\ s_mtimecmp \in Nat
  BY ClintAssumption DEF ClintInv, ClintTypeOK
<1>3. pc' \in {"write_first", "done"}
  BY DEF StartEdge, Counted
<1>4. Reads'
  BY <1>1, <1>3 DEF ClintInv, Reads
<1>5. Counts'
  BY <1>3 DEF Counts, Reading
<1>6. ASSUME NEW v \in 0..MaxTime + TICK_COUNTS, s_mtimecmp' = v, value' = v,
             pc' = "write_first", call' = call, call # "none"
      PROVE  ClintInv'
  <2>1. ClintTypeOK'
    BY <1>1, <1>2, <1>6 DEF ClintInv, ClintTypeOK, Writing
  <2>2. Writes'
    BY <1>6 DEF Writes, Writing
  <2> QED
    BY <1>4, <1>5, <2>1, <2>2 DEF ClintInv
<1>7. CASE StartEdge
  <2>1. value <= mtime /\ call = "tkmc_start_timer"
    BY <1>7 DEF StartEdge, ClintInv, Reads
  <2>2. value + TICK_COUNTS \in 0..MaxTime + TICK_COUNTS
    BY <1>2, <2>1
  <2> QED
    BY <1>6, <1>7, <2>1, <2>2 DEF StartEdge
<1>8. CASE Counted /\ call = "tkmc_timer_handler" /\ periods > 0
  <2>1. edge <= mtime + TICK_COUNTS
    BY <1>8 DEF Counted, ClintInv, Counts, Reading
  <2>2. edge \in 0..MaxTime + TICK_COUNTS
    BY <1>2, <2>1
  <2> QED
    BY <1>6, <1>8, <2>2 DEF Counted, NextEdge
<1>9. CASE Counted /\ ~(call = "tkmc_timer_handler" /\ periods > 0)
  <2>1. pc = "counted" /\ call' = "none" /\ pc' = "done" /\ UNCHANGED <<s_mtimecmp, value>>
    BY <1>9 DEF Counted
  <2>2. ClintTypeOK'
    BY <1>1, <2>1 DEF ClintInv, ClintTypeOK, Calls
  <2>3. mtimecmp = s_mtimecmp
    BY <2>1 DEF ClintInv, Counts, Reading, Writes, Writing
  <2>4. Writes'
    BY <1>1, <2>1, <2>3 DEF Writes, Writing
  <2> QED
    BY <1>4, <1>5, <2>2, <2>4 DEF ClintInv
<1> QED
  BY <1>7, <1>8, <1>9

\* The stores of write_mtimecmp(): the first lifts the low word, so that the
\* second cannot put the value below both the old and the new one.
LEMMA WriteStep ==
  ASSUME ClintInv, WriteFirst \/ WriteHigh \/ WriteLow
  PROVE  ClintInv'
<1>1. UNCHANGED <<mtime, s_mtimecmp, high, low, value, edge, periods, asked>>
  BY DEF WriteFirst, WriteHigh, WriteLow
<1>2. /\ mtimecmp \in Nat /\ mtimecmp < Word * Word /\ value \in Nat
      /\ Word \in Nat /\ Word >= 2 /\ Word - 1 \in Nat /\ s_mtimecmp \in Nat
      /\ s_mtimecmp < Word * Word
  BY ClintAssumption DEF ClintInv, ClintTypeOK
<1>3. pc \in Writing /\ value = s_mtimecmp /\ call # "none"
  BY DEF WriteFirst, WriteHigh, WriteLow, ClintInv, Writes, Writing
<1>4. pc' \in {"write_high", "write_low", "done"}
  BY DEF WriteFirst, WriteHigh, WriteLow
<1>5. Reads'
  BY <1>1, <1>4 DEF ClintInv, Reads
<1>6. Counts'
  BY <1>4 DEF Counts, Reading
<1>7. ASSUME NEW h \in Nat, NEW l \in Nat, h <= Word - 1, l <= Word - 1
      PROVE  h * Word + l \in 0..Word * Word - 1
  <2>1. h * Word <= (Word - 1) * Word
    BY <1>2, <1>7
  <2>2. h * Word \in Nat /\ (Word - 1) * Word = Word * Word - Word /\ Word * Word \in Nat
    BY <1>2, <1>7
  <2> QED
    BY <1>2, <1>7, <2>1, <2>2
<1>8. /\ Hi(mtimecmp) \in Nat /\ Hi(mtimecmp) <= Word - 1
      /\ Lo(mtimecmp) \in Nat /\ Lo(mtimecmp) <= Word - 1
      /\ mtimecmp = Hi(mtimecmp) * Word + Lo(mtimecmp)
  BY <1>2, Words, HighFits
<1>9. /\ Hi(value) \in Nat /\ Hi(value) <= Word - 1
      /\ Lo(value) \in Nat /\ Lo(value) <= Word - 1
      /\ value = Hi(value) * Word + Lo(value)
  BY <1>2, <1>3, Words, HighFits
<1>10. \A v : Hi(v)' = Hi(v) /\ Lo(v)' = Lo(v)
  BY DEF Hi, Lo
<1>11. CASE WriteFirst
  <2> DEFINE m == Hi(mtimecmp) * Word + (Word - 1)
  <2>1. /\ mtimecmp' = m /\ old' = mtimecmp /\ pc' = "write_high" /\ call' = call
    BY <1>2, <1>8, <1>11 DEF WriteFirst, FirstStore
  <2>2. m \in 0..Word * Word - 1 /\ Lo(m) = Word - 1 /\ m >= mtimecmp
    <3>1. m \in 0..Word * Word - 1
      BY <1>2, <1>7, <1>8
    <3>2. Lo(m) = Word - 1
      BY <1>8, TopWord
    <3>3. m >= mtimecmp
      BY <1>2, <1>8
    <3> QED
      BY <3>1, <3>2, <3>3
  <2> HIDE DEF m
  <2>3. ClintTypeOK'
    BY <1>1, <1>2, <2>1, <2>2 DEF ClintInv, ClintTypeOK, Writing
  <2>4. Writes'
    BY <1>1, <1>3, <2>1, <2>2 DEF Writes, Writing, Lo
  <2> QED
    BY <1>5, <1>6, <2>3, <2>4 DEF ClintInv
<1>12. CASE WriteHigh
  <2> DEFINE m == Hi(value) * Word + (Word - 1)
  <2>1. pc = "write_high" /\ Lo(mtimecmp) = Word - 1
    BY <1>12 DEF WriteHigh, ClintInv, Writes
  <2>2. /\ mtimecmp' = m /\ old' = old /\ pc' = "write_low" /\ call' = call
    BY <1>12, <2>1 DEF WriteHigh, SecondStore
  <2>3. m \in 0..Word * Word - 1 /\ Hi(m) = Hi(value) /\ m >= value
    <3>1. m \in 0..Word * Word - 1
      BY <1>2, <1>7, <1>9
    <3>2. Hi(m) = Hi(value)
      BY <1>9, TopWord
    <3>3. m >= value
      BY <1>2, <1>9
    <3> QED
      BY <3>1, <3>2, <3>3
  <2> HIDE DEF m
  <2>4. ClintTypeOK'
    BY <1>1, <2>2, <2>3 DEF ClintInv, ClintTypeOK, Writing
  <2>5. Writes'
    BY <1>1, <1>3, <2>2, <2>3 DEF Writes, Writing, Hi
  <2> QED
    BY <1>5, <1>6, <2>4, <2>5 DEF ClintInv
<1>13. CASE WriteLow
  <2>1. pc = "write_low" /\ Hi(mtimecmp) = Hi(value)
    BY <1>13 DEF WriteLow, ClintInv, Writes
  <2>2. mtimecmp' = value /\ old' = value /\ pc' = "done" /\ call' = "none"
    BY <1>9, <1>13, <2>1 DEF WriteLow
  <2>3. ClintTypeOK'
    <3>1. value \in 0..Word * Word - 1
      BY <1>2, <1>3
    <3> QED
      BY <1>1, <1>2, <2>2, <3>1 DEF ClintInv, ClintTypeOK, Calls
  <2>4. Writes'
    BY <1>1, <1>3, <2>2 DEF Writes, Writing
  <2> QED
    BY <1>5, <1>6, <2>3, <2>4 DEF ClintInv
<1> QED
  BY <1>11, <1>12, <1>13

\* The invariant holds throughout.
LEMMA ClintInvHolds == Spec => []ClintInv
<1>1. Init => ClintInv
  <2> SUFFICES ASSUME Init PROVE ClintInv
    OBVIOUS
  <2>1. ClintTypeOK
    BY ClintAssumption DEF Init, ClintTypeOK, Calls, Reading
  <2>2. Reads /\ Writes
    BY ClintAssumption DEF Init, Reads, Writes, Writing
  <2>3. 0 * TICK_COUNTS = 0
    BY ClintAssumption
  <2>4. Counts
    BY <2>3 DEF Init, Counts
  <2> QED
    BY <2>1, <2>2, <2>4 DEF ClintInv
<1>2. ClintInv /\ [Next]_vars => ClintInv'
  <2>1. ClintInv /\ UNCHANGED vars => ClintInv'
    BY DEF ClintInv, ClintTypeOK, Reads, Counts, Writes, vars, Hi, Lo
  <2> QED
    BY <2>1, ClockStep, BeginStep, ReadStep, CountStep, EdgeStep, WriteStep DEF Next
<1> QED
  BY <1>1, <1>2, PTL DEF Spec

\* read_mtime() returns a time that the clock showed during the call, though
\* the clock may carry into the high word between any two of its accesses.
THEOREM ReadsHold == Spec => []ReadsTrue
<1>1. ClintInv => ReadsTrue
  BY DEF ClintInv, Reads, ReadsTrue
<1> QED
  BY <1>1, ClintInvHolds, PTL

\* write_mtimecmp() never shows the hardware a value below both the old and the
\* new one, and outside it the hardware compares with s_mtimecmp.
THEOREM WritesHold == Spec => []WriteNotEarly
<1>1. ClintInv => WriteNotEarly
  <2> SUFFICES ASSUME ClintInv PROVE WriteNotEarly
    OBVIOUS
  <2>1. pc \in {"write_high", "write_low"} => mtimecmp >= old \/ mtimecmp >= value
    BY DEF ClintInv, Writes
  <2>2. call = "none" => mtimecmp = s_mtimecmp
    BY DEF ClintInv, Writes, Writing
  <2> QED
    BY <2>1, <2>2 DEF WriteNotEarly
<1> QED
  BY <1>1, ClintInvHolds, PTL

\* Whole ticks in a time that is less than n ticks, or at least n - 1.
LEMMA WholeTicks ==
  ASSUME NEW x \in Nat, NEW n \in Nat, NEW w \in Nat, w >= 1
  PROVE  /\ x < n * w => x \div w + 1 <= n
         /\ n >= 1 /\ (n - 1) * w <= x => n <= x \div w + 1
<1> DEFINE q == x \div w
           r == x % w
<1>1. q \in Nat /\ r \in Nat /\ r <= w - 1 /\ x = q * w + r
  OBVIOUS
<1> HIDE DEF q, r
<1>2. ASSUME x < n * w PROVE q + 1 <= n
  <2>1. q >= n => q * w >= n * w
    BY <1>1
  <2> QED
    BY <1>1, <1>2, <2>1
<1>3. ASSUME n >= 1, (n - 1) * w <= x PROVE n <= q + 1
  <2>1. (n - 1) * w + 0 <= q * w + r /\ n - 1 \in Nat
    BY <1>1, <1>3
  <2>2. n - 1 <= q
    BY <1>1, <2>1, Quotient
  <2> QED
    BY <1>1, <2>2
<1> QED
  BY <1>2, <1>3 DEF q

\* pass_elapsed_periods() counts every edge that had passed when it was called
\* and none that is still ahead, however long its reads take.
THEOREM CountsHold == Spec => []CountTrue
<1>1. ClintInv => CountTrue
  <2> SUFFICES ASSUME ClintInv, pc = "counted"
               PROVE  EdgesAt(asked.call) <= periods /\ periods <= EdgesAt(mtime)
    BY DEF CountTrue
  <2>0. /\ mtime \in Nat /\ s_mtimecmp \in Nat /\ TICK_COUNTS \in Nat /\ TICK_COUNTS >= 1
        /\ edge \in Nat /\ periods \in Nat /\ asked.call \in Nat
    BY ClintAssumption DEF ClintInv, ClintTypeOK
  <2>1. /\ edge = s_mtimecmp + periods * TICK_COUNTS
        /\ periods > 0 => edge <= mtime + TICK_COUNTS
        /\ asked.call < edge
    BY DEF ClintInv, Counts, Reading
  <2> DEFINE n == periods * TICK_COUNTS
  <2>2. n \in Nat /\ edge = s_mtimecmp + n
    BY <2>0, <2>1
  <2>3. EdgesAt(asked.call) <= periods
    <3>1. CASE asked.call < s_mtimecmp
      BY <2>0, <3>1 DEF EdgesAt
    <3>2. CASE ~(asked.call < s_mtimecmp)
      <4> DEFINE x == asked.call - s_mtimecmp
      <4>1. x \in Nat
        BY <2>0, <3>2
      <4>2. x < n
        BY <2>0, <2>1, <2>2, <3>2
      <4>3. EdgesAt(asked.call) = x \div TICK_COUNTS + 1
        BY <3>2 DEF EdgesAt
      <4> HIDE DEF x
      <4> QED
        BY <2>0, <4>1, <4>2, <4>3, WholeTicks
    <3> QED
      BY <3>1, <3>2
  <2>4. periods <= EdgesAt(mtime)
    <3>1. CASE periods = 0
      <4>1. ~(mtime < s_mtimecmp) => (mtime - s_mtimecmp) \div TICK_COUNTS >= 0
        BY <2>0
      <4> QED
        BY <2>0, <3>1, <4>1 DEF EdgesAt
    <3>2. CASE periods > 0
      <4> DEFINE x == mtime - s_mtimecmp
                 m == (periods - 1) * TICK_COUNTS
      <4>1. m \in Nat /\ n = m + TICK_COUNTS
        BY <2>0, <3>2
      <4>2. m <= x /\ x \in Nat
        BY <2>0, <2>1, <2>2, <3>2, <4>1
      <4>3. ~(mtime < s_mtimecmp)
        BY <2>0, <4>2
      <4>4. EdgesAt(mtime) = x \div TICK_COUNTS + 1
        BY <4>3 DEF EdgesAt
      <4>5. periods >= 1 /\ (periods - 1) * TICK_COUNTS <= x
        BY <2>0, <3>2, <4>2
      <4> HIDE DEF x
      <4> QED
        BY <2>0, <4>2, <4>4, <4>5, WholeTicks
    <3> QED
      BY <2>0, <3>1, <3>2
  <2> QED
    BY <2>3, <2>4
<1> QED
  BY <1>1, ClintInvHolds, PTL

\* tkmc_timer_handler() moves s_mtimecmp on by the ticks it counted: over any
\* number of interrupts no edge is skipped or counted twice.
THEOREM EdgesHold == Spec => EdgesKept
<1>1. ClintInv /\ [Next]_vars =>
        (s_mtimecmp' # s_mtimecmp /\ call = "tkmc_timer_handler"
           => s_mtimecmp' = s_mtimecmp + periods * TICK_COUNTS)
  <2> SUFFICES ASSUME ClintInv, [Next]_vars, s_mtimecmp' # s_mtimecmp,
                      call = "tkmc_timer_handler"
               PROVE  s_mtimecmp' = s_mtimecmp + periods * TICK_COUNTS
    OBVIOUS
  <2>1. Counted
    BY DEF Next, vars, Clock, Begin, ReadHigh, ReadLow, ReadNextHigh, pass_elapsed_periods,
           StartEdge, WriteFirst, WriteHigh, WriteLow
  <2>2. s_mtimecmp' = edge /\ pc = "counted"
    BY <2>1 DEF Counted, NextEdge
  <2> QED
    BY <2>2 DEF ClintInv, Counts, Reading
<1> QED
  BY <1>1, ClintInvHolds, PTL DEF Spec, EdgesKept
=============================================================================
