-------------------------- MODULE SemaphoreProofs --------------------------
(***************************************************************************)
(* What the walks of the timer handler, of tkmc_sem_serve_waiters() and of *)
(* tk_set_flg() compute, for any number of waiters, units and deadlines.   *)
(***************************************************************************)
EXTENDS Kernel, KernelQueueProofs, FiniteSetTheorems

\* What the assumptions on the constants say of tasks and priorities.
LEMMA Numbers ==
  /\ TSKID \subseteq Nat /\ IniTsk \in TSKID /\ IdlTsk \in TSKID /\ NULL \notin TSKID
  /\ IniTsk # IdlTsk
  /\ Pri \subseteq Nat /\ 1 \in Pri /\ CFN_MAX_PRI \in Pri /\ Pri \subseteq 0..CFN_MAX_PRI
  BY TaskAssumption DEF TSKID, IniTsk, IdlTsk, NULL, Pri

\* The tasks of the queue s are in the order of their deadlines.
ByDeadline(s) == \A i, j \in 1..Len(s) : i < j => delay_ticks[s[i]] <= delay_ticks[s[j]]

\* Tasks with a later deadline, all the same, behind a queue in that order.
LEMMA LaterDeadline ==
  ASSUME NEW s \in Seq(TSKID), NEW r \in Seq(TSKID), NEW d \in Nat, ByDeadline(s),
         delay_ticks \in [TSKID -> Nat],
         \A t \in Elems(s) : delay_ticks[t] <= d, \A t \in Elems(r) : delay_ticks[t] = d
  PROVE  ByDeadline(s \o r)
<1> DEFINE c == s \o r
           m == Len(s)
           n == Len(r)
<1>1. /\ c \in Seq(TSKID) /\ m \in Nat /\ n \in Nat /\ Len(c) = m + n
      /\ \A i \in 1..m + n : c[i] = IF i <= m THEN s[i] ELSE r[i - m]
  OBVIOUS
<1>2. \A i \in 1..m : delay_ticks[s[i]] <= d
  BY DEF Elems
<1>3. \A i \in 1..n : delay_ticks[r[i]] = d
  BY DEF Elems
<1>4. \A i, j \in 1..m : i < j => delay_ticks[s[i]] <= delay_ticks[s[j]]
  BY DEF ByDeadline
<1> HIDE DEF c, m, n
<1> SUFFICES ASSUME NEW i \in 1..m + n, NEW j \in 1..m + n, i < j
             PROVE  delay_ticks[c[i]] <= delay_ticks[c[j]]
  BY <1>1 DEF ByDeadline, c
<1>5. CASE j <= m
  <2>1. i \in 1..m /\ j \in 1..m /\ c[i] = s[i] /\ c[j] = s[j]
    BY <1>1, <1>5
  <2> QED
    BY <1>4, <2>1
<1>6. CASE ~(j <= m)
  <2>1. j - m \in 1..n /\ c[j] = r[j - m]
    BY <1>1, <1>6
  <2>2. delay_ticks[c[j]] = d
    BY <1>3, <2>1
  <2>3. CASE i <= m
    <3>1. i \in 1..m /\ c[i] = s[i]
      BY <1>1, <2>3
    <3> QED
      BY <1>2, <2>2, <3>1
  <2>4. CASE ~(i <= m)
    <3>1. i - m \in 1..n /\ c[i] = r[i - m]
      BY <1>1, <2>4
    <3>2. delay_ticks[c[i]] = d
      BY <1>3, <3>1
    <3> QED
      BY <2>2, <3>2
  <2> QED
    BY <2>3, <2>4
<1> QED
  BY <1>5, <1>6

\* The tasks that the timer handler ends: those whose count the edges reach, in
\* the order of their deadlines.
LEMMA ExpiredTasks ==
  ASSUME timer_queue \in Seq(TSKID), delay_ticks \in [TSKID -> Nat], Uniq(timer_queue),
         NEW n \in Nat
  PROVE  /\ Expired(n) \in Seq(TSKID)
         /\ Uniq(Expired(n))
         /\ Elems(Expired(n)) = {t \in Elems(timer_queue) : delay_ticks[t] <= n}
         /\ ByDeadline(Expired(n))
<1> DEFINE V == Seq(TSKID)
           K == [d \in Nat |-> Keep(timer_queue, {t \in TSKID : delay_ticks[t] = d})]
           Body(f) == [d \in 0..n |-> IF d = 0 THEN K[0] ELSE f[d - 1] \o K[d]]
           F == [x \in Nat \X V |-> x[2] \o K[x[1]]]
           upTo == CHOOSE f : f = Body(f)
<1>1. ASSUME NEW d \in Nat
      PROVE  /\ K[d] \in V /\ Uniq(K[d])
             /\ Elems(K[d]) = {t \in Elems(timer_queue) : delay_ticks[t] = d}
  <2>1. /\ K[d] \in V /\ Uniq(K[d])
        /\ Elems(K[d]) = Elems(timer_queue) \cap {t \in TSKID : delay_ticks[t] = d}
    BY KeepProperties
  <2>2. Elems(timer_queue) \subseteq TSKID
    BY SmallQueues
  <2> QED
    BY <2>1, <2>2
<1> HIDE DEF K
<1>2. F \in [Nat \X V -> V]
  <2>1. \A d \in Nat, v \in V : v \o K[d] \in V
    BY <1>1
  <2> QED
    BY <2>1
<1>3. \A d \in 1..n, v \in V : F[<<d, v>>] = v \o K[d]
  <2>1. \A d \in 1..n : d \in Nat
    OBVIOUS
  <2> QED
    BY <2>1
<1> HIDE DEF F, V
<1>4. PICK g \in [0..n -> V] : /\ g[0] = K[0]
                              /\ \A d \in 1..n : g[d] = F[<<d, g[d - 1]>>]
  <2>1. HasStepwise(V, K[0], F, n)
    BY <1>1, <1>2, StepwiseFunction
  <2> QED
    BY <2>1 DEF HasStepwise
<1>5. g = Body(g)
  <2>1. \A d \in 1..n : d - 1 \in 0..n /\ g[d - 1] \in V
    BY <1>4
  <2>2. \A d \in 1..n : g[d] = g[d - 1] \o K[d]
    BY <1>3, <1>4, <2>1
  <2>3. \A d \in 0..n : d = 0 \/ d \in 1..n
    OBVIOUS
  <2>4. \A d \in 0..n : g[d] = IF d = 0 THEN K[0] ELSE g[d - 1] \o K[d]
    BY <1>4, <2>2, <2>3
  <2>5. g = [d \in 0..n |-> g[d]]
    BY <1>4
  <2> QED
    BY <2>4, <2>5
<1>6. upTo = Body(upTo)
  BY <1>5
<1>7. Expired(n) = upTo[n]
  <2> DEFINE Body2(f) ==
               [d \in 0..n |->
                 IF d = 0 THEN Keep(timer_queue, {t \in TSKID : delay_ticks[t] = 0})
                 ELSE f[d - 1] \o Keep(timer_queue, {t \in TSKID : delay_ticks[t] = d})]
  <2>1. \A f : Body2(f) = Body(f)
    <3> SUFFICES ASSUME NEW f PROVE Body2(f) = Body(f)
      OBVIOUS
    <3>1. \A d \in 0..n : K[d] = Keep(timer_queue, {t \in TSKID : delay_ticks[t] = d})
      BY DEF K
    <3> QED
      BY <3>1
  <2> HIDE DEF Body
  <2>2. (CHOOSE f : f = Body2(f)) = (CHOOSE f : f = Body(f))
    BY <2>1
  <2>3. Expired(n) = (CHOOSE f : f = Body2(f))[n]
    BY DEF Expired
  <2> QED
    BY <2>2, <2>3
<1> HIDE DEF upTo
<1>8. /\ upTo[0] = K[0]
      /\ \A d \in 1..n : upTo[d] = upTo[d - 1] \o K[d]
  <2>1. \A d \in 0..n : upTo[d] = Body(upTo)[d]
    BY <1>6
  <2>2. 0 \in 0..n /\ \A d \in 1..n : d \in 0..n /\ d # 0
    OBVIOUS
  <2> QED
    BY <2>1, <2>2
<1> DEFINE Good(d) == /\ upTo[d] \in Seq(TSKID) /\ Uniq(upTo[d])
                      /\ Elems(upTo[d]) = {t \in Elems(timer_queue) : delay_ticks[t] <= d}
                      /\ ByDeadline(upTo[d])
           Bad == {d \in 0..n : ~Good(d)}
<1>9. Good(0)
  <2>1. \A t \in Elems(timer_queue) : delay_ticks[t] <= 0 <=> delay_ticks[t] = 0
    BY SmallQueues
  <2>2. ByDeadline(K[0])
    <3>1. Elems(K[0]) = {t \in Elems(timer_queue) : delay_ticks[t] = 0}
      BY <1>1
    <3>2. \A i \in 1..Len(K[0]) : K[0][i] \in Elems(K[0])
      BY DEF Elems
    <3>3. \A i \in 1..Len(K[0]) : delay_ticks[K[0][i]] = 0
      BY <3>1, <3>2
    <3> QED
      BY <3>3 DEF ByDeadline
  <2>3. /\ K[0] \in V /\ Uniq(K[0])
        /\ Elems(K[0]) = {t \in Elems(timer_queue) : delay_ticks[t] = 0}
    BY <1>1
  <2>4. Elems(K[0]) = {t \in Elems(timer_queue) : delay_ticks[t] <= 0}
    BY <2>1, <2>3
  <2> QED
    BY <1>8, <2>2, <2>3, <2>4 DEF V
<1>10. ASSUME NEW d \in 1..n, Good(d - 1)
       PROVE  Good(d)
  <2>0. upTo[d] = upTo[d - 1] \o K[d]
    BY ONLY <1>8, d \in 1..n
  <2>1. d \in Nat /\ upTo[d] = upTo[d - 1] \o K[d]
    BY <2>0
  <2>2. /\ K[d] \in Seq(TSKID) /\ Uniq(K[d])
        /\ Elems(K[d]) = {t \in Elems(timer_queue) : delay_ticks[t] = d}
    BY <1>1, <2>1 DEF V
  <2>3. \A t \in Elems(timer_queue) : delay_ticks[t] \in Nat
    BY SmallQueues
  <2>4. Elems(upTo[d - 1]) \cap Elems(K[d]) = {}
    BY <1>10, <2>1, <2>2, <2>3
  <2>5. /\ upTo[d] \in Seq(TSKID) /\ Uniq(upTo[d])
        /\ Elems(upTo[d]) = Elems(upTo[d - 1]) \cup Elems(K[d])
    BY <1>10, <2>1, <2>2, <2>4, JoinProperties
  <2>6. Elems(upTo[d]) = {t \in Elems(timer_queue) : delay_ticks[t] <= d}
    BY <1>10, <2>1, <2>2, <2>3, <2>5
  <2>7. ByDeadline(upTo[d])
    <3>1. \A t \in Elems(K[d]) : delay_ticks[t] = d
      BY <2>2
    <3>2. \A t \in Elems(upTo[d - 1]) : delay_ticks[t] <= d
      <4>1. \A t \in Elems(upTo[d - 1]) : t \in Elems(timer_queue) /\ delay_ticks[t] <= d - 1
        BY <1>10
      <4>2. \A k \in Nat : k <= d - 1 => k <= d
        BY <2>1
      <4> QED
        BY <2>3, <4>1, <4>2
    <3>3. upTo[d - 1] \in Seq(TSKID) /\ ByDeadline(upTo[d - 1]) /\ K[d] \in Seq(TSKID)
      BY <1>10, <2>2
    <3>4. ByDeadline(upTo[d - 1] \o K[d])
      BY <2>1, <3>1, <3>2, <3>3, LaterDeadline
    <3> QED
      BY <2>1, <3>4
  <2> QED
    BY <2>5, <2>6, <2>7
<1> HIDE DEF Good
<1>11. Bad = {}
  <2> SUFFICES ASSUME Bad # {} PROVE FALSE
    OBVIOUS
  <2>1. PICK m \in Bad : \A k \in Bad : m <= k
    <3>1. Bad \subseteq Nat
      OBVIOUS
    <3> HIDE DEF Bad
    <3> QED
      BY <3>1, LeastNat
  <2>2. m \in 1..n /\ ~Good(m)
    BY <1>9, <2>1
  <2>3. m - 1 \in 0..n /\ ~(m <= m - 1)
    BY <2>2
  <2>4. Good(m - 1)
    BY <2>1, <2>3
  <2> QED
    BY <1>10, <2>2, <2>4
<1>12. Good(n)
  BY <1>11
<1> QED
  BY <1>7, <1>12 DEF Good

-----------------------------------------------------------------------------
(* Objects and semaphores. *)

\* The first of a set of places is one of them.
LEMMA LeastPlace ==
  ASSUME NEW n, NEW S, S \subseteq 1..n, S # {}
  PROVE  (CHOOSE i \in S : \A j \in S : i <= j) \in 1..n
<1>1. S \subseteq Nat
  OBVIOUS
<1>2. \E i \in S : \A j \in S : i <= j
  BY <1>1, LeastNat
<1> QED
  BY <1>2

-----------------------------------------------------------------------------
(* Sums of units. *)

\* The units that the waits w of the tasks S ask for.
Units(w, S) == MapThenSumSet(LAMBDA t : w[t].req, S)

\* The function of which Units takes the value at S.
SumStep(w, S, f) ==
  [s \in SUBSET S |-> LET x == CHOOSE x \in s : TRUE
                      IN IF s = {} THEN 0 ELSE w[x].req + f[s \ {x}]]
SumFun(w, S) == CHOOSE f : f = SumStep(w, S, f)

\* Of a collection of subsets of a finite set, one has no smaller member.
LEMMA LeastSet ==
  ASSUME NEW U, IsFiniteSet(U), NEW B, B \subseteq SUBSET U, B # {}
  PROVE  \E S \in B : \A x \in S : S \ {x} \notin B
<1>1. \A S \in SUBSET U : IsFiniteSet(S) /\ Cardinality(S) \in Nat
  BY FS_Subset, FS_CardinalityType
<1> DEFINE C == {Cardinality(S) : S \in B}
<1>2. C \subseteq Nat /\ C # {}
  BY <1>1
<1> HIDE DEF C
<1>3. PICK m \in C : \A k \in C : m <= k
  BY <1>2, LeastNat
<1>4. PICK S \in B : m = Cardinality(S)
  BY <1>3 DEF C
<1>5. ASSUME NEW x \in S, S \ {x} \in B
      PROVE  FALSE
  <2>1. Cardinality(S \ {x}) = m - 1 /\ m \in Nat
    BY <1>1, <1>4, FS_RemoveElement
  <2>2. Cardinality(S \ {x}) \in C
    BY <1>5 DEF C
  <2> QED
    BY <1>3, <2>1, <2>2
<1> QED
  BY <1>5

\* The function exists: after n steps from any function it is right for the sets
\* of fewer than n tasks.
LEMMA SumFunExists ==
  ASSUME NEW w, NEW S, IsFiniteSet(S), \A t \in S : w[t].req \in Nat
  PROVE  SumFun(w, S) = SumStep(w, S, SumFun(w, S))
<1> DEFINE V == [SUBSET S -> Nat]
           b == [s \in SUBSET S |-> 0]
           F == [x \in Nat \X V |-> SumStep(w, S, x[2])]
           N == Cardinality(S) + 1
<1>1. /\ N \in Nat
      /\ \A s \in SUBSET S : Cardinality(s) \in Nat /\ Cardinality(s) < N
      /\ \A s \in SUBSET S : \A x \in s : Cardinality(s \ {x}) = Cardinality(s) - 1
  <2>1. \A s \in SUBSET S : /\ IsFiniteSet(s) /\ Cardinality(s) \in Nat
                            /\ Cardinality(s) <= Cardinality(S)
    BY FS_Subset, FS_CardinalityType
  <2>2. Cardinality(S) \in Nat
    BY FS_CardinalityType
  <2>3. \A s \in SUBSET S : \A x \in s : Cardinality(s \ {x}) = Cardinality(s) - 1
    BY <2>1, FS_RemoveElement
  <2> QED
    BY <2>1, <2>2, <2>3
<1>2. b \in V
  OBVIOUS
<1>3. ASSUME NEW f \in V
      PROVE  SumStep(w, S, f) \in V
  <2>1. ASSUME NEW s \in SUBSET S, s # {}
        PROVE  w[CHOOSE x \in s : TRUE].req + f[s \ {CHOOSE x \in s : TRUE}] \in Nat
    <3>1. (CHOOSE x \in s : TRUE) \in S /\ s \ {CHOOSE x \in s : TRUE} \in SUBSET S
      BY <2>1
    <3> QED
      BY <3>1
  <2> QED
    BY <2>1 DEF SumStep
<1>4. F \in [Nat \X V -> V] /\ \A n \in Nat, f \in V : F[<<n, f>>] = SumStep(w, S, f)
  BY <1>3
<1> HIDE DEF V, b, F, N
<1>5. PICK g \in [0..N -> V] : g[0] = b /\ \A n \in 1..N : g[n] = F[<<n, g[n - 1]>>]
  <2>1. HasStepwise(V, b, F, N)
    BY <1>1, <1>2, <1>4, StepwiseFunction
  <2> QED
    BY <2>1 DEF HasStepwise
<1>6. \A n \in 1..N : g[n] = SumStep(w, S, g[n - 1])
  <2> SUFFICES ASSUME NEW n \in 1..N PROVE g[n] = SumStep(w, S, g[n - 1])
    OBVIOUS
  <2>1. n - 1 \in 0..N /\ n \in Nat
    BY <1>1
  <2> QED
    BY <1>4, <1>5, <2>1
<1> DEFINE W == [n \in 0..N |-> {f \in V : \A s \in SUBSET S :
                    Cardinality(s) < n => f[s] = SumStep(w, S, f)[s]}]
<1>7. g[0] \in W[0]
  BY <1>1, <1>2, <1>5
<1>8. \A n \in 1..N : g[n - 1] \in W[n - 1] => g[n] \in W[n]
  <2> SUFFICES ASSUME NEW n \in 1..N, g[n - 1] \in W[n - 1] PROVE g[n] \in W[n]
    OBVIOUS
  <2>1. n - 1 \in 0..N /\ n \in 0..N
    BY <1>1
  <2> DEFINE f == g[n - 1]
             h == g[n]
  <2>2. f \in V /\ h \in V /\ h = SumStep(w, S, f)
    BY <1>5, <1>6, <2>1
  <2>3. \A s \in SUBSET S : Cardinality(s) < n - 1 => f[s] = h[s]
    BY <2>1, <2>2
  <2> HIDE DEF f, h
  <2>4. ASSUME NEW s \in SUBSET S, Cardinality(s) < n
        PROVE  h[s] = SumStep(w, S, h)[s]
    <3>1. CASE s = {}
      BY <2>2, <3>1 DEF SumStep
    <3>2. CASE s # {}
      <4> DEFINE x == CHOOSE x \in s : TRUE
      <4>1. x \in s
        BY <3>2
      <4>2. s \ {x} \in SUBSET S /\ Cardinality(s \ {x}) < n - 1
        <5> HIDE DEF x
        <5>1. Cardinality(s \ {x}) = Cardinality(s) - 1 /\ Cardinality(s) \in Nat
          BY <1>1, <4>1
        <5>2. n \in Int
          BY <1>1
        <5> QED
          BY <2>4, <5>1, <5>2
      <4>3. f[s \ {x}] = h[s \ {x}]
        BY <2>3, <4>2
      <4>4. h[s] = w[x].req + f[s \ {x}]
        BY <2>2, <3>2 DEF SumStep
      <4>5. SumStep(w, S, h)[s] = w[x].req + h[s \ {x}]
        BY <3>2 DEF SumStep
      <4> QED
        BY <4>3, <4>4, <4>5
    <3> QED
      BY <3>1, <3>2
  <2> QED
    BY <2>1, <2>2, <2>4 DEF h
<1>9. g[N] \in W[N]
  <2> HIDE DEF W
  <2> QED
    BY <1>1, <1>7, <1>8, StepwiseStays
<1>10. g[N] \in V /\ \A s \in SUBSET S : g[N][s] = SumStep(w, S, g[N])[s]
  BY <1>1, <1>9
<1>11. g[N] = SumStep(w, S, g[N])
  BY <1>10 DEF V, SumStep
<1> QED
  BY <1>11 DEF SumFun

\* Two such functions agree where both are defined.
LEMMA SumFunSame ==
  ASSUME NEW w, NEW S, IsFiniteSet(S), \A t \in S : w[t].req \in Nat, NEW T \in SUBSET S
  PROVE  SumFun(w, S)[T] = SumFun(w, T)[T]
<1> DEFINE f == SumFun(w, S)
           h == SumFun(w, T)
           B == {s \in SUBSET T : f[s] # h[s]}
<1>1. f = SumStep(w, S, f)
  BY SumFunExists
<1>2. h = SumStep(w, T, h)
  <2>1. IsFiniteSet(T)
    BY FS_Subset
  <2> QED
    BY <2>1, SumFunExists
<1> HIDE DEF f, h
<1>3. SUFFICES ASSUME B # {} PROVE FALSE
  BY DEF f, h
<1>4. PICK s \in B : \A x \in s : s \ {x} \notin B
  <2>1. B \subseteq SUBSET S
    OBVIOUS
  <2> HIDE DEF B
  <2> QED
    BY <1>3, <2>1, LeastSet
<1>5. s \in SUBSET S /\ s \in SUBSET T /\ f[s] # h[s]
  BY <1>4
<1>6. CASE s = {}
  BY <1>1, <1>2, <1>5, <1>6 DEF SumStep
<1>7. CASE s # {}
  <2> DEFINE x == CHOOSE x \in s : TRUE
  <2>1. x \in s /\ s \ {x} \in SUBSET T
    BY <1>5, <1>7
  <2>2. f[s \ {x}] = h[s \ {x}]
    BY <1>4, <2>1
  <2>3. f[s] = w[x].req + f[s \ {x}]
    BY <1>1, <1>5, <1>7 DEF SumStep
  <2>4. h[s] = w[x].req + h[s \ {x}]
    BY <1>2, <1>5, <1>7 DEF SumStep
  <2> QED
    BY <1>5, <2>2, <2>3, <2>4
<1> QED
  BY <1>6, <1>7

\* The sum, one task at a time in the order of CHOOSE.
LEMMA UnitsChoose ==
  ASSUME NEW w, NEW S, IsFiniteSet(S), \A t \in S : w[t].req \in Nat
  PROVE  /\ S = {} => Units(w, S) = 0
         /\ S # {} => \E x \in S : Units(w, S) = w[x].req + Units(w, S \ {x})
<1>1. \A T : Units(w, T) = SumFun(w, T)[T]
  BY DEF Units, MapThenSumSet, MapThenFoldSet, SumFun, SumStep
<1> DEFINE f == SumFun(w, S)
<1>2. f = SumStep(w, S, f)
  BY SumFunExists
<1> HIDE DEF f
<1>3. S = {} => f[S] = 0
  BY <1>2 DEF SumStep
<1>4. ASSUME S # {}
      PROVE  \E x \in S : Units(w, S) = w[x].req + Units(w, S \ {x})
  <2> DEFINE x == CHOOSE x \in S : TRUE
  <2>1. x \in S
    BY <1>4
  <2>2. f[S] = w[x].req + f[S \ {x}]
    BY <1>2, <1>4 DEF SumStep
  <2>3. f[S \ {x}] = SumFun(w, S \ {x})[S \ {x}]
    <3> HIDE DEF x
    <3> QED
      BY SumFunSame DEF f
  <2> QED
    BY <1>1, <2>1, <2>2, <2>3 DEF f
<1> QED
  BY <1>1, <1>3, <1>4 DEF f

\* The units of no task, and of a set of tasks without any one of them.
LEMMA UnitsRemove ==
  ASSUME NEW w, NEW U, IsFiniteSet(U), \A t \in U : w[t].req \in Nat
  PROVE  /\ Units(w, {}) = 0
         /\ \A S \in SUBSET U : Units(w, S) \in Nat
         /\ \A S \in SUBSET U : \A x \in S : Units(w, S) = w[x].req + Units(w, S \ {x})
<1>1. \A S \in SUBSET U : IsFiniteSet(S) /\ \A t \in S : w[t].req \in Nat
  BY FS_Subset
<1>2. /\ Units(w, {}) = 0
      /\ \A S \in SUBSET U :
           S # {} => \E x \in S : Units(w, S) = w[x].req + Units(w, S \ {x})
  <2>1. {} \in SUBSET U
    OBVIOUS
  <2> QED
    BY <1>1, <2>1, UnitsChoose
<1>3. \A S \in SUBSET U : Units(w, S) \in Nat
  <2> DEFINE B == {S \in SUBSET U : Units(w, S) \notin Nat}
  <2> SUFFICES ASSUME B # {} PROVE FALSE
    OBVIOUS
  <2>1. PICK S \in B : \A x \in S : S \ {x} \notin B
    <3>1. B \subseteq SUBSET U
      OBVIOUS
    <3> HIDE DEF B
    <3> QED
      BY <3>1, LeastSet
  <2>2. S \in SUBSET U /\ Units(w, S) \notin Nat /\ \A x \in S : Units(w, S \ {x}) \in Nat
    BY <2>1
  <2>5. S # {}
    <3> SUFFICES ASSUME S = {} PROVE FALSE
      OBVIOUS
    <3>1. Units(w, S) = 0
      BY <1>2
    <3> QED
      BY <2>2, <3>1
  <2>3. PICK c \in S : Units(w, S) = w[c].req + Units(w, S \ {c})
    BY <1>2, <2>2, <2>5
  <2>4. w[c].req \in Nat /\ Units(w, S \ {c}) \in Nat
    BY <2>2, <2>3
  <2> QED
    BY <2>2, <2>3, <2>4
<1> DEFINE Right(S) == \A x \in S : Units(w, S) = w[x].req + Units(w, S \ {x})
           B == {S \in SUBSET U : ~Right(S)}
<1>4. B = {}
  <2> SUFFICES ASSUME B # {} PROVE FALSE
    OBVIOUS
  <2>1. PICK S \in B : \A x \in S : S \ {x} \notin B
    <3>1. B \subseteq SUBSET U
      OBVIOUS
    <3> HIDE DEF B
    <3> QED
      BY <3>1, LeastSet
  <2>2. S \in SUBSET U /\ \A x \in S : S \ {x} \in SUBSET U /\ Right(S \ {x})
    BY <2>1
  <2>3. PICK x \in S : Units(w, S) # w[x].req + Units(w, S \ {x})
    BY <2>1
  <2>4. PICK c \in S : Units(w, S) = w[c].req + Units(w, S \ {c})
    BY <1>2, <2>2, <2>3
  <2>5. x # c
    BY <2>3, <2>4
  <2> DEFINE R == S \ {x, c}
  <2>6. R = (S \ {c}) \ {x} /\ R = (S \ {x}) \ {c} /\ R \in SUBSET U
    BY <2>2
  <2>7. Units(w, S \ {c}) = w[x].req + Units(w, R)
    BY <2>2, <2>5, <2>6
  <2>8. Units(w, S \ {x}) = w[c].req + Units(w, R)
    BY <2>2, <2>5, <2>6
  <2>9. w[x].req \in Nat /\ w[c].req \in Nat /\ Units(w, R) \in Nat
    BY <1>3, <2>2, <2>6
  <2> QED
    BY <2>3, <2>4, <2>7, <2>8, <2>9
<1> QED
  BY <1>2, <1>3, <1>4

\* The units of two sets of tasks with no task in common.
LEMMA UnitsUnion ==
  ASSUME NEW w, NEW U, IsFiniteSet(U), \A t \in U : w[t].req \in Nat,
         NEW S \in SUBSET U, NEW T \in SUBSET U, S \cap T = {}
  PROVE  Units(w, S \cup T) = Units(w, S) + Units(w, T)
<1>1. /\ Units(w, {}) = 0
      /\ \A R \in SUBSET U : Units(w, R) \in Nat
      /\ \A R \in SUBSET U : \A x \in R : Units(w, R) = w[x].req + Units(w, R \ {x})
  BY UnitsRemove
<1> DEFINE B == {R \in SUBSET T : Units(w, S \cup R) # Units(w, S) + Units(w, R)}
<1> SUFFICES ASSUME B # {} PROVE FALSE
  OBVIOUS
<1>2. PICK R \in B : \A x \in R : R \ {x} \notin B
  <2>1. B \subseteq SUBSET U
    OBVIOUS
  <2> HIDE DEF B
  <2> QED
    BY <2>1, LeastSet
<1>3. /\ R \in SUBSET T /\ R \in SUBSET U /\ S \cup R \in SUBSET U
      /\ Units(w, S \cup R) # Units(w, S) + Units(w, R)
      /\ \A x \in R : Units(w, S \cup (R \ {x})) = Units(w, S) + Units(w, R \ {x})
  BY <1>2
<1>4. CASE R = {}
  <2>1. S \cup R = S
    BY <1>4
  <2> QED
    BY <1>1, <1>3, <1>4, <2>1
<1>5. CASE R # {}
  <2>1. PICK x \in R : TRUE
    BY <1>5
  <2>2. (S \cup R) \ {x} = S \cup (R \ {x}) /\ x \in S \cup R
    BY <1>3, <2>1
  <2>3. Units(w, S \cup R) = w[x].req + Units(w, S \cup (R \ {x}))
    <3>1. Units(w, S \cup R) = w[x].req + Units(w, (S \cup R) \ {x})
      BY <1>1, <1>3, <2>2
    <3> QED
      BY <2>2, <3>1
  <2>4. Units(w, R) = w[x].req + Units(w, R \ {x})
    BY <1>1, <1>3, <2>1
  <2>5. w[x].req \in Nat /\ Units(w, S) \in Nat /\ Units(w, R \ {x}) \in Nat
    BY <1>1, <1>3, <2>1
  <2> QED
    BY <1>3, <2>1, <2>3, <2>4, <2>5
<1> QED
  BY <1>4, <1>5

\* The sum depends on the requests of its tasks only.
LEMMA UnitsAgree ==
  ASSUME NEW w, NEW v, NEW S, IsFiniteSet(S), \A t \in S : w[t].req \in Nat,
         \A t \in S : v[t] = w[t]
  PROVE  Units(v, S) = Units(w, S)
<1>1. /\ Units(w, {}) = 0
      /\ \A R \in SUBSET S : \A x \in R : Units(w, R) = w[x].req + Units(w, R \ {x})
  BY UnitsRemove
<1>2. /\ Units(v, {}) = 0
      /\ \A R \in SUBSET S : \A x \in R : Units(v, R) = v[x].req + Units(v, R \ {x})
  <2>1. \A t \in S : v[t].req \in Nat
    OBVIOUS
  <2> QED
    BY <2>1, UnitsRemove
<1> DEFINE B == {R \in SUBSET S : Units(v, R) # Units(w, R)}
<1> SUFFICES ASSUME B # {} PROVE FALSE
  OBVIOUS
<1>3. PICK R \in B : \A x \in R : R \ {x} \notin B
  <2>1. B \subseteq SUBSET S
    OBVIOUS
  <2> HIDE DEF B
  <2> QED
    BY <2>1, LeastSet
<1>4. R \in SUBSET S /\ Units(v, R) # Units(w, R)
  BY <1>3
<1>5. PICK x \in R : TRUE
  BY <1>1, <1>2, <1>4
<1>6. Units(v, R \ {x}) = Units(w, R \ {x})
  BY <1>3, <1>5
<1>7. Units(v, R) = v[x].req + Units(v, R \ {x}) /\ v[x] = w[x]
  BY <1>2, <1>4, <1>5
<1> QED
  BY <1>1, <1>4, <1>5, <1>6, <1>7

\* What tasks ask a semaphore for can be added up.
LEMMA UnitsOfTasks ==
  ASSUME \A t \in TSKID : winfo[t].req \in Nat
  PROVE  /\ IsFiniteSet(TSKID)
         /\ Units(winfo, {}) = 0
         /\ \A S \in SUBSET TSKID : Units(winfo, S) \in Nat
         /\ \A S \in SUBSET TSKID : \A x \in S :
              Units(winfo, S) = winfo[x].req + Units(winfo, S \ {x})
         /\ \A S, T \in SUBSET TSKID :
              S \cap T = {} => Units(winfo, S \cup T) = Units(winfo, S) + Units(winfo, T)
<1>1. IsFiniteSet(TSKID)
  BY TaskAssumption, FS_Interval DEF TSKID
<1>2. /\ Units(winfo, {}) = 0
      /\ \A S \in SUBSET TSKID : Units(winfo, S) \in Nat
      /\ \A S \in SUBSET TSKID : \A x \in S :
           Units(winfo, S) = winfo[x].req + Units(winfo, S \ {x})
  BY <1>1, UnitsRemove
<1>3. \A S, T \in SUBSET TSKID :
        S \cap T = {} => Units(winfo, S \cup T) = Units(winfo, S) + Units(winfo, T)
  BY <1>1, UnitsUnion
<1> QED
  BY <1>1, <1>2, <1>3

-----------------------------------------------------------------------------
\* Every control block is an object of its own, and Kind tells which.
LEMMA Objects ==
  /\ \A s \in SEMID : Sem(s) \in Obj /\ Sem(s)[2] = s /\ Kind(Sem(s)) = "SEM"
  /\ \A f \in FLGID : Flg(f) \in Obj /\ Flg(f)[2] = f /\ Kind(Flg(f)) = "FLG"
  /\ \A m \in MBXID : Mbx(m) \in Obj /\ Mbx(m)[2] = m /\ Kind(Mbx(m)) = "MBX"
  /\ \A o \in Obj : Kind(o) = "SEM" => o[2] \in SEMID /\ o = Sem(o[2])
  /\ NoWait.obj \notin Obj
<1>1. ASSUME NEW s \in SEMID
      PROVE  Sem(s) \in Obj /\ Sem(s)[2] = s /\ Kind(Sem(s)) = "SEM"
  BY DEF Sem, SemObj, Obj, Kind
<1>2. ASSUME NEW f \in FLGID
      PROVE  Flg(f) \in Obj /\ Flg(f)[2] = f /\ Kind(Flg(f)) = "FLG"
  BY DEF Sem, Flg, SemObj, FlgObj, Obj, Kind
<1>3. ASSUME NEW m \in MBXID
      PROVE  Mbx(m) \in Obj /\ Mbx(m)[2] = m /\ Kind(Mbx(m)) = "MBX"
  BY DEF Sem, Flg, Mbx, SemObj, FlgObj, MbxObj, Obj, Kind
<1>4. ASSUME NEW o \in Obj, Kind(o) = "SEM"
      PROVE  o[2] \in SEMID /\ o = Sem(o[2])
  <2>1. o \in SemObj
    BY <1>4 DEF Kind
  <2> QED
    BY <2>1 DEF SemObj, Sem
<1>5. NoWait.obj \notin Obj
  BY DEF NoWait, Obj, SemObj, FlgObj, MbxObj, Sem, Flg, Mbx
<1> QED
  BY <1>1, <1>2, <1>3, <1>4, <1>5

\* Of u units, v.units are left and the others are with the tasks of v.served.
HandedOut(v, u) == v.units + Units(winfo, Elems(v.served)) = u

\* tkmc_sem_serve_waiters() takes waiters of the queue, each once, and never
\* more units than there are.  Under TA_FIRST it serves no waiter behind one that
\* it does not serve, and a waiter that it stops at or passes asks for more than
\* the units that are left.
\* When it serves no one it takes no unit, and what it takes from the units is
\* what those it serves had asked for.
LEMMA ServeProperties ==
  ASSUME NEW semid, NEW q \in Seq(TSKID), Uniq(q), NEW units \in Nat,
         \A t \in TSKID : winfo[t].req \in Nat
  PROVE  /\ Serve(semid, q, units).served \in Seq(TSKID)
         /\ Uniq(Serve(semid, q, units).served)
         /\ Elems(Serve(semid, q, units).served) \subseteq Elems(q)
         /\ Serve(semid, q, units).units \in 0..units
         /\ \A i \in 1..Len(q) :
              /\ q[i] \notin Elems(Serve(semid, q, units).served)
              /\ sematr[semid].cnt \/
                   \A j \in 1..i - 1 : q[j] \in Elems(Serve(semid, q, units).served)
              => winfo[q[i]].req > Serve(semid, q, units).units
         /\ sematr[semid].cnt \/
              \A i \in 1..Len(q), j \in 1..Len(q) :
                j < i /\ q[i] \in Elems(Serve(semid, q, units).served)
                => q[j] \in Elems(Serve(semid, q, units).served)
         /\ Elems(Serve(semid, q, units).served) = {} => Serve(semid, q, units).units = units
         /\ HandedOut(Serve(semid, q, units), units)
<1> DEFINE N == Len(q)
           V == [units : 0..units, served : SUBSET TSKID]
           b == [units |-> units, served |-> {}]
           Step(n, w) == IF /\ winfo[q[n]].req <= w.units
                            /\ sematr[semid].cnt \/ \A i \in 1..n - 1 : q[i] \in w.served
                         THEN [units |-> w.units - winfo[q[n]].req,
                               served |-> w.served \cup {q[n]}]
                         ELSE w
           Body(f) == [n \in 0..N |-> IF n = 0 THEN b ELSE Step(n, f[n - 1])]
           F == [x \in Nat \X V |-> IF x[1] \in 1..N THEN Step(x[1], x[2]) ELSE x[2]]
           walk == CHOOSE f : f = Body(f)
<1>0. N \in Nat /\ \A n \in 1..N : q[n] \in TSKID
  OBVIOUS
<1>1. b \in V
  OBVIOUS
<1>2. ASSUME NEW n \in 1..N, NEW w \in V
      PROVE  Step(n, w) \in V
  <2>1. q[n] \in TSKID /\ winfo[q[n]].req \in Nat
    BY <1>0
  <2>2. ASSUME winfo[q[n]].req <= w.units
        PROVE  w.units - winfo[q[n]].req \in 0..units
    BY <2>1, <2>2
  <2> QED
    BY <2>1, <2>2
<1> HIDE DEF Step, b, V
<1>3. F \in [Nat \X V -> V] /\ \A n \in 1..N, w \in V : F[<<n, w>>] = Step(n, w)
  BY <1>0, <1>2
<1> HIDE DEF F, N
<1>4. PICK g \in [0..N -> V] : g[0] = b /\ \A n \in 1..N : g[n] = F[<<n, g[n - 1]>>]
  <2>1. HasStepwise(V, b, F, N)
    BY <1>0, <1>1, <1>3, StepwiseFunction
  <2> QED
    BY <2>1 DEF HasStepwise
<1>5. g = Body(g)
  <2>1. \A n \in 1..N : g[n] = Step(n, g[n - 1])
    <3> SUFFICES ASSUME NEW n \in 1..N PROVE g[n] = Step(n, g[n - 1])
      OBVIOUS
    <3>1. n - 1 \in 0..N
      BY <1>0
    <3>2. g[n - 1] \in V
      BY <1>4, <3>1
    <3> QED
      BY <1>3, <1>4, <3>2
  <2>2. \A n \in 0..N : n = 0 \/ n \in 1..N
    BY <1>0
  <2>3. \A n \in 0..N : g[n] = IF n = 0 THEN b ELSE Step(n, g[n - 1])
    BY <1>4, <2>1, <2>2
  <2>4. g = [n \in 0..N |-> g[n]]
    BY <1>4
  <2> QED
    BY <2>3, <2>4
<1>6. walk = Body(walk)
  BY <1>5
<1>7. Serve(semid, q, units) = [units |-> walk[N].units, served |-> Keep(q, walk[N].served)]
  BY DEF Serve, N, Step, b
<1> HIDE DEF walk
<1>8. walk[0] = b /\ \A n \in 1..N : walk[n] = Step(n, walk[n - 1])
  <2>1. \A n \in 0..N : walk[n] = IF n = 0 THEN b ELSE Step(n, walk[n - 1])
    BY <1>6
  <2>2. 0 \in 0..N /\ \A n \in 1..N : n \in 0..N /\ n # 0
    BY <1>0
  <2> QED
    BY <2>1, <2>2
<1> DEFINE cnt == sematr[semid].cnt
           Walked(n, w) ==
             /\ \A i \in 1..N : q[i] \in w.served => i <= n
             /\ \A i \in 1..n : /\ q[i] \notin w.served
                                /\ cnt \/ \A j \in 1..i - 1 : q[j] \in w.served
                                => winfo[q[i]].req > w.units
             /\ cnt \/ \A i \in 1..N : q[i] \in w.served => \A j \in 1..i - 1 : q[j] \in w.served
             /\ w.units = units \/ \E i \in 1..N : q[i] \in w.served
             /\ w.served \subseteq Elems(q)
             /\ w.units + Units(winfo, w.served) = units
<1>9. walk[N] \in V /\ Walked(N, walk[N])
  <2> DEFINE W == [n \in 0..N |-> {w \in V : Walked(n, w)}]
  <2>1. walk[0] \in W[0]
    <3>2. units + Units(winfo, {}) = units
      BY UnitsOfTasks
    <3>1. b \in V /\ Walked(0, b)
      BY <1>0, <1>1, <3>2 DEF b
    <3> QED
      BY <1>0, <1>8, <3>1
  <2>2. \A n \in 1..N : walk[n - 1] \in W[n - 1] => walk[n] \in W[n]
    <3> SUFFICES ASSUME NEW n \in 1..N, walk[n - 1] \in W[n - 1] PROVE walk[n] \in W[n]
      OBVIOUS
    <3> DEFINE w == walk[n - 1]
               x == walk[n]
    <3>1. n \in 0..N /\ n - 1 \in 0..N
      BY <1>0
    <3>2. w \in V /\ Walked(n - 1, w)
      BY <3>1
    <3>3. x \in V /\ x = Step(n, w)
      BY <1>2, <1>8, <3>2
    <3> HIDE DEF w, x
    <3>4. w.units \in Int /\ \A i \in 1..N : q[i] \in TSKID /\ winfo[q[i]].req \in Int
      BY <1>0, <3>2 DEF V
    <3>5. \A i \in 1..N : q[i] \in w.served => i <= n - 1
      BY <3>2
    <3>6. \A i \in 1..n - 1 : /\ q[i] \notin w.served
                              /\ cnt \/ \A j \in 1..i - 1 : q[j] \in w.served
                              => winfo[q[i]].req > w.units
      BY <3>2
    <3>7. cnt \/ \A i \in 1..N : q[i] \in w.served => \A j \in 1..i - 1 : q[j] \in w.served
      BY <3>2
    <3>10. w.units = units \/ \E i \in 1..N : q[i] \in w.served
      BY <3>2
    <3>11. w.served \subseteq Elems(q) /\ w.units + Units(winfo, w.served) = units
      BY <3>2
    <3>8. CASE ~(winfo[q[n]].req <= w.units /\ (cnt \/ \A i \in 1..n - 1 : q[i] \in w.served))
      <4>1. x = w
        BY <3>3, <3>8 DEF Step
      <4>2. \A i \in 1..N : q[i] \in w.served => i <= n
        BY <1>0, <3>5
      <4>3. ASSUME NEW i \in 1..n, q[i] \notin w.served,
                   cnt \/ \A j \in 1..i - 1 : q[j] \in w.served
            PROVE  winfo[q[i]].req > w.units
        <5>1. CASE i = n
          BY <3>4, <3>8, <4>3, <5>1
        <5>2. CASE i # n
          <6>1. i \in 1..n - 1
            BY <1>0, <5>2
          <6> QED
            BY <3>6, <4>3, <6>1
        <5> QED
          BY <5>1, <5>2
      <4>4. Walked(n, x)
        BY <3>7, <3>10, <3>11, <4>1, <4>2, <4>3
      <4> QED
        BY <3>1, <3>3, <4>4 DEF x
    <3>9. CASE winfo[q[n]].req <= w.units /\ (cnt \/ \A i \in 1..n - 1 : q[i] \in w.served)
      <4>1. x.units = w.units - winfo[q[n]].req /\ x.served = w.served \cup {q[n]}
        BY <3>3, <3>9 DEF Step
      <4>2. \A i \in 1..N : q[i] \in x.served <=> q[i] \in w.served \/ i = n
        BY <4>1 DEF Uniq, N
      <4>3. \A i \in 1..N : q[i] \in x.served => i <= n
        BY <1>0, <3>5, <4>2
      <4>4. ASSUME NEW i \in 1..n, q[i] \notin x.served,
                   cnt \/ \A j \in 1..i - 1 : q[j] \in x.served
            PROVE  winfo[q[i]].req > x.units
        <5>1. i \in 1..n - 1 /\ i \in 1..N /\ \A j \in 1..i - 1 : j \in 1..N /\ j # n
          BY <1>0, <4>2, <4>4
        <5>2. q[i] \notin w.served /\ (cnt \/ \A j \in 1..i - 1 : q[j] \in w.served)
          BY <4>2, <4>4, <5>1
        <5>3. winfo[q[i]].req > w.units /\ winfo[q[n]].req \in Nat
          BY <1>0, <3>6, <5>1, <5>2
        <5>4. \A a, c, u \in Int : a > u /\ c >= 0 => a > u - c
          OBVIOUS
        <5>5. winfo[q[i]].req \in Int /\ winfo[q[n]].req \in Int /\ winfo[q[n]].req >= 0
          BY <3>4, <5>1, <5>3
        <5>6. winfo[q[i]].req > w.units - winfo[q[n]].req
          BY <3>4, <5>3, <5>4, <5>5
        <5> QED
          BY <4>1, <5>6
      <4>5. cnt \/ \A i \in 1..N : q[i] \in x.served => \A j \in 1..i - 1 : q[j] \in x.served
        <5> SUFFICES ASSUME ~cnt, NEW i \in 1..N, q[i] \in x.served, NEW j \in 1..i - 1
                     PROVE  q[j] \in x.served
          OBVIOUS
        <5>1. CASE i = n
          BY <3>9, <4>1, <5>1
        <5>2. CASE i # n
          BY <3>7, <4>1, <4>2, <5>2
        <5> QED
          BY <5>1, <5>2
      <4>6. \E i \in 1..N : q[i] \in x.served
        BY <4>2
      <4>8. x.served \subseteq Elems(q)
        BY <3>11, <4>1 DEF Elems, N
      <4>9. x.units + Units(winfo, x.served) = units
        <5>1. /\ q[n] \notin w.served /\ q[n] \in x.served /\ x.served \ {q[n]} = w.served
              /\ x.served \in SUBSET TSKID /\ w.served \in SUBSET TSKID
          BY <1>0, <3>2, <3>3, <3>5, <4>1 DEF V
        <5>2. \A S \in SUBSET TSKID :
                /\ Units(winfo, S) \in Nat
                /\ \A y \in S : Units(winfo, S) = winfo[y].req + Units(winfo, S \ {y})
          BY UnitsOfTasks
        <5>3. Units(winfo, w.served) \in Nat
          BY <5>1, <5>2
        <5>4. Units(winfo, x.served) = winfo[q[n]].req + Units(winfo, w.served)
          BY <5>1, <5>2
        <5> QED
          BY <3>4, <3>11, <4>1, <5>3, <5>4
      <4>7. Walked(n, x)
        BY <4>3, <4>4, <4>5, <4>6, <4>8, <4>9
      <4> QED
        BY <3>1, <3>3, <4>7 DEF x
    <3> QED
      BY <3>8, <3>9 DEF x
  <2>3. N \in 0..N /\ W[N] = {w \in V : Walked(N, w)}
    <3> HIDE DEF Walked
    <3> QED
      BY <1>0
  <2>4. walk[N] \in W[N]
    <3> HIDE DEF W
    <3> QED
      BY <1>0, <2>1, <2>2, <2>3, StepwiseStays
  <2> QED
    BY <2>3, <2>4
<1>10. walk[N].units \in 0..units
  BY <1>9 DEF V
<1> DEFINE S == walk[N].served
<1>11. Keep(q, S) \in Seq(TSKID) /\ Uniq(Keep(q, S)) /\ Elems(Keep(q, S)) = Elems(q) \cap S
  <2> HIDE DEF S
  <2> QED
    BY KeepProperties
<1>12. \A i \in 1..N : q[i] \in Elems(Keep(q, S)) <=> q[i] \in S
  BY <1>11 DEF Elems, N
<1>13. /\ \A i \in 1..N : /\ q[i] \notin S /\ (cnt \/ \A j \in 1..i - 1 : q[j] \in S)
                          => winfo[q[i]].req > walk[N].units
       /\ cnt \/ \A i \in 1..N : q[i] \in S => \A j \in 1..i - 1 : q[j] \in S
       /\ walk[N].units = units \/ \E i \in 1..N : q[i] \in S
       /\ S \subseteq Elems(q)
       /\ walk[N].units + Units(winfo, S) = units
  BY <1>9
<1> DEFINE K == Elems(Keep(q, S))
<1> HIDE DEF S, Walked
<1>14. ASSUME NEW i \in 1..N, q[i] \notin K, cnt \/ \A j \in 1..i - 1 : q[j] \in K
       PROVE  winfo[q[i]].req > walk[N].units
  <2>1. \A j \in 1..i - 1 : j \in 1..N
    BY <1>0
  <2> QED
    BY <1>12, <1>13, <1>14, <2>1
<1>15. cnt \/ \A i \in 1..N, j \in 1..N : j < i /\ q[i] \in K => q[j] \in K
  <2> SUFFICES ASSUME ~cnt, NEW i \in 1..N, NEW j \in 1..N, j < i, q[i] \in K PROVE q[j] \in K
    OBVIOUS
  <2>1. j \in 1..i - 1
    BY <1>0
  <2> QED
    BY <1>12, <1>13, <2>1
<1>16. /\ Serve(semid, q, units).units = walk[N].units
       /\ Serve(semid, q, units).served = Keep(q, S) /\ Elems(Serve(semid, q, units).served) = K
  BY <1>7 DEF S
<1>17. K = {} => walk[N].units = units
  BY <1>12, <1>13
<1>18. walk[N].units + Units(winfo, K) = units
  <2>1. K = S
    BY <1>11, <1>13
  <2> QED
    BY <1>13, <2>1
<1>19. HandedOut(Serve(semid, q, units), units)
  BY <1>16, <1>18 DEF HandedOut
<1> QED
  BY <1>10, <1>11, <1>14, <1>15, <1>16, <1>17, <1>19 DEF N

\* The waits that may end together: each once, of waiting tasks, of which those
\* for a semaphore may be given their units, and the units left are no more than
\* there were.
Ends == {b \in [ts : Seq(TSKID), given : SUBSET TSKID, units : [SEMID -> Nat]] :
           /\ Uniq(b.ts)
           /\ \A t \in Elems(b.ts) : tskstat[t] = "WAI"
           /\ \A t \in b.given : t \in Elems(b.ts) /\ tskwait[t] = "SEM"
           /\ \A s \in SEMID : b.units[s] <= semcnt[s]}

\* A wait that ends for its time limit or tk_rel_wai() ends once, with the waits
\* of others that have not ended yet, and leaves no unit that was not there.
LEMMA LeaveProperties ==
  ASSUME WaitInv, NEW b \in Ends, NEW t \in TSKID, tskstat[t] = "WAI", t \notin Elems(b.ts)
  PROVE  /\ Leave(b, t) \in Ends
         /\ t \in Elems(Leave(b, t).ts) /\ Elems(b.ts) \subseteq Elems(Leave(b, t).ts)
         /\ Elems(Leave(b, t).ts) \ Leave(b, t).given \subseteq (Elems(b.ts) \ b.given) \cup {t}
<1>1. /\ b.ts \in Seq(TSKID) /\ b.given \in SUBSET TSKID /\ b.units \in [SEMID -> Nat]
      /\ Uniq(b.ts) /\ \A x \in Elems(b.ts) : tskstat[x] = "WAI"
      /\ \A x \in b.given : x \in Elems(b.ts) /\ tskwait[x] = "SEM"
      /\ \A s \in SEMID : b.units[s] <= semcnt[s]
      /\ b = [ts |-> b.ts, given |-> b.given, units |-> b.units]
  BY DEF Ends
<1> DEFINE a == Append(b.ts, t)
<1>2. a \in Seq(TSKID) /\ Uniq(a) /\ Elems(a) = Elems(b.ts) \cup {t}
  BY <1>1, AppendQueue
<1>3. \A x \in Elems(a) : tskstat[x] = "WAI"
  BY <1>1, <1>2
<1> HIDE DEF a
<1>4. CASE tskwait[t] # "SEM"
  <2>1. Leave(b, t) = [ts |-> a, given |-> b.given, units |-> b.units]
    BY <1>1, <1>4 DEF Leave, a
  <2>2. Leave(b, t) \in Ends
    BY <1>1, <1>2, <1>3, <2>1 DEF Ends
  <2> QED
    BY <1>2, <2>1, <2>2
<1>5. CASE tskwait[t] = "SEM"
  <2> DEFINE o == winfo[t].obj
             s == o[2]
             q == Without(wait_queue[o], Elems(b.ts) \cup {t})
             v == Serve(s, q, b.units[s])
             c == a \o v.served
             u == [b.units EXCEPT ![s] = v.units]
  <2>1. o \in Obj /\ s \in SEMID
    BY <1>5, Objects DEF WaitInv, WaitQueuesConsistent, WaitersQueued, Queued
  <2>2. /\ wait_queue[o] \in Seq(TSKID) /\ Uniq(wait_queue[o])
        /\ \A x \in TSKID : x \in Elems(wait_queue[o]) => tskstat[x] = "WAI" /\ tskwait[x] = "SEM"
    BY <1>5, <2>1 DEF WaitInv, WaitTypes, WaitQueuesConsistent, WaitersQueued, Queued
  <2>3. /\ q \in Seq(TSKID) /\ Uniq(q)
        /\ Elems(q) = Elems(wait_queue[o]) \ (Elems(b.ts) \cup {t})
    BY <2>2, WithoutProperties
  <2>4. b.units[s] \in Nat /\ \A x \in TSKID : winfo[x].req \in Nat
    BY <1>1, <2>1 DEF WaitInv, WaitTypes
  <2> HIDE DEF q, s, o
  <2>5. /\ v.served \in Seq(TSKID) /\ Uniq(v.served) /\ Elems(v.served) \subseteq Elems(q)
        /\ v.units \in 0..b.units[s]
    BY <2>3, <2>4, ServeProperties
  <2>6. Leave(b, t) = [ts |-> c, given |-> b.given \cup Elems(v.served), units |-> u]
    BY <1>5 DEF Leave, o, s, q, a
  <2> HIDE DEF v
  <2>7. Elems(a) \cap Elems(v.served) = {} /\ Elems(v.served) \subseteq TSKID
    BY <1>2, <2>3, <2>5, SmallQueues
  <2>8. c \in Seq(TSKID) /\ Uniq(c) /\ Elems(c) = Elems(a) \cup Elems(v.served)
    BY <1>2, <2>5, <2>7, JoinProperties
  <2>9. \A x \in Elems(c) : tskstat[x] = "WAI"
    BY <1>3, <2>2, <2>3, <2>5, <2>7, <2>8
  <2>12. \A x \in b.given \cup Elems(v.served) : x \in Elems(c) /\ tskwait[x] = "SEM"
    BY <1>1, <1>2, <2>2, <2>3, <2>5, <2>7, <2>8
  <2>10. u \in [SEMID -> Nat] /\ \A r \in SEMID : u[r] <= semcnt[r]
    <3>1. v.units \in Nat /\ v.units <= b.units[s]
      BY <2>4, <2>5
    <3>2. semcnt[s] \in Nat
      BY <2>1 DEF WaitInv, SemTypes
    <3>3. u[s] <= semcnt[s]
      BY <1>1, <2>1, <2>4, <3>1, <3>2
    <3> QED
      BY <1>1, <2>1, <3>1, <3>3
  <2> HIDE DEF c, u
  <2>11. Leave(b, t) \in Ends
    BY <1>1, <2>6, <2>7, <2>8, <2>9, <2>10, <2>12 DEF Ends
  <2> QED
    BY <1>2, <2>6, <2>8, <2>11
<1> QED
  BY <1>4, <1>5

\* Before any wait has ended.
LEMMA NoneLeftEnds ==
  ASSUME WaitInv
  PROVE  NoneLeft \in Ends /\ Elems(NoneLeft.ts) = {}
<1>1. << >> \in Seq(TSKID) /\ Uniq(<< >>) /\ Elems(<< >>) = {}
  BY SmallQueues
<1>2. semcnt \in [SEMID -> Nat] /\ \A s \in SEMID : semcnt[s] <= semcnt[s]
  BY DEF WaitInv, SemTypes
<1>3. NoneLeft = [ts |-> << >>, given |-> {}, units |-> semcnt]
  BY DEF NoneLeft
<1> HIDE DEF NoneLeft
<1> QED
  BY <1>1, <1>2, <1>3 DEF Ends

\* The causes of those waits are causes of waits.
LEMMA CausesType ==
  ASSUME NEW b, NEW ercd \in Ercd
  PROVE  Causes(b, ercd) \in [TSKID -> Ercd]
  BY DEF Causes, Ercd

\* What the timer handler has done after each of the waits that are over, f[i] after
\* the first i.
TimedSteps(n, f) ==
  /\ f[0] = NoneLeft
  /\ \A i \in 1..Len(Expired(n)) :
       f[i] = IF Expired(n)[i] \in Elems(f[i - 1].ts) THEN f[i - 1]
              ELSE Leave(f[i - 1], Expired(n)[i])

\* tkmc_timer_handler() goes through the waits that are over one after the other.
LEMMA TimedOutSteps ==
  ASSUME KernelInv, WaitInv, NEW n \in Nat
  PROVE  \E f : TimedSteps(n, f) /\ TimedOut(n) = f[Len(Expired(n))]
<1> DEFINE e == Expired(n)
           N == Len(e)
           Step(i, b) == IF e[i] \in Elems(b.ts) THEN b ELSE Leave(b, e[i])
           Body(f) == [i \in 0..N |-> IF i = 0 THEN NoneLeft ELSE Step(i, f[i - 1])]
           F == [x \in Nat \X Ends |-> IF x[1] \in 1..N THEN Step(x[1], x[2]) ELSE x[2]]
           upTo == CHOOSE f : f = Body(f)
<1>0. /\ e \in Seq(TSKID)
      /\ Elems(e) = {t \in Elems(timer_queue) : delay_ticks[t] <= n}
      /\ Elems(timer_queue) \subseteq TSKID
  BY ExpiredTasks, SmallQueues DEF KernelInv, TaskTypes, QueueTypes, TcbTypes, QueuesConsistent
<1> HIDE DEF e
<1>1. N \in Nat /\ \A i \in 1..N : e[i] \in TSKID /\ tskstat[e[i]] = "WAI"
  <2>1. N \in Nat /\ \A i \in 1..N : e[i] \in TSKID /\ e[i] \in Elems(e)
    BY <1>0 DEF Elems
  <2> QED
    BY <1>0, <2>1 DEF KernelInv, QueuesConsistent
<1>2. ASSUME NEW i \in 1..N, NEW b \in Ends
      PROVE  /\ Step(i, b) \in Ends /\ e[i] \in Elems(Step(i, b).ts)
             /\ Elems(b.ts) \subseteq Elems(Step(i, b).ts)
             /\ Elems(Step(i, b).ts) \ Step(i, b).given \subseteq (Elems(b.ts) \ b.given) \cup {e[i]}
  <2>1. CASE e[i] \in Elems(b.ts)
    BY <2>1
  <2>2. CASE e[i] \notin Elems(b.ts)
    BY <1>1, <2>2, LeaveProperties
  <2> QED
    BY <2>1, <2>2
<1> HIDE DEF Step, N
<1>3. F \in [Nat \X Ends -> Ends] /\ \A i \in 1..N, b \in Ends : F[<<i, b>>] = Step(i, b)
  BY <1>1, <1>2
<1> HIDE DEF F
<1>4. PICK g \in [0..N -> Ends] : g[0] = NoneLeft /\ \A i \in 1..N : g[i] = F[<<i, g[i - 1]>>]
  <2>1. HasStepwise(Ends, NoneLeft, F, N)
    BY <1>1, <1>3, NoneLeftEnds, StepwiseFunction
  <2> QED
    BY <2>1 DEF HasStepwise
<1>5. g = Body(g)
  <2>1. \A i \in 1..N : g[i] = Step(i, g[i - 1])
    <3> SUFFICES ASSUME NEW i \in 1..N PROVE g[i] = Step(i, g[i - 1])
      OBVIOUS
    <3>1. i - 1 \in 0..N
      BY <1>1
    <3>2. g[i - 1] \in Ends
      BY <1>4, <3>1
    <3> QED
      BY <1>3, <1>4, <3>2
  <2>2. \A i \in 0..N : i = 0 \/ i \in 1..N
    BY <1>1
  <2>3. \A i \in 0..N : g[i] = IF i = 0 THEN NoneLeft ELSE Step(i, g[i - 1])
    BY <1>4, <2>1, <2>2
  <2>4. g = [i \in 0..N |-> g[i]]
    BY <1>4
  <2> QED
    BY <2>3, <2>4
<1>6. upTo = Body(upTo)
  BY <1>5
<1>7. TimedOut(n) = upTo[N]
  BY DEF TimedOut, N, Step, e
<1> HIDE DEF upTo
<1>8. upTo[0] = NoneLeft /\ \A i \in 1..N : upTo[i] = Step(i, upTo[i - 1])
  <2>1. \A i \in 0..N : upTo[i] = IF i = 0 THEN NoneLeft ELSE Step(i, upTo[i - 1])
    BY <1>6
  <2>2. 0 \in 0..N /\ \A i \in 1..N : i \in 0..N /\ i # 0
    BY <1>1
  <2> QED
    BY <2>1, <2>2
<1>9. TimedSteps(n, upTo)
  BY <1>8 DEF TimedSteps, Step, N, e
<1> QED
  BY <1>7, <1>9 DEF N, e

\* The waits that are over are waits, in the order of their deadlines.
LEMMA ExpiredWait ==
  ASSUME KernelInv, NEW n \in Nat
  PROVE  /\ Expired(n) \in Seq(TSKID)
         /\ Elems(Expired(n)) = {t \in Elems(timer_queue) : delay_ticks[t] <= n}
         /\ Uniq(Expired(n)) /\ ByDeadline(Expired(n))
         /\ \A i \in 1..Len(Expired(n)) :
              Expired(n)[i] \in TSKID /\ tskstat[Expired(n)[i]] = "WAI"
<1> DEFINE e == Expired(n)
<1>1. /\ e \in Seq(TSKID) /\ Uniq(e) /\ ByDeadline(e)
      /\ Elems(e) = {t \in Elems(timer_queue) : delay_ticks[t] <= n}
  BY ExpiredTasks DEF KernelInv, TaskTypes, QueueTypes, TcbTypes, QueuesConsistent
<1> HIDE DEF e
<1>2. \A i \in 1..Len(e) : e[i] \in TSKID /\ e[i] \in Elems(e)
  BY <1>1 DEF Elems
<1>3. \A i \in 1..Len(e) : tskstat[e[i]] = "WAI"
  BY <1>1, <1>2 DEF KernelInv, QueuesConsistent
<1> QED
  BY <1>1, <1>2, <1>3 DEF e

\* What holds before any wait has ended, and stays when one more ends, holds when
\* the timer handler is done.
LEMMA TimedOutReaches ==
  ASSUME KernelInv, WaitInv, NEW n \in Nat, NEW W, W \subseteq Ends, NoneLeft \in W,
         \A b \in W, t \in TSKID :
           tskstat[t] = "WAI" /\ t \notin Elems(b.ts) => Leave(b, t) \in W
  PROVE  TimedOut(n) \in W
<1> DEFINE e == Expired(n)
           N == Len(e)
           R == [i \in 0..N |-> W]
<1>1. PICK f : TimedSteps(n, f) /\ TimedOut(n) = f[N]
  BY TimedOutSteps
<1>2. N \in Nat /\ \A i \in 1..N : e[i] \in TSKID /\ tskstat[e[i]] = "WAI"
  BY ExpiredWait
<1>3. f[0] \in W /\ \A i \in 1..N : f[i] = IF e[i] \in Elems(f[i - 1].ts) THEN f[i - 1]
                                           ELSE Leave(f[i - 1], e[i])
  BY <1>1 DEF TimedSteps
<1> HIDE DEF e, N
<1>4. \A i \in 1..N : f[i - 1] \in W => f[i] \in W
  BY <1>2, <1>3
<1>5. 0 \in 0..N /\ N \in 0..N /\ \A i \in 1..N : i \in 0..N /\ i - 1 \in 0..N
  BY <1>2
<1>6. f[0] \in R[0] /\ \A i \in 1..N : f[i - 1] \in R[i - 1] => f[i] \in R[i]
  BY <1>3, <1>4, <1>5
<1>7. R[N] = W
  BY <1>5
<1> HIDE DEF R
<1>8. f[N] \in R[N]
  BY <1>2, <1>6, StepwiseStays
<1> QED
  BY <1>1, <1>7, <1>8

\* The timer handler ends every wait that is over, whatever the waits it ended
\* before have handed on, none twice, and no other without its units.
LEMMA TimedOutProperties ==
  ASSUME KernelInv, WaitInv, NEW n \in Nat
  PROVE  /\ TimedOut(n) \in Ends
         /\ \A t \in Elems(timer_queue) : delay_ticks[t] <= n => t \in Elems(TimedOut(n).ts)
         /\ \A t \in Elems(TimedOut(n).ts) : t \notin TimedOut(n).given =>
              t \in Elems(timer_queue) /\ delay_ticks[t] <= n
<1> DEFINE e == Expired(n)
           N == Len(e)
<1>1. PICK upTo : TimedSteps(n, upTo) /\ TimedOut(n) = upTo[N]
  BY TimedOutSteps
<1>2. /\ e \in Seq(TSKID)
      /\ Elems(e) = {t \in Elems(timer_queue) : delay_ticks[t] <= n}
      /\ N \in Nat /\ \A i \in 1..N : e[i] \in TSKID /\ tskstat[e[i]] = "WAI"
  BY ExpiredWait
<1>3. /\ upTo[0] = NoneLeft
      /\ \A i \in 1..N : upTo[i] = IF e[i] \in Elems(upTo[i - 1].ts) THEN upTo[i - 1]
                                    ELSE Leave(upTo[i - 1], e[i])
  BY <1>1 DEF TimedSteps
<1> HIDE DEF e, N
<1> DEFINE W == [i \in 0..N |-> {b \in Ends : /\ \A k \in 1..i : e[k] \in Elems(b.ts)
                                           /\ Elems(b.ts) \ b.given \subseteq Elems(e)}]
<1>4. upTo[N] \in W[N]
  <2>1. upTo[0] \in W[0]
    BY <1>2, <1>3, NoneLeftEnds
  <2>0. \A i \in 1..N : e[i] \in Elems(e)
    BY DEF Elems, N
  <2>2. \A i \in 1..N : upTo[i - 1] \in W[i - 1] => upTo[i] \in W[i]
    <3> SUFFICES ASSUME NEW i \in 1..N, upTo[i - 1] \in W[i - 1] PROVE upTo[i] \in W[i]
      OBVIOUS
    <3>1. i \in 0..N /\ i - 1 \in 0..N /\ \A k \in 1..i : k = i \/ k \in 1..i - 1
      BY <1>2
    <3>2. /\ upTo[i - 1] \in Ends /\ \A k \in 1..i - 1 : e[k] \in Elems(upTo[i - 1].ts)
          /\ Elems(upTo[i - 1].ts) \ upTo[i - 1].given \subseteq Elems(e)
      BY <3>1
    <3>3. /\ upTo[i] \in Ends /\ e[i] \in Elems(upTo[i].ts)
          /\ Elems(upTo[i - 1].ts) \subseteq Elems(upTo[i].ts)
          /\ Elems(upTo[i].ts) \ upTo[i].given
               \subseteq (Elems(upTo[i - 1].ts) \ upTo[i - 1].given) \cup {e[i]}
      <4>1. CASE e[i] \in Elems(upTo[i - 1].ts)
        <5>1. upTo[i] = upTo[i - 1]
          BY <1>3, <4>1
        <5> QED
          BY <3>2, <4>1, <5>1
      <4>2. CASE e[i] \notin Elems(upTo[i - 1].ts)
        <5>1. upTo[i] = Leave(upTo[i - 1], e[i])
          BY <1>3, <4>2
        <5> DEFINE b == upTo[i - 1]
                   t == e[i]
        <5>2. b \in Ends /\ t \in TSKID /\ tskstat[t] = "WAI" /\ t \notin Elems(b.ts)
          BY <1>2, <3>2, <4>2
        <5> HIDE DEF b, t
        <5>3. /\ Leave(b, t) \in Ends
              /\ t \in Elems(Leave(b, t).ts) /\ Elems(b.ts) \subseteq Elems(Leave(b, t).ts)
              /\ Elems(Leave(b, t).ts) \ Leave(b, t).given \subseteq (Elems(b.ts) \ b.given) \cup {t}
          BY <5>2, LeaveProperties
        <5> QED
          BY <5>1, <5>3 DEF b, t
      <4> QED
        BY <4>1, <4>2
    <3>4. \A k \in 1..i : e[k] \in Elems(upTo[i].ts)
      BY <3>1, <3>2, <3>3
    <3>5. Elems(upTo[i].ts) \ upTo[i].given \subseteq Elems(e)
      BY <2>0, <3>2, <3>3
    <3> QED
      BY <3>1, <3>3, <3>4, <3>5
  <2> HIDE DEF W
  <2> QED
    BY <1>2, <2>1, <2>2, StepwiseStays
<1>5. /\ upTo[N] \in Ends /\ \A k \in 1..N : e[k] \in Elems(upTo[N].ts)
      /\ Elems(upTo[N].ts) \ upTo[N].given \subseteq Elems(e)
  BY <1>2, <1>4
<1> HIDE DEF W
<1>6. \A t \in Elems(e) : t \in Elems(upTo[N].ts)
  BY <1>5 DEF Elems, N
<1>7. \A t : t \in Elems(e) <=> t \in Elems(timer_queue) /\ delay_ticks[t] <= n
  BY <1>2
<1> DEFINE z == upTo[N]
<1>8. /\ z \in Ends /\ \A t \in Elems(e) : t \in Elems(z.ts)
      /\ Elems(z.ts) \ z.given \subseteq Elems(e)
  BY <1>5, <1>6
<1>9. TimedOut(n) = z
  BY <1>1
<1> HIDE DEF z
<1>10. \A t \in Elems(z.ts) : t \notin z.given => t \in Elems(e)
  BY <1>8
<1> QED
  BY <1>7, <1>8, <1>9, <1>10

\* A task that joins a wait queue stands on it once, and moves no one else off.
LEMMA InsertedQueue ==
  ASSUME NEW q \in Seq(TSKID), Uniq(q), NEW t \in TSKID, t \notin Elems(q), NEW byPri
  PROVE  /\ Inserted(q, t, byPri) \in Seq(TSKID)
         /\ Uniq(Inserted(q, t, byPri))
         /\ Elems(Inserted(q, t, byPri)) = Elems(q) \cup {t}
<1> DEFINE after == {i \in 1..Len(q) : itskpri[t] < itskpri[q[i]]}
           n == CHOOSE i \in after : \A j \in after : i <= j
<1>1. CASE byPri /\ after # {}
  <2>1. n \in 1..Len(q)
    BY <1>1, LeastPlace
  <2>2. Inserted(q, t, byPri) = LinkedBefore(q, n, t)
    BY <1>1 DEF Inserted
  <2> HIDE DEF n
  <2> QED
    BY <2>1, <2>2, LinkedBeforeQueue
<1>2. CASE ~(byPri /\ after # {})
  <2>1. Inserted(q, t, byPri) = Append(q, t)
    BY <1>2 DEF Inserted
  <2> QED
    BY <2>1, AppendQueue
<1> QED
  BY <1>1, <1>2

-----------------------------------------------------------------------------
(* Event flags. *)

\* A pattern that meets a condition still does with more bits.
LEMMA MoreBits ==
  ASSUME NEW ptn, NEW more, ptn \subseteq more, NEW waiptn, NEW wfmode,
         check_ptn(ptn, waiptn, wfmode)
  PROVE  check_ptn(more, waiptn, wfmode)
  BY DEF check_ptn

\* What the loop of tk_set_flg() carries from waiter to waiter, and what it starts
\* with.
WalkState == [ptn : SUBSET Bit, met : SUBSET TSKID, got : [TSKID -> SUBSET Bit]]
WalkStart(ptn) == [ptn |-> ptn, met |-> {}, got |-> [t \in TSKID |-> {}]]

\* walk[n] is that state behind the first n waiters of q.
WalkSteps(q, ptn, walk) ==
  walk[0] = WalkStart(ptn) /\ \A n \in 1..Len(q) : walk[n] = SetStep(walk[n - 1], q[n])

\* One turn of the loop of tk_set_flg() deals in bits and waiters.
LEMMA SetStepType ==
  ASSUME NEW t \in TSKID, NEW w \in WalkState
  PROVE  SetStep(w, t) \in WalkState
<1>1. \A waiptn, wfmode : ClearedBy(w.ptn, waiptn, wfmode) \in SUBSET Bit
  BY DEF ClearedBy, WalkState
<1>2. [w.got EXCEPT ![t] = w.ptn] \in [TSKID -> SUBSET Bit]
  BY DEF WalkState
<1> QED
  BY <1>1, <1>2 DEF SetStep, WalkState

\* The loop of tk_set_flg() is its turns, one for each waiter.
LEMMA SetWalkSteps ==
  ASSUME NEW q \in Seq(TSKID), NEW ptn \in SUBSET Bit
  PROVE  \E walk : /\ WalkSteps(q, ptn, walk)
                   /\ SetWalk(q, ptn) = [ptn |-> walk[Len(q)].ptn,
                                         served |-> Keep(q, walk[Len(q)].met),
                                         got |-> walk[Len(q)].got]
<1> DEFINE N == Len(q)
           V == WalkState
           b == WalkStart(ptn)
           Body(f) == [n \in 0..N |-> IF n = 0 THEN b ELSE SetStep(f[n - 1], q[n])]
           F == [x \in Nat \X V |-> IF x[1] \in 1..N THEN SetStep(x[2], q[x[1]]) ELSE x[2]]
           walk == CHOOSE f : f = Body(f)
<1>0. N \in Nat /\ \A n \in 1..N : q[n] \in TSKID
  OBVIOUS
<1>1. b \in V
  BY DEF WalkState, WalkStart
<1>2. \A t \in TSKID, w \in V : SetStep(w, t) \in V
  BY SetStepType
<1> HIDE DEF b, V
<1>3. F \in [Nat \X V -> V] /\ \A n \in 1..N, w \in V : F[<<n, w>>] = SetStep(w, q[n])
  BY <1>0, <1>2
<1> HIDE DEF F, N
<1>4. PICK g \in [0..N -> V] : g[0] = b /\ \A n \in 1..N : g[n] = F[<<n, g[n - 1]>>]
  <2>1. HasStepwise(V, b, F, N)
    BY <1>0, <1>1, <1>3, StepwiseFunction
  <2> QED
    BY <2>1 DEF HasStepwise
<1>5. g = Body(g)
  <2>1. \A n \in 1..N : g[n] = SetStep(g[n - 1], q[n])
    <3> SUFFICES ASSUME NEW n \in 1..N PROVE g[n] = SetStep(g[n - 1], q[n])
      OBVIOUS
    <3>1. n - 1 \in 0..N
      BY <1>0
    <3>2. g[n - 1] \in V
      BY <1>4, <3>1
    <3> QED
      BY <1>3, <1>4, <3>2
  <2>2. \A n \in 0..N : n = 0 \/ n \in 1..N
    BY <1>0
  <2>3. \A n \in 0..N : g[n] = IF n = 0 THEN b ELSE SetStep(g[n - 1], q[n])
    BY <1>4, <2>1, <2>2
  <2>4. g = [n \in 0..N |-> g[n]]
    BY <1>4
  <2> QED
    BY <2>3, <2>4
<1>6. walk = Body(walk)
  BY <1>5
<1>7. SetWalk(q, ptn) = [ptn |-> walk[N].ptn, served |-> Keep(q, walk[N].met),
                         got |-> walk[N].got]
  BY DEF SetWalk, N, b, WalkStart
<1> HIDE DEF walk
<1>8. walk[0] = b /\ \A n \in 1..N : walk[n] = SetStep(walk[n - 1], q[n])
  <2>1. \A n \in 0..N : walk[n] = IF n = 0 THEN b ELSE SetStep(walk[n - 1], q[n])
    BY <1>6
  <2>2. 0 \in 0..N /\ \A n \in 1..N : n \in 0..N /\ n # 0
    BY <1>0
  <2> QED
    BY <2>1, <2>2
<1>9. WalkSteps(q, ptn, walk)
  BY <1>8 DEF WalkSteps, N, b
<1> QED
  BY <1>7, <1>9 DEF N

\* tk_set_flg() serves waiters of the queue, each once, and deals in bits.  A
\* waiter that is served gets a pattern that meets its condition, and the pattern
\* that is left meets the condition of no other.
LEMMA SetWalkProperties ==
  ASSUME NEW q \in Seq(TSKID), Uniq(q), NEW ptn \in SUBSET Bit
  PROVE  /\ SetWalk(q, ptn).served \in Seq(TSKID)
         /\ Uniq(SetWalk(q, ptn).served)
         /\ Elems(SetWalk(q, ptn).served) \subseteq Elems(q)
         /\ SetWalk(q, ptn).ptn \in SUBSET Bit
         /\ SetWalk(q, ptn).got \in [TSKID -> SUBSET Bit]
         /\ \A t \in Elems(q) :
              IF t \in Elems(SetWalk(q, ptn).served)
              THEN check_ptn(SetWalk(q, ptn).got[t], flgwait[t].waiptn, flgwait[t].wfmode)
              ELSE ~check_ptn(SetWalk(q, ptn).ptn, flgwait[t].waiptn, flgwait[t].wfmode)
<1> DEFINE N == Len(q)
           V == WalkState
           b == WalkStart(ptn)
<1>0. N \in Nat /\ \A n \in 1..N : q[n] \in TSKID
  OBVIOUS
<1>1. b \in V
  BY DEF WalkState, WalkStart
<1>2. ASSUME NEW t \in TSKID, NEW w \in V
      PROVE  SetStep(w, t) \in V
  BY <1>2, SetStepType
<1>6. PICK walk : /\ WalkSteps(q, ptn, walk)
                  /\ SetWalk(q, ptn) = [ptn |-> walk[N].ptn, served |-> Keep(q, walk[N].met),
                                        got |-> walk[N].got]
  BY SetWalkSteps
<1>7. SetWalk(q, ptn) = [ptn |-> walk[N].ptn, served |-> Keep(q, walk[N].met),
                         got |-> walk[N].got]
  BY <1>6
<1>8. walk[0] = b /\ \A n \in 1..N : walk[n] = SetStep(walk[n - 1], q[n])
  BY <1>6 DEF WalkSteps
<1> HIDE DEF N, V, b
<1> DEFINE Cond(t, p) == check_ptn(p, flgwait[t].waiptn, flgwait[t].wfmode)
           Walked(n, w) ==
             /\ \A i \in 1..N : q[i] \in w.met => i <= n
             /\ \A i \in 1..n : IF q[i] \in w.met THEN Cond(q[i], w.got[q[i]])
                                                 ELSE ~Cond(q[i], w.ptn)
<1>9. walk[N] \in V /\ Walked(N, walk[N])
  <2> DEFINE W == [n \in 0..N |-> {w \in V : Walked(n, w)}]
  <2>1. walk[0] \in W[0]
    <3>1. b \in V /\ Walked(0, b)
      BY <1>0, <1>1 DEF b, WalkStart
    <3> QED
      BY <1>0, <1>8, <3>1
  <2>2. \A n \in 1..N : walk[n - 1] \in W[n - 1] => walk[n] \in W[n]
    <3> SUFFICES ASSUME NEW n \in 1..N, walk[n - 1] \in W[n - 1] PROVE walk[n] \in W[n]
      OBVIOUS
    <3> DEFINE w == walk[n - 1]
               x == walk[n]
    <3>1. n \in 0..N /\ n - 1 \in 0..N
      BY <1>0
    <3>2. w \in V /\ Walked(n - 1, w)
      BY <3>1
    <3>3. x \in V /\ x = SetStep(w, q[n]) /\ q[n] \in TSKID
      BY <1>0, <1>2, <1>8, <3>2
    <3> HIDE DEF w, x
    <3>4. /\ \A i \in 1..N : q[i] \in w.met => i <= n - 1
          /\ \A i \in 1..n - 1 : IF q[i] \in w.met THEN Cond(q[i], w.got[q[i]])
                                                  ELSE ~Cond(q[i], w.ptn)
      BY <3>2
    <3> HIDE DEF Cond
    <3>5. CASE ~Cond(q[n], w.ptn)
      <4>1. x = w
        BY <3>3, <3>5 DEF SetStep, Cond
      <4>2. \A i \in 1..N : q[i] \in w.met => i <= n
        BY <1>0, <3>4
      <4>3. q[n] \notin w.met
        BY <1>0, <3>4
      <4>4. ASSUME NEW i \in 1..n
            PROVE  IF q[i] \in w.met THEN Cond(q[i], w.got[q[i]]) ELSE ~Cond(q[i], w.ptn)
        <5>1. i = n \/ i \in 1..n - 1
          BY <1>0
        <5> QED
          BY <3>4, <3>5, <4>3, <5>1
      <4>5. Walked(n, x)
        BY <4>1, <4>2, <4>4
      <4> QED
        BY <3>1, <3>3, <4>5 DEF x
    <3>6. CASE Cond(q[n], w.ptn)
      <4>1. /\ x.ptn = ClearedBy(w.ptn, flgwait[q[n]].waiptn, flgwait[q[n]].wfmode)
            /\ x.met = w.met \cup {q[n]} /\ x.got = [w.got EXCEPT ![q[n]] = w.ptn]
        BY <3>3, <3>6 DEF SetStep, Cond
      <4>2. \A i \in 1..N : q[i] \in x.met <=> q[i] \in w.met \/ i = n
        BY <4>1 DEF Uniq, N
      <4>3. \A i \in 1..N : q[i] \in x.met => i <= n
        BY <1>0, <3>4, <4>2
      <4>4. x.ptn \subseteq w.ptn
        BY <4>1 DEF ClearedBy
      <4>5. w.got \in [TSKID -> SUBSET Bit]
        BY <3>2 DEF V, WalkState
      <4>6. ASSUME NEW i \in 1..n
            PROVE  IF q[i] \in x.met THEN Cond(q[i], x.got[q[i]]) ELSE ~Cond(q[i], x.ptn)
        <5>1. i \in 1..N /\ (i = n \/ i \in 1..n - 1)
          BY <1>0
        <5>2. CASE i = n
          <6>1. q[i] \in x.met /\ x.got[q[i]] = w.ptn
            BY <3>3, <4>1, <4>5, <5>2
          <6> QED
            BY <3>6, <5>2, <6>1
        <5>3. CASE i # n
          <6>1. q[i] # q[n] /\ q[i] \in TSKID
            BY <1>0, <5>1, <5>3 DEF Uniq, N
          <6>2. x.got[q[i]] = w.got[q[i]] /\ (q[i] \in x.met <=> q[i] \in w.met)
            BY <3>3, <4>1, <4>5, <6>1
          <6>3. IF q[i] \in w.met THEN Cond(q[i], w.got[q[i]]) ELSE ~Cond(q[i], w.ptn)
            BY <3>4, <5>1, <5>3
          <6>4. ~Cond(q[i], w.ptn) => ~Cond(q[i], x.ptn)
            BY <4>4, MoreBits DEF Cond
          <6> QED
            BY <6>2, <6>3, <6>4
        <5> QED
          BY <5>2, <5>3
      <4>7. Walked(n, x)
        BY <4>3, <4>6
      <4> QED
        BY <3>1, <3>3, <4>7 DEF x
    <3> QED
      BY <3>5, <3>6 DEF x
  <2>3. N \in 0..N /\ W[N] = {w \in V : Walked(N, w)}
    BY <1>0
  <2>4. walk[N] \in W[N]
    <3> HIDE DEF W
    <3> QED
      BY <1>0, <2>1, <2>2, <2>3, StepwiseStays
  <2> QED
    BY <2>3, <2>4
<1>10. walk[N].ptn \in SUBSET Bit /\ walk[N].got \in [TSKID -> SUBSET Bit]
  BY <1>9 DEF V, WalkState
<1> DEFINE S == walk[N].met
<1>11. Keep(q, S) \in Seq(TSKID) /\ Uniq(Keep(q, S)) /\ Elems(Keep(q, S)) = Elems(q) \cap S
  <2> HIDE DEF S
  <2> QED
    BY KeepProperties
<1>12. \A t \in Elems(q) : IF t \in S THEN Cond(t, walk[N].got[t]) ELSE ~Cond(t, walk[N].ptn)
  <2>1. \A i \in 1..N : IF q[i] \in S THEN Cond(q[i], walk[N].got[q[i]])
                                      ELSE ~Cond(q[i], walk[N].ptn)
    BY <1>9
  <2> HIDE DEF S, Cond
  <2> QED
    BY <2>1 DEF Elems, N
<1> HIDE DEF S
<1>13. SetWalk(q, ptn) = [ptn |-> walk[N].ptn, served |-> Keep(q, S), got |-> walk[N].got]
  BY <1>7 DEF S
<1> QED
  BY <1>10, <1>11, <1>12, <1>13

\* The bits that the waiter t clears when it is served: all of them with TWF_CLR,
\* those it waits for with TWF_BITCLR.
Clears(t) == {x \in Bit : x \notin ClearedBy({x}, flgwait[t].waiptn, flgwait[t].wfmode)}

\* Serving the waiter t clears those bits and no other.
LEMMA ClearsBits ==
  ASSUME NEW t, NEW ptn \in SUBSET Bit
  PROVE  \A x \in Bit : x \in ClearedBy(ptn, flgwait[t].waiptn, flgwait[t].wfmode)
                          <=> x \in ptn /\ x \notin Clears(t)
  BY DEF ClearedBy, Clears

\* The bit x is in ptn and the waiters of S among the first n of q leave it there.
LeftBy(q, ptn, S, n, x) == x \in ptn /\ \A i \in 1..n : q[i] \in S => x \notin Clears(q[i])

\* Behind n waiters, the state w of the loop holds the bits that are left, each
\* waiter that was served got those that were left when its turn came, and the
\* ones that were passed over before it would not have been served by them.
InTurn(q, ptn, n, w) ==
  /\ \A i \in 1..Len(q) : q[i] \in w.met => i <= n
  /\ \A i \in 1..n : q[i] \notin w.met =>
       ~check_ptn(w.ptn, flgwait[q[i]].waiptn, flgwait[q[i]].wfmode)
  /\ \A x \in Bit : x \in w.ptn <=> LeftBy(q, ptn, w.met, n, x)
  /\ \A j \in 1..n : q[j] \in w.met =>
       /\ \A x \in Bit : x \in w.got[q[j]] <=> LeftBy(q, ptn, w.met, j - 1, x)
       /\ \A i \in 1..j - 1 : q[i] \notin w.met =>
            ~check_ptn(w.got[q[j]], flgwait[q[i]].waiptn, flgwait[q[i]].wfmode)

\* One turn of the loop of tk_set_flg() keeps it so.
LEMMA SetStepInTurn ==
  ASSUME NEW q \in Seq(TSKID), Uniq(q), NEW ptn \in SUBSET Bit, NEW n \in 1..Len(q),
         NEW w \in WalkState, InTurn(q, ptn, n - 1, w)
  PROVE  InTurn(q, ptn, n, SetStep(w, q[n]))
<1> DEFINE N == Len(q)
           Cond(t, p) == check_ptn(p, flgwait[t].waiptn, flgwait[t].wfmode)
           x == SetStep(w, q[n])
<1>1. N \in Nat /\ n \in 1..N /\ (\A i \in 1..N : q[i] \in TSKID) /\ q[n] \in TSKID
  OBVIOUS
<1>2. \A i, j \in 1..N : q[i] = q[j] => i = j
  BY DEF Uniq
<1>3. /\ \A i \in 1..N : q[i] \in w.met => i <= n - 1
      /\ \A i \in 1..n - 1 : q[i] \notin w.met => ~Cond(q[i], w.ptn)
      /\ \A z \in Bit : z \in w.ptn <=> LeftBy(q, ptn, w.met, n - 1, z)
      /\ \A j \in 1..n - 1 : q[j] \in w.met =>
           /\ \A z \in Bit : z \in w.got[q[j]] <=> LeftBy(q, ptn, w.met, j - 1, z)
           /\ \A i \in 1..j - 1 : q[i] \notin w.met => ~Cond(q[i], w.got[q[j]])
  BY DEF InTurn
<1>4. w.ptn \in SUBSET Bit /\ w.got \in [TSKID -> SUBSET Bit]
  BY DEF WalkState
<1>5. /\ \A i \in 1..n - 1 : i \in 1..n /\ i \in 1..N /\ i # n /\ i <= n
      /\ \A i \in 1..n : i \in 1..N /\ (i = n \/ i \in 1..n - 1)
      /\ \A j \in 1..n : \A i \in 1..j - 1 : i \in 1..n - 1
  BY <1>1
<1>6. q[n] \notin w.met /\ \A i \in 1..N : q[i] \in w.met => i <= n
  BY <1>1, <1>3
<1>7. (IF Cond(q[n], w.ptn)
       THEN /\ x.ptn = ClearedBy(w.ptn, flgwait[q[n]].waiptn, flgwait[q[n]].wfmode)
            /\ x.met = w.met \cup {q[n]}
            /\ x.got = [w.got EXCEPT ![q[n]] = w.ptn]
       ELSE x = w)
  BY DEF SetStep
<1>8. \A i \in 1..n - 1 : q[i] \in x.met <=> q[i] \in w.met
  BY <1>1, <1>2, <1>5, <1>7
<1>9. \A j \in 1..n : \A z : LeftBy(q, ptn, x.met, j - 1, z) <=> LeftBy(q, ptn, w.met, j - 1, z)
  BY <1>5, <1>8 DEF LeftBy
<1>10. \A z : LeftBy(q, ptn, x.met, n, z) <=>
                /\ LeftBy(q, ptn, x.met, n - 1, z)
                /\ q[n] \in x.met => z \notin Clears(q[n])
  BY <1>1, <1>5 DEF LeftBy
<1> HIDE DEF N, Cond, x
<1>11. \A i \in 1..N : q[i] \in x.met => i <= n
  BY <1>1, <1>2, <1>6, <1>7
<1>12. \A z \in Bit : z \in x.ptn <=> LeftBy(q, ptn, x.met, n, z)
  <2>1. \A z \in Bit : z \in w.ptn <=> LeftBy(q, ptn, x.met, n - 1, z)
    BY <1>1, <1>3, <1>9
  <2>2. \A z \in Bit : z \in ClearedBy(w.ptn, flgwait[q[n]].waiptn, flgwait[q[n]].wfmode)
                         <=> z \in w.ptn /\ z \notin Clears(q[n])
    BY <1>4, ClearsBits
  <2>3. CASE Cond(q[n], w.ptn)
    BY <1>7, <1>10, <2>1, <2>2, <2>3
  <2>4. CASE ~Cond(q[n], w.ptn)
    BY <1>6, <1>7, <1>10, <2>1, <2>4
  <2> QED
    BY <2>3, <2>4
<1>13. \A i \in 1..n : q[i] \notin x.met => ~Cond(q[i], x.ptn)
  <2> SUFFICES ASSUME NEW i \in 1..n, q[i] \notin x.met PROVE ~Cond(q[i], x.ptn)
    OBVIOUS
  <2>1. x.ptn \subseteq w.ptn
    BY <1>7 DEF ClearedBy
  <2>2. ~Cond(q[i], w.ptn)
    BY <1>3, <1>5, <1>7, <1>8
  <2> QED
    BY <2>1, <2>2, MoreBits DEF Cond
<1>14. ASSUME NEW j \in 1..n, q[j] \in x.met
       PROVE  /\ \A z \in Bit : z \in x.got[q[j]] <=> LeftBy(q, ptn, x.met, j - 1, z)
              /\ \A i \in 1..j - 1 : q[i] \notin x.met => ~Cond(q[i], x.got[q[j]])
  <2>1. CASE j = n
    <3>1. Cond(q[n], w.ptn)
      BY <1>6, <1>7, <1>14, <2>1
    <3>2. x.got[q[j]] = w.ptn
      BY <1>1, <1>4, <1>7, <2>1, <3>1
    <3> QED
      BY <1>3, <1>8, <1>9, <2>1, <3>2
  <2>2. CASE j # n
    <3>1. j \in 1..n - 1 /\ j \in 1..N /\ q[j] \in w.met
      BY <1>5, <1>8, <1>14, <2>2
    <3>2. q[j] # q[n] /\ q[j] \in TSKID
      BY <1>1, <1>2, <2>2, <3>1
    <3>3. x.got[q[j]] = w.got[q[j]]
      BY <1>4, <1>7, <3>2
    <3> QED
      BY <1>3, <1>5, <1>8, <1>9, <3>1, <3>3
  <2> QED
    BY <2>1, <2>2
<1> QED
  BY <1>11, <1>12, <1>13, <1>14 DEF InTurn, Cond, N, x

\* The waiters that tk_set_flg() serves use the bits in turn.
LEMMA SetWalkInTurn ==
  ASSUME NEW q \in Seq(TSKID), Uniq(q), NEW ptn \in SUBSET Bit,
         NEW j \in 1..Len(q), q[j] \in Elems(SetWalk(q, ptn).served)
  PROVE  /\ \A x \in Bit : x \in SetWalk(q, ptn).got[q[j]]
                             <=> LeftBy(q, ptn, Elems(SetWalk(q, ptn).served), j - 1, x)
         /\ \A i \in 1..j - 1 : q[i] \notin Elems(SetWalk(q, ptn).served) =>
              ~check_ptn(SetWalk(q, ptn).got[q[j]], flgwait[q[i]].waiptn, flgwait[q[i]].wfmode)
<1> DEFINE N == Len(q)
<1>1. N \in Nat /\ \A n \in 1..N : q[n] \in TSKID
  OBVIOUS
<1>2. PICK walk : /\ WalkSteps(q, ptn, walk)
                  /\ SetWalk(q, ptn) = [ptn |-> walk[N].ptn, served |-> Keep(q, walk[N].met),
                                        got |-> walk[N].got]
  BY SetWalkSteps
<1>3. walk[0] = WalkStart(ptn) /\ \A n \in 1..N : walk[n] = SetStep(walk[n - 1], q[n])
  BY <1>2 DEF WalkSteps
<1> HIDE DEF N
<1> DEFINE W == [n \in 0..N |-> {w \in WalkState : InTurn(q, ptn, n, w)}]
<1>4. walk[0] \in W[0]
  <2>1. WalkStart(ptn) \in WalkState
    BY DEF WalkState, WalkStart
  <2>2. InTurn(q, ptn, 0, WalkStart(ptn))
    BY DEF InTurn, WalkStart, LeftBy
  <2> QED
    BY <1>1, <1>3, <2>1, <2>2
<1>5. ASSUME NEW n \in 1..N, walk[n - 1] \in W[n - 1] PROVE walk[n] \in W[n]
  <2>1. n \in 0..N /\ n - 1 \in 0..N /\ q[n] \in TSKID /\ n \in 1..Len(q)
    BY <1>1 DEF N
  <2>2. walk[n - 1] \in WalkState /\ InTurn(q, ptn, n - 1, walk[n - 1])
    BY <1>5, <2>1
  <2>3. InTurn(q, ptn, n, SetStep(walk[n - 1], q[n]))
    BY <2>1, <2>2, SetStepInTurn
  <2>4. SetStep(walk[n - 1], q[n]) \in WalkState
    BY <2>1, <2>2, SetStepType
  <2> QED
    BY <1>3, <2>1, <2>3, <2>4
<1>6. N \in 0..N /\ W[N] = {w \in WalkState : InTurn(q, ptn, N, w)}
  BY <1>1
<1> HIDE DEF W
<1>7. walk[N] \in W[N]
  BY <1>1, <1>4, <1>5, <1>6, StepwiseStays
<1>8. InTurn(q, ptn, N, walk[N])
  BY <1>6, <1>7
<1> DEFINE M == walk[N].met
           S == Elems(SetWalk(q, ptn).served)
<1>9. SetWalk(q, ptn).served = Keep(q, M) /\ SetWalk(q, ptn).got = walk[N].got
  BY <1>2
<1> HIDE DEF M
<1>10. S = Elems(q) \cap M
  BY <1>9, KeepProperties
<1> HIDE DEF S
<1>11. \A i \in 1..N : q[i] \in S <=> q[i] \in M
  BY <1>10 DEF Elems, N
<1>12. j \in 1..N /\ q[j] \in M /\ \A i \in 1..j - 1 : i \in 1..N
  BY <1>1, <1>11 DEF N, S
<1>13. /\ \A x \in Bit : x \in walk[N].got[q[j]] <=> LeftBy(q, ptn, M, j - 1, x)
       /\ \A i \in 1..j - 1 : q[i] \notin M =>
            ~check_ptn(walk[N].got[q[j]], flgwait[q[i]].waiptn, flgwait[q[i]].wfmode)
  BY <1>8, <1>12 DEF InTurn, M
<1>14. \A x : LeftBy(q, ptn, S, j - 1, x) <=> LeftBy(q, ptn, M, j - 1, x)
  BY <1>11, <1>12 DEF LeftBy
<1> QED
  BY <1>9, <1>11, <1>12, <1>13, <1>14 DEF S

-----------------------------------------------------------------------------
(* Mailboxes. *)

\* insert_msg_pri() adds its message, and drops and doubles none.
LEMMA InsertedMsg ==
  ASSUME NEW q \in Seq(Msg), NEW msg \in Msg
  PROVE  /\ insert_msg_pri(q, msg) \in Seq(Msg)
         /\ Elems(insert_msg_pri(q, msg)) = Elems(q) \cup {msg}
         /\ Uniq(q) /\ msg \notin Elems(q) => Uniq(insert_msg_pri(q, msg))
<1> DEFINE lower == {i \in 1..Len(q) : MsgPri[msg] < MsgPri[q[i]]}
           n == CHOOSE i \in lower : \A j \in lower : i <= j
<1>1. \/ insert_msg_pri(q, msg) = Append(q, msg)
      \/ lower # {} /\ insert_msg_pri(q, msg) = LinkedBefore(q, n, msg)
  BY DEF insert_msg_pri
<1>2. lower # {} => n \in 1..Len(q)
  BY LeastPlace
<1> HIDE DEF lower, n
<1>3. CASE insert_msg_pri(q, msg) = Append(q, msg)
  BY <1>3, AppendQueue
<1>4. CASE n \in 1..Len(q) /\ insert_msg_pri(q, msg) = LinkedBefore(q, n, msg)
  BY <1>4, LinkedBeforeQueue
<1> QED
  BY <1>1, <1>2, <1>3, <1>4
=============================================================================
