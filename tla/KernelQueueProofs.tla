------------------------- MODULE KernelQueueProofs -------------------------
(***************************************************************************)
(* What the queue operators of KernelQueue compute, for every queue.       *)
(*                                                                         *)
(* The provers cannot instantiate the library's induction rules, so each   *)
(* induction is done by hand: of the numbers for which a claim fails, take *)
(* the least (LeastNat), and show that the claim holds for it.             *)
(***************************************************************************)
EXTENDS KernelQueue, NaturalsInduction, WellFoundedInduction, TLAPS

\* A set of natural numbers that is not empty has a least element.
THEOREM LeastNat ==
  ASSUME NEW S, S \subseteq Nat, S # {}
  PROVE  \E m \in S : \A k \in S : m <= k
<1> DEFINE R == OpToRel(<, Nat)
<1>1. IsWellFoundedOn(R, Nat)
  BY NatLessThanWellFounded
<1>2. \A k, m \in Nat : k < m => <<k, m>> \in R
  BY DEF OpToRel
<1> HIDE DEF R
<1>3. PICK m \in S : \A k \in S : ~(<<k, m>> \in R)
  BY <1>1, WFMin
<1>4. \A k \in S : ~(k < m)
  BY <1>2, <1>3
<1> QED
  BY <1>3, <1>4

\* Some function on 0..N has the value b at 0 and goes from n - 1 to n by F.
HasStepwise(V, b, F, N) ==
  \E g \in [0..N -> V] : /\ g[0] = b
                         /\ \A n \in 1..N : g[n] = F[<<n, g[n - 1]>>]

\* A function on 0..N may be defined by its value at 0 and a step from n - 1 to n.
THEOREM StepwiseFunction ==
  ASSUME NEW V, NEW b \in V, NEW F \in [Nat \X V -> V], NEW N \in Nat
  PROVE  HasStepwise(V, b, F, N)
<1> DEFINE Good(n) == \E g \in [0..n -> V] : /\ g[0] = b
                                             /\ \A k \in 1..n : g[k] = F[<<k, g[k - 1]>>]
           Bad == {n \in Nat : ~Good(n)}
<1>1. Bad = {}
  <2> SUFFICES ASSUME Bad # {} PROVE FALSE
    OBVIOUS
  <2>1. PICK m \in Bad : \A k \in Bad : m <= k
    <3>1. Bad \subseteq Nat
      OBVIOUS
    <3> QED
      BY <3>1, LeastNat
  <2>2. Good(0)
    <3> DEFINE g == [k \in 0..0 |-> b]
    <3>1. g \in [0..0 -> V] /\ g[0] = b
      OBVIOUS
    <3>2. \A k \in 1..0 : g[k] = F[<<k, g[k - 1]>>]
      OBVIOUS
    <3> HIDE DEF g
    <3> QED
      BY <3>1, <3>2
  <2>3. m \in Nat /\ m # 0 /\ ~Good(m)
    BY <2>1, <2>2
  <2>4. m - 1 \in Nat /\ Good(m - 1)
    <3>1. m - 1 \in Nat /\ ~(m <= m - 1)
      BY <2>3
    <3> QED
      BY <3>1, <2>1
  <2>5. PICK g \in [0..m - 1 -> V] : /\ g[0] = b
                                     /\ \A k \in 1..m - 1 : g[k] = F[<<k, g[k - 1]>>]
    BY <2>4
  <2> DEFINE v == F[<<m, g[m - 1]>>]
             h == [k \in 0..m |-> IF k = m THEN v ELSE g[k]]
  <2>6. v \in V
    BY <2>3, <2>4, <2>5
  <2>7. h \in [0..m -> V]
    BY <2>3, <2>5, <2>6
  <2>8. h[0] = b
    BY <2>3, <2>5
  <2>9. \A k \in 1..m : h[k] = F[<<k, h[k - 1]>>]
    <3> SUFFICES ASSUME NEW k \in 1..m PROVE h[k] = F[<<k, h[k - 1]>>]
      OBVIOUS
    <3>1. k - 1 \in 0..m /\ k - 1 # m /\ h[k - 1] = g[k - 1]
      BY <2>3
    <3>2. CASE k = m
      BY <3>1, <3>2, <2>3
    <3>3. CASE k # m
      BY <3>1, <3>3, <2>3, <2>5
    <3> QED
      BY <3>2, <3>3
  <2>10. Good(m)
    BY <2>7, <2>8, <2>9
  <2> QED
    BY <2>3, <2>10
<1> QED
  BY <1>1 DEF HasStepwise

\* What holds at 0 and is kept by every step holds at N.  W[n] is the set of the
\* values that are right after n steps.
THEOREM StepwiseStays ==
  ASSUME NEW N \in Nat, NEW r, NEW W, r[0] \in W[0],
         \A n \in 1..N : r[n - 1] \in W[n - 1] => r[n] \in W[n]
  PROVE  r[N] \in W[N]
<1> DEFINE Bad == {n \in 0..N : r[n] \notin W[n]}
<1>1. Bad = {}
  <2> SUFFICES ASSUME Bad # {} PROVE FALSE
    OBVIOUS
  <2>1. PICK m \in Bad : \A k \in Bad : m <= k
    <3>1. Bad \subseteq Nat
      OBVIOUS
    <3> HIDE DEF Bad
    <3> QED
      BY <3>1, LeastNat
  <2>2. m \in 1..N /\ m - 1 \in 0..N /\ ~(m <= m - 1) /\ r[m] \notin W[m]
    BY <2>1
  <2> QED
    BY <2>1, <2>2
<1> QED
  BY <1>1

\* a is what the first n entries of s hold of S, and h tells from where in s each
\* entry of a comes: an increasing map onto the places that hold a member of S.
Places(a, s, n, S, h) ==
  /\ h \in [1..Len(a) -> 1..n]
  /\ \A i, j \in 1..Len(a) : i < j => h[i] < h[j]
  /\ \A i \in 1..Len(a) : a[i] = s[h[i]] /\ s[h[i]] \in S
  /\ \A k \in 1..n : s[k] \in S => \E i \in 1..Len(a) : h[i] = k

\* The empty queue is kept as the empty queue.
LEMMA PlacesEmpty ==
  ASSUME NEW s, NEW S
  PROVE  \E h : Places(<< >>, s, 0, S, h)
<1> DEFINE h == [i \in 1..0 |-> 0]
<1>1. h \in [1..0 -> 1..0] /\ Len(<< >>) = 0
  OBVIOUS
<1>2. Places(<< >>, s, 0, S, h)
  <2> HIDE DEF h
  <2> QED
    BY <1>1 DEF Places
<1> QED
  BY <1>2

\* An entry outside S adds nothing to what is kept.
LEMMA PlacesSkip ==
  ASSUME NEW T, NEW a \in Seq(T), NEW s, NEW m \in Nat, m > 0, NEW S, NEW h,
         Places(a, s, m - 1, S, h), s[m] \notin S
  PROVE  Places(a, s, m, S, h)
<1>1. h \in [1..Len(a) -> 1..m]
  BY DEF Places
<1>2. \A k \in 1..m : s[k] \in S => k \in 1..m - 1
  OBVIOUS
<1> QED
  BY <1>1, <1>2 DEF Places

\* An entry in S is kept behind the ones before it.
LEMMA PlacesAppend ==
  ASSUME NEW T, NEW a \in Seq(T), NEW s, NEW m \in Nat, m > 0, NEW S, NEW h,
         Places(a, s, m - 1, S, h), s[m] \in S, s[m] \in T
  PROVE  \E g : Places(Append(a, s[m]), s, m, S, g)
<1> DEFINE l == Len(a)
           b == Append(a, s[m])
           g == [i \in 1..l + 1 |-> IF i = l + 1 THEN m ELSE h[i]]
<1>1. l \in Nat /\ b \in Seq(T) /\ Len(b) = l + 1 /\ b[l + 1] = s[m]
  OBVIOUS
<1>2. \A i \in 1..l : b[i] = a[i]
  OBVIOUS
<1>3. h \in [1..l -> 1..m - 1]
  BY DEF Places
<1> HIDE DEF b, l
<1>4. g[l + 1] = m /\ l + 1 \in 1..l + 1
  BY <1>1
<1>5. \A i \in 1..l : i \in 1..l + 1 /\ g[i] = h[i] /\ h[i] \in 1..m - 1
  BY <1>1, <1>3
<1>6. g \in [1..l + 1 -> 1..m]
  BY <1>1, <1>3
<1> HIDE DEF g
<1>7. \A i \in 1..l + 1 : i \in 1..l \/ i = l + 1
  BY <1>1
<1>8. \A i, j \in 1..l + 1 : i < j => g[i] < g[j]
  <2> SUFFICES ASSUME NEW i \in 1..l + 1, NEW j \in 1..l + 1, i < j PROVE g[i] < g[j]
    OBVIOUS
  <2>1. i \in 1..l
    BY <1>1
  <2>2. CASE j = l + 1
    BY <2>1, <2>2, <1>4, <1>5
  <2>3. CASE j \in 1..l
    <3>1. h[i] < h[j]
      BY <2>1, <2>3 DEF Places, l
    <3> QED
      BY <2>1, <2>3, <3>1, <1>5
  <2> QED
    BY <2>2, <2>3, <1>7
<1>9. \A i \in 1..l + 1 : b[i] = s[g[i]] /\ s[g[i]] \in S
  <2>1. \A i \in 1..l : b[i] = s[g[i]] /\ s[g[i]] \in S
    BY <1>2, <1>5 DEF Places, l
  <2> QED
    BY <2>1, <1>1, <1>4, <1>7
<1>10. \A k \in 1..m : s[k] \in S => \E i \in 1..l + 1 : g[i] = k
  <2> SUFFICES ASSUME NEW k \in 1..m, s[k] \in S PROVE \E i \in 1..l + 1 : g[i] = k
    OBVIOUS
  <2>1. CASE k = m
    BY <2>1, <1>4
  <2>2. CASE k # m
    <3>1. k \in 1..m - 1
      BY <2>2
    <3>2. PICK i \in 1..l : h[i] = k
      BY <3>1 DEF Places, l
    <3> QED
      BY <3>2, <1>5
  <2> QED
    BY <2>1, <2>2
<1>11. Places(b, s, m, S, g)
  BY <1>1, <1>6, <1>8, <1>9, <1>10 DEF Places
<1> QED
  BY <1>11 DEF b

\* Keep(s, S) goes along s, and kept[n] is what the first n entries give.
KeepsBy(s, S, kept) ==
  /\ kept[0] = << >>
  /\ \A n \in 1..Len(s) : kept[n] = IF s[n] \in S THEN Append(kept[n - 1], s[n]) ELSE kept[n - 1]

\* The loop behind Keep.
LEMMA KeepSteps ==
  ASSUME NEW T, NEW s \in Seq(T), NEW S
  PROVE  \E kept : KeepsBy(s, S, kept) /\ Keep(s, S) = kept[Len(s)]
<1> DEFINE N == Len(s)
           V == Seq(T)
           Body(f) == [n \in 0..N |->
                         IF n = 0 THEN << >>
                         ELSE IF s[n] \in S THEN Append(f[n - 1], s[n]) ELSE f[n - 1]]
           F == [x \in Nat \X V |->
                   IF x[1] \in 1..N /\ s[x[1]] \in S THEN Append(x[2], s[x[1]]) ELSE x[2]]
           kept == CHOOSE f : f = Body(f)
<1>0. N \in Nat /\ \A n \in 1..N : s[n] \in T
  OBVIOUS
<1>1. F \in [Nat \X V -> V] /\ << >> \in V
  BY <1>0
<1>2. \A n \in 1..N, v \in V :
        F[<<n, v>>] = IF s[n] \in S THEN Append(v, s[n]) ELSE v
  BY <1>0
<1> HIDE DEF F, V, N
<1>3. PICK g \in [0..N -> V] : /\ g[0] = << >>
                              /\ \A n \in 1..N : g[n] = F[<<n, g[n - 1]>>]
  <2>1. HasStepwise(V, << >>, F, N)
    BY <1>0, <1>1, StepwiseFunction
  <2> QED
    BY <2>1 DEF HasStepwise
<1>4. g = Body(g)
  <2>1. \A n \in 1..N : n - 1 \in 0..N /\ n \in Nat /\ g[n - 1] \in V
    BY <1>0, <1>3
  <2>2. \A n \in 1..N : g[n] = IF s[n] \in S THEN Append(g[n - 1], s[n]) ELSE g[n - 1]
    BY <1>2, <1>3, <2>1
  <2>3. \A n \in 0..N : n = 0 \/ n \in 1..N
    BY <1>0
  <2>4. \A n \in 0..N : g[n] = IF n = 0 THEN << >>
                               ELSE IF s[n] \in S THEN Append(g[n - 1], s[n]) ELSE g[n - 1]
    BY <1>3, <2>2, <2>3
  <2>5. DOMAIN g = 0..N /\ g = [n \in 0..N |-> g[n]]
    BY <1>3
  <2> QED
    BY <2>4, <2>5
<1>5. kept = Body(kept)
  BY <1>4
<1>6. Keep(s, S) = kept[N]
  BY DEF Keep, N
<1> HIDE DEF kept
<1>7. /\ kept[0] = << >>
      /\ \A n \in 1..N : kept[n] = IF s[n] \in S THEN Append(kept[n - 1], s[n])
                                   ELSE kept[n - 1]
  <2>1. \A n \in 0..N : kept[n] = Body(kept)[n]
    BY <1>5
  <2> QED
    BY <2>1, <1>0
<1>8. KeepsBy(s, S, kept)
  BY <1>7 DEF KeepsBy, N
<1> QED
  BY <1>6, <1>8 DEF N

\* Keep(s, S) is s with the entries outside S left out, in the same order.
THEOREM KeepPlaces ==
  ASSUME NEW T, NEW s \in Seq(T), NEW S
  PROVE  /\ Keep(s, S) \in Seq(T)
         /\ \E h : Places(Keep(s, S), s, Len(s), S, h)
<1> DEFINE N == Len(s)
<1>0. N \in Nat /\ \A n \in 1..N : s[n] \in T
  OBVIOUS
<1>6. PICK kept : KeepsBy(s, S, kept) /\ Keep(s, S) = kept[N]
  BY KeepSteps
<1>7. /\ kept[0] = << >>
      /\ \A n \in 1..N : kept[n] = IF s[n] \in S THEN Append(kept[n - 1], s[n])
                                   ELSE kept[n - 1]
  BY <1>6 DEF KeepsBy
<1> HIDE DEF N
<1> DEFINE Good(n) == kept[n] \in Seq(T) /\ \E h : Places(kept[n], s, n, S, h)
           Bad == {n \in 0..N : ~Good(n)}
<1>8. Good(0)
  <2>1. << >> \in Seq(T)
    OBVIOUS
  <2> QED
    BY <1>7, <2>1, PlacesEmpty
<1>9. ASSUME NEW m \in 1..N, Good(m - 1)
      PROVE  Good(m)
  <2>1. PICK h : Places(kept[m - 1], s, m - 1, S, h)
    BY <1>9
  <2>2. m \in Nat /\ m > 0 /\ kept[m - 1] \in Seq(T) /\ s[m] \in T
    BY <1>0, <1>9
  <2>3. CASE s[m] \in S
    <3>1. \E f : Places(Append(kept[m - 1], s[m]), s, m, S, f)
      BY <2>1, <2>2, <2>3, PlacesAppend
    <3>2. kept[m] = Append(kept[m - 1], s[m])
      BY <2>3, <1>7
    <3>3. Append(kept[m - 1], s[m]) \in Seq(T)
      BY <2>2
    <3> QED
      BY <3>1, <3>2, <3>3
  <2>4. CASE s[m] \notin S
    <3>1. kept[m] = kept[m - 1]
      BY <2>4, <1>7
    <3>2. Places(kept[m - 1], s, m, S, h)
      BY <2>1, <2>2, <2>4, PlacesSkip
    <3> QED
      BY <3>1, <3>2, <2>2
  <2> QED
    BY <2>3, <2>4
<1> HIDE DEF Good
<1>10. Bad = {}
  <2> SUFFICES ASSUME Bad # {} PROVE FALSE
    OBVIOUS
  <2>1. Bad \subseteq Nat
    BY <1>0
  <2>2. PICK m \in Bad : \A k \in Bad : m <= k
    BY <2>1, LeastNat
  <2>3. m \in 1..N /\ ~Good(m)
    BY <1>0, <1>8, <2>2
  <2>4. m - 1 \in 0..N /\ ~(m <= m - 1)
    BY <1>0, <2>3
  <2>5. Good(m - 1)
    BY <2>2, <2>4
  <2> QED
    BY <1>9, <2>3, <2>5
<1>11. Good(N)
  BY <1>0, <1>10
<1> QED
  BY <1>6, <1>11 DEF Good, N

-----------------------------------------------------------------------------
(* What the other modules use. *)

\* Keep has the type of the queue, holds the members of S, and nothing twice.
THEOREM KeepProperties ==
  ASSUME NEW T, NEW s \in Seq(T), NEW S
  PROVE  /\ Keep(s, S) \in Seq(T)
         /\ Elems(Keep(s, S)) = Elems(s) \cap S
         /\ Uniq(s) => Uniq(Keep(s, S))
<1> DEFINE a == Keep(s, S)
<1>1. a \in Seq(T)
  BY KeepPlaces
<1>2. PICK h : Places(a, s, Len(s), S, h)
  BY KeepPlaces
<1> HIDE DEF a
<1>3. Len(a) \in Nat /\ Len(s) \in Nat
  BY <1>1
<1>4. Elems(a) = Elems(s) \cap S
  <2>1. \A i \in 1..Len(a) : h[i] \in 1..Len(s) /\ a[i] = s[h[i]] /\ a[i] \in S
    BY <1>2 DEF Places
  <2>2. \A k \in 1..Len(s) : s[k] \in S => \E i \in 1..Len(a) : a[i] = s[k]
    BY <1>2 DEF Places
  <2> QED
    BY <2>1, <2>2 DEF Elems
<1>5. ASSUME Uniq(s), NEW i \in 1..Len(a), NEW j \in 1..Len(a), a[i] = a[j]
      PROVE  i = j
  <2>1. h[i] \in 1..Len(s) /\ h[j] \in 1..Len(s) /\ s[h[i]] = s[h[j]]
    BY <1>2, <1>5 DEF Places
  <2>2. h[i] = h[j]
    BY <2>1, <1>5 DEF Uniq
  <2>3. ~(i < j) /\ ~(j < i)
    <3>1. (i < j => h[i] < h[j]) /\ (j < i => h[j] < h[i])
      BY <1>2 DEF Places
    <3> QED
      BY <3>1, <2>1, <2>2
  <2> QED
    BY <2>3, <1>3
<1> QED
  BY <1>1, <1>4, <1>5 DEF Uniq, a

\* Keep changes the order of no two entries.
THEOREM KeepOrder ==
  ASSUME NEW T, NEW s \in Seq(T), NEW S, NEW x \in S, NEW y \in S, Ahead(s, x, y)
  PROVE  Ahead(Keep(s, S), x, y)
<1> DEFINE a == Keep(s, S)
<1>1. a \in Seq(T) /\ Len(s) \in Nat /\ Len(a) \in Nat
  BY KeepPlaces
<1>2. PICK h : Places(a, s, Len(s), S, h)
  BY KeepPlaces
<1> HIDE DEF a
<1>3. PICK k \in 1..Len(s), l \in 1..Len(s) : k < l /\ s[k] = x /\ s[l] = y
  BY DEF Ahead
<1>4. PICK i \in 1..Len(a) : h[i] = k
  BY <1>2, <1>3 DEF Places
<1>5. PICK j \in 1..Len(a) : h[j] = l
  BY <1>2, <1>3 DEF Places
<1>6. a[i] = x /\ a[j] = y
  BY <1>2, <1>3, <1>4, <1>5 DEF Places
<1>7. i < j
  <2>1. i # j /\ (j < i => l < k)
    BY <1>2, <1>3, <1>4, <1>5 DEF Places
  <2> QED
    BY <2>1, <1>3
<1> QED
  BY <1>6, <1>7 DEF Ahead, a

\* Without takes the members of S out, and changes nothing else.
THEOREM WithoutProperties ==
  ASSUME NEW T, NEW s \in Seq(T), NEW S
  PROVE  /\ Without(s, S) \in Seq(T)
         /\ Elems(Without(s, S)) = Elems(s) \ S
         /\ Uniq(s) => Uniq(Without(s, S))
<1>1. /\ Without(s, S) \in Seq(T)
      /\ Elems(Without(s, S)) = Elems(s) \cap (Elems(s) \ S)
      /\ Uniq(s) => Uniq(Without(s, S))
  BY KeepProperties DEF Without
<1> QED
  BY <1>1

\* The empty queue, the queue of one task, and the members of a queue.
THEOREM SmallQueues ==
  ASSUME NEW T
  PROVE  /\ Elems(<< >>) = {} /\ Uniq(<< >>)
         /\ \A x \in T : <<x>> \in Seq(T) /\ Elems(<<x>>) = {x} /\ Uniq(<<x>>)
         /\ \A s \in Seq(T) : Elems(s) \subseteq T /\ (s = << >> <=> Elems(s) = {})
<1>1. Elems(<< >>) = {} /\ Uniq(<< >>)
  BY DEF Elems, Uniq
<1>2. ASSUME NEW x \in T PROVE <<x>> \in Seq(T) /\ Elems(<<x>>) = {x} /\ Uniq(<<x>>)
  <2>1. Len(<<x>>) = 1 /\ <<x>>[1] = x /\ 1..1 = {1}
    OBVIOUS
  <2> QED
    BY <2>1 DEF Elems, Uniq
<1>3. ASSUME NEW s \in Seq(T) PROVE Elems(s) \subseteq T /\ (s = << >> <=> Elems(s) = {})
  <2>1. Elems(s) \subseteq T
    BY DEF Elems
  <2>2. ASSUME s # << >> PROVE s[1] \in Elems(s)
    BY <2>2 DEF Elems
  <2> QED
    BY <1>1, <2>1, <2>2
<1> QED
  BY <1>1, <1>2, <1>3

\* Joining two queues joins their members, and links nothing twice if nothing is
\* on both.
THEOREM JoinProperties ==
  ASSUME NEW T, NEW s \in Seq(T), NEW r \in Seq(T)
  PROVE  /\ s \o r \in Seq(T)
         /\ Elems(s \o r) = Elems(s) \cup Elems(r)
         /\ Uniq(s) /\ Uniq(r) /\ Elems(s) \cap Elems(r) = {} => Uniq(s \o r)
<1> DEFINE c == s \o r
           m == Len(s)
           n == Len(r)
<1>1. /\ c \in Seq(T) /\ m \in Nat /\ n \in Nat /\ Len(c) = m + n
      /\ \A i \in 1..m + n : c[i] = IF i <= m THEN s[i] ELSE r[i - m]
  OBVIOUS
<1>2. \A i \in 1..m : i \in 1..m + n /\ c[i] = s[i]
  BY <1>1
<1>3. \A i \in 1..n : m + i \in 1..m + n /\ c[m + i] = r[i]
  BY <1>1
<1>4. \A i \in 1..m + n : i \in 1..m \/ (i - m \in 1..n /\ i = m + (i - m))
  BY <1>1
<1> HIDE DEF c
<1>5. Elems(c) = Elems(s) \cup Elems(r)
  <2>1. \A i \in 1..m + n : c[i] \in Elems(s) \cup Elems(r)
    BY <1>2, <1>3, <1>4 DEF Elems
  <2>2. \A i \in 1..m : s[i] \in Elems(c)
    BY <1>1, <1>2 DEF Elems
  <2>3. \A i \in 1..n : r[i] \in Elems(c)
    BY <1>1, <1>3 DEF Elems
  <2> QED
    BY <1>1, <2>1, <2>2, <2>3 DEF Elems
<1>6. ASSUME Uniq(s), Uniq(r), Elems(s) \cap Elems(r) = {},
             NEW i \in 1..m + n, NEW j \in 1..m + n, c[i] = c[j]
      PROVE  i = j
  <2>1. \A k \in 1..m : c[k] \in Elems(s)
    BY <1>2 DEF Elems
  <2>2. \A k \in 1..m + n : k \notin 1..m => c[k] \in Elems(r)
    <3> SUFFICES ASSUME NEW k \in 1..m + n, k \notin 1..m PROVE c[k] \in Elems(r)
      OBVIOUS
    <3>1. k - m \in 1..n /\ c[k] = r[k - m]
      BY <1>3, <1>4
    <3> QED
      BY <3>1 DEF Elems
  <2>3. CASE i \in 1..m /\ j \in 1..m
    BY <2>3, <1>2, <1>6 DEF Uniq
  <2>4. CASE i \in 1..m /\ j \notin 1..m
    BY <2>4, <2>1, <2>2, <1>6
  <2>5. CASE i \notin 1..m /\ j \in 1..m
    BY <2>5, <2>1, <2>2, <1>6
  <2>6. CASE i \notin 1..m /\ j \notin 1..m
    <3>1. i - m \in 1..n /\ j - m \in 1..n /\ r[i - m] = r[j - m]
      BY <2>6, <1>3, <1>4, <1>6
    <3>2. i - m = j - m
      BY <3>1, <1>6 DEF Uniq
    <3> QED
      BY <3>2, <1>1
  <2> QED
    BY <2>3, <2>4, <2>5, <2>6
<1> QED
  BY <1>1, <1>5, <1>6 DEF Uniq, c

\* Joining nothing changes nothing.
THEOREM JoinEmpty ==
  ASSUME NEW T, NEW s \in Seq(T)
  PROVE  s \o << >> = s
  OBVIOUS

\* tkmc_list_add_tail().
THEOREM AppendQueue ==
  ASSUME NEW T, NEW s \in Seq(T), NEW x \in T
  PROVE  /\ Append(s, x) \in Seq(T)
         /\ Elems(Append(s, x)) = Elems(s) \cup {x}
         /\ Uniq(s) /\ x \notin Elems(s) => Uniq(Append(s, x))
<1>1. Append(s, x) = s \o <<x>>
  OBVIOUS
<1>2. <<x>> \in Seq(T) /\ Elems(<<x>>) = {x} /\ Uniq(<<x>>)
  BY SmallQueues
<1>3. /\ s \o <<x>> \in Seq(T)
      /\ Elems(s \o <<x>>) = Elems(s) \cup Elems(<<x>>)
      /\ Uniq(s) /\ Uniq(<<x>>) /\ Elems(s) \cap Elems(<<x>>) = {} => Uniq(s \o <<x>>)
  BY <1>2, JoinProperties
<1> QED
  BY <1>1, <1>2, <1>3

\* Taking the head of a queue that holds nothing twice.
THEOREM TailQueue ==
  ASSUME NEW T, NEW s \in Seq(T), s # << >>, Uniq(s)
  PROVE  /\ Head(s) \in Elems(s) /\ Head(s) \in T
         /\ Tail(s) \in Seq(T)
         /\ Elems(Tail(s)) = Elems(s) \ {Head(s)}
         /\ Uniq(Tail(s))
<1> DEFINE r == Tail(s)
           n == Len(s)
<1>1. /\ n \in Nat /\ n > 0 /\ Head(s) = s[1] /\ s[1] \in T /\ 1 \in 1..n
      /\ r \in Seq(T) /\ Len(r) = n - 1
      /\ \A i \in 1..n - 1 : r[i] = s[i + 1]
  OBVIOUS
<1> HIDE DEF r
<1>2. \A i \in 1..n - 1 : i + 1 \in 1..n /\ i + 1 # 1 /\ r[i] = s[i + 1]
  BY <1>1
<1>3. \A i \in 1..n : i = 1 \/ (i - 1 \in 1..n - 1 /\ r[i - 1] = s[i])
  <2> SUFFICES ASSUME NEW i \in 1..n, i # 1 PROVE i - 1 \in 1..n - 1 /\ r[i - 1] = s[i]
    OBVIOUS
  <2>1. i - 1 \in 1..n - 1 /\ (i - 1) + 1 = i
    BY <1>1
  <2> QED
    BY <2>1, <1>1
<1>4. Elems(r) = Elems(s) \ {s[1]}
  <2>1. \A i \in 1..n - 1 : r[i] \in Elems(s) /\ r[i] # s[1]
    BY <1>1, <1>2 DEF Elems, Uniq
  <2>2. \A i \in 1..n : s[i] # s[1] => s[i] \in Elems(r)
    <3> SUFFICES ASSUME NEW i \in 1..n, s[i] # s[1] PROVE s[i] \in Elems(r)
      OBVIOUS
    <3>1. i - 1 \in 1..Len(r) /\ r[i - 1] = s[i]
      BY <1>1, <1>3
    <3> QED
      BY <3>1 DEF Elems
  <2>3. \A x : x \in Elems(r) => x \in Elems(s) \ {s[1]}
    BY <1>1, <2>1 DEF Elems
  <2>4. \A x : x \in Elems(s) \ {s[1]} => x \in Elems(r)
    BY <2>2 DEF Elems
  <2> QED
    BY <2>3, <2>4
<1>5. Uniq(r)
  <2> SUFFICES ASSUME NEW i \in 1..n - 1, NEW j \in 1..n - 1, r[i] = r[j] PROVE i = j
    BY <1>1 DEF Uniq
  <2>1. i + 1 = j + 1
    BY <1>2 DEF Uniq
  <2> QED
    BY <2>1, <1>1
<1> QED
  BY <1>1, <1>4, <1>5 DEF Elems, r

\* tkmc_list_add_tail() before a block that is on the queue.
THEOREM LinkedBeforeQueue ==
  ASSUME NEW T, NEW q \in Seq(T), NEW t \in T, NEW n \in 1..Len(q)
  PROVE  /\ LinkedBefore(q, n, t) \in Seq(T)
         /\ Elems(LinkedBefore(q, n, t)) = Elems(q) \cup {t}
         /\ Uniq(q) /\ t \notin Elems(q) => Uniq(LinkedBefore(q, n, t))
<1> DEFINE l == SubSeq(q, 1, n - 1)
           r == SubSeq(q, n, Len(q))
<1>0. n \in 1..Len(q) /\ Len(q) \in Nat
  OBVIOUS
<1>1. /\ l \in Seq(T) /\ Len(l) = n - 1 /\ \A i \in 1..n - 1 : l[i] = q[i]
      /\ r \in Seq(T) /\ Len(r) = Len(q) - n + 1
      /\ \A i \in 1..Len(q) - n + 1 : r[i] = q[n + i - 1]
  BY <1>0
<1> HIDE DEF l, r
<1>2. Elems(l) = {q[i] : i \in 1..n - 1} /\ Elems(r) = {q[i] : i \in n..Len(q)}
  <2>1. Elems(l) = {q[i] : i \in 1..n - 1}
    BY <1>1 DEF Elems
  <2>2. ASSUME NEW i \in 1..Len(r)
        PROVE  n + i - 1 \in n..Len(q) /\ r[i] = q[n + i - 1]
    <3>1. i \in 1..Len(q) - n + 1
      BY <1>1
    <3>2. i \in Int /\ 1 <= i /\ i <= Len(q) - n + 1 /\ n \in Int /\ Len(q) \in Int
      BY <1>0, <3>1
    <3>3. n + i - 1 \in n..Len(q)
      BY ONLY <3>2
    <3> QED
      BY <1>1, <3>1, <3>3
  <2>3. ASSUME NEW j \in n..Len(q)
        PROVE  j - n + 1 \in 1..Len(r) /\ r[j - n + 1] = q[j]
    <3> DEFINE i == j - n + 1
    <3>1. j \in Int /\ n <= j /\ j <= Len(q) /\ n \in Int /\ Len(q) \in Int
      BY <1>0
    <3>2. i \in 1..Len(q) - n + 1 /\ n + i - 1 = j
      BY ONLY <3>1
    <3> HIDE DEF i
    <3>3. i \in 1..Len(r) /\ r[i] = q[j]
      BY <1>1, <3>2
    <3> QED
      BY <3>3 DEF i
  <2>4. \A x : x \in Elems(r) => x \in {q[i] : i \in n..Len(q)}
    BY <2>2 DEF Elems
  <2>5. \A x : x \in {q[i] : i \in n..Len(q)} => x \in Elems(r)
    BY <2>3 DEF Elems
  <2> QED
    BY <2>1, <2>4, <2>5
<1>3. ASSUME Uniq(q) PROVE Uniq(l) /\ Uniq(r)
  <2>1. ASSUME NEW i \in 1..Len(l), NEW j \in 1..Len(l), l[i] = l[j] PROVE i = j
    <3>1. i \in 1..Len(q) /\ j \in 1..Len(q) /\ q[i] = q[j]
      BY <1>0, <1>1, <2>1
    <3> QED
      BY <1>3, <3>1 DEF Uniq
  <2>2. ASSUME NEW i \in 1..Len(r), NEW j \in 1..Len(r), r[i] = r[j] PROVE i = j
    <3>1. i \in Int /\ n + i - 1 \in 1..Len(q) /\ r[i] = q[n + i - 1]
      BY <1>0, <1>1
    <3>2. j \in Int /\ n + j - 1 \in 1..Len(q) /\ r[j] = q[n + j - 1]
      BY <1>0, <1>1
    <3>3. n + i - 1 = n + j - 1
      BY <1>3, <2>2, <3>1, <3>2 DEF Uniq
    <3> QED
      BY <1>0, <3>1, <3>2, <3>3
  <2> QED
    BY <2>1, <2>2 DEF Uniq
<1>4. Elems(l) \cup Elems(r) = Elems(q)
  <2>1. \A i \in 1..Len(q) : i \in 1..n - 1 \/ i \in n..Len(q)
    BY <1>0
  <2>2. \A i \in 1..n - 1 : i \in 1..Len(q)
    BY <1>0
  <2>3. \A i \in n..Len(q) : i \in 1..Len(q)
    BY <1>0
  <2> QED
    BY <1>2, <2>1, <2>2, <2>3 DEF Elems
<1>5. ASSUME Uniq(q) PROVE Elems(l) \cap Elems(r) = {}
  <2>1. \A i \in 1..n - 1, j \in n..Len(q) : i \in 1..Len(q) /\ j \in 1..Len(q) /\ i # j
    BY <1>0
  <2> QED
    BY <1>2, <1>5, <2>1 DEF Uniq
<1> DEFINE c == Append(l, t)
<1>6. /\ c \in Seq(T) /\ Elems(c) = Elems(l) \cup {t}
      /\ Uniq(l) /\ t \notin Elems(l) => Uniq(c)
  BY <1>1, AppendQueue
<1> HIDE DEF c
<1>7. /\ c \o r \in Seq(T) /\ Elems(c \o r) = Elems(c) \cup Elems(r)
      /\ Uniq(c) /\ Uniq(r) /\ Elems(c) \cap Elems(r) = {} => Uniq(c \o r)
  BY <1>1, <1>6, JoinProperties
<1>8. Elems(c \o r) = Elems(q) \cup {t}
  BY <1>4, <1>6, <1>7
<1>9. ASSUME Uniq(q), t \notin Elems(q) PROVE Uniq(c \o r)
  <2>1. Uniq(c) /\ Uniq(r)
    BY <1>3, <1>4, <1>6, <1>9
  <2>2. Elems(c) \cap Elems(r) = {}
    BY <1>4, <1>5, <1>6, <1>9
  <2> QED
    BY <1>7, <2>1, <2>2
<1> QED
  BY <1>7, <1>8, <1>9 DEF c, l, r, LinkedBefore

\* Of two control blocks on a queue that holds nothing twice, one is ahead.
THEOREM OneAhead ==
  ASSUME NEW T, NEW s \in Seq(T), Uniq(s), NEW a \in Elems(s), NEW b \in Elems(s), a # b
  PROVE  Ahead(s, a, b) <=> ~Ahead(s, b, a)
<1>1. PICK i \in 1..Len(s), j \in 1..Len(s) : s[i] = a /\ s[j] = b
  BY DEF Elems
<1>2. i # j /\ (i < j \/ j < i) /\ ~(i < j /\ j < i)
  BY <1>1
<1>3. Ahead(s, a, b) <=> i < j
  BY <1>1 DEF Ahead, Uniq
<1>4. Ahead(s, b, a) <=> j < i
  BY <1>1 DEF Ahead, Uniq
<1> QED
  BY <1>2, <1>3, <1>4

\* The control blocks that are ahead of another on a queue are on it.
THEOREM AheadOn ==
  ASSUME NEW s, NEW a, NEW b, Ahead(s, a, b)
  PROVE  a \in Elems(s) /\ b \in Elems(s)
  BY DEF Ahead, Elems

\* tkmc_list_del() leaves the others in their order.
THEOREM WithoutOrder ==
  ASSUME NEW T, NEW s \in Seq(T), Uniq(s), NEW S, NEW a \in Elems(s), NEW b \in Elems(s),
         a \notin S, b \notin S, a # b
  PROVE  Ahead(Without(s, S), a, b) <=> Ahead(s, a, b)
<1> DEFINE r == Without(s, S)
<1>1. r \in Seq(T) /\ Uniq(r) /\ a \in Elems(r) /\ b \in Elems(r)
  BY WithoutProperties
<1>2. Ahead(s, a, b) => Ahead(r, a, b)
  BY KeepOrder DEF Without
<1>3. Ahead(s, b, a) => Ahead(r, b, a)
  BY KeepOrder DEF Without
<1> HIDE DEF r
<1>4. Ahead(s, a, b) <=> ~Ahead(s, b, a)
  BY OneAhead
<1>5. Ahead(r, a, b) <=> ~Ahead(r, b, a)
  BY <1>1, OneAhead
<1> QED
  BY <1>2, <1>3, <1>4, <1>5 DEF r

\* Taking the head of a queue leaves the others in their order.
THEOREM TailOrder ==
  ASSUME NEW T, NEW s \in Seq(T), s # << >>, Uniq(s),
         NEW a \in Elems(Tail(s)), NEW b \in Elems(Tail(s)), a # b
  PROVE  Ahead(Tail(s), a, b) <=> Ahead(s, a, b)
<1> DEFINE r == Tail(s)
<1>1. /\ r \in Seq(T) /\ Len(s) \in Nat /\ Len(r) = Len(s) - 1
      /\ \A i \in 1..Len(r) : r[i] = s[i + 1]
  OBVIOUS
<1>2. Uniq(r) /\ a \in Elems(s) /\ b \in Elems(s)
  BY TailQueue
<1> HIDE DEF r
<1>3. \A i \in 1..Len(r) : i + 1 \in 1..Len(s) /\ r[i] = s[i + 1]
  BY <1>1
<1>4. \A i, j \in 1..Len(r) : i < j => i + 1 < j + 1
  BY <1>1
<1>5. Ahead(r, a, b) => Ahead(s, a, b)
  BY <1>3, <1>4 DEF Ahead
<1>6. Ahead(r, b, a) => Ahead(s, b, a)
  BY <1>3, <1>4 DEF Ahead
<1>7. Ahead(s, a, b) <=> ~Ahead(s, b, a)
  BY <1>2, OneAhead
<1>8. Ahead(r, a, b) <=> ~Ahead(r, b, a)
  <2>1. a \in Elems(r) /\ b \in Elems(r)
    BY DEF r
  <2> QED
    BY <1>1, <1>2, <2>1, OneAhead
<1> QED
  BY <1>5, <1>6, <1>7, <1>8 DEF r

\* A queue r that is q with t in place n.
Placed(r, q, n, t) ==
  /\ Len(r) = Len(q) + 1 /\ r[n] = t
  /\ \A i \in 1..Len(q) : IF i < n THEN r[i] = q[i] ELSE r[i + 1] = q[i]

\* The others keep their order, and t is ahead of those from place n on.
THEOREM PlacedOrder ==
  ASSUME NEW T, NEW q \in Seq(T), NEW r, NEW t, t \notin Elems(q), Uniq(q),
         NEW n \in 1..Len(q) + 1, Placed(r, q, n, t)
  PROVE  /\ \A a, b \in Elems(q) : Ahead(r, a, b) <=> Ahead(q, a, b)
         /\ \A i \in 1..Len(q) : /\ Ahead(r, t, q[i]) <=> n <= i
                                 /\ Ahead(r, q[i], t) <=> i < n
<1> DEFINE N == Len(q)
           At(i) == IF i < n THEN i ELSE i + 1
<1>0. N \in Nat /\ Len(r) = N + 1 /\ n \in 1..N + 1 /\ r[n] = t
  BY DEF Placed
<1>1. \A i \in 1..N : At(i) \in 1..N + 1 /\ At(i) # n /\ r[At(i)] = q[i] /\ q[i] # t
  BY <1>0 DEF Placed, Elems
<1>2. \A k \in 1..N + 1 : k = n \/ \E i \in 1..N : k = At(i)
  <2> SUFFICES ASSUME NEW k \in 1..N + 1, k # n PROVE \E i \in 1..N : k = At(i)
    OBVIOUS
  <2>1. CASE k < n
    <3>1. k \in 1..N /\ k = At(k)
      BY <1>0, <2>1
    <3> QED
      BY <3>1
  <2>2. CASE ~(k < n)
    <3>1. k - 1 \in 1..N /\ ~(k - 1 < n) /\ k = (k - 1) + 1
      BY <1>0, <2>2
    <3>2. k = At(k - 1)
      BY <3>1
    <3> QED
      BY <3>1, <3>2
  <2> QED
    BY <2>1, <2>2
<1>3. \A i, j \in 1..N : At(i) < At(j) <=> i < j
  BY <1>0
<1>4. \A i \in 1..N : (n < At(i) <=> n <= i) /\ (At(i) < n <=> i < n)
  BY <1>0
<1> HIDE DEF At, N
<1>5. \A i, j \in 1..N : Ahead(r, q[i], q[j]) <=> i < j
  <2> SUFFICES ASSUME NEW i \in 1..N, NEW j \in 1..N PROVE Ahead(r, q[i], q[j]) <=> i < j
    OBVIOUS
  <2>1. ASSUME i < j PROVE Ahead(r, q[i], q[j])
    BY <1>0, <1>1, <1>3, <2>1 DEF Ahead
  <2>2. ASSUME Ahead(r, q[i], q[j]) PROVE i < j
    <3>1. PICK k \in 1..N + 1, l \in 1..N + 1 : k < l /\ r[k] = q[i] /\ r[l] = q[j]
      BY <1>0, <2>2 DEF Ahead
    <3>2. k # n /\ l # n
      BY <1>0, <1>1, <3>1
    <3>3. PICK x \in 1..N, y \in 1..N : k = At(x) /\ l = At(y)
      BY <1>2, <3>2
    <3>4. q[x] = q[i] /\ q[y] = q[j]
      BY <1>1, <3>1, <3>3
    <3>5. x = i /\ y = j
      BY <3>4 DEF Uniq, N
    <3> QED
      BY <1>3, <3>1, <3>3, <3>5
  <2> QED
    BY <2>1, <2>2
<1>6. \A i, j \in 1..N : Ahead(q, q[i], q[j]) <=> i < j
  BY DEF Ahead, Uniq, N
<1>7. ASSUME NEW i \in 1..N
      PROVE  (Ahead(r, t, q[i]) <=> n <= i) /\ (Ahead(r, q[i], t) <=> i < n)
  <2>1. \A k \in 1..N + 1 : (r[k] = t <=> k = n) /\ (r[k] = q[i] <=> k = At(i))
    <3> SUFFICES ASSUME NEW k \in 1..N + 1, k # n
                 PROVE  r[k] # t /\ (r[k] = q[i] => k = At(i))
      BY <1>0, <1>1
    <3>1. PICK x \in 1..N : k = At(x)
      BY <1>2
    <3>2. r[k] = q[x] /\ q[x] # t /\ (q[x] = q[i] => x = i)
      BY <1>1, <3>1 DEF Uniq, N
    <3> QED
      BY <3>1, <3>2
  <2>2. At(i) \in 1..N + 1 /\ n \in 1..N + 1
    BY <1>0, <1>1
  <2>3. Ahead(r, t, q[i]) <=> n < At(i)
    BY <1>0, <2>1, <2>2 DEF Ahead
  <2>4. Ahead(r, q[i], t) <=> At(i) < n
    BY <1>0, <2>1, <2>2 DEF Ahead
  <2> QED
    BY <1>4, <2>3, <2>4
<1>8. \A a, b \in Elems(q) : Ahead(r, a, b) <=> Ahead(q, a, b)
  BY <1>5, <1>6 DEF Elems, N
<1> QED
  BY <1>7, <1>8 DEF N

\* tkmc_list_add_tail() places a control block last, and LinkedBefore in place n.
THEOREM InsertPlaces ==
  ASSUME NEW T, NEW q \in Seq(T), NEW t \in T
  PROVE  /\ Placed(Append(q, t), q, Len(q) + 1, t)
         /\ \A n \in 1..Len(q) : Placed(LinkedBefore(q, n, t), q, n, t)
<1>1. Placed(Append(q, t), q, Len(q) + 1, t)
  BY DEF Placed
<1>2. ASSUME NEW n \in 1..Len(q) PROVE Placed(LinkedBefore(q, n, t), q, n, t)
  <2> DEFINE l == SubSeq(q, 1, n - 1)
             c == Append(l, t)
             r == SubSeq(q, n, Len(q))
  <2>0. n \in 1..Len(q) /\ Len(q) \in Nat
    OBVIOUS
  <2>1. /\ l \in Seq(T) /\ Len(l) = n - 1 /\ \A i \in 1..n - 1 : l[i] = q[i]
        /\ r \in Seq(T) /\ Len(r) = Len(q) - n + 1
        /\ \A i \in 1..Len(q) - n + 1 : r[i] = q[n + i - 1]
    BY <2>0
  <2> HIDE DEF l, r
  <2>2. /\ c \in Seq(T) /\ Len(c) = n /\ c[n] = t /\ \A i \in 1..n - 1 : c[i] = q[i]
    <3>1. /\ c \in Seq(T) /\ Len(c) = Len(l) + 1 /\ c[Len(l) + 1] = t
          /\ \A i \in 1..Len(l) : c[i] = l[i]
      BY <2>1
    <3>2. Len(l) + 1 = n
      BY <2>0, <2>1
    <3> HIDE DEF c
    <3> QED
      BY <2>1, <3>1, <3>2
  <2> HIDE DEF c
  <2>3. /\ Len(c \o r) = Len(q) + 1
        /\ \A i \in 1..n : (c \o r)[i] = c[i]
        /\ \A i \in 1..Len(r) : (c \o r)[n + i] = r[i]
    <3> DEFINE m == Len(r)
    <3>1. /\ Len(c \o r) = n + m
          /\ \A i \in 1..n + m : (c \o r)[i] = IF i <= n THEN c[i] ELSE r[i - n]
      <4>1. /\ Len(c \o r) = Len(c) + Len(r)
            /\ \A i \in 1..Len(c) + Len(r) :
                 (c \o r)[i] = IF i <= Len(c) THEN c[i] ELSE r[i - Len(c)]
        <5>1. c \in Seq(T) /\ r \in Seq(T)
          BY <2>1, <2>2
        <5> QED
          BY <5>1
      <4> QED
        BY <2>2, <4>1
    <3>2. m \in Nat /\ m = Len(q) - n + 1
      BY <2>0, <2>1
    <3> HIDE DEF m
    <3>3. Len(c \o r) = Len(q) + 1 /\ \A i \in 1..n : i \in 1..n + m /\ i <= n
      BY <2>0, <3>1, <3>2
    <3>4. \A i \in 1..m : n + i \in 1..n + m /\ ~(n + i <= n) /\ (n + i) - n = i
      BY <2>0, <3>2
    <3> QED
      BY <3>1, <3>3, <3>4 DEF m
  <2>4. ASSUME NEW i \in 1..Len(q)
        PROVE  IF i < n THEN (c \o r)[i] = q[i] ELSE (c \o r)[i + 1] = q[i]
    <3>1. CASE i < n
      <4>1. i \in 1..n - 1 /\ i \in 1..n
        BY <2>0, <3>1
      <4> QED
        BY <2>2, <2>3, <3>1, <4>1
    <3>2. CASE ~(i < n)
      <4> DEFINE k == i - n + 1
      <4>1. k \in 1..Len(q) - n + 1 /\ n + k - 1 = i /\ n + k = i + 1
        BY <2>0, <3>2
      <4> HIDE DEF k
      <4>2. (c \o r)[n + k] = r[k] /\ r[k] = q[n + k - 1]
        BY <2>1, <2>3, <4>1
      <4> QED
        BY <3>2, <4>1, <4>2
    <3> QED
      BY <3>1, <3>2
  <2>5. n \in 1..n /\ (c \o r)[n] = t
    BY <2>0, <2>2, <2>3
  <2>6. LinkedBefore(q, n, t) = c \o r
    BY DEF LinkedBefore, c, l, r
  <2> QED
    BY <2>3, <2>4, <2>5, <2>6 DEF Placed
<1> QED
  BY <1>1, <1>2

\* The queue q after t is linked before the first control block of a greater rank,
\* or at the tail if there is none.
Ranked(q, t, rank) ==
  LET after == {i \in 1..Len(q) : rank[t] < rank[q[i]]}
      n == CHOOSE i \in after : \A j \in after : i <= j
  IN IF after # {} THEN LinkedBefore(q, n, t) ELSE Append(q, t)

\* On a queue in the order of the ranks t comes before those of a greater rank and
\* after the others, which keep their order.
THEOREM RankedOrder ==
  ASSUME NEW T, NEW q \in Seq(T), Uniq(q), NEW t \in T, t \notin Elems(q), NEW rank,
         \A x \in T : rank[x] \in Int,
         \A a, b \in Elems(q) : Ahead(q, a, b) => rank[a] <= rank[b]
  PROVE  /\ \A a, b \in Elems(q) : Ahead(Ranked(q, t, rank), a, b) <=> Ahead(q, a, b)
         /\ \A a \in Elems(q) : /\ Ahead(Ranked(q, t, rank), t, a) <=> rank[t] < rank[a]
                                /\ Ahead(Ranked(q, t, rank), a, t) <=> ~(rank[t] < rank[a])
<1> DEFINE after == {i \in 1..Len(q) : rank[t] < rank[q[i]]}
           n == CHOOSE i \in after : \A j \in after : i <= j
           r == Ranked(q, t, rank)
<1>0. Len(q) \in Nat /\ \A i \in 1..Len(q) : q[i] \in T /\ rank[q[i]] \in Int
  OBVIOUS
<1>1. r = IF after # {} THEN LinkedBefore(q, n, t) ELSE Append(q, t)
  BY DEF Ranked
<1>2. after # {} => n \in after /\ \A j \in after : n <= j
  <2>1. after \subseteq Nat
    BY <1>0
  <2> HIDE DEF after
  <2>2. after # {} => \E i \in after : \A j \in after : i <= j
    BY <2>1, LeastNat
  <2> QED
    BY <2>2
<1> DEFINE p == IF after # {} THEN n ELSE Len(q) + 1
<1>3. p \in 1..Len(q) + 1 /\ Placed(r, q, p, t)
  <2>1. CASE after # {}
    <3>1. n \in 1..Len(q)
      BY <1>2, <2>1
    <3> HIDE DEF after, n, r
    <3> QED
      BY <1>0, <1>1, <2>1, <3>1, InsertPlaces
  <2>2. CASE after = {}
    <3> HIDE DEF after, n, r
    <3> QED
      BY <1>0, <1>1, <2>2, InsertPlaces
  <2> QED
    BY <2>1, <2>2
<1>4. \A i \in 1..Len(q) : p <= i <=> rank[t] < rank[q[i]]
  <2> SUFFICES ASSUME NEW i \in 1..Len(q) PROVE p <= i <=> rank[t] < rank[q[i]]
    OBVIOUS
  <2>1. CASE after = {}
    <3>1. i \notin after /\ p = Len(q) + 1
      BY <2>1
    <3>2. ~(Len(q) + 1 <= i)
      BY <1>0
    <3> QED
      BY <3>1, <3>2
  <2>2. CASE after # {}
    <3>1. p = n /\ n \in 1..Len(q) /\ rank[t] < rank[q[n]] /\ \A j \in after : n <= j
      BY <1>2, <2>2
    <3> HIDE DEF n, p
    <3>2. ASSUME rank[t] < rank[q[i]] PROVE n <= i
      BY <3>1, <3>2
    <3>3. ASSUME n <= i PROVE rank[t] < rank[q[i]]
      <4>1. CASE n = i
        BY <3>1, <4>1
      <4>2. CASE n # i
        <5>1. n < i
          BY <1>0, <3>1, <3>3, <4>2
        <5>2. Ahead(q, q[n], q[i]) /\ q[n] \in Elems(q) /\ q[i] \in Elems(q)
          BY <3>1, <5>1 DEF Ahead, Elems
        <5>3. rank[q[n]] <= rank[q[i]]
          BY <5>2
        <5> QED
          BY <1>0, <3>1, <5>3
      <4> QED
        BY <4>1, <4>2
    <3> QED
      BY <3>1, <3>2, <3>3
  <2> QED
    BY <2>1, <2>2
<1> HIDE DEF p, r, after, n
<1>5. /\ \A a, b \in Elems(q) : Ahead(r, a, b) <=> Ahead(q, a, b)
      /\ \A i \in 1..Len(q) : (Ahead(r, t, q[i]) <=> p <= i) /\ (Ahead(r, q[i], t) <=> i < p)
  BY <1>3, PlacedOrder
<1>6. \A i \in 1..Len(q) : i < p <=> ~(p <= i)
  BY <1>0, <1>3
<1>7. \A i \in 1..Len(q) : /\ Ahead(r, t, q[i]) <=> rank[t] < rank[q[i]]
                           /\ Ahead(r, q[i], t) <=> ~(rank[t] < rank[q[i]])
  BY <1>4, <1>5, <1>6
<1>8. \A a \in Elems(q) : /\ Ahead(r, t, a) <=> rank[t] < rank[a]
                          /\ Ahead(r, a, t) <=> ~(rank[t] < rank[a])
  BY <1>7 DEF Elems
<1> QED
  BY <1>5, <1>8 DEF r

\* A control block that is linked at the tail comes after the others.
THEOREM AppendOrder ==
  ASSUME NEW T, NEW q \in Seq(T), Uniq(q), NEW t \in T, t \notin Elems(q)
  PROVE  /\ \A a, b \in Elems(q) : Ahead(Append(q, t), a, b) <=> Ahead(q, a, b)
         /\ \A a \in Elems(q) : Ahead(Append(q, t), a, t) /\ ~Ahead(Append(q, t), t, a)
<1> DEFINE r == Append(q, t)
           n == Len(q) + 1
<1>1. Placed(r, q, n, t) /\ n \in 1..Len(q) + 1
  BY InsertPlaces
<1>2. \A i \in 1..Len(q) : i < n /\ ~(n <= i)
  OBVIOUS
<1> HIDE DEF r, n
<1>3. /\ \A a, b \in Elems(q) : Ahead(r, a, b) <=> Ahead(q, a, b)
      /\ \A i \in 1..Len(q) : (Ahead(r, t, q[i]) <=> n <= i) /\ (Ahead(r, q[i], t) <=> i < n)
  BY <1>1, PlacedOrder
<1>4. \A a \in Elems(q) : Ahead(r, a, t) /\ ~Ahead(r, t, a)
  BY <1>2, <1>3 DEF Elems
<1> QED
  BY <1>3, <1>4 DEF r

\* Control blocks that are linked behind a queue leave its order and come after
\* all of it.
THEOREM JoinOrder ==
  ASSUME NEW T, NEW q \in Seq(T), NEW s \in Seq(T)
  PROVE  /\ \A a, b \in Elems(q) : Ahead(q, a, b) => Ahead(q \o s, a, b)
         /\ \A a \in Elems(q), b \in Elems(s) : Ahead(q \o s, a, b)
<1> DEFINE c == q \o s
           m == Len(q)
           n == Len(s)
<1>1. /\ c \in Seq(T) /\ m \in Nat /\ n \in Nat /\ Len(c) = m + n
      /\ \A i \in 1..m + n : c[i] = IF i <= m THEN q[i] ELSE s[i - m]
  OBVIOUS
<1>2. \A i \in 1..m : i \in 1..m + n /\ c[i] = q[i]
  BY <1>1
<1>3. \A j \in 1..n : m + j \in 1..m + n /\ c[m + j] = s[j]
  BY <1>1
<1>4. \A i \in 1..m, j \in 1..n : i < m + j
  BY <1>1
<1> HIDE DEF c, m, n
<1>5. \A a, b \in Elems(q) : Ahead(q, a, b) => Ahead(c, a, b)
  BY <1>1, <1>2 DEF Ahead, m
<1>6. ASSUME NEW a \in Elems(q), NEW b \in Elems(s) PROVE Ahead(c, a, b)
  <2>1. PICK i \in 1..m, j \in 1..n : q[i] = a /\ s[j] = b
    BY DEF Elems, m, n
  <2>2. /\ i \in 1..Len(c) /\ m + j \in 1..Len(c) /\ i < m + j
        /\ c[i] = a /\ c[m + j] = b
    BY <1>1, <1>2, <1>3, <1>4, <2>1
  <2> QED
    BY <2>2 DEF Ahead
<1> QED
  BY <1>5, <1>6 DEF c

\* The last place that LinkedBefore takes is the tail.
THEOREM LinkedLast ==
  ASSUME NEW T, NEW q \in Seq(T), NEW t \in T
  PROVE  LinkedBefore(q, Len(q) + 1, t) = Append(q, t)
<1>1. SubSeq(q, 1, (Len(q) + 1) - 1) = q
  OBVIOUS
<1>2. SubSeq(q, Len(q) + 1, Len(q)) = << >>
  OBVIOUS
<1> DEFINE a == Append(q, t)
<1>3. a \in Seq(T)
  OBVIOUS
<1> HIDE DEF a
<1>4. a \o << >> = a
  BY <1>3
<1> QED
  BY <1>1, <1>2, <1>4 DEF LinkedBefore, a

\* tkmc_list_del() of the control block in place k closes the gap.
THEOREM WithoutOne ==
  ASSUME NEW T, NEW s \in Seq(T), Uniq(s), NEW k \in 1..Len(s)
  PROVE  Placed(s, Without(s, {s[k]}), k, s[k])
<1> DEFINE N == Len(s)
           S == Elems(s) \ {s[k]}
<1>0. N \in Nat /\ k \in 1..N /\ \A i \in 1..N : s[i] \in T
  OBVIOUS
<1>1. \A i \in 1..N : s[i] \in S <=> i # k
  BY DEF Uniq, Elems
<1>2. PICK kept : KeepsBy(s, S, kept) /\ Keep(s, S) = kept[N]
  BY KeepSteps
<1>3. Without(s, {s[k]}) = kept[N]
  BY <1>2 DEF Without
<1> HIDE DEF N, S
<1>4. /\ kept[0] = << >>
      /\ \A i \in 1..N : kept[i] = IF i # k THEN Append(kept[i - 1], s[i]) ELSE kept[i - 1]
  BY <1>1, <1>2 DEF KeepsBy, N
<1> DEFINE W == [i \in 0..N |->
                  {v \in Seq(T) : /\ Len(v) = IF i < k THEN i ELSE i - 1
                                  /\ \A j \in 1..Len(v) : v[j] = IF j < k THEN s[j] ELSE s[j + 1]}]
<1>5. kept[0] \in W[0]
  BY <1>0, <1>4
<1>6. ASSUME NEW i \in 1..N, kept[i - 1] \in W[i - 1] PROVE kept[i] \in W[i]
  <2>1. i \in 0..N /\ i - 1 \in 0..N /\ s[i] \in T
    BY <1>0
  <2> DEFINE v == kept[i - 1]
             w == kept[i]
  <2>2. /\ v \in Seq(T) /\ Len(v) = IF i - 1 < k THEN i - 1 ELSE (i - 1) - 1
        /\ \A j \in 1..Len(v) : v[j] = IF j < k THEN s[j] ELSE s[j + 1]
    BY <1>6, <2>1
  <2>3. w = IF i # k THEN Append(v, s[i]) ELSE v
    BY <1>4
  <2> HIDE DEF v, w
  <2>4. /\ w \in Seq(T) /\ Len(w) = IF i < k THEN i ELSE i - 1
        /\ \A j \in 1..Len(w) : w[j] = IF j < k THEN s[j] ELSE s[j + 1]
    <3>1. CASE i = k
      BY <1>0, <2>2, <2>3, <3>1
    <3>2. CASE i # k
      <4>1. /\ w \in Seq(T) /\ Len(w) = Len(v) + 1 /\ w[Len(v) + 1] = s[i]
            /\ \A j \in 1..Len(v) : w[j] = v[j]
        BY <2>1, <2>2, <2>3, <3>2
      <4>2. Len(v) = IF i < k THEN i - 1 ELSE i - 2
        BY <1>0, <2>2, <3>2
      <4>3. Len(w) = IF i < k THEN i ELSE i - 1
        BY <1>0, <4>1, <4>2
      <4>4. Len(v) \in Nat
        BY <2>2
      <4>5. \A j \in 1..Len(w) : w[j] = IF j < k THEN s[j] ELSE s[j + 1]
        <5> SUFFICES ASSUME NEW j \in 1..Len(w) PROVE w[j] = IF j < k THEN s[j] ELSE s[j + 1]
          OBVIOUS
        <5>1. CASE j \in 1..Len(v)
          BY <2>2, <4>1, <5>1
        <5>2. CASE j = Len(v) + 1
          <6>1. i = IF j < k THEN j ELSE j + 1
            BY <1>0, <3>2, <4>2, <5>2
          <6> QED
            BY <4>1, <5>2, <6>1
        <5> QED
          BY <4>1, <4>4, <5>1, <5>2
      <4> QED
        BY <4>1, <4>3, <4>5
    <3> QED
      BY <3>1, <3>2
  <2> QED
    BY <2>1, <2>4 DEF w
<1>7. N \in 0..N /\ ~(N < k)
  BY <1>0
<1>8. \A v : v \in W[N] => /\ v \in Seq(T) /\ Len(v) = N - 1
                           /\ \A j \in 1..Len(v) : v[j] = IF j < k THEN s[j] ELSE s[j + 1]
  BY <1>7
<1> HIDE DEF W
<1>9. kept[N] \in W[N]
  BY <1>0, <1>5, <1>6, StepwiseStays
<1> DEFINE r == kept[N]
<1>10. /\ Len(r) = N - 1
       /\ \A j \in 1..N - 1 : r[j] = IF j < k THEN s[j] ELSE s[j + 1]
  BY <1>8, <1>9
<1> HIDE DEF r
<1>11. Placed(s, r, k, s[k])
  BY <1>0, <1>10 DEF Placed, N
<1> QED
  BY <1>3, <1>11 DEF r
=============================================================================
