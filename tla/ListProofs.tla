----------------------------- MODULE ListProofs -----------------------------
(***************************************************************************)
(* The pointers of the lists, for any number of queues and entries: their  *)
(* links always match, and they implement the queues of QueueSpec.  The    *)
(* inductive invariant has which queue a link belongs to, an order of the  *)
(* links, where the cursors of a walk are, and then that the links of each *)
(* queue are a ring with its entries in their order.                       *)
(***************************************************************************)
EXTENDS List, KernelQueueProofs, FiniteSetTheorems

\* The links of the queues with their entries, when the owners know o, and the
\* queue that such a link belongs to.
Chained(o) == Queue \cup {e \in Entry : o[e] # None}
Owner(o, x) == IF x \in Queue THEN x ELSE o[x]

Mem == [next : [Link -> Link \cup {Poison}], prev : [Link -> Link \cup {Poison}]]

\* The pointers m are right for owners that know o: those of neighbours agree and
\* stay on one queue, and the rank r grows along next until the head is reached, so
\* no ring is without its head.
Ordered(m, o, r) ==
  /\ m \in Mem /\ o \in [Entry -> Queue \cup {None}] /\ r \in [Link -> Nat]
  /\ \A x \in Chained(o) :
       /\ m.next[x] \in Chained(o) /\ m.prev[x] \in Chained(o)
       /\ m.prev[m.next[x]] = x /\ m.next[m.prev[x]] = x
       /\ Owner(o, m.next[x]) = Owner(o, x) /\ Owner(o, m.prev[x]) = Owner(o, x)
       /\ m.next[x] \in Queue \/ r[m.next[x]] > r[x]

\* The same, and a walk of for_each_entry_safe() is at a link of the queue it was
\* given, with the next one in hand.
Right(m, o) ==
  /\ \E r : Ordered(m, o, r)
  /\ scan # None => pos \in Chained(o) /\ Owner(o, pos) = scan /\ n = m.next[pos]

PointersRight == scan \in Queue \cup {None} /\ Right(mem, on)

\* The entries t that may be tested tell the truth: those that are on a queue are
\* among them, and one that is on no queue is linked to itself.
Honest(m, o, t) ==
  /\ t \in SUBSET Entry
  /\ \A e \in Entry : o[e] # None => e \in t
  /\ \A e \in t : o[e] = None => m.next[e] = e

\* The inductive invariant of the lists.
ListInv == PointersRight /\ Honest(mem, on, tested)

-----------------------------------------------------------------------------
(* The operations on the memory. *)

\* tkmc_init_list_head() writes the two pointers of one link.
LEMMA InitWrites ==
  ASSUME NEW m \in Mem, NEW head \in Link
  PROVE  /\ tkmc_init_list_head(m, head) \in Mem
         /\ \A x \in Link :
              /\ tkmc_init_list_head(m, head).next[x] = IF x = head THEN head ELSE m.next[x]
              /\ tkmc_init_list_head(m, head).prev[x] = IF x = head THEN head ELSE m.prev[x]
  BY DEF tkmc_init_list_head, Mem

\* tkmc_list_del() joins the two neighbours and poisons the link.
LEMMA DelWrites ==
  ASSUME NEW m \in Mem, NEW e \in Link, m.next[e] \in Link, m.prev[e] \in Link
  PROVE  /\ tkmc_list_del(m, e) \in Mem
         /\ \A x \in Link :
              /\ tkmc_list_del(m, e).next[x] = IF x = e THEN Poison
                                               ELSE IF x = m.prev[e] THEN m.next[e] ELSE m.next[x]
              /\ tkmc_list_del(m, e).prev[x] = IF x = e THEN Poison
                                               ELSE IF x = m.next[e] THEN m.prev[e] ELSE m.prev[x]
  BY DEF tkmc_list_del, Mem

\* tkmc_list_add_between() links one in.
LEMMA AddWrites ==
  ASSUME NEW m \in Mem, NEW new \in Link, NEW prev \in Link, NEW next \in Link,
         new # prev, new # next
  PROVE  /\ tkmc_list_add_between(m, new, prev, next) \in Mem
         /\ \A x \in Link :
              /\ tkmc_list_add_between(m, new, prev, next).next[x] =
                   IF x = new THEN next ELSE IF x = prev THEN new ELSE m.next[x]
              /\ tkmc_list_add_between(m, new, prev, next).prev[x] =
                   IF x = new THEN prev ELSE IF x = next THEN new ELSE m.prev[x]
  BY DEF tkmc_list_add_between, Mem
-----------------------------------------------------------------------------
(* What they keep. *)

\* A link of a queue is a head or an entry on it, and an entry is not linked to
\* itself.
LEMMA ChainedLinks ==
  ASSUME NEW m, NEW o, NEW r, Ordered(m, o, r)
  PROVE  /\ Chained(o) \subseteq Link
         /\ \A x \in Chained(o) : Owner(o, x) \in Queue
         /\ \A e \in Entry : e \notin Queue /\ Owner(o, e) = o[e] /\ (e \in Chained(o) <=> o[e] # None)
         /\ \A e \in Entry : o[e] # None => m.next[e] # e /\ m.prev[e] # e
<1>1. Chained(o) \subseteq Link
  BY DEF Chained, Link
<1>2. \A e \in Entry : e \notin Queue /\ Owner(o, e) = o[e] /\ (e \in Chained(o) <=> o[e] # None)
  BY ListAssumption DEF Chained, Owner
<1>3. \A x \in Chained(o) : Owner(o, x) \in Queue
  BY DEF Chained, Owner, Ordered
<1>4. ASSUME NEW e \in Entry, o[e] # None PROVE m.next[e] # e /\ m.prev[e] # e
  <2>1. e \in Chained(o) /\ e \notin Queue /\ r[e] \in Nat
    BY <1>2, <1>4 DEF Ordered, Link
  <2>2. m.next[e] # e
    BY <2>1 DEF Ordered
  <2> QED
    BY <2>1, <2>2 DEF Ordered
<1> QED
  BY <1>1, <1>2, <1>3, <1>4

\* tkmc_list_del() of an entry of a queue keeps the order of the rest, and does
\* not touch the other queues.
LEMMA DelOrdered ==
  ASSUME NEW m, NEW o, NEW r, Ordered(m, o, r), NEW e \in Entry, o[e] # None
  PROVE  /\ Ordered(tkmc_list_del(m, e), [o EXCEPT ![e] = None], r)
         /\ \A x \in Chained(o) : Owner(o, x) # o[e] => tkmc_list_del(m, e).next[x] = m.next[x]
<1> DEFINE d == tkmc_list_del(m, e)
           p == [o EXCEPT ![e] = None]
           C == Chained(o)
<1>1. /\ C \subseteq Link /\ e \in C /\ e \notin Queue /\ e \in Link
      /\ m.next[e] # e /\ m.prev[e] # e /\ Owner(o, e) = o[e]
  BY ChainedLinks DEF Link
<1>2. /\ m \in Mem /\ o \in [Entry -> Queue \cup {None}] /\ r \in [Link -> Nat]
      /\ \A x \in C : /\ m.next[x] \in C /\ m.prev[x] \in C
                      /\ m.prev[m.next[x]] = x /\ m.next[m.prev[x]] = x
                      /\ Owner(o, m.next[x]) = Owner(o, x) /\ Owner(o, m.prev[x]) = Owner(o, x)
                      /\ m.next[x] \in Queue \/ r[m.next[x]] > r[x]
  BY DEF Ordered
<1>3. /\ d \in Mem
      /\ \A x \in Link :
           /\ d.next[x] = IF x = e THEN Poison
                          ELSE IF x = m.prev[e] THEN m.next[e] ELSE m.next[x]
           /\ d.prev[x] = IF x = e THEN Poison
                          ELSE IF x = m.next[e] THEN m.prev[e] ELSE m.prev[x]
  BY <1>1, <1>2, DelWrites
<1>4. /\ p \in [Entry -> Queue \cup {None}] /\ Chained(p) = C \ {e}
      /\ \A x \in C \ {e} : Owner(p, x) = Owner(o, x)
  BY <1>1, <1>2 DEF Chained, Owner
<1>5. \A x \in C : r[x] \in Nat
  BY <1>1, <1>2
<1> HIDE DEF d, p, C
<1>6. ASSUME NEW x \in C \ {e}
      PROVE  /\ d.next[x] \in C \ {e} /\ d.prev[x] \in C \ {e}
             /\ d.prev[d.next[x]] = x /\ d.next[d.prev[x]] = x
             /\ Owner(o, d.next[x]) = Owner(o, x) /\ Owner(o, d.prev[x]) = Owner(o, x)
             /\ d.next[x] \in Queue \/ r[d.next[x]] > r[x]
  <2>1. d.next[x] = IF x = m.prev[e] THEN m.next[e] ELSE m.next[x]
    BY <1>1, <1>3
  <2>2. d.prev[x] = IF x = m.next[e] THEN m.prev[e] ELSE m.prev[x]
    BY <1>1, <1>3
  <2>3. d.next[x] \in C \ {e} /\ d.prev[x] \in C \ {e}
    BY <1>1, <1>2, <2>1, <2>2
  <2>4. d.prev[d.next[x]] = x
    BY <1>1, <1>2, <1>3, <2>1, <2>3
  <2>5. d.next[d.prev[x]] = x
    BY <1>1, <1>2, <1>3, <2>2, <2>3
  <2>6. Owner(o, d.next[x]) = Owner(o, x) /\ Owner(o, d.prev[x]) = Owner(o, x)
    BY <1>1, <1>2, <2>1, <2>2
  <2>7. d.next[x] \in Queue \/ r[d.next[x]] > r[x]
    BY <1>1, <1>2, <1>5, <2>1
  <2> QED
    BY <2>3, <2>4, <2>5, <2>6, <2>7
<1>7. Ordered(d, p, r)
  BY <1>2, <1>3, <1>4, <1>6 DEF Ordered
<1>8. \A x \in C : Owner(o, x) # o[e] => d.next[x] = m.next[x]
  BY <1>1, <1>2, <1>3
<1> QED
  BY <1>7, <1>8 DEF d, p, C

\* tkmc_init_list_head() of an entry that is on no queue touches no queue.
LEMMA InitOrdered ==
  ASSUME NEW m, NEW o, NEW r, Ordered(m, o, r), NEW e \in Entry, o[e] = None
  PROVE  /\ Ordered(tkmc_init_list_head(m, e), o, r)
         /\ \A x \in Chained(o) : tkmc_init_list_head(m, e).next[x] = m.next[x]
<1> DEFINE d == tkmc_init_list_head(m, e)
<1>1. Chained(o) \subseteq Link /\ e \notin Chained(o) /\ e \in Link
  BY ChainedLinks DEF Link
<1>2. d \in Mem /\ \A x \in Link : x # e => d.next[x] = m.next[x] /\ d.prev[x] = m.prev[x]
  BY <1>1, InitWrites DEF Ordered
<1> HIDE DEF d
<1>3. \A x \in Chained(o) : d.next[x] = m.next[x] /\ d.prev[x] = m.prev[x]
  BY <1>1, <1>2
<1>4. Ordered(d, o, r)
  BY <1>2, <1>3 DEF Ordered
<1> QED
  BY <1>3, <1>4 DEF d

\* tkmc_list_add_between() of an entry that is on no queue behind a link of one.
LEMMA AddOrdered ==
  ASSUME NEW m, NEW o, NEW r, Ordered(m, o, r), NEW new \in Entry, o[new] = None,
         NEW prev \in Chained(o)
  PROVE  /\ \E s : Ordered(tkmc_list_add_between(m, new, prev, m.next[prev]),
                           [o EXCEPT ![new] = Owner(o, prev)], s)
         /\ \A x \in Chained(o) : Owner(o, x) # Owner(o, prev) =>
              tkmc_list_add_between(m, new, prev, m.next[prev]).next[x] = m.next[x]
<1> DEFINE next == m.next[prev]
           d == tkmc_list_add_between(m, new, prev, next)
           q == Owner(o, prev)
           p == [o EXCEPT ![new] = q]
           C == Chained(o)
           s == [x \in Link |-> IF x = new THEN 2 * r[prev] + 1 ELSE 2 * r[x]]
<1>1. /\ C \subseteq Link /\ new \notin C /\ new \notin Queue /\ new \in Link /\ prev \in C
      /\ q \in Queue
  BY ChainedLinks DEF Link
<1>2. /\ m \in Mem /\ o \in [Entry -> Queue \cup {None}] /\ r \in [Link -> Nat]
      /\ \A x \in C : /\ m.next[x] \in C /\ m.prev[x] \in C
                      /\ m.prev[m.next[x]] = x /\ m.next[m.prev[x]] = x
                      /\ Owner(o, m.next[x]) = Owner(o, x) /\ Owner(o, m.prev[x]) = Owner(o, x)
                      /\ m.next[x] \in Queue \/ r[m.next[x]] > r[x]
  BY DEF Ordered
<1>3. next \in C /\ next # new /\ prev # new /\ next \in Link /\ prev \in Link
  BY <1>1, <1>2
<1>4. /\ d \in Mem
      /\ \A x \in Link :
           /\ d.next[x] = IF x = new THEN next ELSE IF x = prev THEN new ELSE m.next[x]
           /\ d.prev[x] = IF x = new THEN prev ELSE IF x = next THEN new ELSE m.prev[x]
  <2> HIDE DEF next
  <2> QED
    BY <1>1, <1>2, <1>3, AddWrites
<1>5. /\ p \in [Entry -> Queue \cup {None}] /\ Chained(p) = C \cup {new}
      /\ \A x \in C : Owner(p, x) = Owner(o, x)
      /\ Owner(p, new) = q
  BY <1>1, <1>2, ListAssumption DEF Chained, Owner
<1>6. \A x \in Link : r[x] \in Nat
  BY <1>2
<1>7. s \in [Link -> Nat] /\ s[new] = 2 * r[prev] + 1 /\ \A x \in C : s[x] = 2 * r[x]
  BY <1>1, <1>3, <1>6
<1>8. prev = m.prev[next] /\ Owner(o, next) = q /\ (next \in Queue \/ r[next] > r[prev])
  BY <1>1, <1>2
<1> HIDE DEF d, p, C, s, next, q
<1>9. ASSUME NEW x \in C \cup {new}
      PROVE  /\ d.next[x] \in C \cup {new} /\ d.prev[x] \in C \cup {new}
             /\ d.prev[d.next[x]] = x /\ d.next[d.prev[x]] = x
             /\ Owner(p, d.next[x]) = Owner(p, x) /\ Owner(p, d.prev[x]) = Owner(p, x)
             /\ d.next[x] \in Queue \/ s[d.next[x]] > s[x]
  <2>1. CASE x = new
    <3>1. d.next[x] = next /\ d.prev[x] = prev /\ d.prev[next] = new /\ d.next[prev] = new
      BY <1>1, <1>3, <1>4, <2>1
    <3>2. Owner(p, next) = q /\ Owner(p, prev) = q /\ Owner(p, x) = q
      BY <1>1, <1>3, <1>5, <1>8, <2>1 DEF q
    <3>3. next \in Queue \/ s[next] > s[x]
      BY <1>1, <1>3, <1>6, <1>7, <1>8, <2>1
    <3> QED
      BY <1>1, <1>3, <2>1, <3>1, <3>2, <3>3
  <2>2. CASE x # new
    <3>0. x \in C /\ x \in Link
      BY <1>1, <2>2
    <3>1. d.next[x] = IF x = prev THEN new ELSE m.next[x]
      BY <1>4, <2>2, <3>0
    <3>2. d.prev[x] = IF x = next THEN new ELSE m.prev[x]
      BY <1>4, <2>2, <3>0
    <3>3. d.next[x] \in C \cup {new} /\ d.prev[x] \in C \cup {new}
      BY <1>2, <3>0, <3>1, <3>2
    <3>4. d.prev[d.next[x]] = x
      <4>1. CASE x = prev
        BY <1>1, <1>4, <3>1, <4>1
      <4>2. CASE x # prev
        <5>1. m.next[x] \in C /\ m.next[x] # new /\ m.next[x] # next /\ m.prev[m.next[x]] = x
          BY <1>1, <1>2, <1>8, <3>0, <4>2
        <5> QED
          BY <1>1, <1>4, <3>1, <4>2, <5>1
      <4> QED
        BY <4>1, <4>2
    <3>5. d.next[d.prev[x]] = x
      <4>1. CASE x = next
        BY <1>1, <1>4, <3>2, <4>1
      <4>2. CASE x # next
        <5>1. m.prev[x] \in C /\ m.prev[x] # new /\ m.prev[x] # prev /\ m.next[m.prev[x]] = x
          BY <1>1, <1>2, <3>0, <4>2 DEF next
        <5> QED
          BY <1>1, <1>4, <3>2, <4>2, <5>1
      <4> QED
        BY <4>1, <4>2
    <3>6. Owner(p, d.next[x]) = Owner(p, x) /\ Owner(p, d.prev[x]) = Owner(p, x)
      BY <1>1, <1>2, <1>5, <1>8, <3>0, <3>1, <3>2 DEF q
    <3>7. d.next[x] \in Queue \/ s[d.next[x]] > s[x]
      <4>1. CASE x = prev
        BY <1>3, <1>6, <1>7, <3>0, <3>1, <4>1
      <4>2. CASE x # prev
        <5>1. m.next[x] \in C /\ (m.next[x] \in Queue \/ r[m.next[x]] > r[x])
          BY <1>2, <3>0
        <5>2. m.next[x] \in Link
          BY <1>1, <5>1
        <5> QED
          BY <1>6, <1>7, <3>0, <3>1, <4>2, <5>1, <5>2
      <4> QED
        BY <4>1, <4>2
    <3> QED
      BY <3>3, <3>4, <3>5, <3>6, <3>7
  <2> QED
    BY <2>1, <2>2
<1>10. Ordered(d, p, s)
  BY <1>4, <1>5, <1>7, <1>9 DEF Ordered
<1>11. \A x \in C : Owner(o, x) # q => d.next[x] = m.next[x]
  BY <1>1, <1>4 DEF q
<1> QED
  BY <1>10, <1>11 DEF d, p, C, next, q
\* tkmc_init_list_head() of a head leaves its queue empty, and the entries that
\* were on it on none.
LEMMA AbandonOrdered ==
  ASSUME NEW m, NEW o, NEW r, Ordered(m, o, r), NEW q \in Queue, NEW p,
         p = [e \in Entry |-> IF o[e] = q THEN None ELSE o[e]]
  PROVE  /\ Ordered(tkmc_init_list_head(m, q), p, r)
         /\ \A x \in Chained(o) : Owner(o, x) # q =>
              /\ x \in Chained(p) /\ Owner(p, x) = Owner(o, x)
              /\ tkmc_init_list_head(m, q).next[x] = m.next[x]
<1> DEFINE d == tkmc_init_list_head(m, q)
           C == Chained(o)
<1>1. C \subseteq Link /\ q \in Link /\ q \in C /\ Owner(o, q) = q
  BY ChainedLinks DEF Link, Chained, Owner
<1>2. /\ m \in Mem /\ o \in [Entry -> Queue \cup {None}] /\ r \in [Link -> Nat]
      /\ \A x \in C : /\ m.next[x] \in C /\ m.prev[x] \in C
                      /\ m.prev[m.next[x]] = x /\ m.next[m.prev[x]] = x
                      /\ Owner(o, m.next[x]) = Owner(o, x) /\ Owner(o, m.prev[x]) = Owner(o, x)
                      /\ m.next[x] \in Queue \/ r[m.next[x]] > r[x]
  BY DEF Ordered
<1>3. d \in Mem /\ \A x \in Link : /\ d.next[x] = IF x = q THEN q ELSE m.next[x]
                                   /\ d.prev[x] = IF x = q THEN q ELSE m.prev[x]
  BY <1>1, <1>2, InitWrites
<1>4. p \in [Entry -> Queue \cup {None}]
  BY <1>2
<1>5. \A x : x \in Chained(p) <=> x = q \/ (x \in C /\ Owner(o, x) # q)
  BY <1>2, ListAssumption DEF Chained, Owner
<1>6. \A x \in C : Owner(o, x) # q => Owner(p, x) = Owner(o, x)
  BY <1>2 DEF Chained, Owner
<1>7. Owner(p, q) = q
  BY DEF Owner
<1> HIDE DEF d, C
<1>8. ASSUME NEW x \in Chained(p)
      PROVE  /\ d.next[x] \in Chained(p) /\ d.prev[x] \in Chained(p)
             /\ d.prev[d.next[x]] = x /\ d.next[d.prev[x]] = x
             /\ Owner(p, d.next[x]) = Owner(p, x) /\ Owner(p, d.prev[x]) = Owner(p, x)
             /\ d.next[x] \in Queue \/ r[d.next[x]] > r[x]
  <2>1. CASE x = q
    <3>1. d.next[x] = q /\ d.prev[x] = q
      BY <1>1, <1>3, <2>1
    <3> QED
      BY <1>5, <2>1, <3>1
  <2>2. CASE x # q
    <3>1. x \in C /\ Owner(o, x) # q /\ x \in Link
      BY <1>1, <1>5, <2>2
    <3>2. d.next[x] = m.next[x] /\ d.prev[x] = m.prev[x]
      BY <1>3, <2>2, <3>1
    <3>3. /\ m.next[x] \in C /\ Owner(o, m.next[x]) # q /\ m.next[x] # q
          /\ m.prev[x] \in C /\ Owner(o, m.prev[x]) # q /\ m.prev[x] # q
      BY <1>1, <1>2, <3>1
    <3>4. d.prev[m.next[x]] = x /\ d.next[m.prev[x]] = x
      BY <1>1, <1>2, <1>3, <3>1, <3>3
    <3> QED
      BY <1>2, <1>5, <1>6, <3>1, <3>2, <3>3, <3>4
  <2> QED
    BY <2>1, <2>2
<1>9. Ordered(d, p, r)
  BY <1>2, <1>3, <1>4, <1>8 DEF Ordered
<1>10. \A x \in C : Owner(o, x) # q => d.next[x] = m.next[x]
  BY <1>1, <1>3
<1> QED
  BY <1>5, <1>6, <1>9, <1>10 DEF d, C

-----------------------------------------------------------------------------
(* The steps. *)

\* An entry is linked in on a queue that no walk is on.
LEMMA AddRight ==
  ASSUME NEW m, NEW o, Right(m, o), NEW e \in Entry, o[e] = None, NEW prev \in Chained(o),
         scan # Owner(o, prev)
  PROVE  Right(tkmc_list_add_between(m, e, prev, m.next[prev]), [o EXCEPT ![e] = Owner(o, prev)])
<1>1. PICK r : Ordered(m, o, r)
  BY DEF Right
<1> DEFINE d == tkmc_list_add_between(m, e, prev, m.next[prev])
           p == [o EXCEPT ![e] = Owner(o, prev)]
<1>2. /\ \E s : Ordered(d, p, s)
      /\ \A x \in Chained(o) : Owner(o, x) # Owner(o, prev) => d.next[x] = m.next[x]
  BY <1>1, AddOrdered
<1>3. e \notin Chained(o) /\ o \in [Entry -> Queue \cup {None}]
  BY <1>1, ChainedLinks DEF Ordered
<1>4. \A x \in Chained(o) : x \in Chained(p) /\ Owner(p, x) = Owner(o, x)
  BY <1>3 DEF Chained, Owner
<1> HIDE DEF d, p
<1> QED
  BY <1>2, <1>4 DEF Right, d, p

\* An entry is unlinked from a queue that no walk is on.
LEMMA DelRight ==
  ASSUME NEW m, NEW o, Right(m, o), NEW e \in Entry, o[e] # None, scan # o[e]
  PROVE  Right(tkmc_list_del(m, e), [o EXCEPT ![e] = None])
<1>1. PICK r : Ordered(m, o, r)
  BY DEF Right
<1> DEFINE d == tkmc_list_del(m, e)
           p == [o EXCEPT ![e] = None]
<1>2. /\ Ordered(d, p, r)
      /\ \A x \in Chained(o) : Owner(o, x) # o[e] => d.next[x] = m.next[x]
  BY <1>1, DelOrdered
<1>3. e \notin Queue /\ Owner(o, e) = o[e] /\ o \in [Entry -> Queue \cup {None}]
  BY <1>1, ChainedLinks DEF Ordered
<1>4. \A x \in Chained(o) : x # e => x \in Chained(p) /\ Owner(p, x) = Owner(o, x)
  BY <1>3 DEF Chained, Owner
<1> HIDE DEF d, p
<1> QED
  BY <1>2, <1>3, <1>4 DEF Right, d, p

\* An entry that is on no queue is initialised.
LEMMA InitRight ==
  ASSUME NEW m, NEW o, Right(m, o), NEW e \in Entry, o[e] = None
  PROVE  Right(tkmc_init_list_head(m, e), o)
<1>1. PICK r : Ordered(m, o, r)
  BY DEF Right
<1> DEFINE d == tkmc_init_list_head(m, e)
<1>2. Ordered(d, o, r) /\ \A x \in Chained(o) : d.next[x] = m.next[x]
  BY <1>1, InitOrdered
<1> HIDE DEF d
<1> QED
  BY <1>2 DEF Right, d

\* tkmc_list_add_tail() of an entry that is on no queue.
LEMMA AddTailRight ==
  ASSUME NEW m, NEW o, Right(m, o), NEW e \in Entry, o[e] = None, NEW q \in Queue, scan # q
  PROVE  Right(tkmc_list_add_tail(m, e, q), [o EXCEPT ![e] = q])
<1>1. PICK r : Ordered(m, o, r)
  BY DEF Right
<1>2. q \in Chained(o) /\ Owner(o, q) = q
  BY DEF Chained, Owner
<1>3. m.prev[q] \in Chained(o) /\ m.next[m.prev[q]] = q /\ Owner(o, m.prev[q]) = q
  BY <1>1, <1>2 DEF Ordered
<1>4. Right(tkmc_list_add_between(m, e, m.prev[q], m.next[m.prev[q]]),
            [o EXCEPT ![e] = Owner(o, m.prev[q])])
  BY <1>3, AddRight
<1> QED
  BY <1>3, <1>4 DEF tkmc_list_add_tail

\* Rejoin() finds out whether the entry is on a queue, and does what AddTail() or
\* Requeue() does.
LEMMA RejoinCases ==
  ASSUME ListInv, NEW e \in Entry, NEW q \in Queue, Rejoin(e, q)
  PROVE  /\ e \in tested /\ on' = [on EXCEPT ![e] = q] /\ tested' = tested
         /\ call' = <<"Rejoin", e, q>> /\ UNCHANGED Walk /\ Free(q)
         /\ \/ on[e] = None /\ mem' = tkmc_list_add_tail(mem, e, q)
            \/ on[e] # None /\ Free(on[e]) /\ mem' = tkmc_list_add_tail(tkmc_list_del(mem, e), e, q)
<1>1. PICK r : Ordered(mem, on, r)
  BY DEF ListInv, PointersRight, Right
<1>2. e \in tested
  BY DEF Rejoin
<1>3. tkmc_list_empty(mem, e) <=> on[e] = None
  BY <1>1, <1>2, ChainedLinks DEF tkmc_list_empty, ListInv, Honest
<1> QED
  BY <1>3 DEF Rejoin

\* The pointers stay right in every step of the kernel's list operations.
LEMMA PointersStep ==
  ASSUME ListInv, [Next]_listVars
  PROVE  PointersRight'
<1>0. Right(mem, on) /\ scan \in Queue \cup {None}
  BY DEF ListInv, PointersRight
<1>1. PICK r : Ordered(mem, on, r)
  BY <1>0 DEF Right
<1>2. /\ on \in [Entry -> Queue \cup {None}]
      /\ \A x \in Chained(on) : /\ mem.next[x] \in Chained(on) /\ mem.prev[x] \in Chained(on)
                                /\ mem.next[mem.prev[x]] = x
                                /\ Owner(on, mem.next[x]) = Owner(on, x)
                                /\ Owner(on, mem.prev[x]) = Owner(on, x)
  BY <1>1 DEF Ordered
<1>3. /\ \A e \in Entry : /\ e \notin Queue /\ Owner(on, e) = on[e]
                          /\ (e \in Chained(on) <=> on[e] # None)
                          /\ on[e] # None => mem.next[e] # e
      /\ \A q \in Queue : q \in Chained(on) /\ Owner(on, q) = q /\ q # None
      /\ \A x \in Chained(on) : x \in Queue \/ (x \in Entry /\ on[x] # None)
  BY <1>1, ChainedLinks, ListAssumption DEF Chained, Owner
<1>4. ASSUME UNCHANGED Walk, Right(mem', on') PROVE PointersRight'
  BY <1>0, <1>4 DEF Walk, PointersRight, Right
<1>5. ASSUME NEW e \in Entry, Del(e) PROVE PointersRight'
  <2>1. on[e] # None /\ scan # on[e]
    BY <1>5 DEF Del, Free
  <2>2. Right(mem', on')
    BY <1>0, <1>5, <2>1, DelRight DEF Del
  <2> QED
    BY <1>4, <1>5, <2>2 DEF Del
<1>6. ASSUME NEW e \in Entry, on[e] # None, scan # on[e]
      PROVE  Right(tkmc_init_list_head(tkmc_list_del(mem, e), e), [on EXCEPT ![e] = None])
  <2>1. Right(tkmc_list_del(mem, e), [on EXCEPT ![e] = None])
    BY <1>0, <1>6, DelRight
  <2>2. [on EXCEPT ![e] = None][e] = None
    BY <1>2
  <2> QED
    BY <2>1, <2>2, InitRight
<1>7. ASSUME NEW e \in Entry, Unlink(e) PROVE PointersRight'
  <2>1. CASE on[e] = None
    <3>1. mem.next[e] = e
      BY <1>7, <2>1 DEF Unlink, ListInv, Honest
    <3>2. mem' = mem /\ on' = on
      BY <1>2, <1>7, <2>1, <3>1 DEF Unlink, Unlinked, tkmc_list_empty
    <3> QED
      BY <1>0, <1>4, <1>7, <3>2 DEF Unlink
  <2>2. CASE on[e] # None
    <3>1. /\ scan # on[e] /\ on' = [on EXCEPT ![e] = None]
          /\ mem' = tkmc_init_list_head(tkmc_list_del(mem, e), e)
      BY <1>3, <1>7, <2>2 DEF Unlink, Unlinked, tkmc_list_empty, Free
    <3> QED
      BY <1>4, <1>6, <1>7, <2>2, <3>1 DEF Unlink
  <2> QED
    BY <2>1, <2>2
<1>8. ASSUME NEW e \in Entry, NEW q \in Queue, Free(q), on[e] = None, UNCHANGED Walk,
             mem' = tkmc_list_add_tail(mem, e, q), on' = [on EXCEPT ![e] = q]
      PROVE  PointersRight'
  <2>1. Right(mem', on')
    BY <1>0, <1>8, AddTailRight DEF Free
  <2> QED
    BY <1>4, <1>8, <2>1
<1>9. ASSUME NEW e \in Entry, NEW q \in Queue, Free(q), on[e] # None, Free(on[e]), UNCHANGED Walk,
             mem' = tkmc_list_add_tail(tkmc_list_del(mem, e), e, q), on' = [on EXCEPT ![e] = q]
      PROVE  PointersRight'
  <2>1. on[e] # None /\ scan # on[e] /\ scan # q
    BY <1>9 DEF Free
  <2> DEFINE d == tkmc_list_del(mem, e)
             p == [on EXCEPT ![e] = None]
  <2>2. Right(d, p) /\ p[e] = None
    BY <1>0, <1>2, <2>1, DelRight
  <2>3. [p EXCEPT ![e] = q] = [on EXCEPT ![e] = q]
    BY <1>2
  <2> HIDE DEF d, p
  <2>4. Right(tkmc_list_add_tail(d, e, q), [p EXCEPT ![e] = q])
    BY <2>1, <2>2, AddTailRight
  <2>5. Right(mem', on')
    BY <1>9, <2>3, <2>4 DEF d
  <2> QED
    BY <1>4, <1>9, <2>5
<1>10. ASSUME NEW e \in Entry, NEW f \in Entry, AddBefore(e, f) PROVE PointersRight'
  <2>1. /\ on[f] # None /\ scan # on[f] /\ on[e] = None /\ on' = [on EXCEPT ![e] = on[f]]
        /\ mem' = tkmc_list_add_between(mem, e, mem.prev[f], mem.next[mem.prev[f]])
    BY <1>10 DEF AddBefore, Free, tkmc_list_add
  <2>2. mem.prev[f] \in Chained(on) /\ Owner(on, mem.prev[f]) = on[f]
    BY <1>2, <1>3, <2>1
  <2>3. Right(mem', on')
    BY <1>0, <2>1, <2>2, AddRight
  <2> QED
    BY <1>4, <1>10, <2>3 DEF AddBefore
<1>11. ASSUME NEW q \in Queue, TakeFirst(q) PROVE PointersRight'
  <2> DEFINE e == mem.next[q]
  <2>1. e # q /\ scan # q
    BY <1>11 DEF TakeFirst, tkmc_list_empty, Free
  <2>2. e \in Chained(on) /\ Owner(on, e) = q
    BY <1>2, <1>3
  <2> HIDE DEF e
  <2>3. e \in Entry /\ on[e] = q /\ on[e] # None
    BY <1>3, <2>1, <2>2
  <2>4. Right(mem', on')
    BY <1>6, <1>11, <2>1, <2>3 DEF TakeFirst, e
  <2> QED
    BY <1>4, <1>11, <2>4 DEF TakeFirst
<1>12. ASSUME NEW q \in Queue, Abandon(q) PROVE PointersRight'
  <2>1. /\ Ordered(mem', on', r)
        /\ \A x \in Chained(on) : Owner(on, x) # q =>
             /\ x \in Chained(on') /\ Owner(on', x) = Owner(on, x)
             /\ mem'.next[x] = mem.next[x]
    BY <1>1, <1>12, AbandonOrdered DEF Abandon
  <2>2. Right(mem', on')
    BY <1>0, <1>12, <2>1 DEF Right, Abandon, Free
  <2> QED
    BY <1>4, <1>12, <2>2 DEF Abandon
<1>13. ASSUME NEW q \in Queue, ForEachStart(q) PROVE PointersRight'
  BY <1>1, <1>2, <1>3, <1>13 DEF ForEachStart, PointersRight, Right
<1>14. ASSUME ForEachBody PROVE PointersRight'
  <2>1. /\ scan # None /\ pos # scan /\ scan' = scan /\ pos' = n
        /\ pos \in Chained(on) /\ Owner(on, pos) = scan /\ n = mem.next[pos]
    BY <1>0, <1>14 DEF ForEachBody, Advance, Right
  <2>2. pos \in Entry /\ on[pos] = scan
    BY <1>3, <2>1
  <2>3. n \in Chained(on) /\ Owner(on, n) = scan /\ n # pos
    BY <1>2, <1>3, <2>1, <2>2
  <2>4. CASE UNCHANGED <<mem, on>> /\ Advance(mem)
    BY <1>0, <1>1, <2>1, <2>3, <2>4 DEF Advance, PointersRight, Right
  <2>5. CASE mem' = Unlinked(mem, pos) /\ Advance(Unlinked(mem, pos)) /\ on' = [on EXCEPT ![pos] = None]
    <3> DEFINE d == tkmc_list_del(mem, pos)
               p == [on EXCEPT ![pos] = None]
    <3>1. mem' = tkmc_init_list_head(d, pos) /\ on' = p /\ n' = mem'.next[n]
      BY <1>3, <2>1, <2>2, <2>5 DEF Unlinked, tkmc_list_empty, Advance
    <3>2. Ordered(d, p, r)
      BY <1>1, <2>1, <2>2, DelOrdered
    <3>3. p[pos] = None
      BY <1>2, <2>2
    <3> HIDE DEF d
    <3>4. Ordered(mem', on', r)
      BY <2>2, <3>1, <3>2, <3>3, InitOrdered
    <3>5. n \in Chained(on') /\ Owner(on', n) = scan
      BY <1>2, <2>2, <2>3, <3>1 DEF Chained, Owner
    <3> QED
      BY <1>0, <2>1, <3>1, <3>4, <3>5 DEF PointersRight, Right
  <2> QED
    BY <1>14, <2>4, <2>5 DEF ForEachBody
<1>15. ASSUME ForEachEnd PROVE PointersRight'
  BY <1>1, <1>15 DEF ForEachEnd, PointersRight, Right
<1>16. ASSUME UNCHANGED listVars PROVE PointersRight'
  BY <1>0, <1>4, <1>16 DEF listVars, Walk
<1>17. ASSUME NEW e \in Entry, NEW q \in Queue, AddTail(e, q) \/ Requeue(e, q) PROVE PointersRight'
  BY <1>8, <1>9, <1>17 DEF AddTail, Requeue
<1>18. ASSUME NEW e \in Entry, NEW q \in Queue, Rejoin(e, q) PROVE PointersRight'
  BY <1>8, <1>9, <1>18, RejoinCases
<1> QED
  BY <1>5, <1>7, <1>10, <1>11, <1>12, <1>13, <1>14, <1>15, <1>16, <1>17, <1>18 DEF Next

\* What an operation leaves of the entries on no queue, other than x: it does not
\* write where they lead.
LooseKept(m, d, o, x) == \A e \in Entry : o[e] = None /\ e # x => d.next[e] = m.next[e]

\* tkmc_list_del() writes only the links of its own queue.
LEMMA DelLoose ==
  ASSUME NEW m, NEW o, NEW r, Ordered(m, o, r), NEW e \in Entry, o[e] # None
  PROVE  LooseKept(m, tkmc_list_del(m, e), o, e)
<1>1. e \in Chained(o) /\ e \in Link /\ Chained(o) \subseteq Link
  BY ChainedLinks DEF Link
<1>2. m \in Mem /\ m.next[e] \in Chained(o) /\ m.prev[e] \in Chained(o)
  BY <1>1 DEF Ordered
<1>3. \A x \in Link : x # e /\ x # m.prev[e] => tkmc_list_del(m, e).next[x] = m.next[x]
  BY <1>1, <1>2, DelWrites
<1>4. \A x \in Entry : o[x] = None => x \in Link /\ x \notin Chained(o)
  BY ChainedLinks DEF Link
<1> QED
  BY <1>2, <1>3, <1>4 DEF LooseKept

\* tkmc_list_add_between() writes only the new link and those of its queue.
LEMMA AddLoose ==
  ASSUME NEW m, NEW o, NEW r, Ordered(m, o, r), NEW new \in Entry, o[new] = None,
         NEW prev \in Chained(o)
  PROVE  LooseKept(m, tkmc_list_add_between(m, new, prev, m.next[prev]), o, new)
<1> DEFINE next == m.next[prev]
<1>1. Chained(o) \subseteq Link /\ new \notin Chained(o) /\ new \in Link
  BY ChainedLinks DEF Link
<1>2. m \in Mem /\ next \in Chained(o)
  BY DEF Ordered
<1>3. \A x \in Link : x # new /\ x # prev =>
        tkmc_list_add_between(m, new, prev, next).next[x] = m.next[x]
  <2> HIDE DEF next
  <2>1. prev \in Link /\ next \in Link /\ new # prev /\ new # next
    BY <1>1, <1>2
  <2> QED
    BY <1>1, <1>2, <2>1, AddWrites
<1>4. \A x \in Entry : o[x] = None => x \in Link /\ x \notin Chained(o)
  BY ChainedLinks DEF Link
<1> QED
  BY <1>3, <1>4 DEF LooseKept

\* An entry that was unlinked and initialised leads to itself, and the loose ones
\* lead where they did.
LEMMA UnlinkLoose ==
  ASSUME NEW m, NEW o, NEW r, Ordered(m, o, r), NEW e \in Entry, o[e] # None
  PROVE  /\ tkmc_init_list_head(tkmc_list_del(m, e), e).next[e] = e
         /\ LooseKept(m, tkmc_init_list_head(tkmc_list_del(m, e), e), o, e)
<1> DEFINE d == tkmc_list_del(m, e)
<1>1. d \in Mem /\ e \in Link
  BY DelOrdered DEF Ordered, Link
<1>2. LooseKept(m, d, o, e)
  BY DelLoose
<1> HIDE DEF d
<1>3. \A x \in Link : tkmc_init_list_head(d, e).next[x] = IF x = e THEN e ELSE d.next[x]
  BY <1>1, InitWrites
<1> QED
  BY <1>1, <1>2, <1>3 DEF LooseKept, Link, d

\* The entries that may be tested tell the truth after every step.
LEMMA HonestStep ==
  ASSUME ListInv, [Next]_listVars
  PROVE  Honest(mem, on, tested)'
<1>0. PICK r : Ordered(mem, on, r)
  BY DEF ListInv, PointersRight, Right
<1>1. on \in [Entry -> Queue \cup {None}] /\ None \notin Queue
  BY <1>0, ListAssumption DEF Ordered
<1>2. /\ tested \in SUBSET Entry
      /\ \A e \in Entry : on[e] # None => e \in tested
      /\ \A e \in tested : on[e] = None => mem.next[e] = e
  BY DEF ListInv, Honest
<1>3. /\ \A e \in Entry : /\ Owner(on, e) = on[e] /\ (on[e] # None => mem.next[e] # e)
                           /\ (e \in Chained(on) <=> on[e] # None)
      /\ \A q \in Queue : q \in Chained(on) /\ Owner(on, q) = q
      /\ \A x \in Chained(on) : x \in Queue \/ (x \in Entry /\ on[x] # None)
      /\ \A x \in Chained(on) : /\ mem.next[x] \in Chained(on) /\ mem.prev[x] \in Chained(on)
                                /\ mem.next[mem.prev[x]] = x
                                /\ Owner(on, mem.next[x]) = Owner(on, x)
                                /\ Owner(on, mem.prev[x]) = Owner(on, x)
  BY <1>0, ChainedLinks DEF Ordered, Chained, Owner
<1>4. ASSUME NEW e \in Entry, NEW q \in Queue, LooseKept(mem, mem', on, e),
             on' = [on EXCEPT ![e] = q], tested' = tested \cup {e}
      PROVE  Honest(mem, on, tested)'
  BY <1>1, <1>2, <1>4 DEF Honest, LooseKept
<1>5. ASSUME NEW e \in Entry, on[e] # None,
             mem' = tkmc_init_list_head(tkmc_list_del(mem, e), e),
             on' = [on EXCEPT ![e] = None], tested' = tested
      PROVE  Honest(mem, on, tested)'
  <2>1. mem'.next[e] = e /\ LooseKept(mem, mem', on, e)
    BY <1>0, <1>5, UnlinkLoose
  <2> QED
    BY <1>1, <1>2, <1>5, <2>1 DEF Honest, LooseKept
<1>6. ASSUME NEW e \in Entry, Del(e) PROVE Honest(mem, on, tested)'
  <2>1. LooseKept(mem, mem', on, e)
    BY <1>0, <1>6, DelLoose DEF Del
  <2> QED
    BY <1>1, <1>2, <1>6, <2>1 DEF Del, Honest, LooseKept
<1>7. ASSUME NEW e \in Entry, Unlink(e) PROVE Honest(mem, on, tested)'
  <2>1. CASE on[e] = None
    <3>1. mem' = mem /\ on' = on /\ tested' = tested
      BY <1>1, <1>2, <1>7, <2>1 DEF Unlink, Unlinked, tkmc_list_empty
    <3> QED
      BY <1>2, <3>1 DEF Honest
  <2>2. CASE on[e] # None
    <3>1. /\ mem' = tkmc_init_list_head(tkmc_list_del(mem, e), e)
          /\ on' = [on EXCEPT ![e] = None] /\ tested' = tested
      BY <1>3, <1>7, <2>2 DEF Unlink, Unlinked, tkmc_list_empty
    <3> QED
      BY <1>5, <2>2, <3>1
  <2> QED
    BY <2>1, <2>2
<1>8. ASSUME NEW m, NEW o, NEW t, Ordered(m, o, t), NEW e \in Entry, o[e] = None, NEW q \in Queue
      PROVE  LooseKept(m, tkmc_list_add_tail(m, e, q), o, e)
  <2>1. q \in Chained(o) /\ Owner(o, q) = q
    BY DEF Chained, Owner
  <2>2. m.prev[q] \in Chained(o) /\ m.next[m.prev[q]] = q
    BY <1>8, <2>1 DEF Ordered
  <2>3. LooseKept(m, tkmc_list_add_between(m, e, m.prev[q], m.next[m.prev[q]]), o, e)
    BY <1>8, <2>2, AddLoose
  <2> QED
    BY <2>2, <2>3 DEF tkmc_list_add_tail
<1>9. ASSUME NEW e \in Entry, NEW q \in Queue, on[e] = None, mem' = tkmc_list_add_tail(mem, e, q),
             on' = [on EXCEPT ![e] = q], tested' = tested \cup {e}
      PROVE  Honest(mem, on, tested)'
  <2>1. LooseKept(mem, mem', on, e)
    BY <1>0, <1>8, <1>9
  <2> QED
    BY <1>4, <1>9, <2>1
<1>10. ASSUME NEW e \in Entry, NEW q \in Queue, on[e] # None, on' = [on EXCEPT ![e] = q],
              mem' = tkmc_list_add_tail(tkmc_list_del(mem, e), e, q), tested' = tested
       PROVE  Honest(mem, on, tested)'
  <2> DEFINE d == tkmc_list_del(mem, e)
             o == [on EXCEPT ![e] = None]
  <2>1. Ordered(d, o, r) /\ LooseKept(mem, d, on, e)
    BY <1>0, <1>10, DelOrdered, DelLoose
  <2>2. o[e] = None /\ \A x \in Entry : on[x] = None => o[x] = None
    BY <1>1
  <2>3. mem' = tkmc_list_add_tail(d, e, q) /\ on' = [on EXCEPT ![e] = q] /\ tested' = tested \cup {e}
    BY <1>2, <1>10
  <2> HIDE DEF d, o
  <2>4. LooseKept(d, mem', o, e)
    BY <1>8, <2>1, <2>2, <2>3
  <2>5. LooseKept(mem, mem', on, e)
    BY <2>1, <2>2, <2>4 DEF LooseKept
  <2> QED
    BY <1>4, <2>3, <2>5
<1>11. ASSUME NEW e \in Entry, NEW f \in Entry, AddBefore(e, f) PROVE Honest(mem, on, tested)'
  <2>1. /\ on[f] # None /\ on[e] = None /\ on' = [on EXCEPT ![e] = on[f]] /\ tested' = tested \cup {e}
        /\ mem' = tkmc_list_add_between(mem, e, mem.prev[f], mem.next[mem.prev[f]])
    BY <1>11 DEF AddBefore, tkmc_list_add
  <2>2. mem.prev[f] \in Chained(on) /\ on[f] \in Queue
    BY <1>1, <1>3, <2>1
  <2>3. LooseKept(mem, mem', on, e)
    BY <1>0, <2>1, <2>2, AddLoose
  <2> QED
    BY <1>4, <2>1, <2>2, <2>3
<1>12. ASSUME NEW q \in Queue, TakeFirst(q) PROVE Honest(mem, on, tested)'
  <2> DEFINE e == mem.next[q]
  <2>1. e # q /\ e \in Chained(on) /\ Owner(on, e) = q
    BY <1>3, <1>12 DEF TakeFirst, tkmc_list_empty
  <2>2. /\ mem' = tkmc_init_list_head(tkmc_list_del(mem, e), e)
        /\ on' = [on EXCEPT ![e] = None] /\ tested' = tested
    BY <1>12 DEF TakeFirst
  <2> HIDE DEF e
  <2>3. e \in Entry /\ on[e] # None
    BY <1>3, <2>1 DEF Owner
  <2> QED
    BY <1>5, <2>2, <2>3
<1>13. ASSUME NEW q \in Queue, Abandon(q) PROVE Honest(mem, on, tested)'
  <2>1. mem \in Mem /\ q \in Link /\ \A e \in Entry : e \in Link /\ e # q
    BY <1>0, ListAssumption DEF Ordered, Link
  <2>2. \A e \in Entry : mem'.next[e] = mem.next[e]
    BY <1>13, <2>1, InitWrites DEF Abandon
  <2> QED
    BY <1>1, <1>2, <1>13, <2>2 DEF Abandon, Honest
<1>14. ASSUME ForEachBody PROVE Honest(mem, on, tested)'
  <2>1. pos \in Entry /\ on[pos] # None
    BY <1>3, <1>14 DEF ForEachBody, ListInv, PointersRight, Right, Owner
  <2>2. CASE UNCHANGED <<mem, on>>
    BY <1>2, <1>14, <2>2 DEF ForEachBody, Honest
  <2>3. CASE mem' = Unlinked(mem, pos) /\ on' = [on EXCEPT ![pos] = None]
    <3>1. mem' = tkmc_init_list_head(tkmc_list_del(mem, pos), pos) /\ tested' = tested
      BY <1>3, <1>14, <2>1, <2>3 DEF Unlinked, tkmc_list_empty, ForEachBody
    <3> QED
      BY <1>5, <2>1, <2>3, <3>1
  <2> QED
    BY <1>14, <2>2, <2>3 DEF ForEachBody
<1>15. ASSUME UNCHANGED <<mem, on, tested>> PROVE Honest(mem, on, tested)'
  BY <1>2, <1>15 DEF Honest
<1>16. ASSUME \/ \E q \in Queue : ForEachStart(q)
              \/ ForEachEnd
              \/ UNCHANGED listVars
       PROVE  Honest(mem, on, tested)'
  BY <1>15, <1>16 DEF ForEachStart, ForEachEnd, listVars
<1>17. ASSUME NEW e \in Entry, NEW q \in Queue, AddTail(e, q) \/ Requeue(e, q)
       PROVE  Honest(mem, on, tested)'
  BY <1>9, <1>10, <1>17 DEF AddTail, Requeue
<1>18. ASSUME NEW e \in Entry, NEW q \in Queue, Rejoin(e, q)
       PROVE  Honest(mem, on, tested)'
  <2>1. tested = tested \cup {e}
    BY <1>18, RejoinCases
  <2> QED
    BY <1>9, <1>10, <1>18, <2>1, RejoinCases
<1> QED
  BY <1>6, <1>7, <1>11, <1>12, <1>13, <1>14, <1>16, <1>17, <1>18 DEF Next

\* The inductive invariant holds after every step of the kernel's lists.
LEMMA ListStep ==
  ASSUME ListInv, [Next]_listVars
  PROVE  ListInv'
  BY PointersStep, HonestStep DEF ListInv

\* The lists start with every head and every entry linked to itself.
LEMMA ListStart ==
  ASSUME Init
  PROVE  ListInv
<1> DEFINE r == [x \in Link |-> 0]
<1>1. Chained(on) = Queue
  BY DEF Init, Chained
<1>2. \A x \in Queue : mem.next[x] = x /\ mem.prev[x] = x
  BY DEF Init, Link
<1>3. mem \in Mem /\ on \in [Entry -> Queue \cup {None}] /\ r \in [Link -> Nat]
  BY DEF Init, Mem
<1>4. Ordered(mem, on, r)
  BY <1>1, <1>2, <1>3 DEF Ordered
<1>5. Honest(mem, on, tested)
  BY DEF Honest, Init, Link
<1> QED
  BY <1>4, <1>5 DEF ListInv, PointersRight, Right, Init

\* The pointers of the links on the queues always match, for any number of queues
\* and entries and whatever the kernel links, unlinks, requeues and abandons, also
\* while tkmc_list_for_each_entry_safe() walks a queue whose entries its body
\* unlinks; and tkmc_list_empty() of an entry that its owner may ask tells whether
\* it is on a queue.
THEOREM LinksHold == Spec => []LinksMatched
<1>1. ListInv => LinksMatched
  <2> SUFFICES ASSUME ListInv PROVE LinksMatched
    OBVIOUS
  <2>1. PICK r : Ordered(mem, on, r)
    BY DEF ListInv, PointersRight, Right
  <2>2. Linked = Chained(on)
    BY DEF Linked, Chained
  <2>3. ListTypes
    BY <2>1 DEF ListTypes, ListInv, PointersRight, Honest, Ordered, Mem
  <2>4. \A x \in Linked : /\ {mem.next[x], mem.prev[x]} \subseteq Linked
                          /\ mem.prev[mem.next[x]] = x /\ mem.next[mem.prev[x]] = x
    BY <2>1, <2>2 DEF Ordered
  <2>5. \A e \in Entry : on[e] # None => mem.next[e] # e
    BY <2>1, ChainedLinks
  <2>6. /\ \A e \in Entry : on[e] # None => e \in tested
        /\ \A e \in tested : tkmc_list_empty(mem, e) <=> on[e] = None
    BY <2>5 DEF ListInv, Honest, tkmc_list_empty
  <2> QED
    BY <2>3, <2>4, <2>6 DEF LinksMatched
<1> QED
  BY <1>1, ListStart, ListStep, PTL DEF Spec

-----------------------------------------------------------------------------
(* The sequences that the pointers stand for. *)

\* The links of the queue q with the entries s in their order: the head is in place
\* 0 and again behind the last entry.
At(q, s, i) == IF i \in 1..Len(s) THEN s[i] ELSE q

\* In the memory m the links of q are a ring with the entries s.
Ring(m, q, s) ==
  \A i \in 0..Len(s) : m.next[At(q, s, i)] = At(q, s, i + 1) /\ m.prev[At(q, s, i + 1)] = At(q, s, i)

\* The pointers m stand for the queues Q, when the owners know o.
Represents(m, o, Q) ==
  /\ m \in Mem /\ o \in [Entry -> Queue \cup {None}] /\ Q \in [Queue -> Seq(Entry)]
  /\ \A q \in Queue : /\ Ring(m, q, Q[q]) /\ Uniq(Q[q])
                      /\ \A e \in Entry : e \in Elems(Q[q]) <=> o[e] = q

\* The places of a ring are different links.
LEMMA RingPlaces ==
  ASSUME NEW q \in Queue, NEW s \in Seq(Entry), Uniq(s)
  PROVE  /\ \A i \in 0..Len(s) + 1 : At(q, s, i) \in Link
         /\ \A i \in 1..Len(s) : At(q, s, i) = s[i] /\ s[i] \in Entry /\ s[i] # q
         /\ At(q, s, 0) = q /\ At(q, s, Len(s) + 1) = q
         /\ \A i, j \in 0..Len(s) : At(q, s, i) = At(q, s, j) => i = j
         /\ \A i, j \in 1..Len(s) + 1 : At(q, s, i) = At(q, s, j) => i = j
<1>0. Len(s) \in Nat /\ \A i \in 1..Len(s) : s[i] \in Entry
  OBVIOUS
<1>1. \A i \in 1..Len(s) : At(q, s, i) = s[i] /\ s[i] \in Entry /\ s[i] # q
  BY <1>0, ListAssumption DEF At
<1>2. At(q, s, 0) = q /\ At(q, s, Len(s) + 1) = q
  BY <1>0 DEF At
<1>3. \A i \in 0..Len(s) : i = 0 \/ i \in 1..Len(s)
  BY <1>0
<1>4. \A i \in 1..Len(s) + 1 : i = Len(s) + 1 \/ i \in 1..Len(s)
  BY <1>0
<1>5. \A i \in 0..Len(s) + 1 : i = Len(s) + 1 \/ i \in 0..Len(s)
  BY <1>0
<1>6. \A i, j \in 1..Len(s) : s[i] = s[j] => i = j
  BY DEF Uniq
<1> QED
  BY <1>1, <1>2, <1>3, <1>4, <1>5, <1>6 DEF Link

\* A queue is not longer than there are entries.
LEMMA QueueBounded ==
  ASSUME NEW s \in Seq(Entry), Uniq(s)
  PROVE  /\ Cardinality(Entry) \in Nat
         /\ Len(s) <= Cardinality(Entry)
<1>1. s \in [1..Len(s) -> Entry] /\ Len(s) \in Nat
  OBVIOUS
<1>2. s \in Injection(1..Len(s), Entry)
  BY <1>1 DEF Uniq, Injection, IsInjective
<1>3. IsFiniteSet(Entry) /\ Cardinality(Entry) \in Nat
  BY ListAssumption, FS_CardinalityType
<1>4. Cardinality(1..Len(s)) <= Cardinality(Entry)
  BY <1>2, <1>3, FS_Injection
<1>5. Cardinality(1..Len(s)) = Len(s)
  <2>1. 1 \in Int /\ Len(s) \in Int
    BY <1>1
  <2>2. Cardinality(1..Len(s)) = IF 1 > Len(s) THEN 0 ELSE Len(s) - 1 + 1
    BY <2>1, FS_Interval
  <2> QED
    BY <1>1, <2>2
<1> QED
  BY <1>3, <1>4, <1>5

\* Following next from place k of a ring to its head gives the entries from there on.
LEMMA EntriesRead ==
  ASSUME NEW m \in Mem, NEW q \in Queue, NEW s \in Seq(Entry), Uniq(s), Ring(m, q, s),
         NEW k \in 1..Len(s) + 1
  PROVE  Entries(m, At(q, s, k), q) = SubSeq(s, k, Len(s))
<1> DEFINE C == Cardinality(Entry)
           L == Len(s) + 1 - k
           x == At(q, s, k)
           V == Link \cup {Poison}
           Step(v) == IF v \in Link THEN m.next[v] ELSE Poison
           Body(f) == [i \in 0..C |-> IF i = 0 THEN x ELSE Step(f[i - 1])]
           F == [y \in Nat \X V |-> Step(y[2])]
           at == CHOOSE f : f = Body(f)
<1>0. /\ Len(s) \in Nat /\ k \in 1..Len(s) + 1 /\ C \in Nat /\ L \in Nat /\ L <= C
      /\ k + L = Len(s) + 1
  BY QueueBounded
<1>1. /\ x \in V /\ F \in [Nat \X V -> V]
      /\ \A i \in 1..C, v \in V : F[<<i, v>>] = Step(v)
  <2>1. x \in V
    <3>1. k \in 0..Len(s) + 1
      BY <1>0
    <3> QED
      BY <3>1, RingPlaces
  <2>2. \A v \in V : Step(v) \in V
    BY DEF Mem
  <2>3. \A i \in 1..C : i \in Nat
    OBVIOUS
  <2> HIDE DEF Step, V
  <2> QED
    BY <2>1, <2>2, <2>3
<1> HIDE DEF C, L, x, V, F
<1>2. PICK g \in [0..C -> V] : g[0] = x /\ \A i \in 1..C : g[i] = F[<<i, g[i - 1]>>]
  <2>1. HasStepwise(V, x, F, C)
    BY <1>0, <1>1, StepwiseFunction
  <2> QED
    BY <2>1 DEF HasStepwise
<1>3. g = Body(g)
  <2>1. \A i \in 1..C : i - 1 \in 0..C /\ g[i - 1] \in V
    BY <1>0, <1>2
  <2> HIDE DEF Step
  <2>2. \A i \in 1..C : g[i] = Step(g[i - 1])
    BY <1>1, <1>2, <2>1
  <2>3. \A i \in 0..C : i = 0 \/ i \in 1..C
    BY <1>0
  <2>4. \A i \in 0..C : g[i] = IF i = 0 THEN x ELSE Step(g[i - 1])
    BY <1>2, <2>2, <2>3
  <2>5. g = [i \in 0..C |-> g[i]]
    BY <1>2
  <2> QED
    BY <2>4, <2>5
<1>4. at = Body(at)
  BY <1>3
<1> DEFINE ends == {i \in 0..C : at[i] = q}
           len == CHOOSE i \in ends : \A j \in ends : i <= j
<1>5. Entries(m, x, q) = IF ends = {} THEN <<q>> ELSE [i \in 1..len |-> at[i - 1]]
  BY DEF Entries, C
<1> HIDE DEF at
<1>6. at[0] = x /\ \A i \in 1..C : at[i] = IF at[i - 1] \in Link THEN m.next[at[i - 1]] ELSE Poison
  <2>1. \A i \in 0..C : at[i] = IF i = 0 THEN x ELSE Step(at[i - 1])
    <3> HIDE DEF Step
    <3> QED
      BY <1>4
  <2>2. 0 \in 0..C /\ \A i \in 1..C : i \in 0..C /\ i # 0
    BY <1>0
  <2> QED
    BY <2>1, <2>2
<1>7. \A i \in 0..L : at[i] = At(q, s, k + i)
  <2> SUFFICES ASSUME NEW M \in 0..L PROVE at[M] = At(q, s, k + M)
    OBVIOUS
  <2> DEFINE W == [i \in 0..M |-> {At(q, s, k + i)}]
  <2>0. M \in Nat /\ M \in 0..M /\ 0 \in 0..M
    BY <1>0
  <2>1. at[0] \in W[0]
    BY <1>0, <1>6, <2>0 DEF x
  <2>2. ASSUME NEW i \in 1..M, at[i - 1] \in W[i - 1] PROVE at[i] \in W[i]
    <3>1. /\ i \in 0..M /\ i - 1 \in 0..M /\ i \in 1..C
          /\ k + (i - 1) \in 0..Len(s) /\ k + (i - 1) \in 0..Len(s) + 1 /\ (k + (i - 1)) + 1 = k + i
      BY <1>0, <2>0
    <3>2. at[i - 1] = At(q, s, k + (i - 1))
      BY <2>2, <3>1
    <3>3. At(q, s, k + (i - 1)) \in Link
      BY <3>1, RingPlaces
    <3>4. m.next[At(q, s, k + (i - 1))] = At(q, s, k + i)
      BY <3>1 DEF Ring
    <3>5. at[i] = At(q, s, k + i)
      BY <1>6, <3>1, <3>2, <3>3, <3>4
    <3> QED
      BY <3>1, <3>5
  <2>3. W[M] = {At(q, s, k + M)}
    BY <2>0
  <2> HIDE DEF W
  <2>4. at[M] \in W[M]
    BY <2>0, <2>1, <2>2, StepwiseStays
  <2> QED
    BY <2>3, <2>4
<1>8. L \in ends
  BY <1>0, <1>7, RingPlaces
<1>9. \A j \in ends : L <= j
  <2> SUFFICES ASSUME NEW j \in ends, j < L PROVE FALSE
    BY <1>0
  <2>1. j \in 0..L /\ k + j \in 1..Len(s)
    BY <1>0
  <2> QED
    BY <1>7, <2>1, RingPlaces
<1>10. len = L
  <2>1. ends \subseteq Nat
    OBVIOUS
  <2> HIDE DEF ends
  <2>2. len \in ends /\ \A j \in ends : len <= j
    BY <1>8, <1>9
  <2>3. len <= L /\ L <= len /\ len \in Nat
    BY <1>8, <1>9, <2>1, <2>2
  <2> QED
    BY <1>0, <2>3
<1>11. Entries(m, x, q) = [i \in 1..L |-> at[i - 1]]
  <2> HIDE DEF ends, len
  <2> QED
    BY <1>5, <1>8, <1>10
<1>12. \A i \in 1..L : at[i - 1] = s[k + i - 1]
  <2> SUFFICES ASSUME NEW i \in 1..L PROVE at[i - 1] = s[k + i - 1]
    OBVIOUS
  <2>1. i - 1 \in 0..L /\ k + (i - 1) \in 1..Len(s) /\ k + (i - 1) = k + i - 1
    BY <1>0
  <2> QED
    BY <1>7, <2>1, RingPlaces
<1>13. SubSeq(s, k, Len(s)) = [i \in 1..L |-> s[k + i - 1]]
  <2>1. Len(s) - k + 1 = L
    BY <1>0 DEF L
  <2>2. SubSeq(s, k, Len(s)) = [i \in 1..(Len(s) - k + 1) |-> s[k + i - 1]]
    BY <1>0
  <2> QED
    BY <2>1, <2>2
<1>14. Entries(m, x, q) = SubSeq(s, k, Len(s))
  BY <1>11, <1>12, <1>13
<1> QED
  BY <1>14 DEF x

\* A link of a queue is in one place of its ring, and belongs to that queue.
LEMMA RingOwner ==
  ASSUME NEW m, NEW o, NEW Q, Represents(m, o, Q)
  PROVE  /\ \A q \in Queue : Q[q] \in Seq(Entry) /\ Uniq(Q[q]) /\ Len(Q[q]) \in Nat
         /\ \A q \in Queue : \A i \in 0..Len(Q[q]) + 1 :
              /\ At(q, Q[q], i) \in Chained(o) /\ At(q, Q[q], i) \in Link
              /\ Owner(o, At(q, Q[q], i)) = q
         /\ \A x \in Chained(o) : /\ Owner(o, x) \in Queue
                                  /\ \E k \in 1..Len(Q[Owner(o, x)]) + 1 :
                                       x = At(Owner(o, x), Q[Owner(o, x)], k)
<1>1. /\ \A q \in Queue : Q[q] \in Seq(Entry) /\ Uniq(Q[q])
      /\ \A q \in Queue : \A e \in Entry : e \in Elems(Q[q]) <=> o[e] = q
      /\ o \in [Entry -> Queue \cup {None}]
  BY DEF Represents
<1>2. \A q \in Queue : Len(Q[q]) \in Nat
  BY <1>1
<1>3. ASSUME NEW q \in Queue, NEW i \in 0..Len(Q[q]) + 1
      PROVE  At(q, Q[q], i) \in Chained(o) /\ Owner(o, At(q, Q[q], i)) = q
  <2>1. CASE i \in 1..Len(Q[q])
    <3>1. At(q, Q[q], i) = Q[q][i] /\ Q[q][i] \in Entry /\ Q[q][i] \in Elems(Q[q])
      BY <1>1, <2>1, RingPlaces DEF Elems
    <3> QED
      BY <1>1, <3>1, ListAssumption DEF Chained, Owner
  <2>2. CASE i \notin 1..Len(Q[q])
    BY <2>2 DEF At, Chained, Owner
  <2> QED
    BY <2>1, <2>2
<1>4. ASSUME NEW x \in Chained(o)
      PROVE  /\ Owner(o, x) \in Queue
             /\ \E k \in 1..Len(Q[Owner(o, x)]) + 1 : x = At(Owner(o, x), Q[Owner(o, x)], k)
  <2>1. CASE x \in Queue
    <3>1. Owner(o, x) = x /\ Len(Q[x]) + 1 \in 1..Len(Q[x]) + 1 /\ At(x, Q[x], Len(Q[x]) + 1) = x
      BY <1>1, <1>2, <2>1, RingPlaces DEF Owner
    <3> QED
      BY <2>1, <3>1
  <2>2. CASE x \notin Queue
    <3>1. x \in Entry /\ o[x] \in Queue /\ Owner(o, x) = o[x]
      BY <1>1, <2>2 DEF Chained, Owner
    <3>2. PICK k \in 1..Len(Q[o[x]]) : x = Q[o[x]][k]
      BY <1>1, <3>1 DEF Elems
    <3>3. k \in 1..Len(Q[o[x]]) + 1 /\ At(o[x], Q[o[x]], k) = x
      BY <1>2, <3>1, <3>2 DEF At
    <3> QED
      BY <3>1, <3>3
  <2> QED
    BY <2>1, <2>2
<1>5. Chained(o) \subseteq Link
  BY DEF Chained, Link
<1> QED
  BY <1>1, <1>2, <1>3, <1>4, <1>5

\* A ring stands as long as no pointer of its links is written.
LEMMA RingStays ==
  ASSUME NEW m, NEW o, NEW Q, Represents(m, o, Q), NEW q \in Queue, NEW d,
         \A x \in Chained(o) : Owner(o, x) = q => d.next[x] = m.next[x] /\ d.prev[x] = m.prev[x]
  PROVE  Ring(d, q, Q[q])
<1>1. Ring(m, q, Q[q]) /\ Len(Q[q]) \in Nat
  BY RingOwner DEF Represents
<1>2. \A i \in 0..Len(Q[q]) : i \in 0..Len(Q[q]) + 1 /\ i + 1 \in 0..Len(Q[q]) + 1
  BY <1>1
<1>3. \A i \in 0..Len(Q[q]) + 1 : /\ d.next[At(q, Q[q], i)] = m.next[At(q, Q[q], i)]
                                  /\ d.prev[At(q, Q[q], i)] = m.prev[At(q, Q[q], i)]
  BY RingOwner
<1> QED
  BY <1>1, <1>2, <1>3 DEF Ring

\* The entry e as the one behind the first i of a queue.
LEMMA JoinedPlaces ==
  ASSUME NEW T, NEW s \in Seq(T), NEW e \in T, e \notin Elems(s), Uniq(s), NEW i \in 0..Len(s)
  PROVE  /\ LinkedBefore(s, i + 1, e) \in Seq(T) /\ Uniq(LinkedBefore(s, i + 1, e))
         /\ Elems(LinkedBefore(s, i + 1, e)) = Elems(s) \cup {e}
         /\ Placed(LinkedBefore(s, i + 1, e), s, i + 1, e)
<1>1. CASE i = Len(s)
  <2> DEFINE r == Append(s, e)
  <2>1. r \in Seq(T) /\ Elems(r) = Elems(s) \cup {e} /\ Uniq(r) /\ Placed(r, s, Len(s) + 1, e)
    BY AppendQueue, InsertPlaces
  <2>2. LinkedBefore(s, Len(s) + 1, e) = r
    BY LinkedLast
  <2> HIDE DEF r
  <2> QED
    BY <1>1, <2>1, <2>2
<1>2. CASE i # Len(s)
  <2>1. i + 1 \in 1..Len(s)
    BY <1>2
  <2> HIDE DEF LinkedBefore
  <2> QED
    BY <2>1, LinkedBeforeQueue, InsertPlaces
<1> QED
  BY <1>1, <1>2

\* The places of the ring with e behind the first i entries.
LEMMA JoinedAt ==
  ASSUME NEW q, NEW T, NEW s \in Seq(T), NEW r \in Seq(T), NEW e, NEW i \in 0..Len(s),
         Placed(r, s, i + 1, e)
  PROVE  /\ Len(r) = Len(s) + 1
         /\ \A j \in 0..i : At(q, r, j) = At(q, s, j)
         /\ At(q, r, i + 1) = e
         /\ \A j \in i + 2..Len(s) + 2 : At(q, r, j) = At(q, s, j - 1)
<1>0. Len(s) \in Nat /\ i \in 0..Len(s) /\ Len(r) = Len(s) + 1
  BY DEF Placed
<1>1. ASSUME NEW j \in 0..i PROVE At(q, r, j) = At(q, s, j)
  <2>1. CASE j = 0
    BY <1>0, <2>1 DEF At
  <2>2. CASE j # 0
    <3>1. j \in 1..Len(s) /\ j \in 1..Len(r) /\ j < i + 1
      BY <1>0, <2>2
    <3> QED
      BY <3>1 DEF At, Placed
  <2> QED
    BY <2>1, <2>2
<1>2. At(q, r, i + 1) = e
  <2>1. i + 1 \in 1..Len(r)
    BY <1>0
  <2> QED
    BY <2>1 DEF At, Placed
<1>3. ASSUME NEW j \in i + 2..Len(s) + 2 PROVE At(q, r, j) = At(q, s, j - 1)
  <2>1. CASE j = Len(s) + 2
    BY <1>0, <2>1 DEF At
  <2>2. CASE j # Len(s) + 2
    <3>1. j \in 1..Len(r) /\ j - 1 \in 1..Len(s) /\ ~(j - 1 < i + 1) /\ (j - 1) + 1 = j
      BY <1>0, <2>2
    <3>2. r[(j - 1) + 1] = s[j - 1]
      BY <3>1 DEF Placed
    <3> QED
      BY <3>1, <3>2 DEF At
  <2> QED
    BY <2>1, <2>2
<1> QED
  BY <1>0, <1>1, <1>2, <1>3

\* Linking e in behind place i of the ring of q gives the ring of the queue with e
\* in that place.
LEMMA AddRing ==
  ASSUME NEW m, NEW o, NEW Q, Represents(m, o, Q), NEW q \in Queue, NEW e \in Entry, o[e] = None,
         NEW i \in 0..Len(Q[q])
  PROVE  Represents(tkmc_list_add_between(m, e, At(q, Q[q], i), m.next[At(q, Q[q], i)]),
                    [o EXCEPT ![e] = q], [Q EXCEPT ![q] = LinkedBefore(@, i + 1, e)])
<1> DEFINE s == Q[q]
           N == Len(s)
           prev == At(q, s, i)
           next == At(q, s, i + 1)
           d == tkmc_list_add_between(m, e, prev, next)
           p == [o EXCEPT ![e] = q]
           r == LinkedBefore(s, i + 1, e)
           P == [Q EXCEPT ![q] = r]
           C == Chained(o)
<1>1. /\ s \in Seq(Entry) /\ Uniq(s) /\ N \in Nat /\ i \in 0..N
      /\ m \in Mem /\ o \in [Entry -> Queue \cup {None}] /\ Q \in [Queue -> Seq(Entry)]
  BY RingOwner DEF Represents
<1>2. /\ \A j \in 0..N : m.next[At(q, s, j)] = At(q, s, j + 1) /\ m.prev[At(q, s, j + 1)] = At(q, s, j)
      /\ \A y \in Queue : \A x \in Entry : x \in Elems(Q[y]) <=> o[x] = y
  BY DEF Represents, Ring
<1>3. /\ C \subseteq Link /\ e \notin C /\ e \in Link /\ e \notin Queue /\ None \notin Queue
  BY ListAssumption DEF Chained, Link
<1>4. /\ \A j \in 0..N + 1 : At(q, s, j) \in C /\ At(q, s, j) \in Link /\ Owner(o, At(q, s, j)) = q
  BY RingOwner
<1>5. /\ \A j, k \in 0..N : At(q, s, j) = At(q, s, k) => j = k
      /\ \A j, k \in 1..N + 1 : At(q, s, j) = At(q, s, k) => j = k
  BY <1>1, RingPlaces
<1>6. e \notin Elems(s) /\ \A y \in Queue : e \notin Elems(Q[y])
  BY <1>2, <1>3
<1>7. r \in Seq(Entry) /\ Uniq(r) /\ Elems(r) = Elems(s) \cup {e} /\ Placed(r, s, i + 1, e)
  <2> HIDE DEF s, r
  <2>1. i \in 0..Len(s)
    BY <1>1
  <2> QED
    BY <1>1, <1>6, <2>1, JoinedPlaces DEF r
<1>8. /\ Len(r) = N + 1
      /\ \A j \in 0..i : At(q, r, j) = At(q, s, j)
      /\ At(q, r, i + 1) = e
      /\ \A j \in i + 2..N + 2 : At(q, r, j) = At(q, s, j - 1)
  <2> HIDE DEF s, r
  <2> QED
    BY <1>1, <1>7, JoinedAt DEF N
<1>9. i \in 0..N + 1 /\ i + 1 \in 0..N + 1 /\ i + 1 \in 1..N + 1
  BY <1>1
<1>10. /\ prev \in C /\ next \in C /\ prev \in Link /\ next \in Link /\ Owner(o, prev) = q
       /\ Owner(o, next) = q /\ m.next[prev] = next
  BY <1>1, <1>2, <1>4, <1>9
<1> HIDE DEF s, N, r, C
<1>11. /\ d \in Mem
       /\ \A x \in Link :
            /\ d.next[x] = IF x = e THEN next ELSE IF x = prev THEN e ELSE m.next[x]
            /\ d.prev[x] = IF x = e THEN prev ELSE IF x = next THEN e ELSE m.prev[x]
  <2> HIDE DEF prev, next
  <2>1. e # prev /\ e # next
    BY <1>3, <1>10
  <2> QED
    BY <1>1, <1>3, <1>10, <2>1, AddWrites
<1> HIDE DEF d
<1>12. Ring(d, q, r)
  <2> SUFFICES ASSUME NEW j \in 0..N + 1
               PROVE  d.next[At(q, r, j)] = At(q, r, j + 1) /\ d.prev[At(q, r, j + 1)] = At(q, r, j)
    BY <1>8 DEF Ring
  <2>1. CASE j < i
    <3>1. j \in 0..i /\ j + 1 \in 0..i /\ j \in 0..N /\ j \in 0..N + 1 /\ j + 1 \in 0..N + 1 /\ j + 1 \in 1..N + 1
      BY <1>1, <2>1
    <3>2. At(q, s, j) # prev /\ At(q, s, j + 1) # next
      BY <1>1, <1>5, <1>9, <2>1, <3>1
    <3>3. At(q, s, j) # e /\ At(q, s, j + 1) # e
      BY <1>3, <1>4, <3>1
    <3> QED
      BY <1>2, <1>4, <1>8, <1>11, <3>1, <3>2, <3>3
  <2>2. CASE j = i
    <3>1. At(q, r, j) = prev /\ At(q, r, j + 1) = e /\ prev # e
      BY <1>1, <1>3, <1>8, <1>10, <2>2
    <3> QED
      BY <1>3, <1>10, <1>11, <3>1
  <2>3. CASE j = i + 1
    <3>1. j + 1 \in i + 2..N + 2 /\ (j + 1) - 1 = i + 1
      BY <1>1, <2>3
    <3>2. At(q, r, j) = e /\ At(q, r, j + 1) = next /\ next # e
      BY <1>3, <1>8, <1>10, <2>3, <3>1
    <3> QED
      BY <1>3, <1>10, <1>11, <3>2
  <2>4. CASE j > i + 1
    <3>1. /\ j \in i + 2..N + 2 /\ j + 1 \in i + 2..N + 2 /\ j - 1 \in 0..N /\ j - 1 # i /\ j # i + 1
          /\ j \in 1..N + 1 /\ j - 1 \in 0..N + 1 /\ j \in 0..N + 1 /\ (j + 1) - 1 = j /\ (j - 1) + 1 = j
      BY <1>1, <2>4
    <3>2. At(q, s, j - 1) # prev /\ At(q, s, j) # next
      BY <1>1, <1>5, <1>9, <3>1
    <3>3. At(q, s, j - 1) # e /\ At(q, s, j) # e
      BY <1>3, <1>4, <3>1
    <3>4. m.next[At(q, s, j - 1)] = At(q, s, j) /\ m.prev[At(q, s, j)] = At(q, s, j - 1)
      BY <1>2, <3>1
    <3>5. At(q, r, j) = At(q, s, j - 1) /\ At(q, r, j + 1) = At(q, s, j)
      BY <1>8, <3>1
    <3> QED
      BY <1>4, <1>11, <3>1, <3>2, <3>3, <3>4, <3>5
  <2> QED
    BY <1>1, <2>1, <2>2, <2>3, <2>4
<1>13. ASSUME NEW y \in Queue, y # q PROVE Ring(d, y, Q[y])
  <2>1. \A x \in C : Owner(o, x) = y => d.next[x] = m.next[x] /\ d.prev[x] = m.prev[x]
    BY <1>3, <1>10, <1>11, <1>13
  <2> QED
    BY <2>1, RingStays DEF C
<1>14. p \in [Entry -> Queue \cup {None}] /\ P \in [Queue -> Seq(Entry)]
  BY <1>1, <1>7
<1>15. \A y \in Queue : P[y] = IF y = q THEN r ELSE Q[y]
  BY <1>1
<1>16. \A x \in Entry : p[x] = IF x = e THEN q ELSE o[x]
  BY <1>1
<1> HIDE DEF p, P
<1>17. ASSUME NEW y \in Queue, NEW x \in Entry PROVE x \in Elems(P[y]) <=> p[x] = y
  <2>1. CASE y = q
    BY <1>2, <1>7, <1>15, <1>16, <2>1 DEF s
  <2>2. CASE y # q
    BY <1>2, <1>3, <1>6, <1>15, <1>16, <2>2
  <2> QED
    BY <2>1, <2>2
<1>18. ASSUME NEW y \in Queue PROVE Ring(d, y, P[y]) /\ Uniq(P[y])
  BY <1>7, <1>12, <1>13, <1>15 DEF Represents
<1>19. Represents(d, p, P)
  BY <1>11, <1>14, <1>17, <1>18 DEF Represents
<1> QED
  BY <1>10, <1>19 DEF d, p, P, r, s, prev

\* The places of the ring without the entry in place k.
LEMMA LeftAt ==
  ASSUME NEW q, NEW T, NEW s \in Seq(T), NEW r \in Seq(T), NEW k \in 1..Len(s),
         Placed(s, r, k, s[k])
  PROVE  /\ Len(r) = Len(s) - 1
         /\ \A j \in 0..k - 1 : At(q, r, j) = At(q, s, j)
         /\ \A j \in k..Len(s) : At(q, r, j) = At(q, s, j + 1)
<1>0. Len(s) \in Nat /\ k \in 1..Len(s) /\ Len(r) \in Nat /\ Len(r) = Len(s) - 1
  BY DEF Placed
<1>1. ASSUME NEW j \in 0..k - 1 PROVE At(q, r, j) = At(q, s, j)
  <2>1. CASE j = 0
    BY <1>0, <2>1 DEF At
  <2>2. CASE j # 0
    <3>1. j \in 1..Len(s) /\ j \in 1..Len(r) /\ j < k
      BY <1>0, <2>2
    <3> QED
      BY <3>1 DEF At, Placed
  <2> QED
    BY <2>1, <2>2
<1>2. ASSUME NEW j \in k..Len(s) PROVE At(q, r, j) = At(q, s, j + 1)
  <2>1. CASE j = Len(s)
    BY <1>0, <2>1 DEF At
  <2>2. CASE j # Len(s)
    <3>1. j \in 1..Len(r) /\ j + 1 \in 1..Len(s) /\ ~(j < k)
      BY <1>0, <2>2
    <3> QED
      BY <3>1 DEF At, Placed
  <2> QED
    BY <2>1, <2>2
<1> QED
  BY <1>0, <1>1, <1>2

\* Unlinking the entry in place k gives the ring of the queue without it.
LEMMA DelRing ==
  ASSUME NEW m, NEW o, NEW Q, Represents(m, o, Q), NEW q \in Queue, NEW k \in 1..Len(Q[q])
  PROVE  Represents(tkmc_list_del(m, Q[q][k]), [o EXCEPT ![Q[q][k]] = None],
                    [Q EXCEPT ![q] = Without(@, {Q[q][k]})])
<1> DEFINE s == Q[q]
           N == Len(s)
           e == s[k]
           d == tkmc_list_del(m, e)
           p == [o EXCEPT ![e] = None]
           r == Without(s, {e})
           P == [Q EXCEPT ![q] = r]
           C == Chained(o)
           prev == At(q, s, k - 1)
           next == At(q, s, k + 1)
<1>1. /\ s \in Seq(Entry) /\ Uniq(s) /\ N \in Nat /\ k \in 1..N
      /\ m \in Mem /\ o \in [Entry -> Queue \cup {None}] /\ Q \in [Queue -> Seq(Entry)]
  BY RingOwner DEF Represents
<1>2. /\ \A j \in 0..N : m.next[At(q, s, j)] = At(q, s, j + 1) /\ m.prev[At(q, s, j + 1)] = At(q, s, j)
      /\ \A y \in Queue : \A x \in Entry : x \in Elems(Q[y]) <=> o[x] = y
  BY DEF Represents, Ring
<1>3. C \subseteq Link /\ None \notin Queue
  BY ListAssumption DEF Chained, Link
<1>4. \A j \in 0..N + 1 : At(q, s, j) \in C /\ At(q, s, j) \in Link /\ Owner(o, At(q, s, j)) = q
  BY RingOwner
<1>5. /\ \A i, j \in 0..N : At(q, s, i) = At(q, s, j) => i = j
      /\ \A i, j \in 1..N + 1 : At(q, s, i) = At(q, s, j) => i = j
  BY <1>1, RingPlaces
<1>6. e = At(q, s, k) /\ e \in Entry /\ e \in Elems(s)
  BY <1>1, RingPlaces DEF Elems
<1>7. r \in Seq(Entry) /\ Uniq(r) /\ Elems(r) = Elems(s) \ {e} /\ Placed(s, r, k, s[k])
  <2> HIDE DEF s
  <2> QED
    BY <1>1, WithoutProperties, WithoutOne
<1>8. /\ Len(r) = N - 1
      /\ \A j \in 0..k - 1 : At(q, r, j) = At(q, s, j)
      /\ \A j \in k..N : At(q, r, j) = At(q, s, j + 1)
  <2>1. s \in Seq(Entry) /\ r \in Seq(Entry) /\ k \in 1..Len(s) /\ Placed(s, r, k, s[k])
    BY <1>1, <1>7
  <2> HIDE DEF s, r
  <2>2. /\ Len(r) = Len(s) - 1
        /\ \A j \in 0..k - 1 : At(q, r, j) = At(q, s, j)
        /\ \A j \in k..Len(s) : At(q, r, j) = At(q, s, j + 1)
    BY <2>1, LeftAt
  <2> QED
    BY <2>2
<1>9. /\ k \in 0..N + 1 /\ k - 1 \in 0..N + 1 /\ k + 1 \in 0..N + 1 /\ k \in 0..N /\ k - 1 \in 0..N
      /\ k \in 1..N + 1 /\ k + 1 \in 1..N + 1 /\ (k - 1) + 1 = k
  BY <1>1
<1>10. m.next[e] = next /\ m.prev[e] = prev
  <2> HIDE DEF s, N
  <2>1. m.next[At(q, s, k)] = At(q, s, k + 1)
    BY <1>2, <1>9
  <2>2. m.prev[At(q, s, (k - 1) + 1)] = At(q, s, k - 1)
    BY <1>2, <1>9
  <2> QED
    BY <1>6, <1>9, <2>1, <2>2
<1> HIDE DEF s, N, r, C, e, prev, next
<1>11. /\ d \in Mem
       /\ \A x \in Link :
            /\ d.next[x] = IF x = e THEN Poison ELSE IF x = prev THEN next ELSE m.next[x]
            /\ d.prev[x] = IF x = e THEN Poison ELSE IF x = next THEN prev ELSE m.prev[x]
  <2>1. e \in Link /\ m.next[e] \in Link /\ m.prev[e] \in Link
    BY <1>4, <1>6, <1>9, <1>10 DEF prev, next
  <2> QED
    BY <1>1, <1>10, <2>1, DelWrites
<1>12. /\ Owner(o, e) = q /\ Owner(o, prev) = q /\ Owner(o, next) = q
       /\ prev \in Link /\ next \in Link
  BY <1>4, <1>6, <1>9 DEF prev, next
<1> HIDE DEF d
<1>13. Ring(d, q, r)
  <2> SUFFICES ASSUME NEW j \in 0..N - 1
               PROVE  d.next[At(q, r, j)] = At(q, r, j + 1) /\ d.prev[At(q, r, j + 1)] = At(q, r, j)
    BY <1>8 DEF Ring
  <2>1. CASE j < k - 1
    <3>1. /\ j \in 0..k - 1 /\ j + 1 \in 0..k - 1 /\ j \in 0..N /\ j \in 0..N + 1 /\ j + 1 \in 0..N + 1
          /\ j + 1 \in 1..N + 1 /\ j # k - 1 /\ j # k /\ j + 1 # k + 1 /\ j + 1 # k
      BY <1>1, <2>1
    <3>2. At(q, s, j) # prev /\ At(q, s, j + 1) # next /\ At(q, s, j) # e /\ At(q, s, j + 1) # e
      BY <1>5, <1>6, <1>9, <3>1 DEF prev, next
    <3> QED
      BY <1>2, <1>4, <1>8, <1>11, <3>1, <3>2
  <2>2. CASE j = k - 1
    <3>1. j \in 0..k - 1 /\ j + 1 = k /\ k \in k..N
      BY <1>1, <2>2
    <3>2. At(q, r, j) = prev /\ At(q, r, j + 1) = next
      BY <1>8, <2>2, <3>1 DEF prev, next
    <3>3. prev # e /\ next # e
      <4>1. k - 1 # k /\ k + 1 # k
        BY <1>1
      <4> QED
        BY <1>5, <1>6, <1>9, <4>1 DEF prev, next
    <3> QED
      BY <1>11, <1>12, <3>2, <3>3
  <2>3. CASE j >= k
    <3>1. /\ j \in k..N /\ j + 1 \in k..N /\ j + 1 \in 0..N /\ j + 1 \in 0..N + 1
          /\ (j + 1) + 1 \in 1..N + 1 /\ (j + 1) + 1 \in 0..N + 1
          /\ j + 1 # k /\ j + 1 # k - 1 /\ (j + 1) + 1 # k + 1 /\ (j + 1) + 1 # k
      BY <1>1, <2>3
    <3>2. /\ At(q, s, j + 1) # prev /\ At(q, s, (j + 1) + 1) # next
          /\ At(q, s, j + 1) # e /\ At(q, s, (j + 1) + 1) # e
      BY <1>5, <1>6, <1>9, <3>1 DEF prev, next
    <3> QED
      BY <1>2, <1>4, <1>8, <1>11, <3>1, <3>2
  <2> QED
    BY <1>1, <2>1, <2>2, <2>3
<1>14. ASSUME NEW y \in Queue, y # q PROVE Ring(d, y, Q[y])
  <2>1. \A x \in C : Owner(o, x) = y => d.next[x] = m.next[x] /\ d.prev[x] = m.prev[x]
    BY <1>3, <1>11, <1>12, <1>14
  <2> QED
    BY <2>1, RingStays DEF C
<1>15. p \in [Entry -> Queue \cup {None}] /\ P \in [Queue -> Seq(Entry)]
  BY <1>1, <1>7
<1>16. \A y \in Queue : P[y] = IF y = q THEN r ELSE Q[y]
  BY <1>1
<1>17. \A x \in Entry : p[x] = IF x = e THEN None ELSE o[x]
  BY <1>1
<1>18. o[e] = q
  BY <1>2, <1>6 DEF s
<1> HIDE DEF p, P
<1>19. ASSUME NEW y \in Queue, NEW x \in Entry PROVE x \in Elems(P[y]) <=> p[x] = y
  <2>1. CASE y = q
    BY <1>2, <1>3, <1>7, <1>16, <1>17, <2>1 DEF s
  <2>2. CASE y # q
    BY <1>2, <1>3, <1>16, <1>17, <1>18, <2>2
  <2> QED
    BY <2>1, <2>2
<1>20. ASSUME NEW y \in Queue PROVE Ring(d, y, P[y]) /\ Uniq(P[y])
  BY <1>7, <1>13, <1>14, <1>16 DEF Represents
<1>21. Represents(d, p, P)
  BY <1>11, <1>15, <1>19, <1>20 DEF Represents
<1> QED
  BY <1>21 DEF d, p, P, r, s, e

\* Initialising an entry that is on no queue changes no ring.
LEMMA InitRing ==
  ASSUME NEW m, NEW o, NEW Q, Represents(m, o, Q), NEW e \in Entry, o[e] = None
  PROVE  Represents(tkmc_init_list_head(m, e), o, Q)
<1> DEFINE d == tkmc_init_list_head(m, e)
<1>1. Chained(o) \subseteq Link /\ e \notin Chained(o) /\ e \in Link
  BY ListAssumption DEF Chained, Link
<1>2. d \in Mem /\ \A x \in Link : x # e => d.next[x] = m.next[x] /\ d.prev[x] = m.prev[x]
  BY <1>1, InitWrites DEF Represents
<1> HIDE DEF d
<1>3. \A q \in Queue : Ring(d, q, Q[q])
  BY <1>1, <1>2, RingStays
<1>4. Represents(d, o, Q)
  BY <1>2, <1>3 DEF Represents
<1> QED
  BY <1>4 DEF d

\* Initialising a head empties its queue.
LEMMA ClearRing ==
  ASSUME NEW m, NEW o, NEW Q, Represents(m, o, Q), NEW q \in Queue
  PROVE  Represents(tkmc_init_list_head(m, q), [e \in Entry |-> IF o[e] = q THEN None ELSE o[e]],
                    [Q EXCEPT ![q] = << >>])
<1> DEFINE d == tkmc_init_list_head(m, q)
           p == [e \in Entry |-> IF o[e] = q THEN None ELSE o[e]]
           P == [Q EXCEPT ![q] = << >>]
<1>1. /\ m \in Mem /\ o \in [Entry -> Queue \cup {None}] /\ Q \in [Queue -> Seq(Entry)]
      /\ \A y \in Queue : Uniq(Q[y]) /\ \A x \in Entry : x \in Elems(Q[y]) <=> o[x] = y
  BY DEF Represents
<1>2. Chained(o) \subseteq Link /\ q \in Link /\ Owner(o, q) = q /\ None \notin Queue
  BY ListAssumption DEF Chained, Link, Owner
<1>3. d \in Mem /\ \A x \in Link : /\ d.next[x] = IF x = q THEN q ELSE m.next[x]
                                   /\ d.prev[x] = IF x = q THEN q ELSE m.prev[x]
  BY <1>1, <1>2, InitWrites
<1> HIDE DEF d
<1>4. ASSUME NEW y \in Queue, y # q PROVE Ring(d, y, Q[y])
  BY <1>2, <1>3, <1>4, RingStays
<1>5. Ring(d, q, << >>)
  BY <1>2, <1>3 DEF Ring, At
<1>6. p \in [Entry -> Queue \cup {None}] /\ P \in [Queue -> Seq(Entry)]
  BY <1>1
<1>7. \A y \in Queue : P[y] = IF y = q THEN << >> ELSE Q[y]
  BY <1>1
<1>8. \A x \in Entry : p[x] = IF o[x] = q THEN None ELSE o[x]
  OBVIOUS
<1> HIDE DEF p, P
<1>9. Elems(<< >>) = {} /\ Uniq(<< >>)
  BY SmallQueues
<1>10. ASSUME NEW y \in Queue, NEW x \in Entry PROVE x \in Elems(P[y]) <=> p[x] = y
  BY <1>1, <1>2, <1>7, <1>8, <1>9
<1>11. ASSUME NEW y \in Queue PROVE Ring(d, y, P[y]) /\ Uniq(P[y])
  BY <1>1, <1>4, <1>5, <1>7, <1>9
<1>12. Represents(d, p, P)
  BY <1>3, <1>6, <1>10, <1>11 DEF Represents
<1> QED
  BY <1>12 DEF d, p, P

-----------------------------------------------------------------------------
(* The pointers implement queues. *)

\* The queues that are read from the memory are those that it stands for.
LEMMA QueuesRead ==
  ASSUME NEW m, NEW o, NEW Q, Represents(m, o, Q)
  PROVE  [q \in Queue |-> Entries(m, m.next[q], q)] = Q
<1>1. m \in Mem /\ Q \in [Queue -> Seq(Entry)]
  BY DEF Represents
<1>2. ASSUME NEW q \in Queue PROVE Entries(m, m.next[q], q) = Q[q]
  <2> DEFINE s == Q[q]
  <2>1. s \in Seq(Entry) /\ Uniq(s) /\ Ring(m, q, s) /\ Len(s) \in Nat
    BY RingOwner DEF Represents
  <2> HIDE DEF s
  <2>2. 0 \in 0..Len(s) /\ 1 \in 1..Len(s) + 1
    BY <2>1
  <2>3. m.next[q] = At(q, s, 1)
    <3>1. At(q, s, 0) = q
      BY <2>1, RingPlaces
    <3>2. m.next[At(q, s, 0)] = At(q, s, 0 + 1)
      BY <2>1, <2>2 DEF Ring
    <3> QED
      BY <3>1, <3>2
  <2>4. Entries(m, At(q, s, 1), q) = SubSeq(s, 1, Len(s))
    BY <1>1, <2>1, <2>2, EntriesRead
  <2>5. SubSeq(s, 1, Len(s)) = s
    BY <2>1
  <2> QED
    BY <2>3, <2>4, <2>5 DEF s
<1> QED
  BY <1>1, <1>2

\* The entries that a walk at the link x has before it.
LEMMA RestRead ==
  ASSUME NEW m, NEW o, NEW Q, Represents(m, o, Q), NEW q \in Queue, NEW x \in Chained(o),
         Owner(o, x) = q
  PROVE  \E k \in 1..Len(Q[q]) + 1 : /\ x = At(q, Q[q], k)
                                     /\ Entries(m, x, q) = SubSeq(Q[q], k, Len(Q[q]))
<1>1. PICK k \in 1..Len(Q[q]) + 1 : x = At(q, Q[q], k)
  BY RingOwner
<1>2. m \in Mem /\ Q[q] \in Seq(Entry) /\ Uniq(Q[q]) /\ Ring(m, q, Q[q])
  BY DEF Represents
<1> QED
  BY <1>1, <1>2, EntriesRead

\* tkmc_list_add_tail() of an entry that is on no queue appends it.
LEMMA TailRing ==
  ASSUME NEW m, NEW o, NEW Q, Represents(m, o, Q), NEW q \in Queue, NEW e \in Entry, o[e] = None
  PROVE  Represents(tkmc_list_add_tail(m, e, q), [o EXCEPT ![e] = q],
                    [Q EXCEPT ![q] = Append(@, e)])
<1> DEFINE s == Q[q]
           last == At(q, s, Len(s))
<1>1. s \in Seq(Entry) /\ Uniq(s) /\ Len(s) \in Nat /\ Ring(m, q, s)
  BY RingOwner DEF Represents
<1>2. Len(s) \in 0..Len(s) /\ At(q, s, Len(s) + 1) = q
  BY <1>1, RingPlaces
<1>3. m.next[last] = q /\ m.prev[q] = last
  BY <1>1, <1>2 DEF Ring
<1>4. Represents(tkmc_list_add_between(m, e, last, m.next[last]), [o EXCEPT ![e] = q],
                 [Q EXCEPT ![q] = LinkedBefore(s, Len(s) + 1, e)])
  BY <1>2, AddRing
<1>5. LinkedBefore(s, Len(s) + 1, e) = Append(s, e)
  BY <1>1, LinkedLast
<1>6. tkmc_list_add_tail(m, e, q) = tkmc_list_add_between(m, e, last, m.next[last])
  BY <1>3 DEF tkmc_list_add_tail
<1> HIDE DEF last
<1>7. Represents(tkmc_list_add_tail(m, e, q), [o EXCEPT ![e] = q], [Q EXCEPT ![q] = Append(s, e)])
  BY <1>4, <1>5, <1>6
<1> QED
  BY <1>7

\* tkmc_list_del() of an entry on q takes it out of the queue, and it may be
\* initialised then.
LEMMA UnlinkRing ==
  ASSUME NEW m, NEW o, NEW Q, Represents(m, o, Q), NEW q \in Queue, NEW e \in Entry, o[e] = q
  PROVE  /\ e \in Elems(Q[q])
         /\ Represents(tkmc_list_del(m, e), [o EXCEPT ![e] = None],
                       [Q EXCEPT ![q] = Without(@, {e})])
         /\ Represents(tkmc_init_list_head(tkmc_list_del(m, e), e), [o EXCEPT ![e] = None],
                       [Q EXCEPT ![q] = Without(@, {e})])
<1> DEFINE d == tkmc_list_del(m, e)
           p == [o EXCEPT ![e] = None]
           P == [Q EXCEPT ![q] = Without(@, {e})]
<1>1. e \in Elems(Q[q]) /\ o \in [Entry -> Queue \cup {None}]
  BY DEF Represents
<1>2. PICK k \in 1..Len(Q[q]) : e = Q[q][k]
  BY <1>1 DEF Elems
<1>3. Represents(d, p, P)
  <2>1. Represents(tkmc_list_del(m, Q[q][k]), [o EXCEPT ![Q[q][k]] = None],
                   [Q EXCEPT ![q] = Without(@, {Q[q][k]})])
    BY DelRing
  <2> QED
    BY <1>2, <2>1
<1>4. p[e] = None
  BY <1>1
<1> HIDE DEF d, p, P
<1>5. Represents(tkmc_init_list_head(d, e), p, P)
  BY <1>3, <1>4, InitRing
<1> QED
  BY <1>1, <1>3, <1>5 DEF d, p, P

\* The queues and the rest of a walk that the abstract specification is given.
QueueBar == [q \in Queue |-> Entries(mem, mem.next[q], q)]
TodoBar == IF scan = None THEN << >> ELSE Entries(mem, pos, scan)

\* What a walk has before it is left alone by what happens on other queues.
LEMMA TodoStays ==
  ASSUME ListInv, NEW Q, Represents(mem, on, Q), NEW P, Represents(mem', on', P),
         UNCHANGED Walk, scan # None => P[scan] = Q[scan]
  PROVE  TodoBar' = TodoBar
<1>1. scan' = scan /\ pos' = pos
  BY DEF Walk
<1>2. CASE scan = None
  BY <1>1, <1>2 DEF TodoBar
<1>3. CASE scan # None
  <2>1. scan \in Queue /\ pos \in Chained(on) /\ Owner(on, pos) = scan
    BY <1>3 DEF ListInv, PointersRight, Right
  <2>2. PICK k \in 1..Len(Q[scan]) + 1 : /\ pos = At(scan, Q[scan], k)
                                         /\ Entries(mem, pos, scan) = SubSeq(Q[scan], k, Len(Q[scan]))
    BY <2>1, RestRead
  <2>3. /\ mem' \in Mem /\ P[scan] \in Seq(Entry) /\ Uniq(P[scan]) /\ Ring(mem', scan, P[scan])
    BY <2>1 DEF Represents
  <2>4. P[scan] = Q[scan]
    BY <1>3
  <2>5. Entries(mem', At(scan, P[scan], k), scan) = SubSeq(P[scan], k, Len(P[scan]))
    BY <2>1, <2>2, <2>3, <2>4, EntriesRead
  <2>6. Entries(mem', pos, scan) = Entries(mem, pos, scan)
    BY <2>2, <2>4, <2>5
  <2> QED
    BY <1>1, <1>3, <2>6 DEF TodoBar
<1> QED
  BY <1>2, <1>3

\* The variables of the abstract specification, before and after a step.
LEMMA BarsRead ==
  ASSUME NEW Q, Represents(mem, on, Q), NEW P, Represents(mem', on', P)
  PROVE  QueueBar = Q /\ QueueBar' = P
<1>1. QueueBar = Q
  BY QueuesRead DEF QueueBar
<1>2. QueueBar' = P
  BY QueuesRead DEF QueueBar
<1> QED
  BY <1>1, <1>2

\* The operators on sequences that the abstract specification has are the same.
LEMMA SameOperators ==
  /\ \A s : Queues!Elems(s) = Elems(s)
  /\ \A s, S : Queues!Without(s, S) = Without(s, S)
  /\ \A s, i, x : Queues!LinkedBefore(s, i, x) = LinkedBefore(s, i, x)
<1>1. \A s : Queues!Elems(s) = Elems(s)
  BY DEF Queues!Elems, Elems
<1>2. \A s, i, x : Queues!LinkedBefore(s, i, x) = LinkedBefore(s, i, x)
  BY DEF Queues!LinkedBefore, LinkedBefore
<1>3. \A s, S : Queues!Keep(s, S) = Keep(s, S)
  BY DEF Queues!Keep, Keep
<1>4. \A s, S : Queues!Without(s, S) = Without(s, S)
  BY <1>1, <1>3 DEF Queues!Without, Without
<1> QED
  BY <1>1, <1>2, <1>4

\* An entry of no owner is on no queue.
LEMMA LooseRead ==
  ASSUME NEW Q, Represents(mem, on, Q), NEW e \in Entry, on[e] = None
  PROVE  e \in Queues!Loose
<1>1. QueueBar = Q
  BY QueuesRead DEF QueueBar
<1>2. \A q \in Queue : e \notin Elems(Q[q])
  BY ListAssumption DEF Represents
<1> QED
  BY <1>1, <1>2, SameOperators DEF Queues!Loose, QueueBar

\* What the abstract variables are before and after a step that is not one of a
\* walk: the queue that is walked on is left alone.
LEMMA BarsStep ==
  ASSUME ListInv, NEW Q, Represents(mem, on, Q), NEW P, Represents(mem', on', P),
         UNCHANGED Walk, \A q \in Queue : Free(q) \/ P[q] = Q[q]
  PROVE  QueueBar = Q /\ QueueBar' = P /\ scan' = scan /\ TodoBar' = TodoBar
<1>1. scan # None => P[scan] = Q[scan]
  BY DEF Free, ListInv, PointersRight
<1> QED
  BY <1>1, BarsRead, TodoStays DEF Walk

\* An entry that leaves its queue.
LEMMA LeaveStep ==
  ASSUME ListInv, NEW Q, Represents(mem, on, Q), NEW q \in Queue, Free(q), UNCHANGED Walk,
         NEW e \in Entry, e \in Elems(Q[q]),
         Represents(mem', on', [Q EXCEPT ![q] = Without(@, {e})])
  PROVE  Queues!Leave(e)
<1> DEFINE P == [Q EXCEPT ![q] = Without(@, {e})]
<1>1. \A x \in Queue : Free(x) \/ P[x] = Q[x]
  BY DEF Represents
<1>2. QueueBar = Q /\ QueueBar' = P /\ scan' = scan /\ TodoBar' = TodoBar
  <2> HIDE DEF P
  <2> QED
    BY <1>1, BarsStep DEF P
<1> QED
  BY <1>2, SameOperators DEF Queues!Leave, Queues!Free, Free, QueueBar, TodoBar

\* tkmc_list_add_tail() appends the entry.
LEMMA JoinStep ==
  ASSUME ListInv, NEW Q, Represents(mem, on, Q), NEW e \in Entry, NEW q \in Queue,
         Free(q), on[e] = None, UNCHANGED Walk,
         mem' = tkmc_list_add_tail(mem, e, q), on' = [on EXCEPT ![e] = q]
  PROVE  (\E P : Represents(mem', on', P)) /\ Queues!Join(e, q)
<1> DEFINE P == [Q EXCEPT ![q] = Append(@, e)]
<1>1. Represents(mem', on', P)
  BY TailRing
<1>2. \A x \in Queue : Free(x) \/ P[x] = Q[x]
  BY DEF Represents
<1>3. QueueBar = Q /\ QueueBar' = P /\ scan' = scan /\ TodoBar' = TodoBar
  <2> HIDE DEF P
  <2> QED
    BY <1>1, <1>2, BarsStep
<1>4. e \in Queues!Loose
  BY LooseRead
<1>5. Queues!Join(e, q)
  BY <1>3, <1>4 DEF Queues!Join, Queues!Free, Free, QueueBar, TodoBar
<1> QED
  BY <1>1, <1>5

\* AddBefore() links the entry in at the place of f: the link ahead of f is that of
\* the place before.
LEMMA AddBeforeStep ==
  ASSUME ListInv, NEW Q, Represents(mem, on, Q), NEW e \in Entry, NEW f \in Entry, AddBefore(e, f)
  PROVE  (\E P : Represents(mem', on', P)) /\ Queues!AddBefore(e, f)
<1> DEFINE q == on[f]
           s == Q[q]
<1>1. /\ mem' = tkmc_list_add(mem, e, mem.prev[f]) /\ on' = [on EXCEPT ![e] = q]
      /\ q # None /\ Free(q) /\ on[e] = None /\ UNCHANGED Walk /\ call' = <<"AddBefore", e, f>>
  BY DEF AddBefore
<1>2. q \in Queue /\ f \in Elems(s)
  BY <1>1 DEF Represents
<1>3. s \in Seq(Entry) /\ Len(s) \in Nat /\ Ring(mem, q, s) /\ Uniq(s)
  BY <1>2, RingOwner DEF Represents
<1> HIDE DEF s, q
<1>4. PICK i \in 0..Len(s) : i + 1 \in 1..Len(s) /\ f = s[i + 1]
  <2>1. PICK k \in 1..Len(s) : f = s[k]
    BY <1>2 DEF Elems
  <2>2. k - 1 \in 0..Len(s) /\ (k - 1) + 1 = k
    BY <1>3
  <2> QED
    BY <2>1, <2>2
<1>5. mem.prev[f] = At(q, s, i)
  <2>1. At(q, s, i + 1) = f
    BY <1>2, <1>3, <1>4, RingPlaces
  <2> QED
    BY <1>3, <2>1 DEF Ring
<1>6. mem' = tkmc_list_add_between(mem, e, At(q, Q[q], i), mem.next[At(q, Q[q], i)])
  BY <1>1, <1>5 DEF tkmc_list_add, s
<1>7. i \in 0..Len(Q[q])
  BY DEF s
<1>8. Represents(mem', on', [Q EXCEPT ![q] = LinkedBefore(@, i + 1, e)])
  <2>1. Represents(tkmc_list_add_between(mem, e, At(q, Q[q], i), mem.next[At(q, Q[q], i)]),
                   [on EXCEPT ![e] = q], [Q EXCEPT ![q] = LinkedBefore(@, i + 1, e)])
    BY <1>1, <1>2, <1>7, AddRing
  <2> QED
    BY <1>1, <1>6, <2>1
<1> DEFINE P == [Q EXCEPT ![q] = LinkedBefore(@, i + 1, e)]
<1>9. \A x \in Queue : Free(x) \/ P[x] = Q[x]
  BY <1>1 DEF Represents
<1>10. QueueBar = Q /\ QueueBar' = P /\ scan' = scan /\ TodoBar' = TodoBar
  <2> HIDE DEF P
  <2> QED
    BY <1>1, <1>8, <1>9, BarsStep DEF P
<1>11. e \in Queues!Loose
  BY <1>1, LooseRead
<1>12. i + 1 \in 1..Len(QueueBar[q]) /\ QueueBar[q][i + 1] = f
  BY <1>4, <1>10 DEF s
<1>13. Queues!AddBefore(e, f)
  BY <1>1, <1>2, <1>10, <1>11, <1>12, SameOperators
  DEF Queues!AddBefore, Queues!Free, Free, QueueBar, TodoBar
<1> QED
  BY <1>8, <1>13

\* Del() takes the entry out of its queue.
LEMMA DelStep ==
  ASSUME ListInv, NEW Q, Represents(mem, on, Q), NEW e \in Entry, Del(e)
  PROVE  (\E P : Represents(mem', on', P)) /\ Queues!Del(e)
<1>1. /\ mem' = tkmc_list_del(mem, e) /\ on' = [on EXCEPT ![e] = None]
      /\ on[e] # None /\ Free(on[e]) /\ UNCHANGED Walk /\ call' = <<"Del", e>>
  BY DEF Del
<1>2. on[e] \in Queue
  BY <1>1 DEF Represents
<1>3. e \in Elems(Q[on[e]]) /\ Represents(mem', on', [Q EXCEPT ![on[e]] = Without(@, {e})])
  BY <1>1, <1>2, UnlinkRing
<1>4. Queues!Leave(e)
  BY <1>1, <1>2, <1>3, LeaveStep
<1> QED
  BY <1>1, <1>3, <1>4 DEF Queues!Del

\* An entry on a queue is not linked to itself, so the test of
\* tkmc_complete_wait() finds it linked and takes it out.
LEMMA UnlinkedRing ==
  ASSUME ListInv, NEW Q, Represents(mem, on, Q), NEW e \in Entry, on[e] # None
  PROVE  /\ on[e] \in Queue /\ e \in Elems(Q[on[e]])
         /\ Represents(Unlinked(mem, e), [on EXCEPT ![e] = None],
                       [Q EXCEPT ![on[e]] = Without(@, {e})])
<1>1. on[e] \in Queue
  BY DEF Represents
<1>2. mem.next[e] # e
  BY ChainedLinks DEF ListInv, PointersRight, Right
<1>3. Unlinked(mem, e) = tkmc_init_list_head(tkmc_list_del(mem, e), e)
  BY <1>2 DEF Unlinked, tkmc_list_empty
<1> QED
  BY <1>1, <1>3, UnlinkRing

\* Unlink() of an entry on no queue, which may be tested and so is linked to
\* itself, does nothing.
LEMMA UnlinkStep ==
  ASSUME ListInv, NEW Q, Represents(mem, on, Q), NEW e \in Entry, Unlink(e)
  PROVE  (\E P : Represents(mem', on', P)) /\ Queues!Unlink(e)
<1>1. /\ mem' = Unlinked(mem, e) /\ on' = [on EXCEPT ![e] = None] /\ UNCHANGED Walk
      /\ call' = <<"Unlink", e>>
  BY DEF Unlink
<1>2. CASE on[e] = None
  <2>1. mem.next[e] = e
    BY <1>2 DEF Unlink, ListInv, Honest
  <2>2. mem' = mem /\ on' = on
    BY <1>1, <1>2, <2>1 DEF Unlinked, tkmc_list_empty, Represents
  <2>3. QueueBar' = QueueBar /\ scan' = scan /\ TodoBar' = TodoBar
    BY <1>1, <2>2 DEF Walk, QueueBar, TodoBar
  <2>4. e \in Queues!Loose
    BY <1>2, LooseRead
  <2> QED
    BY <1>1, <2>2, <2>3, <2>4 DEF Queues!Unlink, QueueBar, TodoBar
<1>3. CASE on[e] # None
  <2>1. Free(on[e])
    BY <1>3 DEF Unlink
  <2>2. on[e] \in Queue /\ e \in Elems(Q[on[e]])
        /\ Represents(mem', on', [Q EXCEPT ![on[e]] = Without(@, {e})])
    BY <1>1, <1>3, UnlinkedRing
  <2>3. Queues!Leave(e)
    BY <1>1, <2>1, <2>2, LeaveStep
  <2> QED
    BY <1>1, <2>2, <2>3 DEF Queues!Unlink
<1> QED
  BY <1>2, <1>3

\* tkmc_list_del() and tkmc_list_add_tail() move the entry to the tail of q.
LEMMA MoveStep ==
  ASSUME ListInv, NEW Q, Represents(mem, on, Q), NEW e \in Entry, NEW q \in Queue,
         Free(q), on[e] # None, Free(on[e]), UNCHANGED Walk,
         mem' = tkmc_list_add_tail(tkmc_list_del(mem, e), e, q), on' = [on EXCEPT ![e] = q]
  PROVE  (\E P : Represents(mem', on', P)) /\ Queues!Move(e, q)
<1> DEFINE y == on[e]
           d == tkmc_list_del(mem, e)
           p == [on EXCEPT ![e] = None]
           P == [Q EXCEPT ![y] = Without(@, {e})]
<1>1. /\ mem' = tkmc_list_add_tail(d, e, q) /\ on' = [on EXCEPT ![e] = q]
      /\ y # None /\ Free(y) /\ Free(q) /\ UNCHANGED Walk
  OBVIOUS
<1>2. y \in Queue /\ on \in [Entry -> Queue \cup {None}]
  BY <1>1 DEF Represents
<1>3. e \in Elems(Q[y]) /\ Represents(d, p, P)
  BY <1>2, UnlinkRing
<1>4. p[e] = None /\ [p EXCEPT ![e] = q] = on'
  BY <1>1, <1>2
<1>5. Represents(mem', on', [P EXCEPT ![q] = Append(@, e)])
  <2> HIDE DEF d, p, P
  <2>1. Represents(tkmc_list_add_tail(d, e, q), [p EXCEPT ![e] = q], [P EXCEPT ![q] = Append(@, e)])
    BY <1>3, <1>4, TailRing
  <2> QED
    BY <1>1, <1>4, <2>1
<1> DEFINE R == [P EXCEPT ![q] = Append(@, e)]
<1> HIDE DEF y, d, p
<1>6. \A x \in Queue : Free(x) \/ R[x] = Q[x]
  BY <1>1 DEF Represents
<1>7. QueueBar = Q /\ QueueBar' = R /\ scan' = scan /\ TodoBar' = TodoBar
  <2> HIDE DEF R
  <2> QED
    BY <1>1, <1>5, <1>6, BarsStep DEF R
<1>8. Queues!Move(e, q)
  BY <1>1, <1>2, <1>3, <1>7, SameOperators
  DEF Queues!Move, Queues!Free, Free, QueueBar, TodoBar
<1> QED
  BY <1>5, <1>8

\* The three operations that put an entry at the tail of a queue.
LEMMA TailStep ==
  ASSUME ListInv, NEW Q, Represents(mem, on, Q), NEW e \in Entry, NEW q \in Queue,
         AddTail(e, q) \/ Requeue(e, q) \/ Rejoin(e, q)
  PROVE  /\ \E P : Represents(mem', on', P)
         /\ Queues!AddTail(e, q) \/ Queues!Requeue(e, q) \/ Queues!Rejoin(e, q)
<1>1. CASE AddTail(e, q)
  BY <1>1, JoinStep DEF AddTail, Queues!AddTail
<1>2. CASE Requeue(e, q)
  BY <1>2, MoveStep DEF Requeue, Queues!Requeue
<1>3. CASE Rejoin(e, q)
  BY <1>3, RejoinCases, JoinStep, MoveStep DEF Queues!Rejoin
<1> QED
  BY <1>1, <1>2, <1>3

\* A queue without its first entry is its tail.
LEMMA WithoutFirst ==
  ASSUME NEW s \in Seq(Entry), Uniq(s), s # << >>
  PROVE  Without(s, {Head(s)}) = Tail(s)
<1> DEFINE r == Without(s, {s[1]})
           t == Tail(s)
<1>1. Len(s) \in Nat /\ 1 \in 1..Len(s) /\ Head(s) = s[1]
  OBVIOUS
<1>2. r \in Seq(Entry) /\ Placed(s, r, 1, s[1])
  BY <1>1, WithoutProperties, WithoutOne
<1>3. t \in Seq(Entry) /\ Len(t) = Len(s) - 1 /\ \A i \in 1..Len(s) - 1 : t[i] = s[i + 1]
  BY <1>1
<1> HIDE DEF r, t
<1>4. Len(r) = Len(s) - 1 /\ \A i \in 1..Len(s) - 1 : r[i] = s[i + 1]
  BY <1>1, <1>2 DEF Placed
<1>5. r = t
  BY <1>1, <1>2, <1>3, <1>4
<1> QED
  BY <1>1, <1>5 DEF r, t

\* TakeFirst() takes the head of the queue.
LEMMA TakeFirstStep ==
  ASSUME ListInv, NEW Q, Represents(mem, on, Q), NEW q \in Queue, TakeFirst(q)
  PROVE  (\E P : Represents(mem', on', P)) /\ Queues!TakeFirst(q)
<1> DEFINE s == Q[q]
           e == mem.next[q]
<1>1. /\ mem' = tkmc_init_list_head(tkmc_list_del(mem, e), e) /\ on' = [on EXCEPT ![e] = None]
      /\ e # q /\ Free(q) /\ UNCHANGED Walk /\ call' = <<"TakeFirst", q, e>>
  BY DEF TakeFirst, tkmc_list_empty
<1>2. s \in Seq(Entry) /\ Len(s) \in Nat /\ Ring(mem, q, s) /\ Uniq(s)
  BY RingOwner DEF Represents
<1>3. e = At(q, s, 1)
  <2>1. 0 \in 0..Len(s) /\ At(q, s, 0) = q
    BY <1>2, RingPlaces
  <2>2. mem.next[At(q, s, 0)] = At(q, s, 0 + 1)
    BY <1>2, <2>1 DEF Ring
  <2> QED
    BY <2>1, <2>2
<1>4. e \in Entry /\ e \in Elems(s) /\ s # << >> /\ e = Head(s)
  BY <1>1, <1>2, <1>3 DEF At, Elems
<1>5. on[e] = q
  BY <1>4 DEF Represents
<1> HIDE DEF e
<1>6. Represents(mem', on', [Q EXCEPT ![q] = Without(@, {e})])
  BY <1>1, <1>4, <1>5, UnlinkRing
<1> DEFINE P == [Q EXCEPT ![q] = Tail(@)]
<1>7. Represents(mem', on', P)
  BY <1>2, <1>4, <1>6, WithoutFirst
<1>8. \A x \in Queue : Free(x) \/ P[x] = Q[x]
  BY <1>1 DEF Represents
<1>9. QueueBar = Q /\ QueueBar' = P /\ scan' = scan /\ TodoBar' = TodoBar
  <2> HIDE DEF P
  <2> QED
    BY <1>1, <1>7, <1>8, BarsStep
<1>10. Queues!TakeFirst(q)
  BY <1>1, <1>4, <1>9 DEF Queues!TakeFirst, Queues!Free, Free, QueueBar, TodoBar
<1> QED
  BY <1>7, <1>10

\* Abandon() empties the queue.
LEMMA AbandonStep ==
  ASSUME ListInv, NEW Q, Represents(mem, on, Q), NEW q \in Queue, Abandon(q)
  PROVE  (\E P : Represents(mem', on', P)) /\ Queues!Abandon(q)
<1> DEFINE P == [Q EXCEPT ![q] = << >>]
<1>1. /\ mem' = tkmc_init_list_head(mem, q) /\ Free(q) /\ UNCHANGED Walk /\ call' = <<"Abandon", q>>
      /\ on' = [e \in Entry |-> IF on[e] = q THEN None ELSE on[e]]
  BY DEF Abandon
<1>2. Represents(mem', on', P)
  BY <1>1, ClearRing
<1>3. \A x \in Queue : Free(x) \/ P[x] = Q[x]
  BY <1>1 DEF Represents
<1>4. QueueBar = Q /\ QueueBar' = P /\ scan' = scan /\ TodoBar' = TodoBar
  <2> HIDE DEF P
  <2> QED
    BY <1>1, <1>2, <1>3, BarsStep
<1>5. Queues!Abandon(q)
  BY <1>1, <1>4 DEF Queues!Abandon, Queues!Free, Free, QueueBar, TodoBar
<1> QED
  BY <1>2, <1>5

\* A walk that starts has all entries of the queue before it.
LEMMA StartStep ==
  ASSUME ListInv, NEW Q, Represents(mem, on, Q), NEW q \in Queue, ForEachStart(q)
  PROVE  (\E P : Represents(mem', on', P)) /\ Queues!ForEachStart(q)
<1>1. /\ mem' = mem /\ on' = on /\ scan = None /\ scan' = q /\ pos' = mem.next[q]
      /\ call' = <<"ForEachStart", q>>
  BY DEF ForEachStart
<1>2. q # None
  BY ListAssumption
<1>3. TodoBar' = QueueBar[q]
  BY <1>1, <1>2 DEF TodoBar, QueueBar
<1>4. QueueBar' = QueueBar
  BY <1>1 DEF QueueBar
<1>5. Queues!ForEachStart(q)
  BY <1>1, <1>3, <1>4 DEF Queues!ForEachStart, QueueBar, TodoBar
<1> QED
  BY <1>1, <1>5

\* A walk that has come to the head has nothing before it.
LEMMA EndStep ==
  ASSUME ListInv, NEW Q, Represents(mem, on, Q), ForEachEnd
  PROVE  (\E P : Represents(mem', on', P)) /\ Queues!ForEachEnd
<1> DEFINE s == Q[scan]
<1>1. mem' = mem /\ on' = on /\ scan # None /\ pos = scan /\ scan' = None /\ call' = <<"ForEachEnd">>
  BY DEF ForEachEnd
<1>2. scan \in Queue /\ pos \in Chained(on) /\ Owner(on, pos) = scan
  BY <1>1 DEF ListInv, PointersRight, Right
<1>3. PICK k \in 1..Len(s) + 1 : pos = At(scan, s, k) /\ Entries(mem, pos, scan) = SubSeq(s, k, Len(s))
  BY <1>2, RestRead
<1>4. s \in Seq(Entry) /\ Uniq(s) /\ Len(s) \in Nat
  BY <1>2, RingOwner
<1> HIDE DEF s
<1>5. k = Len(s) + 1
  <2>1. At(scan, s, Len(s) + 1) = scan /\ Len(s) + 1 \in 1..Len(s) + 1
    BY <1>2, <1>4, RingPlaces
  <2>2. \A i, j \in 1..Len(s) + 1 : At(scan, s, i) = At(scan, s, j) => i = j
    BY <1>2, <1>4, RingPlaces
  <2> QED
    BY <1>1, <1>3, <2>1, <2>2
<1>6. SubSeq(s, k, Len(s)) = << >>
  BY <1>4, <1>5
<1>7. TodoBar = << >> /\ TodoBar' = << >>
  BY <1>1, <1>3, <1>6 DEF TodoBar
<1>8. QueueBar' = QueueBar
  BY <1>1 DEF QueueBar
<1>9. Queues!ForEachEnd
  BY <1>1, <1>7, <1>8 DEF Queues!ForEachEnd, QueueBar, TodoBar
<1> QED
  BY <1>1, <1>9

\* A turn of the loop of for_each_entry_safe(): the entry in hand is the first of
\* those before the walk, and the link read in advance is the place of the
\* next one, also in the ring without the entry.
LEMMA BodyStep ==
  ASSUME ListInv, NEW Q, Represents(mem, on, Q), ForEachBody
  PROVE  (\E P : Represents(mem', on', P)) /\ Queues!ForEachBody
<1> DEFINE s == Q[scan]
           N == Len(s)
<1>1. scan # None /\ pos # scan /\ scan' = scan /\ pos' = n
  BY DEF ForEachBody, Advance
<1>2. scan \in Queue /\ pos \in Chained(on) /\ Owner(on, pos) = scan /\ n = mem.next[pos]
  BY <1>1 DEF ListInv, PointersRight, Right
<1>3. s \in Seq(Entry) /\ Uniq(s) /\ N \in Nat /\ Ring(mem, scan, s) /\ mem \in Mem
  BY <1>2, RingOwner DEF Represents
<1>4. PICK k \in 1..N + 1 : pos = At(scan, s, k) /\ Entries(mem, pos, scan) = SubSeq(s, k, N)
  BY <1>2, RestRead
<1>5. k \in 1..N /\ pos = s[k] /\ pos \in Entry
  <2>1. k # N + 1
    BY <1>1, <1>2, <1>3, <1>4, RingPlaces
  <2>2. k \in 1..N
    BY <1>3, <2>1
  <2> QED
    BY <1>2, <1>3, <1>4, <2>2, RingPlaces
<1>6. n = At(scan, s, k + 1)
  <2>1. k \in 0..N
    BY <1>3, <1>5
  <2> QED
    BY <1>2, <1>3, <1>4, <2>1 DEF Ring
<1>7. QueueBar = Q
  BY QueuesRead DEF QueueBar
<1> HIDE DEF s
<1>8. TodoBar # << >> /\ Head(TodoBar) = pos /\ Tail(TodoBar) = SubSeq(s, k + 1, N)
  <2>1. TodoBar = SubSeq(s, k, N)
    BY <1>1, <1>4 DEF TodoBar
  <2> DEFINE t == SubSeq(s, k, N)
  <2>2. t \in Seq(Entry) /\ Len(t) = N - k + 1 /\ \A i \in 1..N - k + 1 : t[i] = s[k + i - 1]
    BY <1>3, <1>5
  <2> HIDE DEF t
  <2>3. t # << >> /\ Head(t) = s[k]
    BY <1>3, <1>5, <2>2
  <2>4. Tail(t) = SubSeq(s, k + 1, N)
    <3>1. Tail(t) = [i \in 1..N - k |-> t[i + 1]]
      <4>1. Len(t) - 1 = N - k /\ Len(t) \in Nat
        BY <1>3, <1>5, <2>2
      <4> DEFINE l == Tail(t)
      <4>2. l \in Seq(Entry) /\ Len(l) = Len(t) - 1 /\ \A i \in 1..Len(t) - 1 : l[i] = t[i + 1]
        BY <2>2, <2>3
      <4> HIDE DEF l
      <4>3. l = [i \in 1..N - k |-> l[i]]
        BY <4>1, <4>2
      <4> QED
        BY <4>1, <4>2, <4>3 DEF l
    <3>2. SubSeq(s, k + 1, N) = [i \in 1..N - k |-> s[k + 1 + i - 1]]
      <4>1. N - (k + 1) + 1 = N - k
        BY <1>3, <1>5
      <4> QED
        BY <1>3, <1>5, <4>1
    <3>3. \A i \in 1..N - k : t[i + 1] = s[k + 1 + i - 1]
      <4> SUFFICES ASSUME NEW i \in 1..N - k PROVE t[i + 1] = s[k + 1 + i - 1]
        OBVIOUS
      <4>1. i + 1 \in 1..N - k + 1 /\ k + (i + 1) - 1 = k + 1 + i - 1
        BY <1>3, <1>5
      <4> QED
        BY <2>2, <4>1
    <3> QED
      BY <3>1, <3>2, <3>3
  <2> QED
    BY <1>5, <2>1, <2>3, <2>4 DEF t
<1>9. CASE mem' = mem /\ on' = on /\ call' = <<"Passed", pos>>
  <2>1. k + 1 \in 1..N + 1
    BY <1>3, <1>5
  <2>2. Entries(mem, n, scan) = SubSeq(s, k + 1, N)
    BY <1>2, <1>3, <1>6, <2>1, EntriesRead
  <2>3. TodoBar' = Tail(TodoBar)
    BY <1>1, <1>8, <1>9, <2>2 DEF TodoBar
  <2>4. QueueBar' = QueueBar
    BY <1>9 DEF QueueBar
  <2>5. Queues!ForEachBody
    BY <1>1, <1>8, <1>9, <2>3, <2>4 DEF Queues!ForEachBody, QueueBar, TodoBar
  <2> QED
    BY <1>9, <2>5
<1>10. CASE mem' = Unlinked(mem, pos) /\ on' = [on EXCEPT ![pos] = None] /\ call' = <<"Unlinked", pos>>
  <2> DEFINE r == Without(s, {pos})
             P == [Q EXCEPT ![scan] = Without(@, {pos})]
  <2>1. on[pos] = scan
    BY <1>2, <1>5, ListAssumption DEF Owner
  <2>2. Represents(mem', on', P)
    BY <1>1, <1>5, <1>10, <2>1, UnlinkedRing
  <2>3. QueueBar' = P
    BY <2>2, BarsRead
  <2>4. r \in Seq(Entry) /\ Uniq(r) /\ Placed(s, r, k, s[k])
    BY <1>3, <1>5, WithoutProperties, WithoutOne
  <2>5. P[scan] = r
    BY <1>2 DEF Represents, s
  <2>6. mem' \in Mem /\ Ring(mem', scan, r)
    BY <1>2, <2>2, <2>5 DEF Represents
  <2> HIDE DEF r, P
  <2>7. Len(r) = N - 1 /\ At(scan, r, k) = n
    <3>1. k \in 1..Len(s) /\ k \in k..Len(s)
      BY <1>3, <1>5
    <3>2. Len(r) = Len(s) - 1 /\ \A j \in k..Len(s) : At(scan, r, j) = At(scan, s, j + 1)
      BY <1>3, <2>4, <3>1, LeftAt
    <3> QED
      BY <1>6, <3>1, <3>2
  <2>8. Entries(mem', n, scan) = SubSeq(r, k, Len(r))
    <3>1. k \in 1..Len(r) + 1
      BY <1>3, <1>5, <2>7
    <3>2. Entries(mem', At(scan, r, k), scan) = SubSeq(r, k, Len(r))
      BY <1>2, <2>4, <2>6, <3>1, EntriesRead
    <3> QED
      BY <2>7, <3>2
  <2>9. SubSeq(r, k, Len(r)) = SubSeq(s, k + 1, N)
    <3>1. SubSeq(r, k, Len(r)) = [i \in 1..N - k |-> r[k + i - 1]]
      <4>1. Len(r) - k + 1 = N - k
        BY <1>3, <1>5, <2>7
      <4>2. SubSeq(r, k, Len(r)) = [i \in 1..(Len(r) - k + 1) |-> r[k + i - 1]]
        BY <1>3, <1>5, <2>4, <2>7
      <4> QED
        BY <4>1, <4>2
    <3>2. SubSeq(s, k + 1, N) = [i \in 1..N - k |-> s[k + 1 + i - 1]]
      <4>1. N - (k + 1) + 1 = N - k
        BY <1>3, <1>5
      <4> QED
        BY <1>3, <1>5, <4>1
    <3>3. \A i \in 1..N - k : r[k + i - 1] = s[k + 1 + i - 1]
      <4> SUFFICES ASSUME NEW i \in 1..N - k PROVE r[k + i - 1] = s[k + 1 + i - 1]
        OBVIOUS
      <4>1. k + i - 1 \in 1..Len(r) /\ ~(k + i - 1 < k) /\ (k + i - 1) + 1 = k + 1 + i - 1
        BY <1>3, <1>5, <2>7
      <4> QED
        BY <2>4, <4>1 DEF Placed
    <3> QED
      BY <3>1, <3>2, <3>3
  <2>10. TodoBar' = Tail(TodoBar)
    BY <1>1, <1>8, <2>8, <2>9 DEF TodoBar
  <2>11. Queues!ForEachBody
    BY <1>1, <1>7, <1>8, <1>10, <2>3, <2>10, SameOperators DEF P, Queues!ForEachBody, QueueBar, TodoBar
  <2> QED
    BY <2>2, <2>11
<1> QED
  BY <1>9, <1>10 DEF ForEachBody

\* The start of the kernel: every queue is empty.
LEMMA QueuesStart ==
  ASSUME Init
  PROVE  (\E Q : Represents(mem, on, Q)) /\ Queues!Init
<1> DEFINE Q == [q \in Queue |-> << >>]
<1>1. /\ mem = [next |-> [x \in Link |-> x], prev |-> [x \in Link |-> x]]
      /\ on = [e \in Entry |-> None] /\ scan = None /\ call = << >>
  BY DEF Init
<1>2. mem \in Mem /\ \A x \in Link : mem.next[x] = x /\ mem.prev[x] = x
  BY <1>1 DEF Mem
<1>3. on \in [Entry -> Queue \cup {None}] /\ \A e \in Entry : on[e] = None
  BY <1>1
<1>4. Q \in [Queue -> Seq(Entry)] /\ Elems(<< >>) = {} /\ Uniq(<< >>)
  BY SmallQueues
<1>5. \A q \in Queue : Ring(mem, q, << >>)
  BY <1>2 DEF Ring, At, Link
<1>6. Represents(mem, on, Q)
  BY <1>2, <1>3, <1>4, <1>5, ListAssumption DEF Represents
<1>7. QueueBar = Q
  BY <1>6, QueuesRead DEF QueueBar
<1>8. Queues!Init
  BY <1>1, <1>7 DEF Queues!Init, QueueBar
<1> QED
  BY <1>6, <1>8

\* Every step of the pointers is one of the queues, by the operation of its name.
LEMMA QueuesStep ==
  ASSUME ListInv, NEW Q, Represents(mem, on, Q), [Next]_listVars
  PROVE  (\E P : Represents(mem', on', P)) /\ [Queues!Next]_(Queues!queueVars)
<1>1. CASE UNCHANGED listVars
  <2>1. mem' = mem /\ on' = on /\ scan' = scan /\ pos' = pos /\ call' = call
    BY <1>1 DEF listVars
  <2> QED
    BY <2>1 DEF Queues!queueVars
<1>2. ASSUME NEW e \in Entry, Del(e) \/ Unlink(e)
      PROVE  (\E P : Represents(mem', on', P)) /\ [Queues!Next]_(Queues!queueVars)
  BY <1>2, DelStep, UnlinkStep DEF Queues!Next
<1>3. ASSUME NEW e \in Entry, NEW q \in Queue, AddTail(e, q) \/ Requeue(e, q) \/ Rejoin(e, q)
      PROVE  (\E P : Represents(mem', on', P)) /\ [Queues!Next]_(Queues!queueVars)
  BY <1>3, TailStep DEF Queues!Next
<1>4. ASSUME NEW e \in Entry, NEW f \in Entry, AddBefore(e, f)
      PROVE  (\E P : Represents(mem', on', P)) /\ [Queues!Next]_(Queues!queueVars)
  BY <1>4, AddBeforeStep DEF Queues!Next
<1>5. ASSUME NEW q \in Queue, TakeFirst(q) \/ Abandon(q) \/ ForEachStart(q)
      PROVE  (\E P : Represents(mem', on', P)) /\ [Queues!Next]_(Queues!queueVars)
  BY <1>5, TakeFirstStep, AbandonStep, StartStep DEF Queues!Next
<1>6. CASE ForEachBody
  BY <1>6, BodyStep DEF Queues!Next
<1>7. CASE ForEachEnd
  BY <1>7, EndStep DEF Queues!Next
<1> QED
  BY <1>1, <1>2, <1>3, <1>4, <1>5, <1>6, <1>7 DEF Next

\* The pointers of kernel/list.h implement queues, for any number of queues and
\* entries: what next leads through is the sequence that the other modules take a
\* queue to be, and each operation changes it as the one of the same name and
\* arguments does in QueueSpec (behind all others, before the entry it is given,
\* the first one, the one it is given).  tkmc_list_for_each_entry_safe() visits
\* every entry once, in order, also when the body of the loop unlinks the one it
\* is at.
THEOREM QueuesImplemented == Spec => ImplementsQueues
<1> DEFINE Inv == ListInv /\ \E Q : Represents(mem, on, Q)
<1>1. Init => Inv /\ Queues!Init
  BY QueuesStart, ListStart
<1>2. Inv /\ [Next]_listVars => Inv' /\ [Queues!Next]_(Queues!queueVars)
  <2> SUFFICES ASSUME Inv, [Next]_listVars PROVE Inv' /\ [Queues!Next]_(Queues!queueVars)
    OBVIOUS
  <2>1. PICK Q : Represents(mem, on, Q)
    OBVIOUS
  <2>2. ListInv'
    BY ListStep
  <2> QED
    BY <2>1, <2>2, QueuesStep
<1> HIDE DEF Inv
<1> QED
  BY <1>1, <1>2, PTL DEF Spec, ImplementsQueues, Queues!Spec
=============================================================================
