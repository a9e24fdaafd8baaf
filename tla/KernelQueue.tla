---------------------------- MODULE KernelQueue ----------------------------
(***************************************************************************)
(* The kernel's queues (kernel/list.h) as sequences, head first: the ready *)
(* queues, the timer queue, the wait queues of the objects and the lists   *)
(* of free control blocks.  The list is doubly linked and intrusive, so    *)
(* that a control block leaves the middle of a queue without a search;     *)
(* here that is Without.                                                   *)
(***************************************************************************)
EXTENDS Integers, Sequences

\* The control blocks that are linked on the queue s.
Elems(s) == {s[i] : i \in 1..Len(s)}

\* No control block is linked twice on s.
Uniq(s) == \A i, j \in 1..Len(s) : s[i] = s[j] => i = j

\* The control blocks of s that are in S, in queue order.
Keep(s, S) ==
  LET kept[n \in 0..Len(s)] ==
        IF n = 0 THEN << >>
        ELSE IF s[n] \in S THEN Append(kept[n - 1], s[n]) ELSE kept[n - 1]
  IN kept[Len(s)]

\* s after tkmc_list_del() of every control block in S.
Without(s, S) == Keep(s, Elems(s) \ S)

\* s after x is linked before the control block in place n.
LinkedBefore(s, n, x) == Append(SubSeq(s, 1, n - 1), x) \o SubSeq(s, n, Len(s))

\* a is linked on s ahead of b.
Ahead(s, a, b) == \E i, j \in 1..Len(s) : i < j /\ s[i] = a /\ s[j] = b
=============================================================================
