----------------------------- MODULE QueueSpec -----------------------------
(***************************************************************************)
(* What the other modules take the kernel's lists for: queues of entries,  *)
(* as sequences, with one action for each way in which the kernel uses     *)
(* them, and a walk that visits every entry of a queue once, in order,     *)
(* though the entry it visits may leave.  The variable call is shared with *)
(* List, so that an operation of List has to do what the one of the same   *)
(* name and arguments does here.                                           *)
(***************************************************************************)
EXTENDS KernelQueue

CONSTANTS Queue, Entry, None

VARIABLES
  queue,   \* the entries on every queue
  scan,    \* the queue that a walk is on, or None
  todo,    \* the entries that the walk has still to visit
  call     \* the last operation, with its arguments and the entry it came to

queueVars == <<queue, scan, todo, call>>

Loose == {e \in Entry : \A q \in Queue : e \notin Elems(queue[q])}

\* An operation on the queue q that may come during a walk on another one.
Free(q) == scan # q

Init == /\ queue = [q \in Queue |-> << >>]
        /\ scan = None
        /\ todo = << >>
        /\ call = << >>

\* An entry on no queue comes behind all entries of q.
Join(e, q) ==
  /\ Free(q) /\ e \in Loose
  /\ queue' = [queue EXCEPT ![q] = Append(@, e)]
  /\ UNCHANGED <<scan, todo>>

AddTail(e, q) == call' = <<"AddTail", e, q>> /\ Join(e, q)

\* An entry on no queue comes between f and what is ahead of f.
AddBefore(e, f) ==
  /\ call' = <<"AddBefore", e, f>>
  /\ \E q \in Queue : \E i \in 1..Len(queue[q]) :
       /\ Free(q) /\ e \in Loose /\ queue[q][i] = f
       /\ queue' = [queue EXCEPT ![q] = LinkedBefore(@, i, e)]
  /\ UNCHANGED <<scan, todo>>

\* e leaves the queue it is on; the others keep their order.
Leave(e) ==
  /\ \E q \in Queue : /\ Free(q) /\ e \in Elems(queue[q])
                      /\ queue' = [queue EXCEPT ![q] = Without(@, {e})]
  /\ UNCHANGED <<scan, todo>>

Del(e) == call' = <<"Del", e>> /\ Leave(e)

\* An entry on no queue stays as it is.
Unlink(e) ==
  /\ call' = <<"Unlink", e>>
  /\ \/ Leave(e)
     \/ e \in Loose /\ UNCHANGED <<queue, scan, todo>>

\* e goes from the queue it is on to the tail of r, which may be the same.
Move(e, r) ==
  /\ \E q \in Queue :
       /\ Free(q) /\ Free(r) /\ e \in Elems(queue[q])
       /\ queue' = [[queue EXCEPT ![q] = Without(@, {e})] EXCEPT ![r] = Append(@, e)]
  /\ UNCHANGED <<scan, todo>>

Requeue(e, r) == call' = <<"Requeue", e, r>> /\ Move(e, r)

\* e comes to the tail of r, from the queue it is on if it is on one.
Rejoin(e, r) == call' = <<"Rejoin", e, r>> /\ (Join(e, r) \/ Move(e, r))

\* The first entry of q leaves it.
TakeFirst(q) ==
  /\ Free(q) /\ queue[q] # << >>
  /\ call' = <<"TakeFirst", q, Head(queue[q])>>
  /\ queue' = [queue EXCEPT ![q] = Tail(@)]
  /\ UNCHANGED <<scan, todo>>

Abandon(q) ==
  /\ call' = <<"Abandon", q>>
  /\ Free(q)
  /\ queue' = [queue EXCEPT ![q] = << >>]
  /\ UNCHANGED <<scan, todo>>

ForEachStart(q) ==
  /\ call' = <<"ForEachStart", q>>
  /\ scan = None
  /\ scan' = q /\ todo' = queue[q]
  /\ UNCHANGED queue

\* The walk visits the next entry, which stays on the queue or leaves it.
ForEachBody ==
  /\ scan # None /\ todo # << >>
  /\ todo' = Tail(todo)
  /\ \/ /\ UNCHANGED queue
        /\ call' = <<"Passed", Head(todo)>>
     \/ /\ queue' = [queue EXCEPT ![scan] = Without(@, {Head(todo)})]
        /\ call' = <<"Unlinked", Head(todo)>>
  /\ UNCHANGED scan

ForEachEnd ==
  /\ call' = <<"ForEachEnd">>
  /\ scan # None /\ todo = << >>
  /\ scan' = None
  /\ UNCHANGED <<queue, todo>>

Next ==
  \/ \E e \in Entry : \/ Del(e) \/ Unlink(e)
                      \/ \E q \in Queue : AddTail(e, q) \/ Requeue(e, q) \/ Rejoin(e, q)
                      \/ \E f \in Entry : AddBefore(e, f)
  \/ \E q \in Queue : TakeFirst(q) \/ Abandon(q) \/ ForEachStart(q)
  \/ ForEachBody
  \/ ForEachEnd

Spec == Init /\ [][Next]_queueVars
=============================================================================
