SPECIFICATION Spec
CONSTANTS
  Queue = {q1, q2}
  Entry = {e1, e2, e3}
  Poison = Poison
  None = None
INVARIANT LinksMatched
PROPERTY ImplementsQueues
