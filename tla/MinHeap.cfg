\* Four keys, so that an entry can move through three levels.
CONSTANTS
  NumKeys = 4
  MaxValue = 1
SPECIFICATION Spec
INVARIANTS
  IndexExact
  HeapOrdered
PROPERTIES
  QueueKept
