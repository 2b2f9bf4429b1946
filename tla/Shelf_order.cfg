\* Two captures inside one minute, and inside the milliseconds an id keeps of it.
SPECIFICATION Spec
CONSTANTS
  Snapshot = {"s1", "s2"}
  Storage = {"a"}
  Span = 4
  Minute = 3
  MaxTime = 2
  MaxUpsets = 0
  MaxLists = 0
INVARIANT SeenInTimeOrder
CHECK_DEADLOCK FALSE
