\* Two jobs on one endpoint whose breaker opens at the third failure, and bundles
\* of four pieces; three attempts each.
SPECIFICATION LiveSpec
CONSTANTS
  Caller = {c1, c2}
  Writer = {w1}
  Attempts = 3
  Threshold = 3
  N = 4
  Mishaps = 5
  Cancels = 2
INVARIANTS OneStray AbortedOnGiveUp
PROPERTIES Recovers FileIsAtomic ImplementsAtomic
CHECK_DEADLOCK FALSE
