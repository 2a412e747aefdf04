CONSTANTS
  t1 = t1
  t2 = t2
  Threads <- MCThreads
  Capacity = 2
  MaxCalls = 3
SYMMETRY ThreadSymmetry
SPECIFICATION Spec
INVARIANT LogBounded
INVARIANT LogKeepsCapacity
CHECK_DEADLOCK FALSE
