SPECIFICATION Spec
CONSTANTS
  Request = {q1, q2}
  Session = {s1, s2}
  Run = {r1, r2, r3}
  Max = 2
  Quota = 1
  MaxOrders = 1
  Buffer = 1
SYMMETRY MCSymmetry
INVARIANTS CapacityHeld QuotaBound SlotsExact CleanShutdown
