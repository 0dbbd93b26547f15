\* Two visitors, two keys, a cache of two outcomes and two requests at a time:
\* keys collide, entries are evicted and expire, and retries overtake.
SPECIFICATION Spec
CONSTANTS
  Caller = {ada, bob}
  Rate = 2
  Burst = 6
  Cost = 3
  IdleTTL = 3
  MaxTime = 4
  Key = {k1, k2}
  Request = {r1, r2}
  RememberTTL = 1
  MaxEntries = 2
  MaxSends = 4
INVARIANTS CommandsTypeOK OutcomesAreOwn AppliedOnceInTurn
PROPERTY ImplementsTokenBucket
SYMMETRY Symmetry
CHECK_DEADLOCK FALSE
