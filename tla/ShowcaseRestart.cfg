SPECIFICATION Spec
CONSTANTS
  Token = {t1, t2}
  GuestRun = {r1}
  c1 = c1
  Curated <- MCCurated
  SessionTTL = 3
  RunTTL = 4
  TouchInterval = 2
  Quota = 1
  MaxTime = 5
  MaxEvents = 2
  MaxCrashes = 1
INVARIANT CuratedAlwaysReady
