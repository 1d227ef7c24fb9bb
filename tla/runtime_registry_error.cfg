CONSTANTS
  c1 = c1
  c2 = c2
  Caller <- TwoCallers
  MainThread <- OneCaller
  NoCaller = NoCaller
  Faults = {"renew"}
  MaxBound = 2
  MaxLease = 2

SPECIFICATION Spec

INVARIANTS
  Watched
