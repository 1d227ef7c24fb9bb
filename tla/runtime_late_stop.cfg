CONSTANTS
  c1 = c1
  c2 = c2
  Caller <- OneCaller
  MainThread <- Ungated
  NoCaller = NoCaller
  Faults = {"lease"}
  MaxBound = 3
  MaxLease = 2

SPECIFICATION Spec

INVARIANTS
  PublishedIsServed
