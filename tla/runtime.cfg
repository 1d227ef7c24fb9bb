CONSTANTS
  c1 = c1
  c2 = c2
  Caller <- TwoCallers
  MainThread <- OneCaller
  NoCaller = NoCaller
  Faults = {"register", "renew", "unregister", "lease"}
  MaxBound = 2
  MaxLease = 2

SPECIFICATION FairSpec

INVARIANTS
  TypeOK
  NoOrphanServer
  LeaseHasOwner

PROPERTIES
  LostLeaseStops
  CallsReturn
