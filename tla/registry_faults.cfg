CONSTANTS
  s1 = s1
  s2 = s2
  NoSession = NoSession
  SessionId <- MCTwoSessions
  ExpiredLimit = 1
  MaxAge = 0
  LockWait = 0
  MaxLease = 3
  MaxNow = 1
  Faults = {"damage", "read", "write", "nonfinite"}

SPECIFICATION Spec

SYMMETRY Symmetry

INVARIANTS
  ActiveIsOldest
  HistoryIsPast
  RefusalIsFinal

PROPERTIES
  ImplementsLeaseTable
