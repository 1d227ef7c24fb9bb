CONSTANTS
  s1 = s1
  s2 = s2
  NoSession = NoSession
  SessionId <- MCTwoSessions
  ExpiredLimit = 1
  MaxAge = 1
  LockWait = 0
  MaxLease = 2
  MaxNow = 1
  Faults = {"read"}

SPECIFICATION Spec

INVARIANTS
  OnlyMalformedSetAside
