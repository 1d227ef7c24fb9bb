CONSTANTS
  s1 = s1
  s2 = s2
  NoSession = NoSession
  SessionId <- MCTwoSessions
  ExpiredLimit = 1
  MaxAge = 1
  LockWait = 1
  MaxLease = 3
  MaxNow = 3
  Faults = {"write"}

SPECIFICATION Spec

SYMMETRY Symmetry

INVARIANTS
  TypeOK

PROPERTIES
  Fenced
  ReapsOnlySilent
  ExpireRemembers
