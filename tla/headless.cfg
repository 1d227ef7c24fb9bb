CONSTANTS
  w1 = w1
  w2 = w2
  w3 = w3
  s1 = s1
  s2 = s2
  o1 = o1
  o2 = o2
  c1 = c1
  Worker <- TwoWorkers
  SessionId <- TwoSessions
  Opener <- OneOpener
  Closer <- OneCloser
  Shutdown = Shutdown
  None = None
  Faults = {"crash", "lease"}

SPECIFICATION FairSpec

CHECK_DEADLOCK FALSE

INVARIANTS
  TypeOK
  NoOrphan
  PublishedIsManaged

PROPERTIES
  LostLeaseReclaimed
  ShutdownStopsWorkers
