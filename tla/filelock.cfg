CONSTANTS
  p = p
  q = q
  t1 = t1
  t2 = t2
  u1 = u1
  NoThread = NoThread
  Process <- MCProcess
  Thread <- MCThread
  Home <- MCHome
  Faults = {"unlock", "close"}
  MaxUpdates = 1

SPECIFICATION FileFairSpec

INVARIANTS
  FileTypeOK
  MutualExclusion
  OutsideOwnsNothing
  OnePerProcess

PROPERTIES
  UpdatesAreAtomic
  EnterReturns
  ImplementsMutex
