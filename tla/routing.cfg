CONSTANTS
  r1 = r1
  r2 = r2
  g1 = g1
  w1 = w1
  Call <- TwoCalls
  Refresher <- TwoCalls
  Gui <- OneGui
  Worker <- OneWorker
  NoSession = NoSession
  Verifying = TRUE
  Providers = 2
  Name <- TwoNames
  Offers <- SomeOffers

SPECIFICATION FairSpec

CHECK_DEADLOCK FALSE

INVARIANTS
  TypeOK
  VerdictWasTrue
  FailsClosed
  ExecutedAsAnswered
  CloseEnds
  NeverHalfRefreshed

PROPERTIES
  ClosesOnlyItsOwn
  CallsAnswered
