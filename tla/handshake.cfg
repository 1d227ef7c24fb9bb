CONSTANTS
  Capacity = 2
  MaxWrites = 6

SPECIFICATION FairSpec

CHECK_DEADLOCK FALSE

INVARIANTS
  TypeOK

PROPERTIES
  WorkerNeverStuck
  ImplementsReadiness
