CONSTANTS
  Threads = {t1}
  MaxLoads = 3

SPECIFICATION FairSpec
CHECK_DEADLOCK FALSE

INVARIANTS
  TypeOK
  ChainEnds
  EventsMatch
  ArmedMapped
  RealIntact
PROPERTIES
  Implements
  CallProceeds
