CONSTANTS
  Senders = {s1, s2}
  Viewers = {v1}
  NoClient = NoClient
  MaxLinks = 2
  MaxEvents = 3

SPECIFICATION FairSpec

CHECK_DEADLOCK FALSE

INVARIANTS
  TypeOK
  SendSocket
  NlInitWhole

PROPERTIES
  NoDeliveryAfterExit
  Implements
  WakeDelivers
  StopWhileAsleep
