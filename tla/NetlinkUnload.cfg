CONSTANTS
  Senders = {s1}
  Viewers = {v1}
  NoClient = NoClient
  MaxLinks = 1
  MaxEvents = 1

SPECIFICATION FairSpec

CHECK_DEADLOCK FALSE

PROPERTY UnloadEnds
