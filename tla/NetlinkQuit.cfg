CONSTANTS
  Senders = {s1}
  Viewers = {v1, v2}
  NoClient = NoClient
  MaxLinks = 1
  MaxEvents = 1

SPECIFICATION Spec

CHECK_DEADLOCK FALSE

PROPERTY QuitsOnlyItself
