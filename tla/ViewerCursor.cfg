SPECIFICATION Spec
CONSTANTS
  Nodes = {n1, n2, n3}
  NULL = NULL
  Infos = {a, z}
  Hidden = {z}
  MemLimit = 2
  Heights = {1}
PROPERTY NextVisible
CHECK_DEADLOCK FALSE
