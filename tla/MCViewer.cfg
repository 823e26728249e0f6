SPECIFICATION Spec
CONSTANTS
  Nodes = {n1, n2, n3, n4, n5}
  NULL = NULL
  Infos = {a, z}
  Hidden = {z}
  MemLimit = 4
  Heights = {1, 2}
SYMMETRY Symmetry
INVARIANT TypeOK
INVARIANT ListLinked
INVARIANT ResizeSeen
PROPERTY Implements
PROPERTY Follows
PROPERTY RowsInOrder
PROPERTY KeysStayInList
CHECK_DEADLOCK FALSE
