CONSTANTS
  Archs <- MCArchs
  NoData <- MCNoData
  EntryCodes <- MCEntryCodes
  IA32Code <- MCIA32Code
  Address <- MCAddress
  find_syscall_table_addr <- ud_find_syscall_table_addr
  get_stub <- Function
  patch_addr <- ud_patch_addr
  patch_cmp <- ud_patch_cmp
  Blocks = {1, 2, 3, 4, 5}
  MaxLoads = 2

SPECIFICATION Spec

CHECK_DEADLOCK FALSE
CONSTRAINT Searched

INVARIANTS
  TypeOK
  LengthsAgree
  TableFound
  FilesSwitch

PROPERTIES
  PatchesText
  Implements
