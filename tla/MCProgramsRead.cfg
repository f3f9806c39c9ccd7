SPECIFICATION Spec
CONSTANTS
  Names <- MCNames
  NameLength <- MCNameLength
  Data = {"a", "b", "50", "5C", "DE"}
  main_romdisk <- MCDisk
  Characters = {"A", "B", "space", "quote"}
  Lines <- MCLines
  MaxArgs = 3
  ArgLength = 4
  INJECTION = 2
  DEFAULT_MALLOC = 14
  MemLimit = 17
  TextSize = 2
  Lengths = {0, 1, 2, 3}
  Fds = {0, 1, 2}
CHECK_DEADLOCK FALSE
INVARIANTS
  ReadDelivers
