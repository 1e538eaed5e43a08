\* One header, entry or boot sector, read and written again and again.
SPECIFICATION Spec
CONSTANTS
  Base = 9
  Radix = 3
  CodeBytes = 2
  NameBytes = 2
  SectorBytes = 96
  Literals <- MCLiterals
  Headers <- MCHeaders
  DiskUuids <- MCDiskUuids
  Strings <- MCStrings
  Stacks <- MCStacks
  Stages <- MCStages
  Sums = {4321}
  crc32 <- MCcrc32
  Found <- MCFound
  MaxCuts = 1
INVARIANTS
  RecordTypeOK
  SumsVerify
  TypeFound
PROPERTIES
  ImplementsFields
  BootSectorKept
