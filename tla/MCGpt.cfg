\* A small disk, sized as the program sizes it.
SPECIFICATION Spec
CONSTANTS
  EntryCount = 4
  Word = 16384
  DiskSizes <- MCDiskSizes
  Sizes <- MCSizes
  TypeStrings = {"uuid", "no uuid"}
  Uuids = {"uuid"}
  NullUuid = "null"
  Names = {"name"}
  NoName = "no name"
INVARIANTS
  TypeOK
  PartitionsDisjoint
  TablesApart
  PartitionsClearOfTables
  Packed
  CopiesAgree
  IInv
PROPERTY ImplementsAllocator
CHECK_DEADLOCK TRUE
