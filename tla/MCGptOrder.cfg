\* Entries sized in any order.
SPECIFICATION ApiSpec
CONSTANTS
  EntryCount = 4
  Word = 16384
  DiskSizes <- MCDisk
  Sizes <- MCSizes
  TypeStrings = {"uuid"}
  Uuids = {"uuid"}
  NullUuid = "null"
  Names = {"name"}
  NoName = "no name"
INVARIANT PartitionsDisjoint
