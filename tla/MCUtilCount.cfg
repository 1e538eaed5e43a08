\* A kernel in place of the file system loader.
SPECIFICATION UtilSpec
CONSTANTS
  EntryCount = 4
  Word = 16384
  DiskSizes <- MCDiskSizes
  Sizes <- MCSizes
  TypeStrings = {"stage two", "stage three", "file system", "other"}
  Uuids = {"stage two", "stage three", "file system", "other"}
  NullUuid = "null"
  Names = {"pure64"}
  FixedName = "pure64"
  NoName = "no name"
  RawHeader <- MCRawHeader
  RawEntry <- MCRawEntry
  Configs <- MCKernel
  StageTwoRoom = 1024
  StageTwoSize = 600
  LoaderSize = 512
  KernelSize = 1024
  Nodes = {"/boot", "/a"}
  Boot = "/boot"
  MaxArgs = 1
INVARIANT StageThreeCounted
