\* Every path of two components, and some of three, that stay inside the root.
SPECIFICATION StreamSpec
CONSTANTS
  Names = {"a", "b"}
  Dot = "."
  DotDot = ".."
  Separator = "/"
  Freed = "freed"
  Data = {"data"}
  NoData = "no data"
  NameSize <- MCNameSize
  DataSize <- MCDataSize
  Paths <- MCPaths
  MaxNodes = 3
INVARIANTS
  TypeOK
  UniqueNames
  NormalizeKeepsMeaning
  WalkedPath
PROPERTIES
  ImplementsNamespace
  CallsEnd
