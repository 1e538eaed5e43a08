\* The size in the header of a saved file system.
SPECIFICATION StreamSpec
CONSTANTS
  Names = {"a", "b"}
  Dot = "."
  DotDot = ".."
  Separator = "/"
  Freed = "freed"
  Data = {"data"}
  NoData = "no data"
  NameSize <- MCNameSize
  DataSize <- MCDataSize
  Paths <- MCPaths
  MaxNodes = 3
INVARIANT SizeIsOccupied
