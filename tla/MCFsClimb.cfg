\* Paths that climb out of the root and go on.
SPECIFICATION AnyPathSpec
CONSTANTS
  Names = {"a", "b"}
  Dot = "."
  DotDot = ".."
  Separator = "/"
  Freed = "freed"
  Data = {"data"}
  NoData = "no data"
  NameSize <- MCNameSize
  DataSize <- MCDataSize
  Paths <- MCPaths
  MaxNodes = 3
INVARIANT RootLeftOver
