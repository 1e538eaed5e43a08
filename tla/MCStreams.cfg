\* Two partition streams and the host on one file.
SPECIFICATION StreamSpec
CONSTANTS
  Bytes = {0, 1}
  ZeroByte = 0
  LongMax = 4
  BufSize = 2
  Host = "host"
  Streams = {"a", "b"}
  Offset <- MCOffset
  Extent <- MCExtent
  Word = 16
  Counts = {0, 1, 2, 3, 4, 5}
INVARIANT StreamTypeOK
PROPERTIES
  EachIsPrivate
  ZeroExact
