\* Loads of every source, one after the other.
SPECIFICATION Spec
CONSTANTS
  Words <- MCWords
  Sources <- MCSources
  Word = 16777216
  Numbers <- MCNumbers
  Units <- MCUnits
  KernelFiles <- MCKernelFiles
INVARIANTS
  TypeOK
  PositionsRight
  NothingLost
  ParsesTheGrammar
  StopsAtFirstError
  LastOneCounts
  SomethingToBoot
PROPERTIES
  LoadsEnd
