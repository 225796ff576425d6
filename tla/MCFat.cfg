\* Three writes and up to two crashes, or three commands on directories.
SPECIFICATION MCSpec
CONSTANTS
  f1 = f1
  f2 = f2
  File <- MCFile
  NoFile = NoFile
  Last = 6
  PerSector = 4
  Sign = 6
  MaxBlocks = 3
  MaxOps = 3
  MaxCrashes = 2
  Name <- MCName
  Chars <- MCChars
  NoName = NoName
  Sub = "sub"
  Admin = "administrator"
  Epc = 8
  Disks <- MCDisks
  MaxCommands = 3
INVARIANTS
  ChainsApart
  NoLeak
  Answers
PROPERTIES
  ImplementsStore
  WritesEnd
CHECK_DEADLOCK FALSE
