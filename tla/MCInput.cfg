SPECIFICATION Spec
CONSTANTS
  Main = Main
  Other = Other
  NoTask = NoTask
  NoDevice = NoDevice
  Descriptors <- MCDescriptors
  Live <- MCLive
  Keys = {4, 5, 6}
  MaxInputs = 4
  MaxOdd = 1
  MaxBytes = 9
  MaxLost = 1
INVARIANTS
  NeverAstray
  KeysFollow
  Aligned
  ReportRead
CHECK_DEADLOCK FALSE
