SPECIFICATION FairSpec
CONSTANTS
  ta = ta
  t1 = t1
  a = a
  b = b
  Main = ta
  Others <- MCOthers
  NoTask = NoTask
  Blocks = 1
  Per = 3
  Wrap = 2
  Value <- MCValue
  Zero = a
  Size = 3
  MaxCalls = 2
  MaxOdd = 1
INVARIANT
  EventsOnce
PROPERTIES
  ImplementsDisk
  CallsEnd
CHECK_DEADLOCK FALSE
