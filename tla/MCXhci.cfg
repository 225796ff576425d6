\* A ring of five entries and its link; two ports, whose devices come and go,
\* whose transfers may fail and which may be without class driver.
SPECIFICATION MCSpec
CONSTANTS
  Trb <- MCTrb
  Zero <- MCZero
  Last = 5
  Burst = 3
  MaxPort = 2
  MaxSlot = 2
  MayFail = TRUE
  MaxPlug = 1
  MaxUnplug = 2
INVARIANTS
  Ownership
  OneDefault
  KeepsPresent
  NoDangling
PROPERTIES
  ImplementsQueue
  AllFetched
  TurnEnds
  AllStarted
CHECK_DEADLOCK FALSE
