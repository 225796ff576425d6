\* The scheduler: safety, and progress while applications may run for ever.
SPECIFICATION FairSpec
CONSTANTS
  Ta = Ta
  t1 = t1
  t2 = t2
  Terminals <- MCTerminals
  NoTask = NoTask
  MaxKeys = 3
  MaxWork = 1
INVARIANTS
  QueueShape
  NoLostWakeup
  EntriesPerKey
PROPERTIES
  NoStarvation
  QuietAgain
CHECK_DEADLOCK TRUE
