\* The list when mt is set while linked.
SPECIFICATION FairSpec
CONSTANTS
  Mt = Mt
  s1 = s1
  s2 = s2
  Others <- MCOthers
  NoTimer = NoTimer
  Modulus = 5
  SwitchCyc = 2
  MaxDelay = 2
INVARIANTS
  SliceEnds
  NoFreedTimer
PROPERTIES
  LoopsEnd
  SleepersWoken
CHECK_DEADLOCK TRUE
