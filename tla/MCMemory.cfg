\* freemem with interrupts off.
SPECIFICATION MCSpec
CONSTANTS
  t1 = t1
  t2 = t2
  Procs <- MCProcs
  Reserved <- MCReserved
  NPages = 8
  MaxPages = 2
  NList = 8
  Masked = TRUE
  NKept = 1
  NTables = 1
  Big = 3
  MaxRuns = 2
  MaxHeld = 1
  MaxKept = 2
  MaxList = 2
SYMMETRY MCSymmetry
INVARIANTS
  AppsOwn
  FrameOwn
CHECK_DEADLOCK FALSE
