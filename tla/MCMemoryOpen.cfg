\* freemem with interrupts on; no application is started.
SPECIFICATION MCSpec
CONSTANTS
  t1 = t1
  t2 = t2
  Procs <- MCProcs
  Reserved <- MCReserved
  NPages = 5
  MaxPages = 2
  NList = 5
  Masked = FALSE
  NKept = 1
  NTables = 1
  Big = 4
  MaxRuns = 0
  MaxHeld = 1
  MaxKept = 2
  MaxList = 2
SYMMETRY MCSymmetry
INVARIANTS
  OnlyHeldInUse
CHECK_DEADLOCK FALSE
