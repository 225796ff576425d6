\* The checked properties of Boot, Ide and Context.  The model ends where the
\* machine hangs, where a CD call that was crossed polls for ever, and at its
\* bounds.
SPECIFICATION MCSpec
CONSTANTS
  t1 = t1
  t2 = t2
  t3 = t3
  Hardware <- MCHardware
  Users <- MCUsers
  Low = 2
  High = 2
  Blocks = 2
  Per = 2
  Span = 3
  W = 2
  Junk = "junk"
  MaxCnt = 2
  MaxCalls = 2
  MaxErrors = 1
  Tasks <- MCTasks
  Main = t1
  Shells <- MCShells
  MaxApps = 2
INVARIANTS
  Interrupts
  DriveKnown
  CallsRight
  RegistersKept
CHECK_DEADLOCK FALSE
