\* The ring used with interrupts off, as kernel.cpp:329 and terminal.cpp:15 do.
SPECIFICATION Spec
CONSTANTS
  Word <- MCWord
  Zero = 0
  Size = 3
  Masked = TRUE
INVARIANTS
  NoLockError
PROPERTY
  ImplementsQueue
CHECK_DEADLOCK TRUE
