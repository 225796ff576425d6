\* The ring used with interrupts on, as hid.cpp:286-309 does behind xhci.cpp:427.
SPECIFICATION Spec
CONSTANTS
  Word <- MCWord
  Zero = 0
  Size = 3
  Masked = FALSE
INVARIANT
  NoLockError
CHECK_DEADLOCK FALSE
