SPECIFICATION Spec
CONSTANTS
  Main = Main
  Terminals = {t1, t2}
  Apps = {a}
  Form = Form
  Desk = Desk
  None = None
  Wild = Wild
  Junk = Junk
  MaxWindows = 2
INVARIANTS
  Stacked
  Alive
PROPERTIES
  Raised
CHECK_DEADLOCK FALSE
SYMMETRY Alike
