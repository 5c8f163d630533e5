CONSTANTS
  Originals = {o1, o2}
  None = None
  MaxDate = 2
  MaxOps = 3
CHECK_DEADLOCK FALSE
SYMMETRY Alike
SPECIFICATION Spec
INVARIANTS
  Recoverable
