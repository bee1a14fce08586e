\* No symmetry: it is unsound for liveness.
SPECIFICATION Spec
CONSTANTS
  Symbol = {s0, s1, s2}
  Zero = s0
  RootOrder = 6
  MaxWeight = 6
\* The model stops at MaxWeight.
CHECK_DEADLOCK FALSE
PROPERTIES
  Terminates
  ImplementsTable
