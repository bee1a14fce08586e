SPECIFICATION Spec
CONSTANTS
  Symbol = {s0, s1, s2}
  Zero = s0
  RootOrder = 6
  MaxWeight = 4
CHECK_DEADLOCK FALSE
INVARIANT VitterInvariant
