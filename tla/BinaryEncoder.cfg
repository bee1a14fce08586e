SPECIFICATION Spec
CONSTANTS
  CellBits = 4
  MaxBits = 12
\* Nothing is done with an encoder whose data has been released.
CHECK_DEADLOCK FALSE
INVARIANT
  CellsMatchSize
PROPERTY
  ImplementsBitString
