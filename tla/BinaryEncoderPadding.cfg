SPECIFICATION Spec
CONSTANTS
  CellBits = 8
  MaxBits = 8
\* Nothing is done with an encoder whose data has been released.
CHECK_DEADLOCK FALSE
PROPERTY
  PaddingAligns
