\* The size of the code's blocks.
SPECIFICATION ScanSpec
CONSTANTS
  BlockWidth = 8
  BlockHeight = 8
INVARIANTS
  ScanTypeOK
  CoversBlock
  SamePosition
PROPERTIES
  VisitsNew
  StaysNear
