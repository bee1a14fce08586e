SPECIFICATION Spec
CONSTANTS
  Symbol = {0, 1, 2, 3}
  Zero = 0
  RootOrder = 8
  ValueBits = 2
  LiteralBits = 3
  CellBits = 2
  UseModel = TRUE
  MaxLength = 2
INVARIANT StopsAtEof
