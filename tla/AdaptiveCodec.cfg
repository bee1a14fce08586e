\* Two-bit values, three-bit literals and two-bit cells keep the proportions of
\* 8, 9 and 8: a literal is one bit longer than a value and than a cell.
SPECIFICATION Spec
CONSTANTS
  Symbol = {0, 1, 2, 3}
  Zero = 0
  RootOrder = 8
  ValueBits = 2
  LiteralBits = 3
  CellBits = 2
  UseModel = TRUE
  MaxLength = 6
INVARIANTS
  TypeOK
  SameTree
  ParkedAtNYT
PROPERTY
  ImplementsCodec
