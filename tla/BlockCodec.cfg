\* Blocks of four by four and cells of three bits: a dimension has six bits in
\* the header, as many as the literals of two-bit values leave room for.
SPECIFICATION Spec
CONSTANTS
  Symbol = {0, 1, 2, 3}
  Zero = 0
  RootOrder = 8
  BlockWidth = 4
  BlockHeight = 4
  ValueBits = 2
  LiteralBits = 3
  CellBits = 3
  UseModel = TRUE
  Images <- MCImages
INVARIANTS
  TypeOK
  BlocksRestored
  CleanBetweenBlocks
  StopsAtEndMark
PROPERTIES
  ScansBlocks
  ImplementsCodec
