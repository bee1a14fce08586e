\* Two-bit values and bytes; the byte behind the lengths keeps one bit for the
\* padding and one for the shortest length, as eight bits hold three and five.
\* With an int of three bits five samples can have a code that overflows it.
SPECIFICATION Spec
CONSTANTS
  ValueBits = 2
  PaddingShift = 1
  IntBits = 3
  UseModel = TRUE
  MaxLength = 5
INVARIANTS
  TypeOK
  CompletePrefixCode
  TablesCoverCodes
  ShortestBody
PROPERTY
  ImplementsCodec
