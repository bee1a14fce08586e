--------------------------- MODULE BitConversions ---------------------------
(***************************************************************************)
(* The conversions of src/utils.h between values and bits, and the cells   *)
(* that BinaryEncoder releases, for the two adaptive coders.               *)
(***************************************************************************)
EXTENDS Integers, Sequences

CONSTANTS
  ValueCount,   \* values of T: 256
  CellBits      \* width of a cell of BinaryEncoder: 8

\* typeToBits: the value's own bits, the most significant first, behind as many
\* zeros as are wanted, or its lowest bits when fewer are.
TypeToBits(v, n) == [i \in 1..n |-> (v \div 2 ^ (n - i)) % 2]

\* Mutant: the first bit is taken for the lowest.
BinToIntegral_Reversed(bits) ==
  LET Partial[i \in 0..Len(bits)] ==
        IF i = 0 THEN 0 ELSE Partial[i - 1] + bits[i] * 2 ^ (i - 1)
  IN Partial[Len(bits)] % ValueCount

\* binToIntegral; the sum is truncated to T.
BinToIntegral(bits) ==
  LET Partial[i \in 0..Len(bits)] ==
        IF i = 0 THEN 0 ELSE Partial[i - 1] + bits[i] * 2 ^ (Len(bits) - i)
  IN Partial[Len(bits)] % ValueCount

\* The cells of BinaryEncoder start as zeros: the last one is filled with them.
FillCell(bits) ==
  bits \o [i \in 1..((-Len(bits)) % CellBits) |-> 0]
=============================================================================
