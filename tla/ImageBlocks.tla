---------------------------- MODULE ImageBlocks ----------------------------
(***************************************************************************)
(* What AdaptiveImageScanner makes of an image: its rows, its blocks, and  *)
(* for every block the scan method of the best score and the values the    *)
(* iterator of the block yields (src/AdaptiveImageScanner.h, src/View2D.h, *)
(* src/block_scorers.h).  An image is its width and the values in memory   *)
(* from its first pixel on; addresses count from 1.                        *)
(***************************************************************************)
EXTENDS ImageTraversal, Sequences

CONSTANTS
  ValueBits,    \* width of T: 8
  UseModel      \* NeighborDifferenceModel (-m), otherwise IdentityModel

ValueCount == 2 ^ ValueBits
Value == 0..(ValueCount - 1)

Ceil(n, d) == (n + d - 1) \div d

\* View2D::size: an incomplete last row counts.
Height(size, width) == Ceil(size, width)

BlockCount(width, height) == Ceil(width, BlockWidth) * Ceil(height, BlockHeight)

\* Mutant: the width of an image in blocks is rounded down.
StartPosForBlock_RoundsDown(block, width) ==
  LET across == IF width < BlockWidth THEN 1 ELSE width \div BlockWidth
  IN At((block % across) * BlockWidth, (block \div across) * BlockHeight)

\* Blocks are numbered row by row.
StartPosForBlock(block, width) ==
  LET across == Ceil(width, BlockWidth)
  IN At((block % across) * BlockWidth, (block \div across) * BlockHeight)

PosInImage(start, pos) == At(start.x + pos.x, start.y + pos.y)

IsInside(pos, width, height) == pos.x < width /\ pos.y < height

\* RowAccessor's operator[].
Address(pos, width) == width * pos.y + pos.x + 1

-----------------------------------------------------------------------------
(***************************************************************************)
(* The models, one value at a time: what they return for a value and the   *)
(* lastVal they are left with.                                             *)
(***************************************************************************)
Apply(value, lastVal) == IF UseModel THEN (value - lastVal) % ValueCount ELSE value

Revert(value, lastVal) == IF UseModel THEN (value + lastVal) % ValueCount ELSE value

\* What Block::Iterator yields from the first index to the last: its model is
\* fresh, and pixels outside of the image are zeros that do not pass it.
BlockSymbols(pixels, width, height, start, method) ==
  LET PosAt(i) == PosInImage(start, IteratorPos(method, i))
      Inside(i) == IsInside(PosAt(i), width, height)
      PixelAt(i) == pixels[Address(PosAt(i), width)]
      LastVal[i \in 0..BlockSize] ==
        IF i = 0 THEN 0
        ELSE IF Inside(i - 1) THEN PixelAt(i - 1) ELSE LastVal[i - 1]
  IN [i \in 1..BlockSize |->
        IF Inside(i - 1) THEN Apply(PixelAt(i - 1), LastVal[i - 1]) ELSE 0]

\* NeighborDifferenceScorer: how far its score is from MaxScore in the end.
Variation(symbols) ==
  LET Distance(a, b) == IF a < b THEN b - a ELSE a - b
      Sum[i \in 0..Len(symbols)] ==
        IF i = 0 THEN 0
        ELSE Sum[i - 1] + Distance(symbols[i], IF i = 1 THEN 0 ELSE symbols[i - 1])
  IN Sum[Len(symbols)]

\* getBestBlockForIndex: the first method of the best score, as its number.
BestMethod(pixels, width, height, start) ==
  LET variation == [i \in DOMAIN ScanMethods |->
        Variation(BlockSymbols(pixels, width, height, start, ScanMethods[i]))]
  IN CHOOSE i \in DOMAIN ScanMethods :
       \A j \in DOMAIN ScanMethods :
         variation[i] < variation[j] \/ (variation[i] = variation[j] /\ i <= j)
=============================================================================
