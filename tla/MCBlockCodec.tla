---------------------------- MODULE MCBlockCodec ----------------------------
(***************************************************************************)
(* BlockCodec for TLC: images that make every scan method the best of some *)
(* block, that end within blocks and rows, and one that is too high.       *)
(***************************************************************************)
EXTENDS BlockCodec

MaxSmall == 3

\* Up to three pixels in rows of up to two, complete or not.
SmallImages ==
  {[width |-> w, data |-> d] :
     w \in 1..2, d \in UNION {[1..n -> {0, 1, 3}] : n \in 0..MaxSmall}}

\* An image of w times h pixels with the given values.
Image(w, h, PixelAt(_, _)) ==
  [width |-> w,
   data |-> [a \in 1..(w * h) |-> PixelAt((a - 1) % w, (a - 1) \div w)]]

\* The index of a position in the order of a method.
IndexOf(method, x, y) ==
  CHOOSE i \in 0..(BlockSize - 1) : IteratorPos(method, i) = At(x, y)

\* One block with two values, the second from index k of a method on.
StepImages ==
  {Image(BlockWidth, BlockHeight,
         LAMBDA x, y : IF IndexOf(ScanMethods[m], x, y) < k THEN 3 ELSE 1) :
     m \in DOMAIN ScanMethods, k \in 1..(BlockSize - 1)}

\* Two blocks side by side or one above the other, stepped along methods of
\* their own; the last column or row is missing.
PairImages ==
  {Image(2 * BlockWidth - 1, BlockHeight,
         LAMBDA x, y :
           IF IndexOf(ScanMethods[IF x < BlockWidth THEN m ELSE n], x % BlockWidth, y) < 6
           THEN 2 ELSE 1) : m, n \in DOMAIN ScanMethods}
  \cup
  {Image(BlockWidth, 2 * BlockHeight - 1,
         LAMBDA x, y :
           IF IndexOf(ScanMethods[IF y < BlockHeight THEN m ELSE n], x, y % BlockHeight) < 7
           THEN 3 ELSE 0) : m, n \in DOMAIN ScanMethods}

\* Four blocks, three of them incomplete.
WideImage == Image(BlockWidth + 1, BlockHeight + 2, LAMBDA x, y : (x + 2 * y) % 4)

\* A row of blocks more than the height can say.
HighImage == Image(2, DimensionCount + BlockHeight, LAMBDA x, y : (x + (y \div 3)) % 4)

MCImages == SmallImages \cup StepImages \cup PairImages \cup {WideImage, HighImage}
=============================================================================
