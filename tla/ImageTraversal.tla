--------------------------- MODULE ImageTraversal ---------------------------
(***************************************************************************)
(* The orders in which the positions of a block are scanned                *)
(* (src/image_traversal.h), for the encoder, whose Block::Iterator of      *)
(* src/AdaptiveImageScanner.h asks for the position of an index, and for   *)
(* the decoder, whose BlockScanData of src/adaptive_blocks_decoding.h      *)
(* moves from one position to the next.                                    *)
(***************************************************************************)
EXTENDS Integers

CONSTANTS
  BlockWidth,   \* columns and rows of a block: 8 and 8
  BlockHeight

(***************************************************************************)
(* Blocks of one row or column have no diagonals to turn at.               *)
(***************************************************************************)
ASSUME BlockAssumption ==
  /\ BlockWidth \in Nat \ {0, 1}
  /\ BlockHeight \in Nat \ {0, 1}

BlockSize == BlockWidth * BlockHeight

InBlock == [x : 0..(BlockWidth - 1), y : 0..(BlockHeight - 1)]
Origin == [x |-> 0, y |-> 0]

At(px, py) == [x |-> px, y |-> py]

\* The methods, numbered from 0 in the order of the enumeration.
ScanMethods ==
  <<"Vertical", "Horizontal", "ZigZag", "HilbertCurve", "MortonCurve">>

ScanMethod == {ScanMethods[i] : i \in DOMAIN ScanMethods}

-----------------------------------------------------------------------------
(***************************************************************************)
(* Zig-zag is an automaton that is told where it stands.                   *)
(***************************************************************************)
ZigZagState == {"Right", "Down", "LeftDown", "RightUp"}

ZigZagPos(p, state) ==
  CASE state = "Right"    -> At(p.x + 1, p.y)
    [] state = "Down"     -> At(p.x, p.y + 1)
    [] state = "LeftDown" -> At(p.x - 1, p.y + 1)
    [] state = "RightUp"  -> At(p.x + 1, p.y - 1)

\* Mutant: the bottom row is not a border.
ZigZagTurn_NoBottom(p, state) ==
  CASE state = "Right"    -> IF p.y = BlockHeight - 1 THEN "RightUp" ELSE "LeftDown"
    [] state = "Down"     -> IF p.x = BlockWidth - 1 THEN "LeftDown" ELSE "RightUp"
    [] state = "LeftDown" -> IF p.x = 0 THEN "Down" ELSE "LeftDown"
    [] state = "RightUp"  -> IF p.x = BlockWidth - 1 THEN "Down"
                             ELSE IF p.y = 0 THEN "Right" ELSE "RightUp"

\* The state after a move to p that was made in the given state.
ZigZagTurn(p, state) ==
  CASE state = "Right"    -> IF p.y = BlockHeight - 1 THEN "RightUp" ELSE "LeftDown"
    [] state = "Down"     -> IF p.x = BlockWidth - 1 THEN "LeftDown" ELSE "RightUp"
    [] state = "LeftDown" -> IF p.y = BlockHeight - 1 THEN "Right"
                             ELSE IF p.x = 0 THEN "Down" ELSE "LeftDown"
    [] state = "RightUp"  -> IF p.x = BlockWidth - 1 THEN "Down"
                             ELSE IF p.y = 0 THEN "Right" ELSE "RightUp"

ZigZagMove(p, state) ==
  [pos   |-> ZigZagPos(p, state),
   state |-> ZigZagTurn(ZigZagPos(p, state), state)]

-----------------------------------------------------------------------------
(***************************************************************************)
(* The others are functions of the index.                                  *)
(***************************************************************************)
Horizontal(index) == At(index % BlockWidth, index \div BlockWidth)

Vertical(index) == At(index \div BlockHeight, index % BlockHeight)

\* The positions of a quadruple along a Hilbert curve.
HilbertQuadruple == [i \in 0..3 |->
  CASE i = 0 -> At(0, 0) [] i = 1 -> At(0, 1) [] i = 2 -> At(1, 1) [] i = 3 -> At(1, 0)]

\* Mutant: the first quadrant is not turned.
HilbertQuadrant_NoTurn(q, h, p) ==
  CASE q = 0 -> p
    [] q = 1 -> At(p.x, p.y + h)
    [] q = 2 -> At(p.x + h, p.y + h)
    [] q = 3 -> At(h - 1 - p.y + h, h - 1 - p.x)

\* Position p of a curve of half side h, as its quadrant q turns and moves it.
HilbertQuadrant(q, h, p) ==
  CASE q = 0 -> At(p.y, p.x)
    [] q = 1 -> At(p.x, p.y + h)
    [] q = 2 -> At(p.x + h, p.y + h)
    [] q = 3 -> At(h - 1 - p.y + h, h - 1 - p.x)

Log2[n \in Nat] == IF n < 2 THEN 0 ELSE 1 + Log2[n \div 2]

\* The loop runs for n = 4, 8, ... up to the size of the block, twice as often
\* as there are quadrants to choose: the later turns only transpose the curve.
\* Curve[k] is the position when it has run for n = 2 ^ k.
HilbertCurve(index) ==
  LET Curve[k \in Nat \ {0}] ==
        IF k = 1 THEN HilbertQuadruple[index % 4]
        ELSE HilbertQuadrant((index \div 2 ^ (2 * (k - 1))) % 4, 2 ^ (k - 1), Curve[k - 1])
  IN Curve[Log2[BlockSize]]

\* Quadruples row by row, each scanned like a Z.
MortonCurve(index) ==
  At((((index \div 4) * 2) % BlockWidth) + (index % 2),
     (index \div (2 * BlockHeight)) * 2 + (index % 4) \div 2)

PosInBlock(method, index) ==
  CASE method = "Vertical"     -> Vertical(index)
    [] method = "Horizontal"   -> Horizontal(index)
    [] method = "HilbertCurve" -> HilbertCurve(index)
    [] method = "MortonCurve"  -> MortonCurve(index)

-----------------------------------------------------------------------------
(***************************************************************************)
(* Block::Iterator: the position it stands at after index increments.      *)
(***************************************************************************)
ZigZagAfter[index \in Nat] ==
  IF index = 0 THEN [pos |-> Origin, state |-> "Right"]
  ELSE LET before == ZigZagAfter[index - 1]
       IN ZigZagMove(before.pos, before.state)

IteratorPos(method, index) ==
  IF method = "ZigZag" THEN ZigZagAfter[index].pos ELSE PosInBlock(method, index)

(***************************************************************************)
(* BlockScanData: reset at the header of a block, move after every symbol. *)
(***************************************************************************)
ResetScan(method) ==
  [index |-> 0, pos |-> Origin, zigZagState |-> "Right", scanMethod |-> method]

\* Mutant: the position of the index before the move.
MoveScan_Late(scan) ==
  IF scan.scanMethod = "ZigZag"
  THEN LET moved == ZigZagMove(scan.pos, scan.zigZagState)
       IN [index |-> scan.index + 1, pos |-> moved.pos,
           zigZagState |-> moved.state, scanMethod |-> scan.scanMethod]
  ELSE [index |-> scan.index + 1, pos |-> PosInBlock(scan.scanMethod, scan.index),
        zigZagState |-> scan.zigZagState, scanMethod |-> scan.scanMethod]

MoveScan(scan) ==
  IF scan.scanMethod = "ZigZag"
  THEN LET moved == ZigZagMove(scan.pos, scan.zigZagState)
       IN [index |-> scan.index + 1, pos |-> moved.pos,
           zigZagState |-> moved.state, scanMethod |-> scan.scanMethod]
  ELSE [index |-> scan.index + 1, pos |-> PosInBlock(scan.scanMethod, scan.index + 1),
        zigZagState |-> scan.zigZagState, scanMethod |-> scan.scanMethod]
=============================================================================
