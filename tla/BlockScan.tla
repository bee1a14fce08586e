----------------------------- MODULE BlockScan -----------------------------
(***************************************************************************)
(* The decoder's walk over the positions of a block, one block after the   *)
(* other: BlockScanData of src/adaptive_blocks_decoding.h is reset when    *)
(* the header of a block has named its scan method and moves after every   *)
(* symbol, the last one of the block included.  BlockCodec composes this   *)
(* module with the decoder that resets and moves.                          *)
(***************************************************************************)
EXTENDS ImageTraversal, FiniteSets

VARIABLES
  scan,     \* blockScanData: index, pos, zigZagState and scanMethod
  visited   \* history: the positions the symbols of the block were written to

scanVars == <<scan, visited>>

\* The data starts as zeros.
ScanInit ==
  /\ scan = ResetScan(ScanMethods[1])
  /\ visited = {Origin}

\* What is behind the last position of a block is not a position.
Restart(method) ==
  /\ scan' = ResetScan(method)
  /\ visited' = {Origin}

Advance ==
  /\ scan' = MoveScan(scan)
  /\ visited' = IF scan.index + 1 < BlockSize THEN visited \cup {scan'.pos} ELSE visited

\* Mutant: the automaton keeps the state it was left in.
Reset_KeepsState ==
  /\ scan.index \in {0, BlockSize}
  /\ \E method \in ScanMethod :
       scan' = [ResetScan(method) EXCEPT !.zigZagState = scan.zigZagState]
  /\ visited' = {Origin}

\* The header of the next block: no block is left before its end.
Reset ==
  /\ scan.index \in {0, BlockSize}
  /\ \E method \in ScanMethod : Restart(method)

\* A symbol of the block.
Move ==
  /\ scan.index < BlockSize
  /\ Advance

ScanNext == Reset \/ Move

ScanSpec == ScanInit /\ [][ScanNext]_scanVars

-----------------------------------------------------------------------------
(***************************************************************************)
(* Properties.                                                             *)
(***************************************************************************)
\* The types of the variables; the position behind the last one of a block is
\* not in it, but no coordinate has wrapped around below 0.
ScanTypeOK ==
  /\ scan \in [index : 0..BlockSize, pos : [x : Nat, y : Nat],
               zigZagState : ZigZagState, scanMethod : ScanMethod]
  /\ visited \subseteq InBlock

\* Every symbol before the end of the block goes to a position of the block
\* that none has gone to, whatever the method: no pixel is written twice.
VisitsNew ==
  [][Move /\ scan.index + 1 < BlockSize => scan'.pos \in InBlock \ visited]_scanVars

\* At the end of a block every one of its pixels has been written.
CoversBlock == scan.index = BlockSize => visited = InBlock

\* Encoder and decoder, which find their positions in different ways, are at
\* the same one for the same symbol.
SamePosition ==
  scan.index < BlockSize => scan.pos = IteratorPos(scan.scanMethod, scan.index)

Near(method, p, q) ==
  LET dx == q.x - p.x
      dy == q.y - p.y
  IN /\ method = "ZigZag" => dx \in -1..1 /\ dy \in -1..1
     /\ method = "HilbertCurve" => dx * dx + dy * dy = 1

\* Zig-zag never jumps and Hilbert's curve only goes to one of four neighbours,
\* although its loop runs longer than the block is deep: neighbours in the
\* order are neighbours in the image, which is what these methods are for.
StaysNear ==
  [][Move /\ scan.index + 1 < BlockSize => Near(scan.scanMethod, scan.pos, scan'.pos)]_scanVars
=============================================================================
