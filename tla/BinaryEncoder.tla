--------------------------- MODULE BinaryEncoder ---------------------------
(***************************************************************************)
(* The class of src/BinaryEncoder.h: bits are kept in cells of CellBits    *)
(* (a std::vector<T>) next to a count of the bits in use.  The cells are   *)
(* modelled as the sequence of their bits, the most significant first,     *)
(* whose length is always a whole number of cells.  The code says 8 and 7  *)
(* where it means the width of a cell, so that it is this for uint8_t only *)
(* (no other T is ever used); smaller cells are the same machine for TLC.  *)
(***************************************************************************)
EXTENDS Integers, Sequences

CONSTANTS
  CellBits,   \* TYPE_BIT_SIZE: 8 for uint8_t
  MaxBits     \* bound of the model: bits in the encoder

ASSUME BitsAssumption == CellBits \in Nat \ {0} /\ MaxBits \in Nat

VARIABLES
  rawData,   \* the bits of the cells
  size,      \* size_
  padding,   \* i of the loop of addPadding; NotPadding outside of it
  released,  \* what releaseData has moved out
  resized    \* history: resize has been called

vars == <<rawData, size, padding, released, resized>>

NotPadding == -1
Bit == {0, 1}
Cell(b) == [i \in 1..CellBits |-> b]
Cells(n) == (n + CellBits - 1) \div CellBits

Init ==
  /\ rawData = <<>>
  /\ size = 0
  /\ padding = NotPadding
  /\ released = <<>>
  /\ resized = FALSE

\* unusedBitsInCell: a whole cell when the last one is full.
UnusedBitsInCell == CellBits - (size % CellBits)

Ready == padding = NotPadding /\ released = <<>>

-----------------------------------------------------------------------------
\* Mutant: the next cell is made one bit too early.
Append1_EarlyCell(b) ==
  LET roomy == IF size + 1 >= Len(rawData) THEN rawData \o Cell(0) ELSE rawData
  IN /\ rawData' = [roomy EXCEPT ![size + 1] = b]
     /\ size' = size + 1

\* Mutant: a new cell is all ones.
Append1_OnesCell(b) ==
  LET roomy == IF size = Len(rawData) THEN rawData \o Cell(1) ELSE rawData
  IN /\ rawData' = [roomy EXCEPT ![size + 1] = b]
     /\ size' = size + 1

\* pushBack(bool): one more cell if all are full, then the bit and the count.
Append1(b) ==
  LET roomy == IF size = Len(rawData) THEN rawData \o Cell(0) ELSE rawData
  IN /\ rawData' = [roomy EXCEPT ![size + 1] = b]
     /\ size' = size + 1

PushBack(b) ==
  /\ Ready
  /\ size < MaxBits
  /\ Append1(b)
  /\ UNCHANGED <<padding, released, resized>>

\* setBitValue and the assignment through operator[], for a bit in use.
SetBitValue(i, b) ==
  /\ Ready
  /\ i < size
  /\ rawData' = [rawData EXCEPT ![i + 1] = b]
  /\ UNCHANGED <<size, padding, released, resized>>

\* Only cells that are new take the initial value.
Resize(n, b) ==
  /\ Ready
  /\ rawData' = [i \in 1..(Cells(n) * CellBits) |->
                   IF i <= Len(rawData) THEN rawData[i] ELSE b]
  /\ size' = n
  /\ resized' = TRUE
  /\ UNCHANGED <<padding, released>>

(***************************************************************************)
(* addPadding: the bound of the loop is evaluated again after every bit    *)
(* that it pushes.                                                         *)
(***************************************************************************)
StartPadding ==
  /\ Ready
  /\ size + CellBits <= MaxBits
  /\ padding' = 0
  /\ UNCHANGED <<rawData, size, released, resized>>

PadBit ==
  /\ padding # NotPadding
  /\ padding < UnusedBitsInCell
  /\ Append1(0)
  /\ padding' = padding + 1
  /\ UNCHANGED <<released, resized>>

EndPadding ==
  /\ padding # NotPadding
  /\ padding >= UnusedBitsInCell
  /\ padding' = NotPadding
  /\ UNCHANGED <<rawData, size, released, resized>>

\* releaseData: the cells are moved out, the count stays.
ReleaseData ==
  /\ Ready
  /\ released' = rawData
  /\ rawData' = <<>>
  /\ UNCHANGED <<size, padding, resized>>

Next ==
  \/ \E b \in Bit : PushBack(b) \/ \E i \in 0..MaxBits : SetBitValue(i, b)
  \/ StartPadding \/ PadBit \/ EndPadding
  \/ ReleaseData
  \/ \E n \in 0..MaxBits, b \in Bit : Resize(n, b)

\* The loop of addPadding runs to its end once it has begun.
Fairness == WF_vars(PadBit) /\ WF_vars(EndPadding)

Spec == Init /\ [][Next]_vars /\ Fairness

-----------------------------------------------------------------------------
\* The types of the variables, and: the vector holds as many cells as the bits
\* in use need, no more and no fewer.  pushBack never writes behind its end, and
\* no spare cell is released.
CellsMatchSize ==
  /\ rawData \in Seq(Bit) /\ released \in Seq(Bit)
  /\ size \in 0..MaxBits
  /\ padding \in NotPadding..CellBits /\ resized \in BOOLEAN
  /\ released = <<>> => Len(rawData) = Cells(size) * CellBits

Bits == INSTANCE BitString
          WITH bits <- IF released = <<>> THEN SubSeq(rawData, 1, size) ELSE <<>>,
               out <- released

\* The encoder is a sequence of bits: no new cell, no bit set afterwards, no padding
\* and no change of the size disturbs a bit in use, and unless the size has been
\* changed (nobody does) none is left behind the end.
ImplementsBitString == Bits!Spec

(***************************************************************************)
(* "Add zero padding to the end of the data, so that size is aligned to    *)
(* sizeof(T)" (src/BinaryEncoder.h:157).                                   *)
(***************************************************************************)
PaddingAligns == [][EndPadding => size % CellBits = 0]_vars
=============================================================================
