---------------------------- MODULE WriterProofs ----------------------------
(***************************************************************************)
(* The bit writer for cells of every width: its vector always holds the    *)
(* cells that the bits in use need, and to its callers it is the sequence  *)
(* of bits of BitString.                                                   *)
(***************************************************************************)
EXTENDS BinaryEncoder, TLAPS, SequenceTheorems

\* While bits are padded nothing has been released, and the loop, which ends with
\* the cell, keeps below the bound of the model.
PaddingFits ==
  padding # NotPadding => released = <<>> /\ size - padding + CellBits <= MaxBits

\* What is behind the bits in use is zero, unless resize has put it there.
ZerosBehind ==
  ~resized => \A i \in (size + 1)..Len(rawData) : rawData[i] = 0

Inv == CellsMatchSize /\ PaddingFits /\ ZerosBehind

-----------------------------------------------------------------------------
(***************************************************************************)
(* Numbers of cells.                                                       *)
(***************************************************************************)
\* So many cells hold n bits, and one fewer does not.
LEMMA CellsHold ==
  ASSUME NEW n \in Nat
  PROVE  /\ Cells(n) \in Nat
         /\ n <= Cells(n) * CellBits /\ Cells(n) * CellBits < n + CellBits
         /\ Cells(n) * CellBits \in Nat
<1> DEFINE a == n + CellBits - 1
<1>1. CellBits \in Nat \ {0} /\ a \in Nat
  BY BitsAssumption
<1>2. /\ a \div CellBits \in Nat /\ a % CellBits \in Nat
      /\ a = CellBits * (a \div CellBits) + (a % CellBits)
      /\ a % CellBits < CellBits
  BY <1>1
<1>3. QED
  BY <1>1, <1>2 DEF Cells

\* Only one number does.
LEMMA CellsUnique ==
  ASSUME NEW n \in Nat, NEW k \in Nat, n <= k * CellBits, k * CellBits < n + CellBits
  PROVE  Cells(n) = k
<1>1. CellBits \in Nat \ {0} /\ Cells(n) \in Nat
  BY BitsAssumption, CellsHold
<1>2. n <= Cells(n) * CellBits /\ Cells(n) * CellBits < n + CellBits
  BY CellsHold
<1>3. ~(k < Cells(n))
  <2> SUFFICES ASSUME k + 1 <= Cells(n) PROVE FALSE
    BY <1>1
  <2>1. (k + 1) * CellBits <= Cells(n) * CellBits
    BY <1>1
  <2>2. (k + 1) * CellBits = k * CellBits + CellBits
    BY <1>1
  <2>3. QED
    BY <1>1, <1>2, <2>1, <2>2
<1>4. ~(Cells(n) < k)
  <2> SUFFICES ASSUME Cells(n) + 1 <= k PROVE FALSE
    BY <1>1
  <2>1. (Cells(n) + 1) * CellBits <= k * CellBits
    BY <1>1
  <2>2. (Cells(n) + 1) * CellBits = Cells(n) * CellBits + CellBits
    BY <1>1
  <2>3. QED
    BY <1>1, <1>2, <2>1, <2>2
<1>5. QED
  BY <1>1, <1>3, <1>4

\* One more bit takes one more cell when all are full, and only then.
LEMMA CellsOfNext ==
  ASSUME NEW n \in Nat
  PROVE  Cells(n + 1) * CellBits
           = IF n = Cells(n) * CellBits
             THEN Cells(n) * CellBits + CellBits ELSE Cells(n) * CellBits
<1>1. /\ CellBits \in Nat \ {0} /\ Cells(n) \in Nat
      /\ n <= Cells(n) * CellBits /\ Cells(n) * CellBits < n + CellBits
      /\ Cells(n) * CellBits \in Nat
      /\ (Cells(n) + 1) * CellBits = Cells(n) * CellBits + CellBits
  BY BitsAssumption, CellsHold
<1>2. CASE n = Cells(n) * CellBits
  <2>1. Cells(n + 1) = Cells(n) + 1
    BY <1>1, <1>2, CellsUnique
  <2>2. QED
    BY <1>1, <1>2, <2>1
<1>3. CASE n # Cells(n) * CellBits
  <2>1. Cells(n + 1) = Cells(n)
    BY <1>1, <1>3, CellsUnique
  <2>2. QED
    BY <1>3, <2>1
<1>4. QED
  BY <1>2, <1>3

\* What the cells have room for behind n bits is what BitString fills.
LEMMA UnusedBits ==
  ASSUME NEW n \in Nat
  PROVE  Bits!Unused(n) = Cells(n) * CellBits - n
<1> DEFINE u == (-n) % CellBits
           q == (-n) \div CellBits
<1>1. CellBits \in Nat \ {0} /\ -n \in Int
  BY BitsAssumption
<1>2. /\ q \in Int /\ u \in Nat /\ u < CellBits
      /\ -n = CellBits * q + u
  BY <1>1
<1>3. (-q) * CellBits = n + u
  BY <1>1, <1>2
<1>4. -q \in Nat
  BY <1>1, <1>2, <1>3
<1>5. Cells(n) = -q
  BY <1>1, <1>2, <1>3, <1>4, CellsUnique
<1>6. QED
  BY <1>1, <1>2, <1>3, <1>5 DEF Bits!Unused

-----------------------------------------------------------------------------
(***************************************************************************)
(* The operations.                                                         *)
(***************************************************************************)
Written == SubSeq(rawData, 1, size)

\* What holds of an encoder whose data has not been released.
LEMMA Open ==
  ASSUME Inv, released = <<>>
  PROVE  /\ CellBits \in Nat \ {0} /\ MaxBits \in Nat
         /\ size \in Nat /\ size <= MaxBits
         /\ rawData \in Seq(Bit) /\ Len(rawData) = Cells(size) * CellBits
         /\ size <= Len(rawData) /\ Len(rawData) < size + CellBits
         /\ Written \in Seq(Bit) /\ Len(Written) = size
         /\ \A i \in 1..size : Written[i] = rawData[i]
<1>1. /\ CellBits \in Nat \ {0} /\ MaxBits \in Nat
      /\ size \in Nat /\ size <= MaxBits
      /\ rawData \in Seq(Bit) /\ Len(rawData) = Cells(size) * CellBits
  BY BitsAssumption DEF Inv, CellsMatchSize
<1>2. size <= Len(rawData) /\ Len(rawData) < size + CellBits
  BY <1>1, CellsHold
<1>3. \A i \in 1..size : rawData[i] \in Bit
  BY <1>1, <1>2, ElementOfSeq
<1>4. /\ Written \in Seq(Bit) /\ Len(Written) = size
      /\ \A i \in 1..size : Written[i] = rawData[i]
  <2>1. /\ SubSeq(rawData, 1, size) \in Seq(Bit)
        /\ Len(SubSeq(rawData, 1, size)) = IF 1 <= size THEN size - 1 + 1 ELSE 0
        /\ \A i \in 1..(size - 1 + 1) : SubSeq(rawData, 1, size)[i] = rawData[1 + i - 1]
    BY <1>1, <1>3, SubSeqProperties
  <2>2. QED
    BY <1>1, <2>1 DEF Written
<1>5. QED
  BY <1>1, <1>2, <1>4

\* A cell of equal bits.
LEMMA CellIsSeq ==
  ASSUME NEW b \in Bit
  PROVE  /\ Cell(b) \in Seq(Bit) /\ Len(Cell(b)) = CellBits
         /\ \A i \in 1..CellBits : Cell(b)[i] = b
<1>1. CellBits \in Nat
  BY BitsAssumption
<1>2. QED
  BY <1>1 DEF Cell

\* A bit that is pushed is written behind the others, into a cell there is.
LEMMA AppendStep ==
  ASSUME Inv, released = <<>>, NEW b \in Bit, Append1(b), resized' = resized
  PROVE  /\ rawData' \in Seq(Bit) /\ size' = size + 1
         /\ Len(rawData') = Cells(size') * CellBits
         /\ Written' = Append(Written, b)
         /\ ZerosBehind'
<1> DEFINE roomy == IF size = Len(rawData) THEN rawData \o Cell(0) ELSE rawData
<1>1. /\ CellBits \in Nat \ {0} /\ size \in Nat
      /\ rawData \in Seq(Bit) /\ Len(rawData) = Cells(size) * CellBits
      /\ size <= Len(rawData) /\ Len(rawData) \in Nat
      /\ Written \in Seq(Bit) /\ Len(Written) = size
      /\ \A i \in 1..size : Written[i] = rawData[i]
  BY Open, LenProperties
<1>2. size' = size + 1 /\ rawData' = [roomy EXCEPT ![size + 1] = b]
  BY DEF Append1
<1>3. /\ roomy \in Seq(Bit) /\ Len(roomy) = Cells(size + 1) * CellBits
      /\ size + 1 <= Len(roomy) /\ Len(roomy) \in Nat
      /\ \A i \in 1..Len(rawData) : roomy[i] = rawData[i]
      /\ \A i \in (Len(rawData) + 1)..Len(roomy) : roomy[i] = 0
  <2>1. Cells(size + 1) * CellBits
          = IF size = Len(rawData) THEN Len(rawData) + CellBits ELSE Len(rawData)
    BY <1>1, CellsOfNext
  <2>2. CASE size = Len(rawData)
    <3>1. /\ Cell(0) \in Seq(Bit) /\ Len(Cell(0)) = CellBits
          /\ \A i \in 1..CellBits : Cell(0)[i] = 0
      BY CellIsSeq DEF Bit
    <3>2. roomy = rawData \o Cell(0)
      BY <2>2
    <3>3. /\ roomy \in Seq(Bit) /\ Len(roomy) = Len(rawData) + CellBits
          /\ \A i \in 1..(Len(rawData) + CellBits) :
               roomy[i] = IF i <= Len(rawData) THEN rawData[i]
                          ELSE Cell(0)[i - Len(rawData)]
      BY <1>1, <3>1, <3>2, ConcatProperties
    <3> HIDE DEF roomy
    <3>4. \A i \in 1..Len(rawData) : roomy[i] = rawData[i]
      BY <1>1, <3>3
    <3>5. \A i \in (Len(rawData) + 1)..Len(roomy) : roomy[i] = 0
      BY <1>1, <3>1, <3>3, SMTT(30)
    <3>6. QED
      BY <1>1, <2>1, <2>2, <3>3, <3>4, <3>5
  <2>3. CASE size # Len(rawData)
    <3>1. roomy = rawData
      BY <2>3
    <3>2. QED
      BY <1>1, <2>1, <2>3, <3>1
  <2>4. QED
    BY <2>2, <2>3
<1> HIDE DEF roomy
<1>4. /\ rawData' \in Seq(Bit) /\ Len(rawData') = Len(roomy)
      /\ \A i \in 1..Len(roomy) : rawData'[i] = IF i = size + 1 THEN b ELSE roomy[i]
  BY <1>1, <1>2, <1>3, ExceptSeq
<1>5. \A i \in 1..(size + 1) : rawData'[i] = IF i = size + 1 THEN b ELSE rawData[i]
  BY <1>1, <1>3, <1>4
<1>6. Written' = Append(Written, b)
  <2>1. \A i \in 1..(size + 1) : rawData'[i] \in Bit
    BY <1>1, <1>3, <1>4, ElementOfSeq
  <2>2. /\ Written' \in Seq(Bit) /\ Len(Written') = size + 1
        /\ \A i \in 1..(size + 1) : Written'[i] = rawData'[i]
    <3>1. /\ SubSeq(rawData', 1, size + 1) \in Seq(Bit)
          /\ Len(SubSeq(rawData', 1, size + 1))
               = IF 1 <= size + 1 THEN size + 1 - 1 + 1 ELSE 0
          /\ \A i \in 1..(size + 1 - 1 + 1) :
               SubSeq(rawData', 1, size + 1)[i] = rawData'[1 + i - 1]
      BY <1>1, <2>1, SubSeqProperties
    <3>2. QED
      BY <1>1, <1>2, <3>1 DEF Written
  <2>3. /\ Append(Written, b) \in Seq(Bit) /\ Len(Append(Written, b)) = size + 1
        /\ \A i \in 1..size : Append(Written, b)[i] = Written[i]
        /\ Append(Written, b)[size + 1] = b
    BY <1>1, AppendProperties
  <2>4. \A i \in 1..(size + 1) : Written'[i] = Append(Written, b)[i]
    BY <1>1, <1>5, <2>2, <2>3
  <2>5. QED
    BY <2>2, <2>3, <2>4, SeqEqual
<1>7. ZerosBehind'
  <2> SUFFICES ASSUME ~resized, NEW i \in (size + 2)..Len(roomy)
               PROVE  rawData'[i] = 0
    BY <1>1, <1>2, <1>4 DEF ZerosBehind
  <2>1. rawData'[i] = roomy[i]
    BY <1>1, <1>3, <1>4
  <2>2. i <= Len(rawData) => rawData[i] = 0
    BY <1>1, <1>3 DEF Inv, ZerosBehind
  <2>3. QED
    BY <1>1, <1>3, <2>1, <2>2
<1>8. QED
  BY <1>2, <1>3, <1>4, <1>6, <1>7

-----------------------------------------------------------------------------
(***************************************************************************)
(* The invariant and the refinement, operation by operation.               *)
(***************************************************************************)
Abstract == IF released = <<>> THEN Written ELSE <<>>

\* A push of the caller or of the padding loop.
LEMMA AppendKeeps ==
  ASSUME Inv, released = <<>>, NEW b \in Bit, Append1(b), resized' = resized,
         released' = released, size < MaxBits,
         padding' \in NotPadding..CellBits,
         padding' # NotPadding => size' - padding' + CellBits <= MaxBits
  PROVE  Inv' /\ Bits!Push(b)
<1>1. /\ rawData' \in Seq(Bit) /\ size' = size + 1
      /\ Len(rawData') = Cells(size') * CellBits
      /\ Written' = Append(Written, b) /\ ZerosBehind'
  BY AppendStep
<1>2. size \in Nat /\ MaxBits \in Nat
  BY Open
<1>3. CellsMatchSize'
  BY <1>1, <1>2 DEF Inv, CellsMatchSize
<1>4. PaddingFits'
  BY <1>1 DEF PaddingFits
<1>5. Bits!Push(b)
  BY <1>1 DEF Bits!Push, Written
<1>6. QED
  BY <1>1, <1>3, <1>4, <1>5 DEF Inv

\* setBitValue sets a bit of the abstract sequence.
LEMMA SetStep ==
  ASSUME Inv, NEW b \in Bit, NEW i \in 0..MaxBits, SetBitValue(i, b)
  PROVE  Inv' /\ Bits!Set(i + 1, b)
<1>1. /\ released = <<>> /\ padding = NotPadding /\ i < size
      /\ rawData' = [rawData EXCEPT ![i + 1] = b]
      /\ UNCHANGED <<size, padding, released, resized>>
  BY DEF SetBitValue, Ready
<1>2. /\ size \in Nat /\ rawData \in Seq(Bit)
      /\ Len(rawData) = Cells(size) * CellBits
      /\ size <= Len(rawData) /\ Len(rawData) \in Nat
      /\ Written \in Seq(Bit) /\ Len(Written) = size
      /\ \A j \in 1..size : Written[j] = rawData[j]
  BY <1>1, Open, LenProperties
<1>3. i + 1 \in 1..size /\ i + 1 \in 1..Len(rawData)
  BY <1>1, <1>2
<1>4. /\ rawData' \in Seq(Bit) /\ Len(rawData') = Len(rawData)
      /\ \A j \in 1..Len(rawData) : rawData'[j] = IF j = i + 1 THEN b ELSE rawData[j]
  BY <1>1, <1>2, <1>3, ExceptSeq
<1>5. CellsMatchSize'
  BY <1>1, <1>2, <1>4 DEF Inv, CellsMatchSize
<1>6. PaddingFits'
  BY <1>1 DEF Inv, PaddingFits
<1>7. ZerosBehind'
  <2> SUFFICES ASSUME ~resized, NEW j \in (size + 1)..Len(rawData)
               PROVE  rawData'[j] = 0
    BY <1>1, <1>4 DEF ZerosBehind
  <2>1. rawData[j] = 0
    BY DEF Inv, ZerosBehind
  <2>2. QED
    BY <1>2, <1>3, <1>4, <2>1
<1>8. Inv'
  BY <1>5, <1>6, <1>7 DEF Inv
<1>9. Written' = [Written EXCEPT ![i + 1] = b]
  <2>1. /\ Written' \in Seq(Bit) /\ Len(Written') = size
        /\ \A j \in 1..size : Written'[j] = rawData'[j]
    <3>1. \A j \in 1..size : rawData'[j] \in Bit
      BY <1>2, <1>4, ElementOfSeq
    <3>2. /\ SubSeq(rawData', 1, size) \in Seq(Bit)
          /\ Len(SubSeq(rawData', 1, size)) = IF 1 <= size THEN size - 1 + 1 ELSE 0
          /\ \A j \in 1..(size - 1 + 1) :
               SubSeq(rawData', 1, size)[j] = rawData'[1 + j - 1]
      BY <1>2, <3>1, SubSeqProperties
    <3>3. QED
      BY <1>1, <1>2, <3>2 DEF Written
  <2>2. /\ [Written EXCEPT ![i + 1] = b] \in Seq(Bit)
        /\ Len([Written EXCEPT ![i + 1] = b]) = size
        /\ \A j \in 1..size :
             [Written EXCEPT ![i + 1] = b][j] = IF j = i + 1 THEN b ELSE Written[j]
    BY <1>2, <1>3, ExceptSeq
  <2>3. \A j \in 1..size : Written'[j] = [Written EXCEPT ![i + 1] = b][j]
    BY <1>2, <1>4, <2>1, <2>2
  <2>4. QED
    BY <2>1, <2>2, <2>3, SeqEqual
<1>10. i + 1 \in DOMAIN Written
  BY <1>2, <1>3, LenProperties
<1>11. Bits!Set(i + 1, b)
  BY <1>1, <1>9, <1>10 DEF Bits!Set, Written
<1>12. QED
  BY <1>8, <1>11

\* Cells that are kept keep their bits.
LEMMA ResizeStep ==
  ASSUME Inv, NEW b \in Bit, NEW n \in 0..MaxBits, Resize(n, b)
  PROVE  Inv' /\ Bits!Resize
<1> DEFINE cells == [i \in 1..(Cells(n) * CellBits) |->
                       IF i <= Len(rawData) THEN rawData[i] ELSE b]
<1>1. /\ released = <<>> /\ padding = NotPadding
      /\ rawData' = cells /\ size' = n /\ resized' = TRUE
      /\ padding' = padding /\ released' = released
  BY DEF Resize, Ready
<1>2. /\ size \in Nat /\ rawData \in Seq(Bit) /\ Len(rawData) \in Nat
      /\ size <= Len(rawData)
      /\ Written \in Seq(Bit) /\ Len(Written) = size
      /\ \A j \in 1..size : Written[j] = rawData[j]
  BY <1>1, Open, LenProperties
<1>3. n \in Nat /\ Cells(n) * CellBits \in Nat /\ n <= Cells(n) * CellBits
  BY CellsHold, BitsAssumption
<1>4. /\ cells \in Seq(Bit) /\ Len(cells) = Cells(n) * CellBits
      /\ \A i \in 1..(Cells(n) * CellBits) :
           cells[i] = IF i <= Len(rawData) THEN rawData[i] ELSE b
  <2>1. \A i \in 1..(Cells(n) * CellBits) :
          (IF i <= Len(rawData) THEN rawData[i] ELSE b) \in Bit
    BY <1>2, <1>3, ElementOfSeq
  <2>2. QED
    BY <1>3, <2>1
<1> HIDE DEF cells
<1>5. CellsMatchSize'
  BY <1>1, <1>4 DEF Inv, CellsMatchSize
<1>6. PaddingFits' /\ ZerosBehind'
  BY <1>1 DEF PaddingFits, ZerosBehind
<1>7. Inv'
  BY <1>5, <1>6 DEF Inv
<1>8. /\ Written' \in Seq(Bit) /\ Len(Written') = n
      /\ \A j \in 1..n : Written'[j] = rawData'[j]
  <2>1. \A j \in 1..n : cells[j] \in Bit
    BY <1>3, <1>4, ElementOfSeq
  <2>2. /\ SubSeq(cells, 1, n) \in Seq(Bit)
        /\ Len(SubSeq(cells, 1, n)) = IF 1 <= n THEN n - 1 + 1 ELSE 0
        /\ \A j \in 1..(n - 1 + 1) : SubSeq(cells, 1, n)[j] = cells[1 + j - 1]
    BY <1>3, <2>1, SubSeqProperties
  <2>3. QED
    BY <1>1, <1>3, <2>2 DEF Written
<1>9. \A i \in DOMAIN Written \cap DOMAIN Written' : Written'[i] = Written[i]
  <2>1. DOMAIN Written = 1..size /\ DOMAIN Written' = 1..n
    BY <1>2, <1>8, LenProperties
  <2>2. ASSUME NEW i \in 1..size, i \in 1..n PROVE Written'[i] = Written[i]
    BY <1>1, <1>2, <1>3, <1>4, <1>8, <2>2
  <2>3. QED
    BY <2>1, <2>2
<1>10. Bits!Resize
  BY <1>1, <1>8, <1>9 DEF Bits!Resize, Written, Bit, Bits!Bit
<1>11. QED
  BY <1>7, <1>10

\* The cells are the bits in use and what fills the last one.
LEMMA ReleaseStep ==
  ASSUME Inv, ReleaseData
  PROVE  Inv' /\ Bits!Release
<1> DEFINE u == Len(rawData) - size
           fill == [i \in 1..u |-> rawData[size + i]]
<1>1. /\ released = <<>> /\ padding = NotPadding
      /\ released' = rawData /\ rawData' = <<>>
      /\ UNCHANGED <<size, padding, resized>>
  BY DEF ReleaseData, Ready
<1>2. /\ size \in Nat /\ rawData \in Seq(Bit) /\ Len(rawData) \in Nat
      /\ Len(rawData) = Cells(size) * CellBits
      /\ size <= Len(rawData)
      /\ Written \in Seq(Bit) /\ Len(Written) = size
      /\ \A j \in 1..size : Written[j] = rawData[j]
  BY <1>1, Open, LenProperties
<1>3. u \in Nat /\ Bits!Unused(Len(Written)) = u
  BY <1>2, UnusedBits
<1>4. \A i \in 1..u : rawData[size + i] \in Bit /\ (~resized => rawData[size + i] = 0)
  <2>1. \A i \in 1..u : /\ size + i \in 1..Len(rawData)
                        /\ size + i \in (size + 1)..Len(rawData)
    BY <1>2
  <2>2. QED
    BY <1>2, <2>1, ElementOfSeq DEF Inv, ZerosBehind
<1> HIDE DEF u
<1>5. fill \in [1..u -> IF resized THEN Bit ELSE {0}]
  BY <1>4
<1>6. /\ fill \in Seq(Bit) /\ Len(fill) = u
      /\ \A i \in 1..u : fill[i] = rawData[size + i]
  BY <1>3, <1>4
<1> HIDE DEF fill
<1>7. rawData = Written \o fill
  <2>1. /\ Written \o fill \in Seq(Bit) /\ Len(Written \o fill) = size + u
        /\ \A i \in 1..(size + u) :
             (Written \o fill)[i] = IF i <= size THEN Written[i] ELSE fill[i - size]
    BY <1>2, <1>6, ConcatProperties, ZenonT(60)
  <2>2. size + u = Len(rawData)
    BY <1>2 DEF u
  <2>3. ASSUME NEW i \in 1..Len(rawData) PROVE rawData[i] = (Written \o fill)[i]
    <3>1. (Written \o fill)[i] = IF i <= size THEN Written[i] ELSE fill[i - size]
      BY <2>1, <2>2
    <3>2. CASE i <= size
      BY <1>2, <3>1, <3>2
    <3>3. CASE i > size
      <4>1. i - size \in 1..u /\ size + (i - size) = i
        BY <1>2, <1>3, <2>2, <3>3
      <4>2. fill[i - size] = rawData[size + (i - size)]
        BY <1>6, <4>1
      <4>3. QED
        BY <1>2, <3>1, <3>3, <4>1, <4>2
    <3>4. i <= size \/ i > size
      BY <1>2
    <3>5. QED
      BY <3>2, <3>3, <3>4
  <2>4. QED
    <3>1. Len(rawData) = Len(Written \o fill)
      BY <2>1, <2>2
    <3>2. QED
      BY <1>2, <2>1, <2>3, <3>1, SeqEqual
<1>8. CellsMatchSize'
  BY <1>1, <1>2, EmptySeq DEF Inv, CellsMatchSize
<1>9. PaddingFits' /\ ZerosBehind'
  BY <1>1, <1>2 DEF PaddingFits, ZerosBehind
<1>10. Inv'
  BY <1>8, <1>9 DEF Inv
<1>11. Abstract' = <<>>
  <2>1. CASE rawData # <<>>
    BY <1>1, <2>1 DEF Abstract
  <2>2. CASE rawData = <<>>
    <3>1. size = 0
      BY <1>2, <2>2, EmptySeq
    <3>2. QED
      BY <1>1, <2>2, <3>1, SubSeqEmpty DEF Abstract, Written
  <2>3. QED
    BY <2>1, <2>2
<1>12. released' = released \o Written \o fill
  <2>1. released \o Written = Written
    BY <1>1, <1>2, ConcatEmptySeq
  <2>2. QED
    BY <1>1, <1>7, <2>1
<1>13. Bits!Release
  BY <1>1, <1>3, <1>5, <1>11, <1>12
     DEF Bits!Release, Abstract, Written, Bit, Bits!Bit
<1>14. QED
  BY <1>10, <1>13

-----------------------------------------------------------------------------
(***************************************************************************)
(* The theorems.                                                           *)
(***************************************************************************)
\* The writer begins as the empty sequence.
LEMMA InitHolds == Init => Inv /\ Bits!Init
<1> SUFFICES ASSUME Init PROVE Inv /\ Bits!Init
  OBVIOUS
<1>1. /\ rawData = <<>> /\ size = 0 /\ padding = NotPadding
      /\ released = <<>> /\ resized = FALSE
  BY DEF Init
<1>2. CellBits \in Nat \ {0} /\ MaxBits \in Nat
  BY BitsAssumption
<1>3. Cells(0) * CellBits = 0
  <2>1. 0 <= 0 * CellBits /\ 0 * CellBits < 0 + CellBits /\ 0 * CellBits = 0
    BY <1>2
  <2>2. Cells(0) = 0
    BY <2>1, CellsUnique
  <2>3. QED
    BY <2>1, <2>2
<1>4. CellsMatchSize
  <2>1. <<>> \in Seq(Bit) /\ Len(<<>>) = 0
    BY EmptySeq
  <2>2. 0 \in 0..MaxBits /\ NotPadding \in NotPadding..CellBits
    BY <1>2 DEF NotPadding
  <2>3. QED
    BY <1>1, <1>3, <2>1, <2>2 DEF CellsMatchSize
<1>5. PaddingFits /\ ZerosBehind
  BY <1>1, EmptySeq DEF PaddingFits, ZerosBehind
<1>6. SubSeq(rawData, 1, size) = <<>>
  BY <1>1, SubSeqEmpty
<1>7. QED
  BY <1>1, <1>4, <1>5, <1>6 DEF Inv, Bits!Init

\* Every step keeps the invariant and is one of the sequence.
LEMMA NextHolds == Inv /\ [Next]_vars => Inv' /\ [Bits!Next]_(Bits!vars)
<1> SUFFICES ASSUME Inv, [Next]_vars PROVE Inv' /\ [Bits!Next]_(Bits!vars)
  OBVIOUS
<1>1. CellBits \in Nat \ {0} /\ MaxBits \in Nat
  BY BitsAssumption
<1>2. ASSUME NEW b \in Bit, PushBack(b) PROVE Inv' /\ [Bits!Next]_(Bits!vars)
  <2>1. /\ released = <<>> /\ padding = NotPadding /\ size < MaxBits /\ Append1(b)
        /\ padding' = padding /\ released' = released /\ resized' = resized
    BY <1>2 DEF PushBack, Ready
  <2>2. padding' \in NotPadding..CellBits
    BY <2>1 DEF Inv, CellsMatchSize
  <2>3. Inv' /\ Bits!Push(b)
    BY <2>1, <2>2, AppendKeeps
  <2>4. QED
    BY <2>3 DEF Bits!Next, Bit, Bits!Bit
<1>3. ASSUME NEW b \in Bit, NEW i \in 0..MaxBits, SetBitValue(i, b)
      PROVE  Inv' /\ [Bits!Next]_(Bits!vars)
  <2>1. Inv' /\ Bits!Set(i + 1, b)
    BY <1>3, SetStep
  <2>2. QED
    BY <2>1 DEF Bits!Next, Bits!Set, Bit, Bits!Bit
<1>4. ASSUME NEW b \in Bit, NEW n \in 0..MaxBits, Resize(n, b)
      PROVE  Inv' /\ [Bits!Next]_(Bits!vars)
  BY <1>4, ResizeStep DEF Bits!Next
<1>5. CASE ReleaseData
  BY <1>5, ReleaseStep DEF Bits!Next
<1>6. CASE PadBit
  <2>1. /\ padding # NotPadding /\ padding < UnusedBitsInCell /\ Append1(0)
        /\ padding' = padding + 1 /\ released' = released /\ resized' = resized
    BY <1>6 DEF PadBit
  <2>2. /\ released = <<>> /\ size - padding + CellBits <= MaxBits
        /\ padding \in NotPadding..CellBits /\ size \in Nat
    BY <2>1 DEF Inv, PaddingFits, CellsMatchSize
  <2>3. UnusedBitsInCell \in Nat /\ UnusedBitsInCell <= CellBits
    BY <1>1, <2>2 DEF UnusedBitsInCell
  <2>4. /\ size < MaxBits /\ padding' \in NotPadding..CellBits
        /\ size' - padding' + CellBits <= MaxBits
    BY <1>1, <2>1, <2>2, <2>3 DEF NotPadding, Append1
  <2>5. Inv' /\ Bits!Push(0)
    BY <2>1, <2>2, <2>4, AppendKeeps DEF Bit
  <2>6. QED
    BY <2>5 DEF Bits!Next, Bits!Bit
<1>7. CASE StartPadding
  <2>1. /\ released = <<>> /\ size + CellBits <= MaxBits /\ padding' = 0
        /\ UNCHANGED <<rawData, size, released, resized>>
    BY <1>7 DEF StartPadding, Ready
  <2>2. Inv'
    BY <1>1, <2>1 DEF Inv, CellsMatchSize, PaddingFits, ZerosBehind, NotPadding
  <2>3. QED
    BY <2>1, <2>2 DEF Bits!vars
<1>8. CASE EndPadding
  <2>1. padding' = NotPadding /\ UNCHANGED <<rawData, size, released, resized>>
    BY <1>8 DEF EndPadding
  <2>2. Inv'
    BY <1>1, <2>1 DEF Inv, CellsMatchSize, PaddingFits, ZerosBehind, NotPadding
  <2>3. QED
    BY <2>1, <2>2 DEF Bits!vars
<1>9. CASE UNCHANGED vars
  BY <1>9 DEF vars, Bits!vars, Inv, CellsMatchSize, PaddingFits, ZerosBehind
<1>10. QED
  BY <1>2, <1>3, <1>4, <1>5, <1>6, <1>7, <1>8, <1>9 DEF Next

\* Whatever is pushed, set, padded or resized, the vector has the cells the bits in
\* use need: pushBack never indexes behind its end.
THEOREM CellsAreEnough == Spec => []CellsMatchSize
<1>1. Inv => CellsMatchSize
  BY DEF Inv
<1>2. Init => Inv
  BY InitHolds
<1>3. Inv /\ [Next]_vars => Inv'
  BY NextHolds
<1>4. QED
  BY <1>1, <1>2, <1>3, PTL DEF Spec

\* The cells that releaseData hands to a coder are the bits that have been pushed, in
\* their order, and zeros that fill the last cell, for cells of every width.
THEOREM WriterIsBitString == Spec => ImplementsBitString
<1>1. Init => Inv /\ Bits!Init
  BY InitHolds
<1>2. Inv /\ [Next]_vars => Inv' /\ [Bits!Next]_(Bits!vars)
  BY NextHolds
<1>3. QED
  BY <1>1, <1>2, PTL DEF Spec, ImplementsBitString, Bits!Spec
=============================================================================
