-------------------------- MODULE BlockCodecProofs --------------------------
(***************************************************************************)
(* The block codec is lossless: proofs for every width of the values, of a *)
(* literal and of a cell, for square blocks of every power of two, with    *)
(* and without the model, for every image its header can hold and every    *)
(* memory behind it.                                                       *)
(*                                                                         *)
(* The first parts are about the image alone.  What is written for it is a *)
(* function of the image (Encoding) that tells of every position of the    *)
(* stream what it means: header, scan method, path, literal or end mark.   *)
(* The last parts are about the steps.  What is true of trees and of scans *)
(* is proved in CodingTreeProofs and BlockScanProofs.                      *)
(***************************************************************************)
EXTENDS BlockCodec, CodingTreeProofs, BlockScanProofs

-----------------------------------------------------------------------------
(***************************************************************************)
(* Bits: literals, scan methods and bytes are read as they were written.   *)
(***************************************************************************)
CellValues == 2 ^ CellBits

\* The values of a pixel, which are the symbols of the tree.
LEMMA ValueFacts ==
  /\ ValueCount \in Nat /\ ValueCount > 0 /\ ValueCount = 2 ^ ValueBits
  /\ Value = 0..(ValueCount - 1) /\ Symbol = Value /\ 0 \in Value
<1>1. ValueBits \in Nat
  BY ImageAssumption
<1>2. ValueCount \in Nat /\ ValueCount > 0
  BY <1>1, PowersOfTwo DEF ValueCount
<1>3. QED
  BY <1>2, AlphabetAssumption DEF Value, ValueCount

\* How many values a cell and a field of two cells have.
LEMMA CellFacts ==
  /\ CellBits \in Nat /\ CellBits > 0
  /\ CellValues \in Nat /\ CellValues > 0
  /\ DimensionCount = CellValues * CellValues
<1>1. CellBits \in Nat /\ CellBits > 0
  BY ImageAssumption
<1>2. CellValues \in Nat /\ CellValues > 0
  BY <1>1, PowersOfTwo DEF CellValues
<1>3. QED
  BY <1>1, <1>2, SquareOfPower DEF CellValues, DimensionCount

\* typeToBits writes the bits of a number.
LEMMA BitsWritten ==
  ASSUME NEW v \in Nat, NEW n \in Nat
  PROVE  /\ TypeToBits(v, n) \in Seq(Bit) /\ Len(TypeToBits(v, n)) = n
         /\ BitsOf(TypeToBits(v, n), v, n)
<1>1. ASSUME NEW i \in 1..n PROVE (v \div 2 ^ (n - i)) % 2 \in Bit
  <2> DEFINE P == 2 ^ (n - i)
  <2>1. n - i \in Nat
    OBVIOUS
  <2>2. P \in Nat /\ P > 0
    BY <2>1, PowersOfTwo
  <2> HIDE DEF P
  <2>3. (v \div P) % 2 \in {0, 1}
    BY <2>2, Halves
  <2>4. QED
    BY <2>3 DEF P, Bit
<1>2. BitsOf(TypeToBits(v, n), v, n)
  BY DEF BitsOf, TypeToBits
<1>3. QED
  BY <1>1, <1>2 DEF TypeToBits

\* binToIntegral takes the literal of a value back.
LEMMA LiteralRead ==
  ASSUME NEW v \in Value
  PROVE  /\ TypeToBits(v, LiteralBits) \in Seq(Bit)
         /\ Len(TypeToBits(v, LiteralBits)) = LiteralBits
         /\ BinToIntegral(TypeToBits(v, LiteralBits)) = v
<1> DEFINE n == LiteralBits
           bits == TypeToBits(v, n)
<1>1. n \in Nat /\ ValueBits \in Nat /\ ValueBits <= n
  BY ImageAssumption
<1>2. v \in Nat /\ v < ValueCount
  BY ValueFacts
<1>3. v < 2 ^ n
  <2>1. 2 ^ ValueBits <= 2 ^ n /\ 2 ^ n \in Nat
    BY <1>1, PowersGrow, PowersOfTwo
  <2>2. QED
    BY <1>2, <2>1, ValueFacts
<1>4. bits \in Seq(Bit) /\ Len(bits) = n /\ BitsOf(bits, v, n)
  BY <1>1, <1>2, BitsWritten
<1> HIDE DEF bits
<1> DEFINE Partial == CHOOSE f : IsBitSum(f, bits, n)
<1>5. IsBitSum(Partial, bits, n) /\ Partial[n] = v
  <2>1. \E f : IsBitSum(f, bits, n)
    BY <1>1, <1>2, <1>3, <1>4, BitSum
  <2>2. IsBitSum(Partial, bits, n)
    BY <2>1, Zenon
  <2>3. QED
    BY <1>1, <1>2, <1>3, <1>4, <2>2, BitSum
<1>6. BinToIntegral(bits) = Partial[n] % ValueCount
  BY <1>4 DEF BinToIntegral, IsBitSum
<1>7. v % ValueCount = v
  BY <1>2, ValueFacts
<1>8. QED
  BY <1>4, <1>5, <1>6, <1>7 DEF bits

\* The three bits of a scan method or of the end mark.
LEMMA MethodRead ==
  ASSUME NEW v \in 0..7
  PROVE  LET bits == TypeToBits(v, 3) IN 4 * bits[1] + 2 * bits[2] + bits[3] = v
<1>1. 2 ^ 0 = 1 /\ 2 ^ 1 = 2 /\ 2 ^ 2 = 4
  <2>1. 2 ^ 0 = 1 /\ 2 ^ (0 + 1) = 2 * 2 ^ 0 /\ 2 ^ (1 + 1) = 2 * 2 ^ 1
    BY PowersOfTwo
  <2>2. 0 + 1 = 1 /\ 1 + 1 = 2
    OBVIOUS
  <2>3. QED
    BY <2>1, <2>2
<1>2. LET bits == TypeToBits(v, 3)
      IN /\ bits[1] = (v \div 2 ^ (3 - 1)) % 2
         /\ bits[2] = (v \div 2 ^ (3 - 2)) % 2
         /\ bits[3] = (v \div 2 ^ (3 - 3)) % 2
  BY DEF TypeToBits
<1>3. 3 - 1 = 2 /\ 3 - 2 = 1 /\ 3 - 3 = 0
  OBVIOUS
<1>4. LET bits == TypeToBits(v, 3)
      IN bits[1] = (v \div 4) % 2 /\ bits[2] = (v \div 2) % 2 /\ bits[3] = (v \div 1) % 2
  BY <1>1, <1>2, <1>3
<1>5. 4 * ((v \div 4) % 2) + 2 * ((v \div 2) % 2) + ((v \div 1) % 2) = v
  OBVIOUS
<1>6. QED
  BY <1>4, <1>5

\* A byte of the header is the value that was written, narrowed to a byte.
LEMMA ByteRead ==
  ASSUME NEW v \in Nat, NEW at \in Nat, Behind(stream, at, TypeToBits(v, CellBits))
  PROVE  Byte(at + 1) = v % CellValues
<1> DEFINE bits == [i \in 1..CellBits |-> stream[at + 1 + i - 1]]
           Partial == CHOOSE f : IsBitShift(f, bits, CellBits)
<1>1. CellBits \in Nat
  BY CellFacts
<1>2. BitsOf(bits, v, CellBits)
  <2>1. ASSUME NEW i \in 1..CellBits PROVE bits[i] = TypeToBits(v, CellBits)[i]
    <3>1. at + 1 + i - 1 = at + i /\ i \in 1..Len(TypeToBits(v, CellBits))
      BY <1>1, BitsWritten
    <3>2. QED
      BY <3>1 DEF Behind
  <2> HIDE DEF bits
  <2>2. QED
    BY <1>1, <2>1, BitsWritten DEF BitsOf
<1>3. IsBitShift(Partial, bits, CellBits) /\ Partial[CellBits] = v % CellValues
  <2> HIDE DEF bits
  <2>1. \E f : IsBitShift(f, bits, CellBits)
    BY <1>1, <1>2, BitShift
  <2>2. IsBitShift(Partial, bits, CellBits)
    BY <2>1, Zenon
  <2>3. QED
    BY <1>1, <1>2, <2>2, BitShift DEF CellValues
<1>4. Byte(at + 1) = Partial[CellBits]
  <2>1. \A f : IsBitShift(f, bits, CellBits)
            <=> f = [i \in 0..CellBits |->
                       IF i = 0 THEN 0 ELSE 2 * f[i - 1] + stream[at + 1 + i - 1]]
    <3> SUFFICES ASSUME NEW f
                 PROVE  [i \in 0..CellBits |-> IF i = 0 THEN 0 ELSE 2 * f[i - 1] + bits[i]]
                          = [i \in 0..CellBits |->
                               IF i = 0 THEN 0 ELSE 2 * f[i - 1] + stream[at + 1 + i - 1]]
      BY DEF IsBitShift
    <3>1. \A i \in 0..CellBits : i # 0 => bits[i] = stream[at + 1 + i - 1]
      BY <1>1
    <3> HIDE DEF bits
    <3>2. QED
      BY <3>1
  <2> HIDE DEF bits
  <2>2. (CHOOSE f : IsBitShift(f, bits, CellBits))
          = CHOOSE f : f = [i \in 0..CellBits |->
                       IF i = 0 THEN 0 ELSE 2 * f[i - 1] + stream[at + 1 + i - 1]]
    BY <2>1, Zenon
  <2>3. QED
    BY <2>2, Zenon DEF Byte
<1>5. QED
  BY <1>3, <1>4

-----------------------------------------------------------------------------
(***************************************************************************)
(* The models.                                                             *)
(***************************************************************************)
\* revert undoes apply, given the same last value; without a model both do nothing.
LEMMA ModelReverted ==
  ASSUME NEW v \in Value, NEW last \in Value
  PROVE  /\ Apply(v, last) \in Value /\ Revert(v, last) \in Value
         /\ Revert(Apply(v, last), last) = v
         /\ ~UseModel => Apply(v, last) = v /\ Revert(v, last) = v
<1> DEFINE M == ValueCount
<1>1. UseModel \in BOOLEAN
  BY ImageAssumption
<1>2. M \in Nat /\ M > 0 /\ v \in 0..(M - 1) /\ last \in 0..(M - 1) /\ Value = 0..(M - 1)
  BY ValueFacts
<1>3. Apply(v, last) = IF UseModel THEN (v - last) % M ELSE v
  BY DEF Apply
<1>4. \A w : Revert(w, last) = IF UseModel THEN (w + last) % M ELSE w
  BY DEF Revert
<1> HIDE DEF M
<1>5. /\ (v - last) % M \in 0..(M - 1) /\ (v + last) % M \in 0..(M - 1)
      /\ (((v - last) % M) + last) % M = v
  BY <1>2
<1>6. CASE UseModel
  BY <1>2, <1>3, <1>4, <1>5, <1>6
<1>7. CASE ~UseModel
  BY <1>2, <1>3, <1>4, <1>7
<1>8. QED
  BY <1>1, <1>6, <1>7

-----------------------------------------------------------------------------
(***************************************************************************)
(* The image and its blocks.                                               *)
(***************************************************************************)
\* Blocks are squares of more than one pixel, and their side fits a cell.
LEMMA SideFacts ==
  /\ BlockWidth \in Nat /\ BlockWidth > 0 /\ BlockHeight = BlockWidth
  /\ BlockSize = BlockWidth * BlockHeight /\ BlockSize \in Nat /\ BlockSize > 1
  /\ BlockWidth < CellValues
  BY BlockAssumption, ImageAssumption, SizeFacts DEF BlockSize, CellValues

\* All methods suit the blocks.
LEMMA AllSuit ==
  ASSUME NEW method \in ScanMethod
  PROVE  Suits(method) /\ Scans(method)
<1>1. BlockWidth = BlockHeight /\ \E m \in 1..BlockWidth : BlockWidth = 2 ^ m
  BY ImageAssumption
<1>2. PICK m \in 1..BlockWidth : BlockWidth = 2 ^ m
  BY <1>1
<1>3. m \in Nat /\ m - 1 \in Nat /\ (m - 1) + 1 = m
  BY SideFacts
<1>4. 2 ^ ((m - 1) + 1) = 2 * 2 ^ (m - 1) /\ 2 ^ (m - 1) \in Nat
  BY <1>3, PowersOfTwo
<1>5. BlockWidth = 2 * 2 ^ (m - 1)
  BY <1>2, <1>3, <1>4
<1>6. Suits(method)
  BY <1>1, <1>2, <1>3, <1>4, <1>5 DEF Suits
<1>7. QED
  BY <1>6, SuitedScans

\* Quotient and remainder.
LEMMA QuotientAndRest ==
  ASSUME NEW n \in Nat, NEW d \in Nat \ {0}
  PROVE  /\ n \div d \in Nat /\ n % d \in 0..(d - 1)
         /\ (n \div d) * d + (n % d) = n
OBVIOUS

\* How many blocks of d cover n: those that begin before n.
LEMMA CeilIs ==
  ASSUME NEW n \in Nat, NEW d \in Nat, d > 0
  PROVE  /\ Ceil(n, d) \in Nat
         /\ \A b \in Nat : b < Ceil(n, d) <=> b * d < n
<1> DEFINE m == n + d - 1
           c == Ceil(n, d)
<1>1. m \in Nat /\ c = m \div d
  BY DEF Ceil
<1> HIDE DEF m
<1>2. c \in Nat /\ c * d <= m /\ m < c * d + d
  <2> HIDE DEF c
  <2>1. m \div d \in Nat /\ m % d \in 0..(d - 1) /\ (m \div d) * d + (m % d) = m
    BY <1>1
  <2> DEFINE q == m \div d
             x == q * d
  <2>2. x \in Int
    BY <2>1
  <2> HIDE DEF x
  <2>3. x <= m /\ m < x + d
    BY <2>1, <2>2, SMTT(30) DEF x
  <2>4. QED
    BY <1>1, <2>1, <2>3 DEF x
<1> HIDE DEF c
<1>3. ASSUME NEW b \in Nat PROVE b < c <=> b * d < n
  <2>1. ASSUME b < c PROVE b * d < n
    <3>1. (b + 1) * d <= c * d
      BY <1>2, <2>1
    <3>2. (b + 1) * d = b * d + d /\ b * d \in Nat /\ c * d \in Nat
      BY <1>2
    <3>3. QED
      BY <1>2, <3>1, <3>2 DEF m
  <2>2. ASSUME ~(b < c) PROVE ~(b * d < n)
    <3>1. c * d <= b * d
      BY <1>2, <2>2
    <3>2. b * d \in Nat /\ c * d \in Nat
      BY <1>2
    <3>3. QED
      BY <1>2, <3>1, <3>2 DEF m
  <2>3. QED
    BY <2>1, <2>2
<1>4. QED
  BY <1>2, <1>3 DEF c

\* An image as its coder finds it: whole rows of pixels.
IsSource(f) ==
  /\ f.width \in 1..(DimensionCount - 1) /\ f.height \in Nat
  /\ f.pixels \in Seq(Value) /\ Len(f.pixels) = f.width * f.height
  /\ KeepsBlocks(f.height)

Point == [x : Nat, y : Nat]

Across(f) == Ceil(f.width, BlockWidth)
Start(f, b) == StartPosForBlock(b, f.width)
BlocksOf(f) == BlockCount(f.width, f.height)

\* The parts of an image, and how many blocks it has.
LEMMA SourceFacts ==
  ASSUME NEW f, IsSource(f)
  PROVE  /\ f.width \in Nat /\ f.width > 0 /\ f.height \in Nat
         /\ f.width * f.height \in Nat
         /\ f.pixels \in Seq(Value) /\ Len(f.pixels) = f.width * f.height
         /\ \A a \in 1..(f.width * f.height) : f.pixels[a] \in Value
         /\ Across(f) \in Nat /\ Across(f) > 0
         /\ BlocksOf(f) \in Nat /\ BlocksOf(f) = Across(f) * Ceil(f.height, BlockHeight)
<1>1. /\ f.width \in Nat /\ f.width > 0 /\ f.height \in Nat
      /\ f.pixels \in Seq(Value) /\ Len(f.pixels) = f.width * f.height
  BY CellFacts DEF IsSource
<1>2. f.width * f.height \in Nat
  BY <1>1
<1>3. \A a \in 1..(f.width * f.height) : f.pixels[a] \in Value
  BY <1>1
<1>4. Across(f) \in Nat /\ (0 < Across(f) <=> 0 * BlockWidth < f.width)
  BY <1>1, SideFacts, CeilIs DEF Across
<1>5. 0 * BlockWidth = 0
  BY SideFacts
<1>6. Ceil(f.height, BlockHeight) \in Nat
  BY <1>1, SideFacts, CeilIs
<1>7. BlocksOf(f) = Across(f) * Ceil(f.height, BlockHeight)
  BY DEF BlocksOf, BlockCount, Across
<1>8. Across(f) * Ceil(f.height, BlockHeight) \in Nat
  BY <1>4, <1>6
<1>9. QED
  BY <1>1, <1>2, <1>3, <1>4, <1>5, <1>7, <1>8

\* Blocks begin at multiples of their sides.
LEMMA StartOfBlock ==
  ASSUME NEW f, NEW b \in Nat, IsSource(f)
  PROVE  /\ Start(f, b) \in Point
         /\ Start(f, b).x = (b % Across(f)) * BlockWidth
         /\ Start(f, b).y = (b \div Across(f)) * BlockHeight
         /\ b % Across(f) \in 0..(Across(f) - 1) /\ b \div Across(f) \in Nat
<1> DEFINE A == Across(f)
           i == b % A
           j == b \div A
<1>1. A \in Nat /\ A > 0
  BY SourceFacts
<1>2. Start(f, b) = At(i * BlockWidth, j * BlockHeight)
  BY DEF Start, StartPosForBlock, Across
<1> HIDE DEF A
<1>3. i \in 0..(A - 1) /\ j \in Nat
  BY <1>1
<1> HIDE DEF i, j
<1>4. i * BlockWidth \in Nat /\ j * BlockHeight \in Nat
  BY <1>1, <1>3, SideFacts
<1>5. QED
  BY <1>2, <1>3, <1>4 DEF At, Point, A, i, j

\* Every pixel is in a block.
LEMMA EveryPixelInBlock ==
  ASSUME NEW f, IsSource(f), NEW x \in 0..(f.width - 1), NEW y \in 0..(f.height - 1)
  PROVE  \E b \in 0..(BlocksOf(f) - 1) :
           /\ x - Start(f, b).x \in 0..(BlockWidth - 1)
           /\ y - Start(f, b).y \in 0..(BlockHeight - 1)
<1> DEFINE A == Across(f)
           D == Ceil(f.height, BlockHeight)
           i == x \div BlockWidth
           j == y \div BlockHeight
           b == j * A + i
<1>1. /\ x \in Nat /\ y \in Nat /\ x < f.width /\ y < f.height
      /\ f.width \in Nat /\ f.height \in Nat
  BY SourceFacts
<1>2. A \in Nat /\ A > 0 /\ BlocksOf(f) = A * D
  BY SourceFacts
<1>3. /\ i \in Nat /\ i * BlockWidth <= x /\ x - i * BlockWidth \in 0..(BlockWidth - 1)
      /\ j \in Nat /\ j * BlockHeight <= y /\ y - j * BlockHeight \in 0..(BlockHeight - 1)
  <2>1. ASSUME NEW n \in Nat, NEW d \in Nat, d > 0
        PROVE  n \div d \in Nat /\ (n \div d) * d <= n /\ n - (n \div d) * d \in 0..(d - 1)
    <3>1. n \div d \in Nat /\ n % d \in 0..(d - 1) /\ (n \div d) * d + (n % d) = n
      <4>1. d \in Nat \ {0}
        BY <2>1
      <4>2. QED
        BY <4>1, QuotientAndRest
    <3> DEFINE z == (n \div d) * d
    <3>2. z \in Int
      BY <3>1
    <3>3. z + (n % d) = n
      BY <3>1
    <3> HIDE DEF z
    <3>4. z <= n /\ n - z \in 0..(d - 1)
      BY <3>1, <3>2, <3>3
    <3>5. QED
      BY <3>1, <3>4 DEF z
  <2>2. QED
    BY <1>1, <2>1, SideFacts
<1> HIDE DEF i, j
<1>4. i < A
  <2>1. i * BlockWidth \in Nat /\ i * BlockWidth < f.width
    BY <1>1, <1>3, SideFacts
  <2>2. QED
    BY <1>1, <1>3, <2>1, CeilIs, SideFacts DEF Across
<1>5. j < D /\ D \in Nat
  <2>1. j * BlockHeight \in Nat /\ j * BlockHeight < f.height
    BY <1>1, <1>3, SideFacts
  <2>2. QED
    BY <1>1, <1>3, <2>1, CeilIs, SideFacts
<1> HIDE DEF A, D
<1>6. b \in Nat /\ b < BlocksOf(f)
  <2>1. (j + 1) * A <= D * A
    BY <1>2, <1>3, <1>5
  <2>2. (j + 1) * A = j * A + A /\ D * A = A * D /\ j * A \in Nat
    BY <1>2, <1>3, <1>5
  <2>3. QED
    BY <1>2, <1>3, <1>4, <1>5, <2>1, <2>2
<1>7. b % A = i /\ b \div A = j
  <2> HIDE DEF b
  <2>1. b % A \in 0..(A - 1) /\ b \div A \in Nat /\ (b \div A) * A + (b % A) = b
    BY <1>2, <1>6
  <2>2. LineIndex(b \div A, b % A, A) = LineIndex(j, i, A)
    BY <2>1 DEF LineIndex, b
  <2>3. i \in 0..(A - 1) /\ A \in Nat \ {0}
    BY <1>2, <1>3, <1>4
  <2>4. QED
    BY <1>3, <2>1, <2>2, <2>3, DivisionUnique
<1>8. Start(f, b).x = i * BlockWidth /\ Start(f, b).y = j * BlockHeight
  <2> HIDE DEF b
  <2>1. Start(f, b).x = (b % A) * BlockWidth /\ Start(f, b).y = (b \div A) * BlockHeight
    BY <1>6, StartOfBlock DEF A
  <2>2. QED
    BY <1>7, <2>1
<1> HIDE DEF b
<1>9. b \in 0..(BlocksOf(f) - 1)
  BY <1>6, SourceFacts
<1>10. QED
  BY <1>3, <1>8, <1>9

\* The address of a pixel is its own.
LEMMA Addresses ==
  ASSUME NEW w \in Nat, NEW h \in Nat, NEW p \in Point, w > 0, p.x < w
  PROVE  /\ p.y < h <=> Address(p, w) \in 1..(w * h)
         /\ Address(p, w) \in Nat /\ Address(p, w) > 0
         /\ (Address(p, w) - 1) % w = p.x /\ (Address(p, w) - 1) \div w = p.y
<1>1. p.x \in Nat /\ p.y \in Nat
  BY DEF Point
<1> DEFINE z == w * p.y
<1>2. Address(p, w) = z + p.x + 1
  BY DEF Address
<1>3. z \in Nat /\ w * h \in Nat
  BY <1>1
<1>4. ASSUME p.y < h PROVE z + w <= w * h
  <2>1. w * (p.y + 1) <= w * h
    BY <1>1, <1>4
  <2>2. w * (p.y + 1) = z + w
    BY <1>1
  <2>3. QED
    BY <2>1, <2>2
<1>5. ASSUME ~(p.y < h) PROVE w * h <= z
  BY <1>1, <1>5
<1> HIDE DEF z
<1>6. p.y < h <=> Address(p, w) \in 1..(w * h)
  BY <1>1, <1>2, <1>3, <1>4, <1>5
<1>7. (z + p.x) % w = p.x /\ (z + p.x) \div w = p.y
  <2> DEFINE n == z + p.x
  <2>1. n \in Nat /\ n = LineIndex(p.y, p.x, w)
    BY <1>1, <1>3 DEF LineIndex, z
  <2> HIDE DEF n
  <2>2. n % w \in 0..(w - 1) /\ n \div w \in Nat /\ (n \div w) * w + (n % w) = n
    <3>1. w \in Nat \ {0}
      OBVIOUS
    <3>2. QED
      BY <2>1, <3>1, QuotientAndRest
  <2>3. LineIndex(n \div w, n % w, w) = LineIndex(p.y, p.x, w)
    BY <2>1, <2>2 DEF LineIndex
  <2>4. w \in Nat \ {0} /\ p.x \in 0..(w - 1)
    BY <1>1
  <2>5. n % w = p.x /\ n \div w = p.y
    BY <1>1, <2>2, <2>3, <2>4, DivisionUnique, SMTT(30)
  <2>6. QED
    BY <2>5 DEF n
<1>8. QED
  BY <1>1, <1>2, <1>3, <1>6, <1>7

\* No two pixels share an address.
LEMMA SameAddress ==
  ASSUME NEW w \in Nat, NEW p \in Point, NEW q \in Point, w > 0, p.x < w, q.x < w,
         Address(p, w) = Address(q, w)
  PROVE  p = q
<1>1. p.x = q.x /\ p.y = q.y
  BY Addresses
<1>2. QED
  BY <1>1 DEF Point

\* Every address is that of a pixel.
LEMMA AddressedPixel ==
  ASSUME NEW w \in Nat, NEW h \in Nat, w > 0, NEW a \in 1..(w * h)
  PROVE  \E x \in 0..(w - 1), y \in 0..(h - 1) :
           At(x, y) \in Point /\ Address(At(x, y), w) = a
<1> DEFINE n == a - 1
           x == n % w
           y == n \div w
<1>1. n \in Nat /\ w * h \in Nat
  OBVIOUS
<1> HIDE DEF n
<1>2. x \in 0..(w - 1) /\ y \in Nat /\ y * w + x = n
  BY <1>1
<1> HIDE DEF x, y
<1>3. At(x, y) \in Point /\ At(x, y).x = x /\ At(x, y).y = y
  BY <1>2 DEF At, Point
<1>4. Address(At(x, y), w) = a
  <2>1. Address(At(x, y), w) = w * y + x + 1
    BY <1>3 DEF Address
  <2>2. w * y = y * w /\ w * y \in Nat
    BY <1>2
  <2>3. a = n + 1
    BY <1>1 DEF n
  <2>4. QED
    BY <1>2, <2>1, <2>2, <2>3
<1>5. y < h
  <2> DEFINE p == At(x, y)
  <2>1. p \in Point /\ p.x < w /\ p.y = y
    BY <1>2, <1>3
  <2> HIDE DEF p
  <2>2. /\ p.y < h <=> Address(p, w) \in 1..(w * h)
        /\ Address(p, w) \in Nat /\ Address(p, w) > 0
        /\ (Address(p, w) - 1) % w = p.x /\ (Address(p, w) - 1) \div w = p.y
    BY <2>1, Addresses
  <2>3. QED
    BY <1>4, <2>1, <2>2 DEF p
<1>6. y \in 0..(h - 1)
  BY <1>2, <1>5
<1>7. QED
  BY <1>2, <1>3, <1>4, <1>6

-----------------------------------------------------------------------------
(***************************************************************************)
(* The symbols of a block, as its scanner yields them.                     *)
(***************************************************************************)
PosAt(start, method, i) == PosInImage(start, IteratorPos(method, i))
InImage(f, start, method, i) == IsInside(PosAt(start, method, i), f.width, f.height)
PixelAt(f, start, method, i) == f.pixels[Address(PosAt(start, method, i), f.width)]

\* The model of the block after i symbols: the last pixel that was in the image.
IsLastVals(L, f, start, method) ==
  L = [i \in 0..BlockSize |->
         IF i = 0 THEN 0
         ELSE IF InImage(f, start, method, i - 1) THEN PixelAt(f, start, method, i - 1)
         ELSE L[i - 1]]

LastVals(f, start, method) ==
  LET L[i \in 0..BlockSize] ==
        IF i = 0 THEN 0
        ELSE IF InImage(f, start, method, i - 1) THEN PixelAt(f, start, method, i - 1)
        ELSE L[i - 1]
  IN L

Scanned(f, start, method) == BlockSymbols(f.pixels, f.width, f.height, start, method)

\* Where index i of a scan is, in its block and in the image.
LEMMA Positions ==
  ASSUME NEW start \in Point, NEW method \in ScanMethod, NEW i \in Index
  PROVE  /\ IteratorPos(method, i) \in InBlock
         /\ PosAt(start, method, i) \in Point
         /\ PosAt(start, method, i).x = start.x + IteratorPos(method, i).x
         /\ PosAt(start, method, i).y = start.y + IteratorPos(method, i).y
<1>1. IteratorPos(method, i) \in InBlock
  BY AllSuit DEF Scans
<1> DEFINE p == IteratorPos(method, i)
<1>2. /\ p \in InBlock /\ PosAt(start, method, i) = At(start.x + p.x, start.y + p.y)
  BY <1>1 DEF PosAt, PosInImage
<1> HIDE DEF p
<1>3. p.x \in Nat /\ p.y \in Nat
  BY <1>2, SideFacts DEF InBlock
<1>4. start.x \in Nat /\ start.y \in Nat
  BY DEF Point
<1>5. start.x + p.x \in Nat /\ start.y + p.y \in Nat
  BY <1>3, <1>4
<1>6. QED
  BY <1>1, <1>2, <1>5 DEF At, Point, p

\* A position inside of the image has an address, where there is a value.
LEMMA PixelFacts ==
  ASSUME NEW f, IsSource(f), NEW p \in Point, IsInside(p, f.width, f.height)
  PROVE  /\ Address(p, f.width) \in 1..(f.width * f.height)
         /\ f.pixels[Address(p, f.width)] \in Value
<1> DEFINE w == f.width
           h == f.height
<1>1. /\ w \in Nat /\ w > 0 /\ h \in Nat
      /\ \A a \in 1..(w * h) : f.pixels[a] \in Value
  BY SourceFacts
<1>2. p.x < w /\ p.y < h
  BY DEF IsInside
<1> HIDE DEF w, h
<1>3. /\ p.y < h <=> Address(p, w) \in 1..(w * h)
      /\ Address(p, w) \in Nat /\ Address(p, w) > 0
      /\ (Address(p, w) - 1) % w = p.x /\ (Address(p, w) - 1) \div w = p.y
  BY <1>1, <1>2, Addresses
<1>4. Address(p, w) \in 1..(w * h)
  BY <1>2, <1>3
<1>5. QED
  BY <1>1, <1>4 DEF w, h

\* The last value the model has seen before each index of a block (LastVals).
LEMMA LastValFacts ==
  ASSUME NEW f, IsSource(f), NEW start \in Point, NEW method \in ScanMethod
  PROVE  LET L == LastVals(f, start, method)
         IN /\ L[0] = 0
            /\ \A i \in 0..BlockSize : L[i] \in Value
            /\ \A i \in Index : L[i + 1] = IF InImage(f, start, method, i)
                                           THEN PixelAt(f, start, method, i) ELSE L[i]
<1> DEFINE N == BlockSize
           In(i) == InImage(f, start, method, i)
           P(i) == PixelAt(f, start, method, i)
           next == [c \in (1..N) \X Value |-> IF In(c[1] - 1) THEN P(c[1] - 1) ELSE c[2]]
           L == LastVals(f, start, method)
<1>1. N \in Nat /\ 0 \in Value
  BY SideFacts, ValueFacts
<1>2. ASSUME NEW i \in Index, In(i) PROVE P(i) \in Value
  <2>1. PosAt(start, method, i) \in Point
    BY Positions
  <2>2. QED
    BY <1>2, <2>1, PixelFacts DEF PixelAt, InImage
<1>3. \A i \in 1..N : i - 1 \in Index
  BY <1>1 DEF Index
<1>4. next \in [(1..N) \X Value -> Value]
  <2> SUFFICES ASSUME NEW c \in (1..N) \X Value
               PROVE  (IF In(c[1] - 1) THEN P(c[1] - 1) ELSE c[2]) \in Value
    OBVIOUS
  <2>1. c[1] - 1 \in Index /\ c[2] \in Value
    BY <1>3
  <2> HIDE DEF In, P
  <2>2. QED
    BY <1>2, <2>1
<1> HIDE DEF N, next
<1>5. PICK g : Iterate(g, Value, 0, N, next)
  BY <1>1, <1>4, Iterates
<1> HIDE DEF In, P
<1>6. g \in [0..N -> Value] /\ g[0] = 0 /\ \A i \in 1..N : g[i] = next[<<i, g[i - 1]>>]
  BY <1>5 DEF Iterate
<1>7. ASSUME NEW i \in 1..N
      PROVE  g[i] = IF In(i - 1) THEN P(i - 1) ELSE g[i - 1]
  <2>1. g[i - 1] \in Value
    BY <1>1, <1>6
  <2>2. next[<<i, g[i - 1]>>] = IF In(i - 1) THEN P(i - 1) ELSE g[i - 1]
    BY <2>1 DEF next
  <2>3. QED
    BY <1>6, <2>2
<1>8. IsLastVals(g, f, start, method)
  <2>1. g = [i \in 0..N |-> IF i = 0 THEN 0 ELSE IF In(i - 1) THEN P(i - 1) ELSE g[i - 1]]
    BY <1>1, <1>6, <1>7
  <2>2. QED
    BY <2>1 DEF IsLastVals, N, In, P
<1>9. IsLastVals(L, f, start, method)
  <2>1. \E x : IsLastVals(x, f, start, method)
    BY <1>8
  <2>2. QED
    BY <2>1, Zenon DEF LastVals, IsLastVals
<1> HIDE DEF L
<1>10. \A i \in 0..N : L[i] = IF i = 0 THEN 0
                              ELSE IF In(i - 1) THEN P(i - 1) ELSE L[i - 1]
  BY <1>9 DEF IsLastVals, N, In, P
<1>11. L[0] = 0
  BY <1>1, <1>10
<1>12. ASSUME NEW i \in Index PROVE L[i + 1] = IF In(i) THEN P(i) ELSE L[i]
  <2>1. i + 1 \in 0..N /\ i + 1 # 0 /\ (i + 1) - 1 = i
    BY <1>1 DEF Index, N
  <2>2. QED
    BY <1>10, <2>1
<1> DEFINE S == {i \in Nat : i <= N => L[i] \in Value}
<1>13. 0 \in S
  BY <1>1, <1>11
<1>14. ASSUME NEW i \in Nat, i \in S PROVE i + 1 \in S
  <2> SUFFICES ASSUME i + 1 <= N PROVE L[i + 1] \in Value
    OBVIOUS
  <2>1. i \in Index /\ L[i] \in Value
    BY <1>1, <1>14 DEF Index, N
  <2>2. QED
    BY <1>2, <1>12, <2>1
<1>15. \A i \in 0..N : L[i] \in Value
  <2>1. \A i \in Nat : i \in S
    <3> HIDE DEF S
    <3>1. QED
      BY <1>13, <1>14, Induction
  <2>2. QED
    BY <1>1, <2>1
<1>16. QED
  BY <1>11, <1>12, <1>15 DEF L, N, In, P

\* What the iterator of a block yields for each of its indices.
LEMMA SymbolFacts ==
  ASSUME NEW f, IsSource(f), NEW start \in Point, NEW method \in ScanMethod
  PROVE  LET L == LastVals(f, start, method)
             S == Scanned(f, start, method)
         IN /\ S \in Seq(Value) /\ Len(S) = BlockSize
            /\ \A i \in Index : S[i + 1] = IF InImage(f, start, method, i)
                                           THEN Apply(PixelAt(f, start, method, i), L[i]) ELSE 0
<1> DEFINE N == BlockSize
           In(i) == InImage(f, start, method, i)
           P(i) == PixelAt(f, start, method, i)
           L == LastVals(f, start, method)
           S == Scanned(f, start, method)
<1>1. S = [i \in 1..N |-> IF In(i - 1) THEN Apply(P(i - 1), L[i - 1]) ELSE 0]
  BY DEF Scanned, BlockSymbols, LastVals, IsLastVals, InImage, PixelAt, PosAt
<1>2. N \in Nat /\ 0 \in Value /\ \A i \in 0..N : L[i] \in Value
  BY SideFacts, ValueFacts, LastValFacts
<1>3. ASSUME NEW i \in Index PROVE In(i) => P(i) \in Value
  <2>1. PosAt(start, method, i) \in Point
    BY Positions
  <2>2. QED
    BY <2>1, PixelFacts DEF PixelAt, InImage
<1> HIDE DEF In, P, L, S
<1>4. ASSUME NEW i \in Index
      PROVE  (IF In(i) THEN Apply(P(i), L[i]) ELSE 0) \in Value
  <2>1. L[i] \in Value
    BY <1>2 DEF Index, N
  <2>2. QED
    BY <1>2, <1>3, <2>1, ModelReverted
<1>5. \A i \in 1..N : i - 1 \in Index
  BY <1>2 DEF Index
<1>6. \A i \in Index : i + 1 \in 1..N /\ (i + 1) - 1 = i
  BY <1>2 DEF Index, N
<1> HIDE DEF N
<1>7. S \in Seq(Value) /\ Len(S) = N
  BY <1>1, <1>2, <1>4, <1>5
<1>8. \A i \in Index : S[i + 1] = IF In(i) THEN Apply(P(i), L[i]) ELSE 0
  BY <1>1, <1>6
<1>9. QED
  BY <1>7, <1>8 DEF S, L, N, In, P

\* The score of a method is a number, and one of the five is the best.
IsVariationSum(g, s) ==
  LET Distance(a, b) == IF a < b THEN b - a ELSE a - b
  IN g = [i \in 0..Len(s) |->
            IF i = 0 THEN 0
            ELSE g[i - 1] + Distance(s[i], IF i = 1 THEN 0 ELSE s[i - 1])]

\* The score of a scan is a number.
LEMMA VariationType ==
  ASSUME NEW s, s \in Seq(Value)
  PROVE  Variation(s) \in Nat
<1> DEFINE n == Len(s)
           Distance(a, b) == IF a < b THEN b - a ELSE a - b
           D(i) == Distance(s[i], IF i = 1 THEN 0 ELSE s[i - 1])
           next == [c \in (1..n) \X Nat |-> c[2] + D(c[1])]
           Sum == CHOOSE g : IsVariationSum(g, s)
<1>1. n \in Nat /\ \A i \in 1..n : s[i] \in Nat
  BY ValueFacts
<1>2. ASSUME NEW i \in 1..n PROVE D(i) \in Nat
  <2>1. s[i] \in Nat /\ (IF i = 1 THEN 0 ELSE s[i - 1]) \in Nat
    BY <1>1
  <2>2. \A a, b \in Nat : Distance(a, b) \in Nat
    OBVIOUS
  <2> HIDE DEF Distance
  <2>3. QED
    BY <2>1, <2>2
<1>3. next \in [(1..n) \X Nat -> Nat]
  <2> HIDE DEF D
  <2>1. QED
    BY <1>2
<1> HIDE DEF next, n, D
<1>4. PICK g : Iterate(g, Nat, 0, n, next)
  BY <1>1, <1>3, Iterates
<1>5. g \in [0..n -> Nat] /\ g[0] = 0 /\ \A i \in 1..n : g[i] = next[<<i, g[i - 1]>>]
  BY <1>4 DEF Iterate
<1>6. \A i \in 1..n : g[i] = g[i - 1] + D(i)
  <2> SUFFICES ASSUME NEW i \in 1..n PROVE g[i] = g[i - 1] + D(i)
    OBVIOUS
  <2>1. g[i - 1] \in Nat
    BY <1>1, <1>5
  <2>2. QED
    BY <1>5, <2>1 DEF next
<1>7. IsVariationSum(g, s)
  <2>1. g = [i \in 0..n |-> IF i = 0 THEN 0 ELSE g[i - 1] + D(i)]
    BY <1>1, <1>5, <1>6
  <2>2. QED
    BY <2>1 DEF IsVariationSum, n, D
<1>8. IsVariationSum(Sum, s)
  <2>1. \E x : IsVariationSum(x, s)
    BY <1>7
  <2>2. QED
    BY <2>1, Zenon
<1>9. Variation(s) = Sum[n]
  BY DEF Variation, IsVariationSum, n
<1> HIDE DEF Sum
<1>10. \A i \in 0..n : Sum[i] = IF i = 0 THEN 0 ELSE Sum[i - 1] + D(i)
  BY <1>8 DEF IsVariationSum, n, D
<1> DEFINE S == {i \in Nat : i <= n => Sum[i] \in Nat}
<1>11. 0 \in S
  BY <1>1, <1>10
<1>12. ASSUME NEW i \in Nat, i \in S PROVE i + 1 \in S
  <2> SUFFICES ASSUME i + 1 <= n PROVE Sum[i + 1] \in Nat
    OBVIOUS
  <2>1. i + 1 \in 1..n /\ i + 1 # 0 /\ (i + 1) - 1 = i /\ Sum[i] \in Nat
    BY <1>1, <1>12
  <2>2. Sum[i + 1] = Sum[i] + D(i + 1) /\ D(i + 1) \in Nat
    BY <1>1, <1>2, <1>10, <2>1
  <2>3. QED
    BY <2>1, <2>2
<1>13. Sum[n] \in Nat
  <2>1. \A i \in Nat : i \in S
    <3> HIDE DEF S
    <3>1. QED
      BY <1>11, <1>12, Induction
  <2>2. QED
    BY <1>1, <2>1
<1>14. QED
  BY <1>9, <1>13

\* The best method is one of the five: its bits are never those of the end mark.
LEMMA BestType ==
  ASSUME NEW f, IsSource(f), NEW start \in Point
  PROVE  LET best == BestMethod(f.pixels, f.width, f.height, start)
         IN best \in 1..5 /\ best - 1 \in 0..4 /\ ScanMethods[best] \in ScanMethod
<1> DEFINE best == BestMethod(f.pixels, f.width, f.height, start)
           V(i) == Variation(Scanned(f, start, ScanMethods[i]))
<1>1. DOMAIN ScanMethods = 1..5
  BY DEF ScanMethods
<1>2. \A i \in 1..5 : ScanMethods[i] \in ScanMethod
  BY <1>1 DEF ScanMethod
<1>3. ASSUME NEW i \in 1..5 PROVE V(i) \in Nat
  <2>1. Scanned(f, start, ScanMethods[i]) \in Seq(Value)
    BY <1>2, SymbolFacts
  <2>2. QED
    BY <2>1, VariationType
<1> DEFINE v == [i \in 1..5 |-> V(i)]
           Best(i) == \A j \in 1..5 : v[i] < v[j] \/ (v[i] = v[j] /\ i <= j)
<1>4. best = CHOOSE i \in 1..5 : Best(i)
  BY <1>1 DEF BestMethod, Scanned
<1> HIDE DEF V
<1>5. v \in [1..5 -> Nat]
  BY <1>3
<1> HIDE DEF v, best
<1>6. \E i \in 1..5 : Best(i)
  <2>1. v[1] \in Nat /\ v[2] \in Nat /\ v[3] \in Nat /\ v[4] \in Nat /\ v[5] \in Nat
    BY <1>5
  <2>2. \A j \in 1..5 : j = 1 \/ j = 2 \/ j = 3 \/ j = 4 \/ j = 5
    OBVIOUS
  <2> DEFINE Wins(i) == /\ v[i] < v[1] \/ (v[i] = v[1] /\ i <= 1)
                        /\ v[i] < v[2] \/ (v[i] = v[2] /\ i <= 2)
                        /\ v[i] < v[3] \/ (v[i] = v[3] /\ i <= 3)
                        /\ v[i] < v[4] \/ (v[i] = v[4] /\ i <= 4)
                        /\ v[i] < v[5] \/ (v[i] = v[5] /\ i <= 5)
  <2>3. Wins(1) \/ Wins(2) \/ Wins(3) \/ Wins(4) \/ Wins(5)
    BY <2>1
  <2>4. \A i \in 1..5 : Wins(i) => Best(i)
    BY <2>2
  <2>5. 1 \in 1..5 /\ 2 \in 1..5 /\ 3 \in 1..5 /\ 4 \in 1..5 /\ 5 \in 1..5
    OBVIOUS
  <2> HIDE DEF Best, Wins
  <2>6. QED
    BY <2>3, <2>4, <2>5
<1>7. best \in 1..5
  <2> HIDE DEF Best
  <2>1. QED
    BY <1>4, <1>6
<1>8. QED
  BY <1>2, <1>7 DEF best

-----------------------------------------------------------------------------
(***************************************************************************)
(* What the encoder makes of an image: its coder and its stream after      *)
(* every symbol, as functions of the image alone.                          *)
(***************************************************************************)
MethodNumber(f, b) == BestMethod(f.pixels, f.width, f.height, Start(f, b))
MethodOf(f, b) == ScanMethods[MethodNumber(f, b)]
SymbolsOf(f, b) == Scanned(f, Start(f, b), MethodOf(f, b))

\* What belongs to a block: its start, its method and its symbols.
LEMMA BlockFacts ==
  ASSUME NEW f, IsSource(f), NEW b \in Nat
  PROVE  /\ Start(f, b) \in Point
         /\ MethodNumber(f, b) \in 1..5 /\ MethodNumber(f, b) - 1 \in 0..4
         /\ MethodOf(f, b) \in ScanMethod
         /\ SymbolsOf(f, b) \in Seq(Value) /\ Len(SymbolsOf(f, b)) = BlockSize
         /\ \A i \in Index : SymbolsOf(f, b)[i + 1] \in Value
<1>1. Start(f, b) \in Point
  BY StartOfBlock
<1>2. /\ MethodNumber(f, b) \in 1..5 /\ MethodNumber(f, b) - 1 \in 0..4
      /\ MethodOf(f, b) \in ScanMethod
  BY <1>1, BestType DEF MethodNumber, MethodOf
<1>3. SymbolsOf(f, b) \in Seq(Value) /\ Len(SymbolsOf(f, b)) = BlockSize
  BY <1>1, <1>2, SymbolFacts DEF SymbolsOf
<1>4. \A i \in Index : i + 1 \in 1..BlockSize
  BY SideFacts DEF Index
<1>5. QED
  BY <1>1, <1>2, <1>3, <1>4

\* Symbols are numbered through all blocks: which of them there are.
Count(f) == BlocksOf(f) * BlockSize
Number(b, j) == b * BlockSize + j

BlockAt(k) == k \div BlockSize
PlaceAt(k) == k % BlockSize

\* The number of a symbol tells its block and its place in it.
LEMMA NumberSplit ==
  ASSUME NEW b \in Nat, NEW j \in Index
  PROVE  /\ Number(b, j) \in Nat
         /\ BlockAt(Number(b, j)) = b /\ PlaceAt(Number(b, j)) = j
<1> DEFINE k == Number(b, j)
<1>1. BlockSize \in Nat \ {0} /\ j \in 0..(BlockSize - 1) /\ j \in Nat
  BY SideFacts DEF Index
<1>2. k \in Nat /\ k = LineIndex(b, j, BlockSize)
  BY <1>1 DEF LineIndex, Number
<1> HIDE DEF k
<1>3. /\ k \div BlockSize \in Nat /\ k % BlockSize \in 0..(BlockSize - 1)
      /\ (k \div BlockSize) * BlockSize + (k % BlockSize) = k
  BY <1>1, <1>2, QuotientAndRest
<1>4. LineIndex(k \div BlockSize, k % BlockSize, BlockSize) = LineIndex(b, j, BlockSize)
  BY <1>2, <1>3 DEF LineIndex
<1>5. k \div BlockSize = b /\ k % BlockSize = j
  BY <1>1, <1>3, <1>4, DivisionUnique
<1>6. QED
  BY <1>2, <1>5 DEF k, BlockAt, PlaceAt

\* Every number is that of a symbol in a block.
LEMMA NumberJoined ==
  ASSUME NEW k \in Nat
  PROVE  /\ BlockAt(k) \in Nat /\ PlaceAt(k) \in Index
         /\ Number(BlockAt(k), PlaceAt(k)) = k
<1>1. BlockSize \in Nat \ {0}
  BY SideFacts
<1>2. QED
  BY <1>1, QuotientAndRest DEF BlockAt, PlaceAt, Number, Index

\* The numbers of a block, and those below the count.
LEMMA NumberFacts ==
  ASSUME NEW f, IsSource(f), NEW b \in Nat
  PROVE  /\ Count(f) \in Nat /\ Number(0, 0) = 0
         /\ Number(BlocksOf(f), 0) = Count(f)
         /\ Number(b, BlockSize) = Number(b + 1, 0)
         /\ b <= BlocksOf(f) => Number(b, 0) \in 0..Count(f)
         /\ \A j \in Index : /\ Number(b, j + 1) = Number(b, j) + 1
                             /\ Number(b, j) + 1 # 0
                             /\ b < BlocksOf(f) <=> Number(b, j) < Count(f)
<1> DEFINE n == BlocksOf(f)
           z == b * BlockSize
           e == n * BlockSize
<1>1. n \in Nat /\ BlockSize \in Nat /\ BlockSize > 1
  BY SourceFacts, SideFacts
<1>2. z \in Nat /\ e \in Nat
  BY <1>1
<1>3. (b + 1) * BlockSize = z + BlockSize
  BY <1>1
<1>4. ASSUME b < n PROVE z + BlockSize <= e
  <2>1. (b + 1) * BlockSize <= n * BlockSize
    BY <1>1, <1>4
  <2>2. QED
    BY <1>3, <2>1
<1>5. ASSUME ~(b < n) PROVE e <= z
  BY <1>1, <1>5
<1>6. 0 * BlockSize = 0
  BY <1>1
<1>7. b = n => z = e
  OBVIOUS
<1>8. Count(f) = e /\ \A j : Number(b, j) = z + j /\ Number(n, j) = e + j
  BY DEF Count, Number
<1>9. Number(0, 0) = 0 /\ Number(b + 1, 0) = z + BlockSize
  BY <1>1, <1>2, <1>3, <1>6 DEF Number
<1> HIDE DEF z, e
<1>10. b <= n => z <= e
  BY <1>1, <1>2, <1>4, <1>7
<1>11. ASSUME NEW j \in Index
       PROVE  /\ Number(b, j + 1) = Number(b, j) + 1
              /\ Number(b, j) + 1 # 0
              /\ b < n <=> Number(b, j) < Count(f)
  <2>1. j \in Nat /\ j < BlockSize
    BY <1>1 DEF Index
  <2> HIDE DEF n
  <2>2. QED
    BY <1>1, <1>2, <1>4, <1>5, <1>8, <2>1
<1>12. QED
  BY <1>1, <1>2, <1>8, <1>9, <1>10, <1>11

\* The bits before the first symbol of a block, and behind the last block.
Heading(f, b) == TypeToBits(IF b = BlocksOf(f) THEN 7 ELSE MethodNumber(f, b) - 1, 3)

Opening(f, k) == IF PlaceAt(k) = 0 THEN Heading(f, BlockAt(k)) ELSE <<>>
SymbolAt(f, k) == SymbolsOf(f, BlockAt(k))[PlaceAt(k) + 1]

Header(f) ==
  Word(f.width) \o Word(f.height)
    \o TypeToBits(BlockWidth, CellBits) \o TypeToBits(BlockHeight, CellBits)

CodeOf(c, s) == Code(c, s, TypeToBits(s, LiteralBits))

After(e, opening, s) ==
  [coder |-> UpdateTree(e.coder, s),
   stream |-> (e.stream \o opening) \o CodeOf(e.coder, s)]

Encoding(f) ==
  LET Encoded[k \in 0..Count(f)] ==
        IF k = 0 THEN [coder |-> NewCoder, stream |-> Header(f)]
        ELSE After(Encoded[k - 1], Opening(f, k - 1), SymbolAt(f, k - 1))
  IN Encoded

\* The whole stream.
Written(f) == FillCell(Encoding(f)[Count(f)].stream \o Heading(f, BlocksOf(f)))

\* The three bits before a block, or of the end mark, and what they read as.
LEMMA HeadingFacts ==
  ASSUME NEW f, IsSource(f), NEW b \in Nat
  PROVE  LET h == Heading(f, b)
         IN /\ h \in Seq(Bit) /\ Len(h) = 3
            /\ \A i \in 1..3 : h[i] \in {0, 1}
            /\ 4 * h[1] + 2 * h[2] + h[3]
                 = IF b = BlocksOf(f) THEN 7 ELSE MethodNumber(f, b) - 1
<1> DEFINE v == IF b = BlocksOf(f) THEN 7 ELSE MethodNumber(f, b) - 1
<1>1. v \in 0..7
  BY BlockFacts
<1>2. Heading(f, b) = TypeToBits(v, 3)
  BY DEF Heading
<1> HIDE DEF v
<1>3. /\ TypeToBits(v, 3) \in Seq(Bit) /\ Len(TypeToBits(v, 3)) = 3
      /\ BitsOf(TypeToBits(v, 3), v, 3)
  <2>1. v \in Nat /\ 3 \in Nat
    BY <1>1
  <2>2. QED
    BY <2>1, BitsWritten
<1>4. LET bits == TypeToBits(v, 3) IN 4 * bits[1] + 2 * bits[2] + bits[3] = v
  BY <1>1, MethodRead
<1>5. \A i \in 1..3 : TypeToBits(v, 3)[i] \in {0, 1}
  BY <1>3 DEF Bit
<1>6. QED
  BY <1>2, <1>3, <1>4, <1>5 DEF v

\* What is written for symbol k.
LEMMA PieceFacts ==
  ASSUME NEW f, IsSource(f), NEW k \in Nat
  PROVE  /\ Opening(f, k) \in Seq(Bit)
         /\ SymbolAt(f, k) \in Value /\ SymbolAt(f, k) \in Symbol
<1>1. BlockAt(k) \in Nat /\ PlaceAt(k) \in Index
  BY NumberJoined
<1>2. Heading(f, BlockAt(k)) \in Seq(Bit)
  BY <1>1, HeadingFacts
<1>3. Opening(f, k) \in Seq(Bit)
  BY <1>2 DEF Opening
<1>4. SymbolAt(f, k) \in Value
  BY <1>1, BlockFacts DEF SymbolAt
<1>5. QED
  BY <1>3, <1>4, ValueFacts

\* What is written for symbol j of block b, and what before it.
LEMMA PieceIs ==
  ASSUME NEW f, IsSource(f), NEW b \in Nat, NEW j \in Index
  PROVE  /\ Opening(f, Number(b, j)) = IF j = 0 THEN Heading(f, b) ELSE <<>>
         /\ SymbolAt(f, Number(b, j)) = SymbolsOf(f, b)[j + 1]
  BY NumberSplit DEF Opening, SymbolAt


\* What is behind a part of a sequence is behind it in a longer one.
LEMMA Joined ==
  ASSUME NEW a, NEW b, a \in Seq(Bit), b \in Seq(Bit)
  PROVE  /\ a \o b \in Seq(Bit) /\ Len(a \o b) = Len(a) + Len(b)
         /\ Behind(a \o b, Len(a), b)
         /\ \A at \in Nat, p \in Seq(Bit) :
              Behind(a, at, p) /\ at + Len(p) <= Len(a) => Behind(a \o b, at, p)
<1>1. /\ a \o b \in Seq(Bit) /\ Len(a \o b) = Len(a) + Len(b)
      /\ \A i \in 1..Len(a) : (a \o b)[i] = a[i]
      /\ \A i \in 1..Len(b) : (a \o b)[Len(a) + i] = b[i]
  OBVIOUS
<1>2. Len(a) \in Nat
  OBVIOUS
<1>3. ASSUME NEW at \in Nat, NEW p \in Seq(Bit), Behind(a, at, p), at + Len(p) <= Len(a)
      PROVE  Behind(a \o b, at, p)
  <2>1. ASSUME NEW i \in 1..Len(p) PROVE (a \o b)[at + i] = p[i]
    <3>1. at + i \in 1..Len(a)
      BY <1>2, <1>3
    <3>2. a[at + i] = p[i]
      BY <1>3 DEF Behind
    <3>3. QED
      BY <1>1, <3>1, <3>2
  <2>2. QED
    BY <2>1 DEF Behind
<1>4. QED
  BY <1>1, <1>3 DEF Behind

\* What is behind a part of a sequence is behind it in one that begins with it.
LEMMA BehindStart ==
  ASSUME NEW a, NEW w, NEW at \in Nat, NEW p, a \in Seq(Bit), p \in Seq(Bit),
         Begins(a, w), Behind(a, at, p), at + Len(p) <= Len(a)
  PROVE  Behind(w, at, p)
<1>1. ASSUME NEW i \in 1..Len(p) PROVE w[at + i] = p[i]
  <2>1. at + i \in 1..Len(a)
    <3>1. Len(a) \in Nat /\ Len(p) \in Nat
      OBVIOUS
    <3>2. QED
      BY <3>1
  <2>2. a[at + i] = p[i] /\ w[at + i] = a[at + i]
    BY <2>1 DEF Behind, Begins
  <2>3. QED
    BY <2>2
<1>2. QED
  BY <1>1 DEF Behind

HeaderValues(f) ==
  <<f.width, f.width \div CellValues, f.height, f.height \div CellValues,
    BlockWidth, BlockHeight>>

\* The header is six cells, one for each of these values.
LEMMA HeaderFacts ==
  ASSUME NEW f, IsSource(f)
  PROVE  /\ Header(f) \in Seq(Bit) /\ Len(Header(f)) = 6 * CellBits
         /\ \A i \in 1..6 :
              /\ HeaderValues(f)[i] \in Nat
              /\ TypeToBits(HeaderValues(f)[i], CellBits) \in Seq(Bit)
              /\ Len(TypeToBits(HeaderValues(f)[i], CellBits)) = CellBits
              /\ (i - 1) * CellBits \in Nat
              /\ (i - 1) * CellBits + CellBits = i * CellBits
              /\ i * CellBits <= 6 * CellBits
              /\ Behind(Header(f), (i - 1) * CellBits,
                        TypeToBits(HeaderValues(f)[i], CellBits))
<1> DEFINE C == CellBits
           V == HeaderValues(f)
           t(i) == TypeToBits(V[i], C)
           H == Header(f)
<1>1. C \in Nat /\ C > 0 /\ CellValues \in Nat /\ CellValues > 0
  BY CellFacts
<1>2. /\ V[1] = f.width /\ V[2] = f.width \div CellValues
      /\ V[3] = f.height /\ V[4] = f.height \div CellValues
      /\ V[5] = BlockWidth /\ V[6] = BlockHeight
  BY DEF HeaderValues
<1>3. ASSUME NEW i \in 1..6 PROVE V[i] \in Nat
  <2>1. f.width \in Nat /\ f.height \in Nat /\ BlockWidth \in Nat /\ BlockHeight \in Nat
    BY SourceFacts, SideFacts
  <2>2. CellValues \in Nat \ {0}
    BY <1>1
  <2>3. f.width \div CellValues \in Nat /\ f.height \div CellValues \in Nat
    BY <2>1, <2>2, QuotientAndRest
  <2>4. i = 1 \/ i = 2 \/ i = 3 \/ i = 4 \/ i = 5 \/ i = 6
    OBVIOUS
  <2> HIDE DEF V
  <2>5. QED
    BY <1>2, <2>1, <2>3, <2>4
<1>4. H = (((t(1) \o t(2)) \o (t(3) \o t(4))) \o t(5)) \o t(6)
  BY <1>2 DEF Header, Word, CellValues
<1> HIDE DEF V
<1>5. \A i \in 1..6 : t(i) \in Seq(Bit) /\ Len(t(i)) = C
  BY <1>1, <1>3, BitsWritten
<1>6. /\ t(1) \in Seq(Bit) /\ Len(t(1)) = C /\ t(2) \in Seq(Bit) /\ Len(t(2)) = C
      /\ t(3) \in Seq(Bit) /\ Len(t(3)) = C /\ t(4) \in Seq(Bit) /\ Len(t(4)) = C
      /\ t(5) \in Seq(Bit) /\ Len(t(5)) = C /\ t(6) \in Seq(Bit) /\ Len(t(6)) = C
  BY <1>5
<1> HIDE DEF C, t, H
<1> DEFINE a == t(1) \o t(2)
           b == t(3) \o t(4)
           c == a \o b
           d == c \o t(5)
<1>7. Behind(t(1), 0, t(1)) /\ Behind(t(3), 0, t(3))
  BY DEF Behind
<1>8. /\ a \in Seq(Bit) /\ Len(a) = 2 * C
      /\ Behind(a, 0, t(1)) /\ Behind(a, C, t(2))
  <2>1. /\ a \in Seq(Bit) /\ Len(a) = Len(t(1)) + Len(t(2))
        /\ Behind(a, Len(t(1)), t(2))
        /\ \A at \in Nat, p \in Seq(Bit) :
             Behind(t(1), at, p) /\ at + Len(p) <= Len(t(1)) => Behind(a, at, p)
    BY <1>6, Joined
  <2> HIDE DEF a
  <2>2. QED
    BY <1>1, <1>6, <1>7, <2>1 DEF C
<1>9. /\ b \in Seq(Bit) /\ Len(b) = 2 * C
      /\ Behind(b, 0, t(3)) /\ Behind(b, C, t(4))
  <2>1. /\ b \in Seq(Bit) /\ Len(b) = Len(t(3)) + Len(t(4))
        /\ Behind(b, Len(t(3)), t(4))
        /\ \A at \in Nat, p \in Seq(Bit) :
             Behind(t(3), at, p) /\ at + Len(p) <= Len(t(3)) => Behind(b, at, p)
    BY <1>6, Joined
  <2> HIDE DEF b
  <2>2. QED
    BY <1>1, <1>6, <1>7, <2>1 DEF C
<1> HIDE DEF a, b
<1>10. /\ c \in Seq(Bit) /\ Len(c) = 4 * C
       /\ Behind(c, 0, t(1)) /\ Behind(c, C, t(2)) /\ Behind(c, 2 * C, b)
  <2>1. /\ c \in Seq(Bit) /\ Len(c) = Len(a) + Len(b)
        /\ Behind(c, Len(a), b)
        /\ \A at \in Nat, p \in Seq(Bit) :
             Behind(a, at, p) /\ at + Len(p) <= Len(a) => Behind(c, at, p)
    BY <1>8, <1>9, Joined
  <2> HIDE DEF c
  <2>2. QED
    BY <1>1, <1>6, <1>8, <1>9, <2>1 DEF C
<1>11. Behind(c, 2 * C, t(3)) /\ Behind(c, 3 * C, t(4))
  <2> HIDE DEF c
  <2>1. ASSUME NEW i \in 1..C PROVE c[2 * C + i] = t(3)[i] /\ c[3 * C + i] = t(4)[i]
    <3>1. i \in 1..Len(b) /\ C + i \in 1..Len(b) /\ 2 * C + (C + i) = 3 * C + i /\ 0 + i = i
      BY <1>1, <1>9 DEF C
    <3>2. c[2 * C + i] = b[i] /\ c[2 * C + (C + i)] = b[C + i]
      BY <1>10, <3>1 DEF Behind
    <3>3. b[0 + i] = t(3)[i] /\ b[C + i] = t(4)[i]
      BY <1>6, <1>9 DEF Behind
    <3>4. QED
      BY <3>1, <3>2, <3>3
  <2>2. QED
    BY <1>6, <2>1 DEF Behind
<1> HIDE DEF c
<1>12. /\ d \in Seq(Bit) /\ Len(d) = 5 * C
       /\ Behind(d, 0, t(1)) /\ Behind(d, C, t(2)) /\ Behind(d, 2 * C, t(3))
       /\ Behind(d, 3 * C, t(4)) /\ Behind(d, 4 * C, t(5))
  <2>1. /\ d \in Seq(Bit) /\ Len(d) = Len(c) + Len(t(5))
        /\ Behind(d, Len(c), t(5))
        /\ \A at \in Nat, p \in Seq(Bit) :
             Behind(c, at, p) /\ at + Len(p) <= Len(c) => Behind(d, at, p)
    BY <1>6, <1>10, Joined
  <2> HIDE DEF d
  <2>2. /\ 0 \in Nat /\ C \in Nat /\ 2 * C \in Nat /\ 3 * C \in Nat
        /\ 0 + C <= Len(c) /\ C + C <= Len(c) /\ 2 * C + C <= Len(c) /\ 3 * C + C <= Len(c)
        /\ Len(c) = 4 * C /\ Len(c) + C = 5 * C
    BY <1>1, <1>10 DEF C
  <2>3. Behind(d, 0, t(1)) /\ Behind(d, C, t(2))
    BY <1>6, <1>10, <2>1, <2>2
  <2>4. Behind(d, 2 * C, t(3)) /\ Behind(d, 3 * C, t(4))
    BY <1>6, <1>11, <2>1, <2>2
  <2>5. QED
    BY <1>6, <2>1, <2>2, <2>3, <2>4
<1> HIDE DEF d
<1>13. /\ H \in Seq(Bit) /\ Len(H) = 6 * C
       /\ Behind(H, 0, t(1)) /\ Behind(H, C, t(2)) /\ Behind(H, 2 * C, t(3))
       /\ Behind(H, 3 * C, t(4)) /\ Behind(H, 4 * C, t(5)) /\ Behind(H, 5 * C, t(6))
  <2>1. H = d \o t(6)
    BY <1>4 DEF a, b, c, d
  <2>2. /\ H \in Seq(Bit) /\ Len(H) = Len(d) + Len(t(6))
        /\ Behind(H, Len(d), t(6))
        /\ \A at \in Nat, p \in Seq(Bit) :
             Behind(d, at, p) /\ at + Len(p) <= Len(d) => Behind(H, at, p)
    BY <1>6, <1>12, <2>1, Joined
  <2>3. /\ 0 \in Nat /\ C \in Nat /\ 2 * C \in Nat /\ 3 * C \in Nat /\ 4 * C \in Nat
        /\ 0 + C <= Len(d) /\ C + C <= Len(d) /\ 2 * C + C <= Len(d)
        /\ 3 * C + C <= Len(d) /\ 4 * C + C <= Len(d)
        /\ Len(d) = 5 * C /\ Len(d) + C = 6 * C
    BY <1>1, <1>12 DEF C
  <2>4. Behind(H, 0, t(1)) /\ Behind(H, C, t(2)) /\ Behind(H, 2 * C, t(3))
    BY <1>6, <1>12, <2>2, <2>3
  <2>5. Behind(H, 3 * C, t(4)) /\ Behind(H, 4 * C, t(5))
    BY <1>6, <1>12, <2>2, <2>3
  <2>6. QED
    BY <1>6, <2>2, <2>3, <2>4, <2>5
<1>14. ASSUME NEW i \in 1..6
       PROVE  /\ (i - 1) * C \in Nat /\ (i - 1) * C + C = i * C /\ i * C <= 6 * C
              /\ Behind(H, (i - 1) * C, t(i))
  <2>1. C \in Nat
    BY <1>1 DEF C
  <2>2. i = 1 \/ i = 2 \/ i = 3 \/ i = 4 \/ i = 5 \/ i = 6
    OBVIOUS
  <2>3. (i - 1) * C \in Nat /\ (i - 1) * C + C = i * C /\ i * C <= 6 * C
    BY <2>1
  <2>4. /\ (1 - 1) * C = 0 /\ (2 - 1) * C = C /\ (3 - 1) * C = 2 * C
        /\ (4 - 1) * C = 3 * C /\ (5 - 1) * C = 4 * C /\ (6 - 1) * C = 5 * C
    BY <2>1
  <2>5. Behind(H, (i - 1) * C, t(i))
    BY <1>13, <2>2, <2>4
  <2>6. QED
    BY <2>3, <2>5
<1>15. QED
  BY <1>3, <1>5, <1>13, <1>14 DEF C, V, t, H

\* A sound coder is a coder.
LEMMA SoundCoder ==
  ASSUME NEW c, Sound(c)
  PROVE  c \in Coder
<1>1. /\ c.tree \in Tree /\ c.nyt \in Node /\ c.cache \in [Value -> Node \cup {Null}]
  BY SoundFacts, ValueFacts
<1>2. QED
  BY <1>1 DEF Sound, Coder

\* The code of a symbol is a sequence of bits.
LEMMA CodeType ==
  ASSUME NEW c, NEW s, Sound(c), s \in Value
  PROVE  CodeOf(c, s) \in Seq(Bit)
<1>1. TypeToBits(s, LiteralBits) \in Seq(Bit) /\ s \in Symbol
  BY LiteralRead, ValueFacts
<1>2. QED
  BY <1>1, CodeParts DEF CodeOf

\* The recursion, and the types of what it gives.
LEMMA EncodingSteps ==
  ASSUME NEW f, IsSource(f)
  PROVE  /\ Encoding(f)[0] = [coder |-> NewCoder, stream |-> Header(f)]
         /\ \A i \in 1..Count(f) : Encoding(f)[i]
              = After(Encoding(f)[i - 1], Opening(f, i - 1), SymbolAt(f, i - 1))
         /\ \A i \in 0..Count(f) : /\ Sound(Encoding(f)[i].coder)
                                   /\ Encoding(f)[i].stream \in Seq(Bit)
                                   /\ i # 0 => Encoding(f)[i].coder.nyt # Root
<1> DEFINE n == Count(f)
           first == [coder |-> NewCoder, stream |-> Header(f)]
           next(e, i) == After(e, Opening(f, i - 1), SymbolAt(f, i - 1))
           Good(e) == Sound(e.coder) /\ e.stream \in Seq(Bit)
           X == {e \in [coder : Coder, stream : Seq(Bit)] : Good(e)}
           E == Encoding(f)
<1>1. n \in Nat
  <2>1. 0 \in Nat
    OBVIOUS
  <2>2. QED
    BY <2>1, NumberFacts
<1>2. Good(first) /\ first \in X
  <2>1. Good(first)
    BY NewCoderSound, HeaderFacts
  <2>2. first.coder \in Coder
    BY <2>1, SoundCoder
  <2>3. QED
    BY <2>1, <2>2
<1>3. ASSUME NEW e, NEW i \in 1..n, Good(e)
      PROVE  /\ Good(next(e, i)) /\ next(e, i) \in X
             /\ next(e, i).coder.nyt # Root
  <2> DEFINE s == SymbolAt(f, i - 1)
             o == Opening(f, i - 1)
  <2>1. i - 1 \in Nat
    BY <1>1
  <2>2. s \in Value /\ s \in Symbol /\ o \in Seq(Bit)
    BY <2>1, PieceFacts
  <2> HIDE DEF s, o
  <2>3. Sound(UpdateTree(e.coder, s)) /\ UpdateTree(e.coder, s).nyt # Root
    BY <1>3, <2>2, UpdateTreeKeepsSound
  <2>4. CodeOf(e.coder, s) \in Seq(Bit)
    BY <1>3, <2>2, CodeType
  <2>5. (e.stream \o o) \o CodeOf(e.coder, s) \in Seq(Bit)
    BY <1>3, <2>2, <2>4
  <2>6. UpdateTree(e.coder, s) \in Coder
    BY <2>3, SoundCoder
  <2>7. QED
    BY <2>3, <2>5, <2>6 DEF After, s, o
<1> HIDE DEF next, first, n, Good, X
<1>4. \E g : g = [i \in 0..n |-> IF i = 0 THEN first ELSE next(g[i - 1], i)]
  <2> DEFINE step == [p \in (1..n) \X X |-> next(p[2], p[1])]
  <2>1. step \in [(1..n) \X X -> X]
    <3> SUFFICES ASSUME NEW p \in (1..n) \X X PROVE next(p[2], p[1]) \in X
      OBVIOUS
    <3>1. p[2] \in X /\ p[1] \in 1..n
      OBVIOUS
    <3>2. Good(p[2])
      BY <3>1 DEF X
    <3>3. QED
      BY <1>3, <3>1, <3>2
  <2> HIDE DEF step
  <2>2. PICK g : Iterate(g, X, first, n, step)
    BY <1>1, <1>2, <2>1, Iterates
  <2>3. g \in [0..n -> X] /\ g[0] = first /\ \A i \in 1..n : g[i] = step[<<i, g[i - 1]>>]
    BY <2>2 DEF Iterate
  <2>4. \A i \in 1..n : g[i] = next(g[i - 1], i)
    <3> SUFFICES ASSUME NEW i \in 1..n PROVE g[i] = next(g[i - 1], i)
      OBVIOUS
    <3>1. g[i - 1] \in X
      BY <1>1, <2>3
    <3>2. step[<<i, g[i - 1]>>] = next(g[i - 1], i)
      BY <3>1 DEF step
    <3>3. QED
      BY <2>3, <3>2
  <2>5. \A i \in 0..n : g[i] = IF i = 0 THEN first ELSE next(g[i - 1], i)
    BY <1>1, <2>3, <2>4
  <2>6. g = [i \in 0..n |-> IF i = 0 THEN first ELSE next(g[i - 1], i)]
    BY <2>3, <2>5
  <2>7. QED
    BY <2>6
<1>5. E = [i \in 0..n |-> IF i = 0 THEN first ELSE next(E[i - 1], i)]
  BY <1>4, Zenon DEF Encoding, n, first, next
<1> HIDE DEF E
<1>6. E[0] = first /\ \A i \in 1..n : E[i] = next(E[i - 1], i)
  <2>1. \A i \in 0..n : E[i] = IF i = 0 THEN first ELSE next(E[i - 1], i)
    BY <1>5
  <2>2. QED
    BY <1>1, <2>1
<1> DEFINE S == {i \in Nat : i <= n => Good(E[i]) /\ (i # 0 => E[i].coder.nyt # Root)}
<1>7. 0 \in S
  BY <1>2, <1>6
<1>8. ASSUME NEW i \in Nat, i \in S PROVE i + 1 \in S
  <2> SUFFICES ASSUME i + 1 <= n PROVE Good(E[i + 1]) /\ E[i + 1].coder.nyt # Root
    OBVIOUS
  <2>1. i + 1 \in 1..n /\ (i + 1) - 1 = i
    BY <1>1
  <2>2. Good(E[i]) /\ E[i + 1] = next(E[i], i + 1)
    BY <1>1, <1>6, <1>8, <2>1
  <2>3. QED
    BY <1>3, <2>1, <2>2
<1>9. \A i \in Nat : i \in S
  <2> HIDE DEF S
  <2>1. QED
    BY <1>7, <1>8, Induction
<1>10. \A i \in 0..n : Good(E[i]) /\ (i # 0 => E[i].coder.nyt # Root)
  BY <1>1, <1>9
<1>11. QED
  BY <1>6, <1>10 DEF E, n, first, next, Good

CoderAt(f, k) == Encoding(f)[k].coder
StreamAt(f, k) == Encoding(f)[k].stream
BaseAt(f, k) == Len(StreamAt(f, k))

\* One symbol more.
LEMMA EncodingFields ==
  ASSUME NEW f, IsSource(f), NEW k \in Nat, k < Count(f)
  PROVE  LET s == SymbolAt(f, k)
         IN /\ CoderAt(f, k + 1) = UpdateTree(CoderAt(f, k), s)
            /\ StreamAt(f, k + 1)
                 = (StreamAt(f, k) \o Opening(f, k)) \o CodeOf(CoderAt(f, k), s)
<1>1. k + 1 \in 1..Count(f) /\ (k + 1) - 1 = k
  BY NumberFacts
<1>2. Encoding(f)[(k + 1)] = After(Encoding(f)[(k + 1) - 1], Opening(f, (k + 1) - 1),
                                    SymbolAt(f, (k + 1) - 1))
  BY <1>1, EncodingSteps
<1>3. Encoding(f)[k + 1] = After(Encoding(f)[k], Opening(f, k), SymbolAt(f, k))
  BY <1>1, <1>2
<1> DEFINE e == Encoding(f)[k]
           next == Encoding(f)[k + 1]
           o == Opening(f, k)
           s == SymbolAt(f, k)
<1>4. next = After(e, o, s)
  BY <1>3
<1>5. CoderAt(f, k) = e.coder /\ StreamAt(f, k) = e.stream
  BY DEF CoderAt, StreamAt
<1>6. CoderAt(f, k + 1) = next.coder /\ StreamAt(f, k + 1) = next.stream
  BY DEF CoderAt, StreamAt
<1> HIDE DEF e, next, o, s
<1>7. /\ next.coder = UpdateTree(e.coder, s)
      /\ next.stream = (e.stream \o o) \o CodeOf(e.coder, s)
  BY <1>4 DEF After
<1>8. QED
  BY <1>5, <1>6, <1>7 DEF o, s

\* After any number of symbols the coder is sound and the stream has bits.
LEMMA EncodingTypes ==
  ASSUME NEW f, IsSource(f), NEW k \in 0..Count(f)
  PROVE  /\ Sound(CoderAt(f, k)) /\ CoderAt(f, k) \in Coder
         /\ StreamAt(f, k) \in Seq(Bit) /\ BaseAt(f, k) \in Nat
         /\ k # 0 => CoderAt(f, k).nyt # Root
<1>1. /\ Sound(Encoding(f)[k].coder) /\ Encoding(f)[k].stream \in Seq(Bit)
      /\ k # 0 => Encoding(f)[k].coder.nyt # Root
  BY EncodingSteps
<1>2. StreamAt(f, k) \in Seq(Bit)
  BY <1>1 DEF StreamAt
<1>3. BaseAt(f, k) \in Nat
  BY <1>2 DEF BaseAt
<1>4. QED
  BY <1>1, <1>2, <1>3, SoundCoder DEF CoderAt

\* Before the first symbol the coder is new and only the header is written.
LEMMA EncodingStarts ==
  ASSUME NEW f, IsSource(f)
  PROVE  /\ CoderAt(f, 0) = NewCoder /\ StreamAt(f, 0) = Header(f)
         /\ BaseAt(f, 0) = 6 * CellBits
<1>1. Encoding(f)[0] = [coder |-> NewCoder, stream |-> Header(f)]
  BY EncodingSteps
<1>2. QED
  BY <1>1, HeaderFacts DEF CoderAt, StreamAt, BaseAt

\* What is written of k symbols stays at the beginning of the stream.
LEMMA StreamGrows ==
  ASSUME NEW f, IsSource(f)
  PROVE  LET W == Written(f)
             n == Count(f)
             mark == Heading(f, BlocksOf(f))
         IN /\ W \in Seq(Bit) /\ Len(W) \in Nat
            /\ \A k \in 0..n : Begins(StreamAt(f, k), W)
            /\ BaseAt(f, n) + 3 <= Len(W)
            /\ Len(W) < BaseAt(f, n) + 3 + CellBits
            /\ Behind(W, BaseAt(f, n), mark)
<1> DEFINE W == Written(f)
           n == Count(f)
           mark == Heading(f, BlocksOf(f))
           end == StreamAt(f, n)
           whole == end \o mark
<1>1. n \in Nat /\ BlocksOf(f) \in Nat
  BY SourceFacts, NumberFacts
<1>2. end \in Seq(Bit) /\ BaseAt(f, n) = Len(end) /\ Len(end) \in Nat
  BY <1>1, EncodingTypes DEF BaseAt
<1>3. mark \in Seq(Bit) /\ Len(mark) = 3
  BY <1>1, HeadingFacts
<1>4. W = FillCell(whole)
  BY DEF Written, StreamAt
<1> HIDE DEF W, mark, end, n
<1>5. whole \in Seq(Bit) /\ Len(whole) = Len(end) + 3
  <2>1. whole \in Seq(Bit) /\ Len(whole) = Len(end) + Len(mark)
    BY <1>2, <1>3, Joined
  <2>2. QED
    BY <1>3, <2>1
<1> HIDE DEF whole
<1>6. W \in Seq(Bit) /\ Begins(whole, W) /\ Len(W) < Len(whole) + CellBits
  <2>1. CellBits \in Nat \ {0}
    BY ImageAssumption
  <2>2. W = whole \o [i \in 1..((-Len(whole)) % CellBits) |-> 0]
    BY <1>4 DEF FillCell
  <2>3. QED
    BY <1>5, <2>1, <2>2, ZerosBehind
<1>7. /\ Begins(end, W) /\ Len(end) + 3 <= Len(W)
      /\ \A i \in 1..Len(mark) : W[Len(end) + i] = mark[i]
  <2>1. Begins(end \o mark, W)
    BY <1>6 DEF whole
  <2>2. /\ Begins(end, W) /\ Len(end) + Len(mark) <= Len(W)
        /\ \A i \in 1..Len(mark) : W[Len(end) + i] = mark[i]
    <3>1. end \in Seq(Bit) /\ mark \in Seq(Bit) /\ W \in Seq(Bit)
      BY <1>2, <1>3, <1>6
    <3>2. QED
      BY <2>1, <3>1, BeginsWithBoth
  <2>3. QED
    BY <1>3, <2>2
<1> DEFINE S == {i \in Nat : i <= n => Begins(StreamAt(f, n - i), W)}
<1>8. 0 \in S
  BY <1>1, <1>7 DEF end
<1>9. ASSUME NEW i \in Nat, i \in S PROVE i + 1 \in S
  <2> DEFINE k == n - (i + 1)
             o == Opening(f, k)
             new == CodeOf(CoderAt(f, k), SymbolAt(f, k))
             old == StreamAt(f, k)
  <2> SUFFICES ASSUME i + 1 <= n PROVE Begins(StreamAt(f, n - (i + 1)), W)
    OBVIOUS
  <2>1. k \in Nat /\ k < n /\ k \in 0..n /\ k + 1 = n - i
    BY <1>1
  <2>2. Begins(StreamAt(f, n - i), W)
    BY <1>1, <1>9
  <2>3. StreamAt(f, n - i) = (old \o o) \o new
    <3> HIDE DEF k
    <3>1. StreamAt(f, k + 1) = (StreamAt(f, k) \o Opening(f, k))
                                  \o CodeOf(CoderAt(f, k), SymbolAt(f, k))
      BY <2>1, EncodingFields DEF n
    <3>2. QED
      BY <2>1, <3>1
  <2>4. old \in Seq(Bit) /\ o \in Seq(Bit) /\ new \in Seq(Bit)
    <3> HIDE DEF k
    <3>1. Sound(CoderAt(f, k)) /\ old \in Seq(Bit)
      BY <2>1, EncodingTypes DEF n
    <3>2. o \in Seq(Bit) /\ SymbolAt(f, k) \in Value
      BY <2>1, PieceFacts
    <3>3. QED
      BY <3>1, <3>2, CodeType
  <2> HIDE DEF k, o, new, old
  <2>5. old \o o \in Seq(Bit)
    BY <2>4
  <2>6. Begins(old \o o, W)
    <3> DEFINE a == old \o o
    <3>1. a \in Seq(Bit) /\ Begins(a \o new, W)
      BY <2>2, <2>3, <2>5
    <3> HIDE DEF a
    <3>2. Begins(a, W)
      BY <1>6, <2>4, <3>1, BeginsWithBoth
    <3>3. QED
      BY <3>2 DEF a
  <2>7. Begins(old, W)
    BY <1>6, <2>4, <2>6, BeginsWithBoth
  <2>8. QED
    BY <2>7 DEF old, k
<1>10. ASSUME NEW k \in 0..n PROVE Begins(StreamAt(f, k), W)
  <2>1. \A i \in Nat : i \in S
    <3> HIDE DEF S
    <3>1. QED
      BY <1>8, <1>9, Induction
  <2>2. n - k \in Nat /\ n - k <= n /\ n - (n - k) = k
    BY <1>1
  <2>3. n - k \in S
    BY <2>1, <2>2
  <2>4. QED
    BY <2>2, <2>3
<1>11. Len(W) \in Nat
  BY <1>6
<1>12. CellBits \in Nat
  BY CellFacts
<1>13. QED
  BY <1>2, <1>5, <1>6, <1>7, <1>10, <1>11, <1>12 DEF W, n, mark, Behind

-----------------------------------------------------------------------------
(***************************************************************************)
(* What every position of the stream means.                                *)
(***************************************************************************)
SymbolStart(f, k) == BaseAt(f, k) + Len(Opening(f, k))
GoalAt(f, k) == Goal(CoderAt(f, k), SymbolAt(f, k))
EndAt(f, k) == SymbolStart(f, k) + Len(PathTo(CoderAt(f, k).tree, GoalAt(f, k)))

\* The header.
LEMMA HeaderBits ==
  ASSUME NEW f, IsSource(f), NEW i \in 1..6
  PROVE  Behind(Written(f), (i - 1) * CellBits, TypeToBits(HeaderValues(f)[i], CellBits))
<1> DEFINE t == TypeToBits(HeaderValues(f)[i], CellBits)
           at == (i - 1) * CellBits
<1>1. Begins(Header(f), Written(f))
  <2>1. 0 \in 0..Count(f)
    BY NumberFacts
  <2>2. QED
    BY <2>1, StreamGrows, EncodingStarts
<1>2. /\ Header(f) \in Seq(Bit) /\ t \in Seq(Bit) /\ at \in Nat
      /\ at + CellBits = i * CellBits /\ i * CellBits <= 6 * CellBits
      /\ Len(t) = CellBits /\ Len(Header(f)) = 6 * CellBits
      /\ Behind(Header(f), at, t)
  BY HeaderFacts
<1> HIDE DEF t, at
<1>3. at + Len(t) <= Len(Header(f))
  BY <1>2
<1>4. Behind(Written(f), at, t)
  BY <1>1, <1>2, <1>3, BehindStart
<1>5. QED
  BY <1>4 DEF t, at

\* The symbols, with what is before the first one of a block.
LEMMA NextBits ==
  ASSUME NEW f, IsSource(f), NEW k \in Nat, k < Count(f)
  PROVE  LET c == CoderAt(f, k)
             s == SymbolAt(f, k)
             code == CodeOf(c, s)
             W == Written(f)
         IN /\ BaseAt(f, k) \in Nat /\ SymbolStart(f, k) \in Nat
            /\ Behind(W, BaseAt(f, k), Opening(f, k))
            /\ SymbolStart(f, k) <= Len(W)
            /\ Behind(W, SymbolStart(f, k), code)
            /\ BaseAt(f, k + 1) = SymbolStart(f, k) + Len(code)
            /\ BaseAt(f, k + 1) \in Nat /\ BaseAt(f, k + 1) <= Len(W)
<1> DEFINE c == CoderAt(f, k)
           s == SymbolAt(f, k)
           o == Opening(f, k)
           code == CodeOf(c, s)
           W == Written(f)
           old == StreamAt(f, k)
           new == StreamAt(f, k + 1)
           a == old \o o
<1>1. k \in 0..Count(f) /\ k + 1 \in 0..Count(f)
  BY NumberFacts
<1>2. old \in Seq(Bit) /\ new \in Seq(Bit) /\ Sound(c)
  BY <1>1, EncodingTypes
<1>3. o \in Seq(Bit) /\ s \in Value
  BY PieceFacts
<1>4. code \in Seq(Bit)
  BY <1>2, <1>3, CodeType
<1>5. new = a \o code
  BY EncodingFields
<1>6. W \in Seq(Bit) /\ Begins(new, W)
  BY <1>1, StreamGrows
<1>7. /\ BaseAt(f, k) = Len(old) /\ BaseAt(f, k + 1) = Len(new)
      /\ SymbolStart(f, k) = Len(old) + Len(o)
  BY DEF BaseAt, SymbolStart
<1> HIDE DEF c, s, o, code, W, old, new
<1>8. a \in Seq(Bit) /\ Len(a) = Len(old) + Len(o)
  BY <1>2, <1>3
<1> HIDE DEF a
<1>9. /\ Begins(a, W) /\ Len(a) + Len(code) <= Len(W)
      /\ \A i \in 1..Len(code) : W[Len(a) + i] = code[i]
  BY <1>4, <1>5, <1>6, <1>8, BeginsWithBoth
<1>10. \A i \in 1..Len(o) : W[Len(old) + i] = o[i]
  <2>1. Begins(old \o o, W)
    BY <1>9 DEF a
  <2>2. /\ Begins(old, W) /\ Len(old) + Len(o) <= Len(W)
        /\ \A i \in 1..Len(o) : W[Len(old) + i] = o[i]
    BY <1>2, <1>3, <1>6, <2>1, BeginsWithBoth
  <2>3. QED
    BY <2>2
<1>11. Len(new) = Len(a) + Len(code)
  <2>1. Len(a \o code) = Len(a) + Len(code)
    BY <1>4, <1>8, Joined
  <2>2. QED
    BY <1>5, <2>1
<1>12. /\ Len(old) \in Nat /\ Len(o) \in Nat /\ Len(code) \in Nat /\ Len(new) \in Nat
       /\ Len(W) \in Nat
  BY <1>2, <1>3, <1>4, <1>6
<1>13. Behind(W, Len(old), o) /\ Behind(W, Len(a), code)
  BY <1>9, <1>10 DEF Behind
<1>14. /\ Len(a) \in Nat /\ Len(a) <= Len(W) /\ Len(new) <= Len(W)
  BY <1>8, <1>9, <1>11, <1>12
<1>15. QED
  BY <1>7, <1>8, <1>11, <1>12, <1>13, <1>14 DEF c, s, o, code, W

\* The way to the leaf of the symbol, or to the NYT node and its literal.
LEMMA SymbolBits ==
  ASSUME NEW f, IsSource(f), NEW k \in Nat, k < Count(f)
  PROVE  LET c == CoderAt(f, k)
             s == SymbolAt(f, k)
             goal == GoalAt(f, k)
             end == EndAt(f, k)
             W == Written(f)
         IN /\ Sound(c) /\ (k # 0 => c.nyt # Root)
            /\ s \in Value /\ s \in Symbol
            /\ CoderAt(f, k + 1) = UpdateTree(c, s)
            /\ end \in Nat /\ BaseAt(f, k + 1) \in Nat /\ BaseAt(f, k + 1) <= Len(W)
            /\ goal # Root => OnWay(c, goal, W, end, Root, SymbolStart(f, k))
            /\ goal = Root => end = SymbolStart(f, k)
            /\ goal # c.nyt => /\ BaseAt(f, k + 1) = end
                               /\ IsLeaf(c.tree, goal) /\ c.tree.value[goal] = s
            /\ goal = c.nyt => /\ BaseAt(f, k + 1) = end + LiteralBits
                               /\ Behind(W, end, TypeToBits(s, LiteralBits))
            /\ k # 0 => goal # Root
            /\ end <= Len(W)
<1> DEFINE c == CoderAt(f, k)
           s == SymbolAt(f, k)
           lit == TypeToBits(s, LiteralBits)
           goal == GoalAt(f, k)
           base == SymbolStart(f, k)
           end == EndAt(f, k)
           next == BaseAt(f, k + 1)
           W == Written(f)
           code == CodeOf(c, s)
<1>1. k \in 0..Count(f)
  BY NumberFacts
<1>2. Sound(c) /\ (k # 0 => c.nyt # Root)
  BY <1>1, EncodingTypes
<1>3. s \in Value /\ s \in Symbol
  BY PieceFacts
<1>4. lit \in Seq(Bit) /\ Len(lit) = LiteralBits
  BY <1>3, LiteralRead
<1>5. /\ base \in Nat /\ Behind(W, base, code)
      /\ next = base + Len(code) /\ next \in Nat /\ next <= Len(W)
  BY NextBits
<1>6. W \in Seq(Bit) /\ Len(W) \in Nat
  BY StreamGrows
<1>7. CoderAt(f, k + 1) = UpdateTree(c, s)
  BY EncodingFields
<1>8. /\ goal = Goal(c, s) /\ end = base + Len(PathTo(c.tree, goal))
      /\ code = Code(c, s, lit)
  BY DEF GoalAt, EndAt, CodeOf
<1> HIDE DEF c, s, lit, goal, base, end, next, W, code
<1>9. /\ c.nyt # Root => goal # Root
      /\ goal # c.nyt => IsLeaf(c.tree, goal) /\ c.tree.value[goal] = s
  BY <1>2, <1>3, <1>8, GoalOfSymbol
<1>10. LET e == base + Len(PathTo(c.tree, goal))
           x == base + Len(code)
       IN /\ e \in Nat /\ x \in Nat
          /\ goal # Root => OnWay(c, goal, W, e, Root, base)
          /\ goal = Root => e = base
          /\ goal # c.nyt => x = e
          /\ goal = c.nyt => x = e + Len(lit) /\ Behind(W, e, lit)
  BY <1>2, <1>3, <1>4, <1>5, <1>8, CodeInStream
<1>11. LiteralBits \in Nat
  BY ImageAssumption
<1>12. end <= Len(W)
  BY <1>4, <1>5, <1>6, <1>8, <1>10, <1>11
<1>13. QED
  BY <1>2, <1>3, <1>4, <1>5, <1>7, <1>8, <1>9, <1>10, <1>12
     DEF c, s, lit, goal, base, end, next, W

\* The scan methods of the blocks and the end mark.
LEMMA HeadingBits ==
  ASSUME NEW f, IsSource(f), NEW b \in 0..BlocksOf(f)
  PROVE  LET base == BaseAt(f, Number(b, 0))
         IN /\ base \in Nat /\ base + 3 <= Len(Written(f))
            /\ \A i \in 1..3 : Written(f)[base + i] = Heading(f, b)[i]
            /\ b < BlocksOf(f) => SymbolStart(f, Number(b, 0)) = base + 3
            /\ b = BlocksOf(f) => Len(Written(f)) < base + 3 + CellBits
<1> DEFINE n == BlocksOf(f)
           k == Number(b, 0)
           W == Written(f)
           h == Heading(f, b)
<1>1. n \in Nat /\ b \in Nat
  BY SourceFacts
<1>2. h \in Seq(Bit) /\ Len(h) = 3
  BY <1>1, HeadingFacts
<1>3. 0 \in Index
  BY SideFacts DEF Index
<1>4. CASE b < n
  <2>1. k < Count(f) /\ k \in Nat
    BY <1>1, <1>3, <1>4, NumberFacts, NumberSplit
  <2>2. Opening(f, k) = h
    BY <1>1, <1>3, PieceIs
  <2>3. /\ BaseAt(f, k) \in Nat /\ SymbolStart(f, k) <= Len(W)
        /\ Behind(W, BaseAt(f, k), Opening(f, k))
    BY <2>1, NextBits
  <2>4. SymbolStart(f, k) = BaseAt(f, k) + 3
    BY <1>2, <2>2 DEF SymbolStart
  <2>5. \A i \in 1..3 : W[BaseAt(f, k) + i] = h[i]
    BY <1>2, <2>2, <2>3 DEF Behind
  <2>6. b # n
    BY <1>1, <1>4
  <2>7. QED
    BY <2>3, <2>4, <2>5, <2>6
<1>5. CASE b = n
  <2>1. k = Count(f) /\ Count(f) \in Nat /\ k \in 0..Count(f)
    BY <1>1, <1>5, NumberFacts
  <2>2. BaseAt(f, k) \in Nat
    BY <2>1, EncodingTypes
  <2>3. /\ BaseAt(f, k) + 3 <= Len(W) /\ Len(W) < BaseAt(f, k) + 3 + CellBits
        /\ Behind(W, BaseAt(f, k), h)
    BY <1>5, <2>1, StreamGrows
  <2>4. \A i \in 1..3 : W[BaseAt(f, k) + i] = h[i]
    BY <1>2, <2>3 DEF Behind
  <2>5. ~(b < n)
    BY <1>1, <1>5
  <2>6. QED
    BY <2>2, <2>3, <2>4, <2>5
<1>6. QED
  BY <1>1, <1>4, <1>5

-----------------------------------------------------------------------------
(***************************************************************************)
(* The inductive invariant.  BlocksRestored, CleanBetweenBlocks and        *)
(* StopsAtEndMark speak of the ends of blocks only.  What makes them true  *)
(* is that at every bit the decoder has the tree the encoder had when it   *)
(* wrote that bit, is at the position of the same symbol, has drawn the    *)
(* pixels of all symbols before it, and knows which of the parts of the    *)
(* stream the bit belongs to.                                              *)
(***************************************************************************)
Source == [width |-> image.width, height |-> ImageHeight, pixels |-> pixels]

InBlockOf(f, b, p) ==
  LET start == Start(f, b)
  IN p.x - start.x \in 0..(BlockWidth - 1) /\ p.y - start.y \in 0..(BlockHeight - 1)

\* Position p belongs to one of the first b blocks or to the first j symbols of the
\* next one.
Covered(f, b, j, p) ==
  \/ \E a \in 0..(b - 1) : InBlockOf(f, a, p)
  \/ \E i \in 0..(j - 1) : PosAt(Start(f, b), MethodOf(f, b), i) = p

\* The pixels of these positions are drawn, and no others.
Drawn(f, b, j, drawn) ==
  /\ drawn \in Seq(Value) /\ Len(drawn) = f.width * RowsKept(f.height)
  /\ \A x \in 0..(f.width - 1), y \in 0..(RowsKept(f.height) - 1) :
       LET a == Address(At(x, y), f.width)
       IN drawn[a] = IF Covered(f, b, j, At(x, y)) THEN f.pixels[a] ELSE 0

\* The decoder's model is the encoder's, in the rows that the decoder knows of.
Modelled(f, b, j, lastVal) ==
  UseModel /\ Start(f, b).y < RowsKept(f.height) =>
    lastVal = LastVals(f, Start(f, b), MethodOf(f, b))[j]

\* The rest of the path to the goal is what comes next in the stream.
OnPath(f, k, n, at) == OnWay(CoderAt(f, k), GoalAt(f, k), Written(f), EndAt(f, k), n, at)

\* The bits since the goal, the NYT node, are the literal so far.
InLiteral(f, k, n, at, lit) ==
  /\ n = CoderAt(f, k).nyt /\ GoalAt(f, k) = n
  /\ Len(lit) < LiteralBits
  /\ at = EndAt(f, k) + Len(lit)
  /\ Behind(Written(f), EndAt(f, k), lit)

HeaderIs(f, header) ==
  \A i \in 1..Len(header) : header[i] = HeaderValues(f)[i] % CellValues

\* The decoder has not begun with the blocks.
Fresh ==
  /\ decoder = NewCoder /\ node = Root /\ literal = <<>> /\ ~stopped /\ result = <<>>
  /\ ctx = [NewContext EXCEPT !.header = ctx.header]
  /\ scan.index = 0

AtHeader(f) ==
  /\ Fresh
  /\ Len(ctx.header) \in 0..5 /\ HeaderIs(f, ctx.header)
  /\ index - 1 = Len(ctx.header) * CellBits

\* Between two blocks, or at the end mark and behind it.
AtMethod(f, b, read) ==
  /\ ctx.symbolCounter = 0 /\ node = Root /\ literal = <<>>
  /\ \A i \in 1..3 : ctx.methodBits[i] = IF i <= read THEN Heading(f, b)[i] ELSE 0
  /\ ctx.isFirstBlock <=> b = 0
  /\ scan.index = IF b = 0 THEN 0 ELSE BlockSize
  /\ stopped <=> read = 3
  /\ read = 3 => b = BlocksOf(f) /\ index - 1 >= BaseAt(f, Number(b, 0)) + 3
  /\ read < 3 => index - 1 = BaseAt(f, Number(b, 0)) + read

\* On the way to a symbol, or in its literal.
AtSymbol(f, b, j) ==
  /\ b < BlocksOf(f) /\ ctx.bitsRead = 0 /\ ~ctx.isFirstBlock /\ ~stopped
  /\ scan.index = j /\ scan.scanMethod = MethodOf(f, b)
  /\ Modelled(f, b, j, ctx.lastVal)
  /\ \/ ctx.state = "Tree" /\ literal = <<>> /\ OnPath(f, Number(b, j), node, index - 1)
     \/ ctx.state = "Value" /\ InLiteral(f, Number(b, j), node, index - 1, literal)

AtBlock(f, b, j) ==
  /\ Len(ctx.header) = 6 /\ HeaderIs(f, ctx.header)
  /\ b <= BlocksOf(f)
  /\ decoder = CoderAt(f, Number(b, j))
  /\ Drawn(f, b, j, result)
  /\ ctx.state = "BlockHeader" => AtMethod(f, b, ctx.bitsRead)
  /\ ctx.state # "BlockHeader" => AtSymbol(f, b, j)

\* The decoder is called when the encoder is done.
Idle ==
  phase \in {"start", "block", "scan"} =>
    Fresh /\ ctx.header = <<>> /\ index = 1 /\ ~lost

\* The encoder has written what it should have, at its start, between two blocks, in
\* a block and at the end.
Starting == phase = "start" => block = 0 /\ symbols = <<>> /\ coder = NewCoder /\ stream = <<>>

Between ==
  phase = "block" =>
    /\ block <= BlocksOf(Source) /\ symbols = <<>>
    /\ coder = CoderAt(Source, Number(block, 0))
    /\ stream = StreamAt(Source, Number(block, 0))

\* j symbols of the block are written.
InScan(j) ==
  /\ Len(symbols) = BlockSize - j
  /\ \A i \in 1..Len(symbols) : symbols[i] = SymbolsOf(Source, block)[j + i]
  /\ coder = CoderAt(Source, Number(block, j))
  /\ stream = StreamAt(Source, Number(block, j))
                \o (IF j = 0 THEN Heading(Source, block) ELSE <<>>)

Scanning ==
  phase = "scan" => block < BlocksOf(Source) /\ \E j \in 0..BlockSize : InScan(j)

Encoded ==
  phase \in {"decode", "done"} =>
    /\ block = BlocksOf(Source) /\ symbols = <<>>
    /\ coder = CoderAt(Source, Count(Source))
    /\ Begins(stream, Written(Source))
    /\ ~lost => stream = Written(Source)
    /\ index \in 1..(Len(stream) + 1)
    /\ lost \/ phase = "done" => index > Len(stream)

Reading ==
  phase \in {"decode", "done"} =>
    /\ ctx.state = "ImageHeader" => AtHeader(Source)
    /\ ctx.state # "ImageHeader" => AtBlock(Source, ctx.blockIndex, ctx.symbolCounter)

IInv ==
  /\ TypeOK /\ ScanInv /\ IsSource(Source)
  /\ Idle /\ Starting /\ Between /\ Scanning /\ Encoded /\ Reading

-----------------------------------------------------------------------------
(***************************************************************************)
(* The steps of the encoder.                                               *)
(***************************************************************************)
\* The image being encoded, in the words of the encoder's actions.
LEMMA SourceIs ==
  /\ Source.width = image.width /\ Source.height = ImageHeight /\ Source.pixels = pixels
  /\ BlocksOf(Source) = BlockCount(image.width, ImageHeight)
  /\ Header(Source) = Word(image.width) \o Word(ImageHeight)
                        \o TypeToBits(BlockWidth, CellBits) \o TypeToBits(BlockHeight, CellBits)
  /\ \A b : MethodNumber(Source, b)
              = BestMethod(pixels, image.width, ImageHeight, StartPosForBlock(b, image.width))
  /\ \A b : SymbolsOf(Source, b)
              = BlockSymbols(pixels, image.width, ImageHeight,
                             StartPosForBlock(b, image.width), MethodOf(Source, b))
<1>1. Source.width = image.width /\ Source.height = ImageHeight /\ Source.pixels = pixels
  BY DEF Source
<1>2. \A b : Start(Source, b) = StartPosForBlock(b, image.width)
  BY <1>1 DEF Start
<1>3. QED
  BY <1>1, <1>2 DEF BlocksOf, Header, MethodNumber, SymbolsOf, Scanned

\* The image does not change while it is encoded and decoded.
LEMMA SourceStays ==
  ASSUME image' = image, pixels' = pixels
  PROVE  Source' = Source
BY DEF Source, ImageHeight

\* The image and what is behind it in memory are whole rows.
LEMMA RowsAreWhole ==
  ASSUME NEW n \in Nat, NEW w \in Nat, w > 0
  PROVE  /\ Height(n, w) \in Nat /\ w * Height(n, w) \in Nat
         /\ n <= w * Height(n, w)
<1> DEFINE h == Height(n, w)
<1>1. h \in Nat /\ (h < h <=> h * w < n)
  BY CeilIs DEF Height
<1> HIDE DEF h
<1>2. w * h = h * w /\ w * h \in Nat
  BY <1>1
<1>3. QED
  BY <1>1, <1>2 DEF h

\* The data and what is behind it in memory, as one sequence.
LEMMA RowsJoined ==
  ASSUME NEW a, NEW b, a \in Seq(Value), b \in Seq(Value)
  PROVE  a \o b \in Seq(Value) /\ Len(a \o b) = Len(a) + Len(b)
OBVIOUS

\* Every image a run begins with is one the first parts are about.
LEMMA InitSource ==
  ASSUME Init
  PROVE  pixels \in Seq(Value) /\ IsSource(Source)
<1> DEFINE w == image.width
           n == Len(image.data)
           h == ImageHeight
           k == w * h - n
<1>1. /\ image \in Images
      /\ \E beyond \in [1..k -> Value] : pixels = image.data \o beyond
  BY DEF Init
<1>2. PICK beyond \in [1..k -> Value] : pixels = image.data \o beyond
  BY <1>1
<1>3. /\ w \in 1..(DimensionCount - 1) /\ image.data \in Seq(Value) /\ KeepsBlocks(h)
  BY <1>1, ImageAssumption DEF ImageHeight
<1>4. w \in Nat /\ w > 0 /\ n \in Nat
  <2>1. DimensionCount \in Int
    BY CellFacts
  <2>2. QED
    BY <1>3, <2>1
<1>5. h \in Nat /\ w * h \in Nat /\ n <= w * h
  BY <1>4, RowsAreWhole DEF ImageHeight
<1>6. Source.width = w /\ Source.height = h /\ Source.pixels = pixels
  BY DEF Source
<1> HIDE DEF w, h
<1>7. k \in Nat
  BY <1>4, <1>5
<1> HIDE DEF k
<1>8. beyond \in Seq(Value) /\ Len(beyond) = k
  BY <1>7
<1>9. pixels \in Seq(Value) /\ Len(pixels) = n + k
  <2> DEFINE d == image.data
             all == d \o beyond
  <2>1. d \in Seq(Value) /\ Len(d) = n /\ pixels = all
    BY <1>2, <1>3
  <2> HIDE DEF d, n
  <2>2. all \in Seq(Value) /\ Len(all) = Len(d) + Len(beyond)
    BY <1>8, <2>1, RowsJoined
  <2>3. QED
    BY <1>8, <2>1, <2>2
<1>10. Len(pixels) = w * h
  BY <1>4, <1>5, <1>9 DEF k
<1>11. QED
  BY <1>3, <1>5, <1>6, <1>9, <1>10 DEF IsSource

\* A scan as BlockScan leaves it has its type.
LEMMA ScanTyped == ScanInv => ScanTypeOK
<1> SUFFICES ASSUME ScanInv PROVE ScanTypeOK
  OBVIOUS
<1>1. Suits(scan.scanMethod)
  BY AllSuit DEF ScanInv
<1>2. QED
  BY <1>1, SeenFacts, ScanTypes DEF ScanTypeOK

\* The same of the next state.
LEMMA ScanTypedNext == ScanInv' => ScanTypeOK'
  BY ScanTyped, PTL

\* A coder begins at the root of a new tree.
LEMMA NewCoderTyped == NewCoder \in Coder /\ Root \in Node
<1>1. Sound(NewCoder)
  BY NewCoderSound
<1>2. QED
  BY <1>1, SoundCoder, SoundFacts

\* The invariant holds initially.
LEMMA InitInv == Init => IInv
<1> SUFFICES ASSUME Init PROVE IInv
  OBVIOUS
<1>1. ScanInv
  BY InitScanInv DEF Init
<1>2. pixels \in Seq(Value) /\ IsSource(Source)
  BY InitSource
<1>3. NewContext \in Context
  <2>1. <<>> \in Seq(0..(2 ^ CellBits - 1)) /\ NoBits \in [1..3 -> {0, 1}]
    BY DEF NoBits
  <2>2. 0 \in 0..(BlockSize - 1) /\ 0 \in Value
    BY SideFacts, ValueFacts
  <2>3. QED
    BY <2>1, <2>2 DEF NewContext, Context
<1>4. TypeOK
  <2>1. ScanTypeOK
    BY <1>1, ScanTyped
  <2>2. <<>> \in Seq(Value) /\ <<>> \in Bits
    BY DEF Bits
  <2>3. QED
    BY <1>2, <1>3, <2>1, <2>2, NewCoderTyped DEF Init, TypeOK
<1>5. scan.index = 0
  BY DEF Init, ScanInit, ResetScan
<1>6. Idle
  <2>1. NewContext = [NewContext EXCEPT !.header = NewContext.header]
    BY DEF NewContext
  <2>2. NewContext.header = <<>>
    BY DEF NewContext
  <2>3. QED
    BY <1>5, <2>1, <2>2 DEF Init, Idle, Fresh
<1>7. Starting /\ Between /\ Scanning /\ Encoded /\ Reading
  BY DEF Init, Starting, Between, Scanning, Encoded, Reading
<1>8. QED
  BY <1>1, <1>2, <1>4, <1>6, <1>7 DEF IInv

\* The decoder waits for the encoder.
LEMMA StillFresh ==
  ASSUME IInv, phase \in {"start", "block", "scan"},
         UNCHANGED <<image, pixels, lost, decoding>>
  PROVE  /\ Source' = Source /\ IsSource(Source) /\ IsSource(Source)'
         /\ ScanInv' /\ ScanTypeOK'
         /\ Fresh' /\ ctx'.header = <<>> /\ index' = 1 /\ ~lost'
<1>1. /\ image' = image /\ pixels' = pixels /\ lost' = lost /\ index' = index
      /\ decoder' = decoder /\ node' = node /\ literal' = literal /\ ctx' = ctx
      /\ stopped' = stopped /\ result' = result /\ scan' = scan /\ visited' = visited
  BY DEF decoding
<1>2. Fresh /\ ctx.header = <<>> /\ index = 1 /\ ~lost
  BY DEF IInv, Idle
<1>3. Source' = Source /\ IsSource(Source) /\ IsSource(Source)'
  BY <1>1, SourceStays DEF IInv
<1>4. ScanInv'
  BY <1>1 DEF IInv, ScanInv
<1>5. Fresh'
  BY <1>1, <1>2 DEF Fresh
<1>6. QED
  BY <1>1, <1>2, <1>3, <1>4, <1>5, ScanTypedNext

\* Writing the header keeps the invariant.
LEMMA WriteHeaderInv == IInv /\ WriteHeader => IInv'
<1> SUFFICES ASSUME IInv, WriteHeader PROVE IInv'
  OBVIOUS
<1>1. /\ phase = "start" /\ phase' = "block" /\ UNCHANGED <<image, pixels, lost, decoding>>
      /\ block' = block /\ symbols' = symbols /\ coder' = coder
  BY DEF WriteHeader
<1>2. stream' = Header(Source)
  BY SourceIs DEF WriteHeader
<1>3. /\ Source' = Source /\ IsSource(Source) /\ IsSource(Source)' /\ ScanInv' /\ ScanTypeOK'
      /\ Fresh' /\ ctx'.header = <<>> /\ index' = 1 /\ ~lost'
  BY <1>1, StillFresh
<1>4. block = 0 /\ symbols = <<>> /\ coder = NewCoder
  BY <1>1 DEF IInv, Starting
<1>5. stream' \in Bits
  BY <1>2, <1>3, HeaderFacts DEF Bits, Bit
<1>6. TypeOK'
  BY <1>1, <1>3, <1>5 DEF IInv, TypeOK, decoding
<1>7. Between'
  <2>1. Number(0, 0) = 0 /\ BlocksOf(Source) \in Nat
    BY <1>3, NumberFacts, SourceFacts
  <2>2. coder' = CoderAt(Source, 0) /\ stream' = StreamAt(Source, 0)
    BY <1>1, <1>2, <1>3, <1>4, EncodingStarts
  <2>3. QED
    BY <1>1, <1>3, <1>4, <2>1, <2>2 DEF Between
<1>8. Idle' /\ Starting' /\ Scanning' /\ Encoded' /\ Reading'
  BY <1>1, <1>3 DEF Idle, Starting, Scanning, Encoded, Reading
<1>9. QED
  BY <1>3, <1>6, <1>7, <1>8 DEF IInv

\* Beginning a block, with its scan method, keeps the invariant.
LEMMA BeginBlockInv == IInv /\ BeginBlock => IInv'
<1> SUFFICES ASSUME IInv, BeginBlock PROVE IInv'
  OBVIOUS
<1> DEFINE f == Source
           b == block
<1>1. /\ phase = "block" /\ phase' = "scan" /\ UNCHANGED <<image, pixels, lost, decoding>>
      /\ block' = block /\ coder' = coder
      /\ block < BlockCount(image.width, ImageHeight)
  BY DEF BeginBlock
<1>2. /\ f' = f /\ IsSource(f) /\ IsSource(f)' /\ ScanInv' /\ ScanTypeOK'
      /\ Fresh' /\ ctx'.header = <<>> /\ index' = 1 /\ ~lost'
  BY <1>1, StillFresh
<1>3. b \in Nat /\ b < BlocksOf(f)
  BY <1>1, SourceIs DEF IInv, TypeOK
<1>4. /\ stream' = stream \o TypeToBits(MethodNumber(f, b) - 1, 3)
      /\ symbols' = SymbolsOf(f, b)
  BY SourceIs DEF BeginBlock, MethodOf
<1>5. Heading(f, b) = TypeToBits(MethodNumber(f, b) - 1, 3)
  <2>1. BlocksOf(f) \in Nat
    BY <1>2, SourceFacts
  <2>2. b # BlocksOf(f)
    BY <1>3, <2>1
  <2>3. QED
    BY <2>2 DEF Heading
<1>6. coder = CoderAt(f, Number(b, 0)) /\ stream = StreamAt(f, Number(b, 0))
  BY <1>1 DEF IInv, Between
<1>7. /\ symbols' \in Seq(Value) /\ Len(symbols') = BlockSize
  BY <1>2, <1>3, <1>4, BlockFacts
<1>8. stream \in Seq(Bit) /\ stream' \in Seq(Bit)
  <2>1. Heading(f, b) \in Seq(Bit)
    BY <1>2, <1>3, HeadingFacts
  <2>2. stream \in Seq(Bit)
    BY DEF IInv, TypeOK, Bits, Bit
  <2>3. QED
    BY <1>4, <1>5, <2>1, <2>2, Joined
<1>9. TypeOK'
  BY <1>1, <1>2, <1>7, <1>8 DEF IInv, TypeOK, decoding, Bits, Bit
<1> HIDE DEF f
<1>10. InScan(0)'
  <2>1. BlockSize \in Nat
    BY SideFacts
  <2>2. \A i \in 1..Len(symbols') : symbols'[i] = SymbolsOf(f, b)[0 + i]
    BY <1>4, <1>7, <2>1
  <2>3. stream' = StreamAt(f, Number(b, 0)) \o (IF 0 = 0 THEN Heading(f, b) ELSE <<>>)
    BY <1>4, <1>5, <1>6
  <2>4. Len(symbols') = BlockSize - 0
    BY <1>7, <2>1
  <2>5. QED
    BY <1>1, <1>2, <1>6, <2>2, <2>3, <2>4 DEF InScan, f
<1>11. Scanning'
  <2>1. 0 \in 0..BlockSize
    BY SideFacts
  <2>2. QED
    BY <1>1, <1>2, <1>3, <1>10, <2>1 DEF Scanning, f
<1>12. Idle' /\ Starting' /\ Between' /\ Encoded' /\ Reading'
  BY <1>1, <1>2 DEF Idle, Starting, Between, Encoded, Reading
<1>13. QED
  BY <1>2, <1>9, <1>11, <1>12 DEF IInv, f

\* Encoding a symbol of a block keeps the invariant.
LEMMA EncodeSymbolInv == IInv /\ EncodeSymbol => IInv'
<1> SUFFICES ASSUME IInv, EncodeSymbol PROVE IInv'
  OBVIOUS
<1> DEFINE f == Source
           b == block
           s == Head(symbols)
<1>1. /\ phase = "scan" /\ phase' = "scan" /\ UNCHANGED <<image, pixels, lost, decoding>>
      /\ block' = block /\ coder' = UpdateTree(coder, s)
      /\ symbols # <<>> /\ symbols' = Tail(symbols)
      /\ stream' = stream \o CodeOf(coder, s)
  BY DEF EncodeSymbol, CodeOf, Code
<1>2. /\ f' = f /\ IsSource(f) /\ IsSource(f)' /\ ScanInv' /\ ScanTypeOK'
      /\ Fresh' /\ ctx'.header = <<>> /\ index' = 1 /\ ~lost'
  BY <1>1, StillFresh
<1>3. b \in Nat /\ b < BlocksOf(f) /\ \E j \in 0..BlockSize : InScan(j)
  BY <1>1 DEF IInv, TypeOK, Scanning
<1>4. PICK j \in 0..BlockSize : InScan(j)
  BY <1>3
<1> DEFINE k == Number(b, j)
<1>5. symbols \in Seq(Value) /\ Len(symbols) \in Nat /\ Len(symbols) > 0 /\ s = symbols[1]
  BY <1>1 DEF IInv, TypeOK
<1>6. /\ Len(symbols) = BlockSize - j
      /\ \A i \in 1..Len(symbols) : symbols[i] = SymbolsOf(f, b)[j + i]
      /\ coder = CoderAt(f, k)
      /\ stream = StreamAt(f, k) \o (IF j = 0 THEN Heading(f, b) ELSE <<>>)
  BY <1>4 DEF InScan
<1> HIDE DEF f, b, s
<1>7. j \in Index /\ j \in Nat /\ BlockSize \in Nat
  BY <1>5, <1>6, SideFacts DEF Index
<1>8. /\ k \in Nat /\ k < Count(f) /\ Number(b, j + 1) = k + 1
      /\ Count(f) \in Nat /\ k + 1 \in 0..Count(f)
  <2>1. k \in Nat
    BY <1>3, <1>7, NumberSplit
  <2>2. Count(f) \in Nat /\ k < Count(f) /\ Number(b, j + 1) = k + 1
    BY <1>2, <1>3, <1>7, NumberFacts
  <2>3. QED
    BY <2>1, <2>2
<1>9. Opening(f, k) = (IF j = 0 THEN Heading(f, b) ELSE <<>>) /\ s = SymbolAt(f, k)
  <2>1. /\ Opening(f, k) = IF j = 0 THEN Heading(f, b) ELSE <<>>
        /\ SymbolAt(f, k) = SymbolsOf(f, b)[j + 1]
    BY <1>2, <1>3, <1>7, PieceIs
  <2>2. 1 \in 1..Len(symbols)
    BY <1>5
  <2>3. s = SymbolsOf(f, b)[j + 1]
    BY <1>5, <1>6, <2>2
  <2>4. QED
    BY <2>1, <2>3
<1> HIDE DEF k
<1>10. coder' = CoderAt(f, k + 1) /\ stream' = StreamAt(f, k + 1)
  BY <1>1, <1>2, <1>6, <1>8, <1>9, EncodingFields
<1>11. coder' \in Coder /\ stream' \in Seq(Bit)
  BY <1>2, <1>8, <1>10, EncodingTypes
<1>12. /\ symbols' \in Seq(Value) /\ Len(symbols') = Len(symbols) - 1
       /\ \A i \in 1..Len(symbols') : symbols'[i] = symbols[i + 1]
  BY <1>1, <1>5
<1>13. TypeOK'
  BY <1>1, <1>2, <1>11, <1>12 DEF IInv, TypeOK, decoding, Bits, Bit
<1>14. InScan(j + 1)'
  <2>1. Len(symbols') = BlockSize - (j + 1)
    BY <1>6, <1>7, <1>12
  <2>2. ASSUME NEW i \in 1..Len(symbols') PROVE symbols'[i] = SymbolsOf(f, b)[(j + 1) + i]
    <3>1. i + 1 \in 1..Len(symbols) /\ j + (i + 1) = (j + 1) + i
      BY <1>5, <1>7, <1>12
    <3>2. QED
      BY <1>6, <1>12, <3>1
  <2>3. stream' \o <<>> = stream'
    BY <1>11
  <2>4. j + 1 # 0
    BY <1>7
  <2>5. coder' = CoderAt(f, Number(b, j + 1)) /\ stream' = StreamAt(f, Number(b, j + 1))
    BY <1>8, <1>10
  <2>6. stream' = StreamAt(f, Number(b, j + 1))
                    \o (IF j + 1 = 0 THEN Heading(f, b) ELSE <<>>)
    BY <2>3, <2>4, <2>5
  <2>7. Source' = f /\ block' = b
    BY <1>1, <1>2 DEF f, b
  <2>8. QED
    BY <2>1, <2>2, <2>5, <2>6, <2>7 DEF InScan
<1>15. Scanning'
  <2>1. j + 1 \in 0..BlockSize
    BY <1>7 DEF Index
  <2>2. block' < BlocksOf(Source')
    BY <1>1, <1>2, <1>3 DEF f, b
  <2>3. QED
    BY <1>14, <2>1, <2>2 DEF Scanning
<1>16. Idle' /\ Starting' /\ Between' /\ Encoded' /\ Reading'
  BY <1>1, <1>2 DEF Idle, Starting, Between, Encoded, Reading
<1>17. QED
  BY <1>2, <1>13, <1>15, <1>16 DEF IInv, f

\* Ending a block keeps the invariant.
LEMMA EndBlockInv == IInv /\ EndBlock => IInv'
<1> SUFFICES ASSUME IInv, EndBlock PROVE IInv'
  OBVIOUS
<1> DEFINE f == Source
           b == block
<1>1. /\ phase = "scan" /\ phase' = "block" /\ UNCHANGED <<image, pixels, lost, decoding>>
      /\ block' = block + 1 /\ coder' = coder /\ stream' = stream
      /\ symbols = <<>> /\ symbols' = symbols
  BY DEF EndBlock
<1>2. /\ f' = f /\ IsSource(f) /\ IsSource(f)' /\ ScanInv' /\ ScanTypeOK'
      /\ Fresh' /\ ctx'.header = <<>> /\ index' = 1 /\ ~lost'
  BY <1>1, StillFresh
<1>3. b \in Nat /\ b < BlocksOf(f) /\ \E j \in 0..BlockSize : InScan(j)
  BY <1>1 DEF IInv, TypeOK, Scanning
<1>4. PICK j \in 0..BlockSize : InScan(j)
  BY <1>3
<1>5. /\ Len(symbols) = BlockSize - j
      /\ coder = CoderAt(f, Number(b, j))
      /\ stream = StreamAt(f, Number(b, j)) \o (IF j = 0 THEN Heading(f, b) ELSE <<>>)
  BY <1>4 DEF InScan
<1> HIDE DEF f, b
<1>6. j = BlockSize /\ j # 0
  <2>1. Len(symbols) = 0
    BY <1>1
  <2>2. QED
    BY <1>5, <2>1, SideFacts
<1>7. /\ Number(b, BlockSize) = Number(b + 1, 0) /\ BlocksOf(f) \in Nat
      /\ b + 1 <= BlocksOf(f) /\ b + 1 \in Nat
  <2>1. BlocksOf(f) \in Nat
    BY <1>2, SourceFacts
  <2>2. QED
    BY <1>2, <1>3, <2>1, NumberFacts
<1>8. Number(b + 1, 0) \in 0..Count(f)
  BY <1>2, <1>7, NumberFacts
<1>9. coder' = CoderAt(f, Number(b + 1, 0)) /\ stream' = StreamAt(f, Number(b + 1, 0))
  <2>1. StreamAt(f, Number(b + 1, 0)) \in Seq(Bit)
    BY <1>2, <1>8, EncodingTypes
  <2>2. StreamAt(f, Number(b + 1, 0)) \o <<>> = StreamAt(f, Number(b + 1, 0))
    <3> DEFINE x == StreamAt(f, Number(b + 1, 0))
    <3> HIDE DEF x
    <3>1. x \o <<>> = x
      BY <2>1 DEF x
    <3>2. QED
      BY <3>1 DEF x
  <2>3. QED
    BY <1>1, <1>5, <1>6, <1>7, <2>2
<1>10. TypeOK'
  BY <1>1, <1>2, <1>7 DEF IInv, TypeOK, decoding, b
<1>11. Between'
  <2>1. Source' = f /\ block' = b + 1
    BY <1>1, <1>2 DEF f, b
  <2>2. QED
    BY <1>1, <1>7, <1>9, <2>1 DEF Between
<1>12. Idle' /\ Starting' /\ Scanning' /\ Encoded' /\ Reading'
  BY <1>1, <1>2 DEF Idle, Starting, Scanning, Encoded, Reading
<1>13. QED
  BY <1>2, <1>10, <1>11, <1>12 DEF IInv, f

\* What the encoder leaves is what the decoder begins with.
LEMMA EndImageInv == IInv /\ EndImage => IInv'
<1> SUFFICES ASSUME IInv, EndImage PROVE IInv'
  OBVIOUS
<1> DEFINE f == Source
           n == BlocksOf(f)
<1>1. /\ phase = "block" /\ phase' = "decode" /\ UNCHANGED <<image, pixels, lost, decoding>>
      /\ block' = block /\ coder' = coder /\ symbols' = symbols
      /\ block = BlockCount(image.width, ImageHeight)
      /\ stream' = FillCell(stream \o EndMark)
  BY DEF EndImage
<1>2. /\ f' = f /\ IsSource(f) /\ IsSource(f)' /\ ScanInv' /\ ScanTypeOK'
      /\ Fresh' /\ ctx'.header = <<>> /\ index' = 1 /\ ~lost'
  BY <1>1, StillFresh
<1>3. /\ block = n /\ symbols = <<>>
      /\ coder = CoderAt(f, Number(n, 0)) /\ stream = StreamAt(f, Number(n, 0))
  BY <1>1, SourceIs DEF IInv, Between
<1>4. Number(n, 0) = Count(f)
  <2>1. 0 \in Nat
    OBVIOUS
  <2>2. QED
    BY <1>2, <2>1, NumberFacts
<1>5. Heading(f, n) = EndMark
  BY DEF Heading, EndMark
<1>6. stream' = Written(f)
  BY <1>1, <1>3, <1>4, <1>5 DEF Written, StreamAt
<1> HIDE DEF f, n
<1>7. Written(f) \in Seq(Bit) /\ Len(Written(f)) \in Nat
  BY <1>2, StreamGrows
<1>8. TypeOK'
  BY <1>1, <1>2, <1>6, <1>7 DEF IInv, TypeOK, decoding, Bits, Bit
<1>9. Encoded'
  <2>1. Begins(stream', Written(f))
    BY <1>6, <1>7 DEF Begins
  <2>2. index' \in 1..(Len(stream') + 1)
    BY <1>2, <1>6, <1>7
  <2>3. Source' = f /\ phase' # "done"
    BY <1>1, <1>2 DEF f
  <2>4. QED
    BY <1>1, <1>2, <1>3, <1>4, <1>6, <2>1, <2>2, <2>3 DEF Encoded, n
<1>10. Reading'
  <2>1. ctx' = [NewContext EXCEPT !.header = <<>>]
    BY <1>2 DEF Fresh
  <2>2. ctx'.state = "ImageHeader"
    BY <2>1 DEF NewContext
  <2>3. Len(ctx'.header) = 0
    BY <1>2
  <2>4. HeaderIs(Source, ctx.header)'
    BY <2>3 DEF HeaderIs
  <2>5. index' - 1 = Len(ctx'.header) * CellBits
    <3>1. 0 * CellBits = 0
      BY CellFacts
    <3>2. QED
      BY <1>2, <2>3, <3>1
  <2>6. AtHeader(Source)'
    BY <1>2, <2>3, <2>4, <2>5 DEF AtHeader
  <2>7. QED
    BY <2>2, <2>6 DEF Reading
<1>11. Idle' /\ Starting' /\ Between' /\ Scanning'
  BY <1>1 DEF Idle, Starting, Between, Scanning
<1>12. QED
  BY <1>2, <1>8, <1>9, <1>10, <1>11 DEF IInv, f

-----------------------------------------------------------------------------
(***************************************************************************)
(* The decoder reads the header.                                           *)
(***************************************************************************)
\* As long as there are bits the stream is complete.
LEMMA ReadingOn ==
  ASSUME IInv, phase = "decode", index <= Len(stream)
  PROVE  /\ IsSource(Source) /\ ~lost /\ stream = Written(Source)
         /\ stream \in Seq(Bit) /\ Len(stream) \in Nat
         /\ index \in Nat /\ index - 1 \in Nat /\ (index - 1) + 1 = index
         /\ index - 1 < Len(stream)
<1>1. /\ IsSource(Source) /\ ~lost /\ stream = Written(Source)
      /\ index \in 1..(Len(stream) + 1)
  <2>1. Len(stream) \in Nat
    BY DEF IInv, TypeOK, Bits
  <2>2. ~(index > Len(stream))
    BY <2>1 DEF IInv, TypeOK
  <2>3. QED
    BY <2>2 DEF IInv, Encoded
<1>2. stream \in Seq(Bit) /\ Len(stream) \in Nat
  BY DEF IInv, TypeOK, Bits, Bit
<1>3. QED
  BY <1>1, <1>2

\* A step that reads changes nothing of what is written.
LEMMA EncoderDone ==
  ASSUME IInv, phase = "decode", phase' = "decode", UNCHANGED <<encoding>>,
         index' \in 1..(Len(stream) + 1), ~lost
  PROVE  /\ Source' = Source /\ IsSource(Source)'
         /\ Idle' /\ Starting' /\ Between' /\ Scanning' /\ Encoded'
<1>1. /\ image' = image /\ pixels' = pixels /\ block' = block /\ symbols' = symbols
      /\ coder' = coder /\ stream' = stream /\ lost' = lost
  BY DEF encoding
<1>2. Source' = Source
  BY <1>1, SourceStays
<1>3. IsSource(Source)'
  BY <1>2 DEF IInv
<1>4. Encoded'
  BY <1>1, <1>2 DEF IInv, Encoded
<1>5. QED
  BY <1>2, <1>3, <1>4 DEF Idle, Starting, Between, Scanning

\* What the decoder makes of the bytes.
LEMMA HeaderFields ==
  ASSUME NEW f, IsSource(f), NEW h, Len(h) = 6, HeaderIs(f, h)
  PROVE  /\ h[1] + 2 ^ CellBits * h[2] = f.width
         /\ h[3] + 2 ^ CellBits * h[4] = RowsKept(f.height)
         /\ h[5] * h[6] = BlockSize
<1> DEFINE P == CellValues
           V == HeaderValues(f)
<1>1. /\ P \in Nat /\ P > 0 /\ DimensionCount = P * P /\ P = 2 ^ CellBits
  BY CellFacts DEF CellValues
<1>2. /\ h[1] = V[1] % P /\ h[2] = V[2] % P /\ h[3] = V[3] % P /\ h[4] = V[4] % P
      /\ h[5] = V[5] % P /\ h[6] = V[6] % P
  BY DEF HeaderIs
<1>3. /\ V[1] = f.width /\ V[2] = f.width \div P /\ V[3] = f.height
      /\ V[4] = f.height \div P /\ V[5] = BlockWidth /\ V[6] = BlockHeight
  BY DEF HeaderValues
<1> HIDE DEF V, P
<1>4. f.width \in Nat /\ f.height \in Nat /\ f.width < DimensionCount
  <2>1. f.width \in Nat /\ f.height \in Nat
    BY SourceFacts
  <2>2. f.width \in 1..(DimensionCount - 1) /\ DimensionCount \in Nat
    BY <1>1 DEF IsSource
  <2>3. QED
    BY <2>1, <2>2
<1>5. h[1] + P * h[2] = f.width
  <2>1. h[1] + P * h[2] = f.width % (P * P)
    BY <1>1, <1>2, <1>3, <1>4, TwoDigits, ZenonT(60)
  <2> DEFINE d == P * P
  <2>2. d \in Nat /\ f.width < d
    BY <1>1, <1>4
  <2> HIDE DEF d
  <2>3. f.width % d = f.width
    BY <1>4, <2>2
  <2>4. QED
    BY <2>1, <2>3 DEF d
<1>6. h[3] + P * h[4] = RowsKept(f.height)
  BY <1>1, <1>2, <1>3, <1>4, TwoDigits, ZenonT(60) DEF RowsKept
<1>7. h[5] * h[6] = BlockSize
  <2>1. BlockWidth % P = BlockWidth /\ BlockHeight % P = BlockHeight
    BY <1>1, SideFacts DEF P
  <2>2. QED
    BY <1>2, <1>3, <2>1, SideFacts
<1>8. QED
  BY <1>1, <1>5, <1>6, <1>7

\* Narrowing the height leaves some of the rows.
LEMMA RowsFacts ==
  ASSUME NEW f, IsSource(f)
  PROVE  /\ RowsKept(f.height) \in Nat /\ RowsKept(f.height) <= f.height
         /\ f.width * RowsKept(f.height) \in Nat
<1> DEFINE D == DimensionCount
<1>1. D \in Nat /\ D > 0
  <2>1. CellValues \in Nat /\ CellValues > 0 /\ D = CellValues * CellValues
    BY CellFacts
  <2> HIDE DEF D
  <2>2. QED
    BY <2>1
<1>2. f.height \in Nat /\ f.width \in Nat
  BY SourceFacts
<1> HIDE DEF D
<1>3. f.height % D \in Nat /\ f.height % D <= f.height
  BY <1>1, <1>2
<1>4. QED
  BY <1>2, <1>3 DEF RowsKept, D

\* Before the first symbol nothing is drawn.
LEMMA NothingDrawn ==
  ASSUME NEW f, IsSource(f)
  PROVE  Drawn(f, 0, 0, [i \in 1..(f.width * RowsKept(f.height)) |-> 0])
<1> DEFINE w == f.width
           h == RowsKept(f.height)
           n == w * h
           zeros == [i \in 1..n |-> 0]
<1>1. w \in Nat /\ w > 0 /\ h \in Nat /\ n \in Nat /\ 0 \in Value
  BY SourceFacts, RowsFacts, ValueFacts
<1> HIDE DEF w, h
<1>2. ASSUME NEW x \in 0..(w - 1), NEW y \in 0..(h - 1)
      PROVE  zeros[Address(At(x, y), w)] = 0
  <2> DEFINE p == At(x, y)
  <2>1. p \in Point /\ p.x < w /\ p.y < h
    BY <1>1 DEF At, Point
  <2> HIDE DEF p
  <2>2. /\ p.y < h <=> Address(p, w) \in 1..(w * h)
        /\ Address(p, w) \in Nat /\ Address(p, w) > 0
        /\ (Address(p, w) - 1) % w = p.x /\ (Address(p, w) - 1) \div w = p.y
    BY <1>1, <2>1, Addresses
  <2>3. QED
    BY <2>1, <2>2 DEF p
<1> HIDE DEF n
<1>3. zeros \in Seq(Value) /\ Len(zeros) = n
  BY <1>1
<1>4. ASSUME NEW p PROVE ~Covered(f, 0, 0, p)
  <2>1. 0..(0 - 1) = {}
    OBVIOUS
  <2>2. QED
    BY <2>1 DEF Covered
<1> HIDE DEF zeros
<1>5. Drawn(f, 0, 0, zeros)
  BY <1>2, <1>3, <1>4 DEF Drawn, n, w, h
<1>6. QED
  BY <1>5 DEF zeros, n, w, h

\* The next byte of the header.
LEMMA HeaderGrows ==
  ASSUME NEW f, IsSource(f), NEW h, h \in Seq(Nat), Len(h) \in 0..5, HeaderIs(f, h),
         NEW at \in Nat, at = Len(h) * CellBits, stream = Written(f)
  PROVE  LET bytes == Append(h, Byte(at + 1))
         IN /\ Byte(at + 1) \in 0..(CellValues - 1)
            /\ Len(bytes) = Len(h) + 1 /\ HeaderIs(f, bytes)
            /\ at + CellBits = (Len(h) + 1) * CellBits
            /\ at + CellBits <= BaseAt(f, 0) /\ BaseAt(f, 0) <= Len(stream)
<1> DEFINE n == Len(h)
           i == n + 1
           v == HeaderValues(f)[i]
           byte == Byte(at + 1)
           bytes == Append(h, byte)
<1>1. n \in Nat /\ i \in 1..6 /\ (i - 1) = n
  <2>1. n \in 0..5
    OBVIOUS
  <2> HIDE DEF n
  <2>2. QED
    BY <2>1
<1>2. v \in Nat /\ (i - 1) * CellBits + CellBits = i * CellBits /\ i * CellBits <= 6 * CellBits
  BY <1>1, HeaderFacts
<1>3. Behind(stream, at, TypeToBits(v, CellBits))
  <2>1. Behind(Written(f), (i - 1) * CellBits, TypeToBits(v, CellBits))
    BY <1>1, HeaderBits
  <2>2. QED
    BY <1>1, <2>1
<1> HIDE DEF v
<1>4. byte = v % CellValues
  BY <1>2, <1>3, ByteRead
<1>5. byte \in 0..(CellValues - 1)
  <2>1. CellValues \in Nat \ {0}
    BY CellFacts
  <2>2. QED
    BY <1>2, <1>4, <2>1, QuotientAndRest
<1> HIDE DEF byte, n
<1>6. /\ Len(bytes) = i /\ bytes[i] = byte /\ \A k \in 1..n : bytes[k] = h[k]
  BY <1>1, <1>5, CellFacts DEF n
<1>7. HeaderIs(f, bytes)
  <2>1. ASSUME NEW k \in 1..Len(bytes) PROVE bytes[k] = HeaderValues(f)[k] % CellValues
    <3>1. k \in 1..n \/ k = i
      BY <1>1, <1>6
    <3>2. CASE k \in 1..n
      BY <1>6, <3>2 DEF HeaderIs, n
    <3>3. CASE k = i
      BY <1>4, <1>6, <3>3 DEF v
    <3>4. QED
      BY <3>1, <3>2, <3>3
  <2>2. QED
    BY <2>1 DEF HeaderIs
<1>8. BaseAt(f, 0) = 6 * CellBits /\ BaseAt(f, 0) <= Len(stream)
  <2>1. 0 \in 0..Count(f)
    BY NumberFacts
  <2>2. Begins(StreamAt(f, 0), stream)
    BY <2>1, StreamGrows
  <2>3. QED
    BY <2>2, EncodingStarts DEF Begins, BaseAt
<1>9. QED
  BY <1>1, <1>2, <1>5, <1>6, <1>7, <1>8 DEF n, byte

\* Reading a byte of the header keeps the invariant.
LEMMA ReadHeaderByteInv == IInv /\ ReadHeaderByte => IInv'
<1> SUFFICES ASSUME IInv, ReadHeaderByte PROVE IInv'
  OBVIOUS
<1> DEFINE f == Source
           h == ctx.header
           bytes == Append(h, Byte(index))
<1>1. /\ phase = "decode" /\ ctx.state = "ImageHeader" /\ index <= Len(stream)
      /\ index' = index + CellBits
      /\ ctx' = [ctx EXCEPT !.header = bytes,
                            !.state = IF Len(bytes) = 6 THEN "BlockHeader" ELSE @]
      /\ result' = IF ctx'.state = "BlockHeader"
                   THEN [i \in 1..(FieldWidth' * FieldHeight') |-> 0] ELSE result
      /\ phase' = phase /\ UNCHANGED <<encoding>> /\ decoder' = decoder /\ node' = node
      /\ literal' = literal /\ scan' = scan /\ visited' = visited /\ stopped' = stopped
  BY DEF ReadHeaderByte, encoding
<1>2. /\ IsSource(f) /\ ~lost /\ stream = Written(f)
      /\ stream \in Seq(Bit) /\ Len(stream) \in Nat
      /\ index \in Nat /\ index - 1 \in Nat /\ (index - 1) + 1 = index
  BY <1>1, ReadingOn
<1>3. AtHeader(f)
  BY <1>1 DEF IInv, Reading
<1>4. /\ Fresh /\ Len(h) \in 0..5 /\ HeaderIs(f, h) /\ index - 1 = Len(h) * CellBits
  BY <1>3 DEF AtHeader
<1>5. ctx \in Context /\ h \in Seq(0..(CellValues - 1))
  BY DEF IInv, TypeOK, Context, CellValues
<1>6. h \in Seq(Nat) /\ CellValues \in Nat
  BY <1>5, CellFacts
<1>7. /\ Byte(index) \in 0..(CellValues - 1)
      /\ Len(bytes) = Len(h) + 1 /\ HeaderIs(f, bytes)
      /\ (index - 1) + CellBits = (Len(h) + 1) * CellBits
      /\ (index - 1) + CellBits <= BaseAt(f, 0) /\ BaseAt(f, 0) <= Len(stream)
  <2> DEFINE at == index - 1
  <2>1. at \in Nat /\ at + 1 = index /\ at = Len(h) * CellBits
    BY <1>2, <1>4
  <2> HIDE DEF at, f, h
  <2>2. LET b == Append(h, Byte(at + 1))
        IN /\ Byte(at + 1) \in 0..(CellValues - 1)
           /\ Len(b) = Len(h) + 1 /\ HeaderIs(f, b)
           /\ at + CellBits = (Len(h) + 1) * CellBits
           /\ at + CellBits <= BaseAt(f, 0) /\ BaseAt(f, 0) <= Len(stream)
    BY <1>2, <1>4, <1>6, <2>1, HeaderGrows
  <2>3. QED
    BY <2>1, <2>2 DEF at
<1>8. bytes \in Seq(0..(CellValues - 1))
  BY <1>5, <1>7
<1>9. /\ ctx \in Context /\ bytes \in Seq(0..(2 ^ CellBits - 1))
  BY <1>5, <1>8 DEF CellValues
<1>10. /\ index' \in Nat /\ index' \in 1..(Len(stream) + 1)
       /\ index' - 1 = Len(bytes) * CellBits
  <2>1. CellBits \in Nat /\ BaseAt(f, 0) \in Nat
    BY <1>2, CellFacts, EncodingStarts
  <2> HIDE DEF f, h, bytes
  <2>2. QED
    BY <1>1, <1>2, <1>7, <2>1
<1>11. /\ Source' = f /\ IsSource(Source)' /\ phase' = "decode"
       /\ Idle' /\ Starting' /\ Between' /\ Scanning' /\ Encoded'
  BY <1>1, <1>2, <1>10, EncoderDone
<1>12. ScanInv' /\ ScanTypeOK'
  <2>1. ScanInv'
    BY <1>1 DEF IInv, ScanInv
  <2>2. QED
    BY <2>1, ScanTypedNext
<1> HIDE DEF f, h, bytes
<1>13. ctx' \in Context
  BY <1>1, <1>9 DEF Context
<1>14. ctx'.header = bytes
  BY <1>1, <1>9 DEF Context
<1>15. decoder = NewCoder /\ node = Root /\ literal = <<>> /\ ~stopped /\ result = <<>>
       /\ ctx = [NewContext EXCEPT !.header = h] /\ scan.index = 0
  BY <1>4 DEF Fresh, h
<1>16. CASE Len(bytes) # 6
  <2>1. /\ ctx' = [NewContext EXCEPT !.header = ctx'.header]
        /\ ctx'.state = "ImageHeader"
    BY <1>1, <1>14, <1>15, <1>16, ZenonT(60) DEF NewContext
  <2>2. result' = result
    BY <1>1, <2>1
  <2>3. Fresh'
    BY <1>1, <1>15, <2>1, <2>2 DEF Fresh
  <2>4. Len(bytes) \in 0..5
    <3> DEFINE n == Len(h)
               m == Len(bytes)
    <3>1. n \in 0..5 /\ m = n + 1 /\ m # 6
      BY <1>4, <1>7, <1>16
    <3> HIDE DEF n, m
    <3>2. m \in 0..5
      BY <3>1
    <3>3. QED
      BY <3>2 DEF m
  <2>5. AtHeader(Source)'
    BY <1>7, <1>10, <1>11, <1>14, <2>3, <2>4 DEF AtHeader
  <2>6. TypeOK'
    BY <1>1, <1>10, <1>12, <1>13, <2>2 DEF IInv, TypeOK, encoding
  <2>7. Reading'
    BY <2>1, <2>5 DEF Reading
  <2>8. QED
    BY <1>11, <1>12, <2>6, <2>7 DEF IInv
<1>17. CASE Len(bytes) = 6
  <2>1. /\ ctx'.state = "BlockHeader" /\ ctx'.blockIndex = 0 /\ ctx'.symbolCounter = 0
        /\ ctx'.bitsRead = 0 /\ ctx'.methodBits = NoBits /\ ctx'.isFirstBlock = TRUE
    BY <1>1, <1>15, <1>17 DEF NewContext
  <2>2. FieldWidth' = f.width /\ FieldHeight' = RowsKept(f.height)
    BY <1>2, <1>7, <1>14, <1>17, HeaderFields DEF FieldWidth, FieldHeight
  <2>3. result' = [i \in 1..(f.width * RowsKept(f.height)) |-> 0]
    BY <1>1, <2>1, <2>2
  <2>4. Drawn(f, 0, 0, result')
    BY <1>2, <2>3, NothingDrawn
  <2>5. TypeOK'
    BY <1>1, <1>10, <1>12, <1>13, <2>4 DEF IInv, TypeOK, encoding, Drawn
  <2>6. Number(0, 0) = 0 /\ BaseAt(f, 0) = 6 * CellBits /\ BlocksOf(f) \in Nat
    BY <1>2, NumberFacts, EncodingStarts, SourceFacts
  <2>7. decoder' = CoderAt(f, Number(0, 0))
    BY <1>1, <1>2, <1>15, <2>6, EncodingStarts
  <2>8. \A i \in 1..3 : ctx'.methodBits[i] = IF i <= 0 THEN Heading(f, 0)[i] ELSE 0
    BY <2>1 DEF NoBits
  <2>9. index' - 1 = BaseAt(f, Number(0, 0)) + 0
    <3>1. CellBits \in Nat /\ Len(bytes) * CellBits = 6 * CellBits
      BY <1>17, CellFacts
    <3>2. BaseAt(f, Number(0, 0)) = 6 * CellBits /\ 6 * CellBits \in Nat
      BY <2>6, <3>1
    <3>3. QED
      BY <1>10, <3>1, <3>2
  <2>10. AtMethod(Source, ctx.blockIndex, ctx.bitsRead)'
    BY <1>1, <1>11, <1>15, <2>1, <2>8, <2>9 DEF AtMethod
  <2>11. AtBlock(Source, ctx.blockIndex, ctx.symbolCounter)'
    <3>1. Len(ctx'.header) = 6 /\ HeaderIs(Source', ctx'.header) /\ 0 <= BlocksOf(Source')
      <4>1. Len(ctx'.header) = 6
        BY <1>14, <1>17
      <4>2. HeaderIs(Source', ctx'.header)
        BY <1>7, <1>11, <1>14
      <4>3. 0 <= BlocksOf(Source')
        <5>1. BlocksOf(Source') \in Nat
          BY <1>11, <2>6
        <5>2. QED
          BY <5>1
      <4>4. QED
        BY <4>1, <4>2, <4>3
    <3>2. decoder' = CoderAt(Source', Number(0, 0)) /\ Drawn(Source', 0, 0, result')
      BY <1>11, <2>4, <2>7
    <3>3. QED
      BY <2>1, <2>10, <3>1, <3>2 DEF AtBlock
  <2>12. Reading'
    BY <2>1, <2>11 DEF Reading
  <2>13. QED
    BY <1>11, <1>12, <2>5, <2>12 DEF IInv
<1>18. QED
  BY <1>16, <1>17

-----------------------------------------------------------------------------
(***************************************************************************)
(* The decoder reads a bit of a scan method or of the end mark.            *)
(***************************************************************************)
\* The decoder at the next bit.
AtBit(f, b, j) ==
  /\ f = Source /\ b = ctx.blockIndex /\ j = ctx.symbolCounter
  /\ IsSource(f) /\ ctx \in Context /\ node \in Node /\ literal \in Seq(Bit) /\ ScanInv
  /\ b \in Nat /\ j \in Index /\ stopped \in BOOLEAN
  /\ stream = Written(f) /\ index - 1 \in Nat /\ (index - 1) + 1 = index
  /\ index - 1 < Len(stream)
  /\ ctx.state # "ImageHeader" /\ AtBlock(f, b, j)
  /\ image' = image /\ pixels' = pixels /\ index' = index + 1

\* What the bit leads to.
Arrives ==
  /\ ctx' \in Context /\ ctx'.state # "ImageHeader"
  /\ node' \in Node /\ literal' \in Seq(Bit) /\ stopped' \in BOOLEAN
  /\ ScanInv'
  /\ AtBlock(Source, ctx.blockIndex, ctx.symbolCounter)'

\* The bits of a method that have been read.
Buffered(r, bit) ==
  [ctx EXCEPT !.bitsRead = r + 1,
              !.methodBits = IF bit = 1 THEN [ctx.methodBits EXCEPT ![r + 1] = 1]
                             ELSE ctx.methodBits]

\* The bits of a method that are read are those that were written.
LEMMA BufferedFacts ==
  ASSUME NEW f, NEW b, IsSource(f), b \in Nat, ctx \in Context,
         NEW r \in 0..2,
         \A i \in 1..3 : ctx.methodBits[i] = IF i <= r THEN Heading(f, b)[i] ELSE 0
  PROVE  LET c == Buffered(r, Heading(f, b)[r + 1])
         IN /\ c \in Context /\ c.bitsRead = r + 1
            /\ \A i \in 1..3 : c.methodBits[i] = IF i <= r + 1 THEN Heading(f, b)[i] ELSE 0
            /\ c.state = ctx.state /\ c.header = ctx.header
            /\ c.blockIndex = ctx.blockIndex /\ c.symbolCounter = ctx.symbolCounter
            /\ c.isFirstBlock = ctx.isFirstBlock
<1> DEFINE H == Heading(f, b)
           bit == H[r + 1]
           old == ctx.methodBits
           new == IF bit = 1 THEN [old EXCEPT ![r + 1] = 1] ELSE old
           c == Buffered(r, bit)
<1>1. \A i \in 1..3 : H[i] \in {0, 1}
  BY HeadingFacts
<1>2. old \in [1..3 -> {0, 1}] /\ \A i \in 1..3 : old[i] = IF i <= r THEN H[i] ELSE 0
  BY DEF Context
<1>3. r + 1 \in 1..3 /\ r + 1 \in 0..3
  OBVIOUS
<1>4. c = [ctx EXCEPT !.bitsRead = r + 1, !.methodBits = new]
  BY DEF Buffered
<1> HIDE DEF old, H, c
<1>5. new \in [1..3 -> {0, 1}]
  BY <1>1, <1>2, <1>3
<1>6. \A i \in 1..3 : new[i] = IF i <= r + 1 THEN H[i] ELSE 0
  <2> SUFFICES ASSUME NEW i \in 1..3 PROVE new[i] = IF i <= r + 1 THEN H[i] ELSE 0
    OBVIOUS
  <2>1. CASE i = r + 1
    BY <1>1, <1>2, <1>3, <2>1
  <2>2. CASE i # r + 1
    <3>1. new[i] = old[i]
      BY <1>2, <2>2
    <3>2. i <= r + 1 <=> i <= r
      BY <2>2
    <3>3. QED
      BY <1>2, <3>1, <3>2
  <2>3. QED
    BY <2>1, <2>2
<1> HIDE DEF new
<1>7. c \in Context
  BY <1>3, <1>4, <1>5 DEF Context
<1>8. /\ c.bitsRead = r + 1 /\ c.methodBits = new
      /\ c.state = ctx.state /\ c.header = ctx.header
      /\ c.blockIndex = ctx.blockIndex /\ c.symbolCounter = ctx.symbolCounter
      /\ c.isFirstBlock = ctx.isFirstBlock
  BY <1>4 DEF Context
<1>9. QED
  BY <1>6, <1>7, <1>8 DEF c, bit, H

\* A block is begun: at an NYT root with its literal, or at the root of a tree.
LEMMA BlockBegins ==
  ASSUME NEW f, NEW b, IsSource(f), b \in Nat, b < BlocksOf(f),
         NEW at, at = BaseAt(f, Number(b, 0)) + 3
  PROVE  /\ at \in Nat
         /\ b # 0 => OnPath(f, Number(b, 0), Root, at)
         /\ b = 0 => InLiteral(f, Number(b, 0), Root, at, <<>>)
<1> DEFINE k == Number(b, 0)
<1>1. 0 \in Index /\ BlocksOf(f) \in Nat
  BY SideFacts, SourceFacts DEF Index
<1>2. k \in Nat /\ PlaceAt(k) = 0 /\ BlockAt(k) = b
  BY <1>1, NumberSplit
<1>3. k < Count(f)
  BY <1>1, NumberFacts
<1>4. SymbolStart(f, k) = at /\ BaseAt(f, k) \in Nat
  <2>1. b \in 0..BlocksOf(f)
    BY <1>1
  <2>2. BaseAt(f, k) \in Nat /\ SymbolStart(f, k) = BaseAt(f, k) + 3
    BY <2>1, HeadingBits
  <2>3. QED
    BY <2>2
<1>5. /\ GoalAt(f, k) # Root =>
           OnWay(CoderAt(f, k), GoalAt(f, k), Written(f), EndAt(f, k), Root, at)
      /\ GoalAt(f, k) = Root => EndAt(f, k) = at
      /\ k # 0 => GoalAt(f, k) # Root
      /\ EndAt(f, k) \in Nat
  BY <1>2, <1>3, <1>4, SymbolBits
<1>6. ASSUME b # 0 PROVE OnPath(f, k, Root, at)
  <2>1. k # 0
    <3>1. BlockAt(0) = 0
      <4>1. 0 \in Nat /\ Number(0, 0) = 0
        BY NumberFacts
      <4>2. BlockAt(Number(0, 0)) = 0
        BY <1>1, <4>1, NumberSplit
      <4>3. QED
        BY <4>1, <4>2
    <3>2. QED
      BY <1>2, <1>6, <3>1
  <2> HIDE DEF k
  <2>2. QED
    BY <1>5, <2>1 DEF OnPath
<1>7. ASSUME b = 0 PROVE InLiteral(f, k, Root, at, <<>>)
  <2>1. k = 0
    BY <1>7, NumberFacts
  <2>2. CoderAt(f, k) = NewCoder
    BY <2>1, EncodingStarts
  <2>3. SymbolAt(f, k) \in Symbol
    BY <1>2, PieceFacts
  <2> HIDE DEF k
  <2>4. NewCoder.nyt = Root /\ NewCoder.cache[SymbolAt(f, k)] = Null
    BY <2>3 DEF NewCoder
  <2>5. GoalAt(f, k) = Root /\ CoderAt(f, k).nyt = Root
    BY <2>2, <2>4 DEF GoalAt, Goal
  <2>6. EndAt(f, k) = at
    BY <1>5, <2>5
  <2>7. Len(<<>>) = 0 /\ LiteralBits \in Nat /\ LiteralBits > 0
    BY ImageAssumption
  <2>8. Behind(Written(f), EndAt(f, k), <<>>)
    BY DEF Behind
  <2>9. at = EndAt(f, k) + Len(<<>>)
    BY <1>5, <2>6, <2>7
  <2>10. QED
    BY <2>5, <2>7, <2>8, <2>9 DEF InLiteral
<1>8. at \in Nat
  BY <1>4
<1>9. QED
  BY <1>6, <1>7, <1>8 DEF k

\* A bit of a method: the scan of the block begins, or the end mark is recognised.
LEMMA MethodBit ==
  ASSUME NEW f, NEW b, NEW j, AtBit(f, b, j), ~stopped, ReadMethodBit(stream[index])
  PROVE  Arrives
<1> DEFINE r == ctx.bitsRead
           at == index - 1
           H == Heading(f, b)
           base == BaseAt(f, Number(b, 0))
           c == Buffered(r, H[r + 1])
<1>1. /\ f = Source /\ b = ctx.blockIndex /\ j = ctx.symbolCounter
      /\ IsSource(f) /\ ctx \in Context /\ node \in Node /\ literal \in Seq(Bit) /\ ScanInv
      /\ b \in Nat /\ j \in Index
      /\ stream = Written(f) /\ at \in Nat /\ at + 1 = index
      /\ AtBlock(f, b, j)
      /\ image' = image /\ pixels' = pixels /\ index' = index + 1
  BY DEF AtBit
<1>2. Source' = f
  BY <1>1, SourceStays
<1>3. ctx.state = "BlockHeader" /\ AtMethod(f, b, r)
  BY <1>1 DEF ReadMethodBit, AtBlock
<1>4. /\ Len(ctx.header) = 6 /\ HeaderIs(f, ctx.header) /\ b <= BlocksOf(f)
      /\ decoder = CoderAt(f, Number(b, j)) /\ Drawn(f, b, j, result)
  BY <1>1 DEF AtBlock
<1>5. r \in 0..2
  <2>1. r \in 0..3
    BY <1>1 DEF Context
  <2>2. r # 3
    BY <1>3 DEF AtMethod
  <2>3. QED
    BY <2>1, <2>2
<1> HIDE DEF r, at, base
<1>6. /\ j = 0 /\ node = Root /\ literal = <<>>
      /\ \A i \in 1..3 : ctx.methodBits[i] = IF i <= r THEN H[i] ELSE 0
      /\ (ctx.isFirstBlock <=> b = 0)
      /\ scan.index = IF b = 0 THEN 0 ELSE BlockSize
      /\ at = base + r
  BY <1>1, <1>3, <1>5 DEF AtMethod, base, at
<1>7. /\ base \in Nat /\ \A i \in 1..3 : Written(f)[base + i] = H[i]
      /\ BlocksOf(f) \in Nat
  <2>1. BlocksOf(f) \in Nat
    BY <1>1, SourceFacts
  <2>2. b \in 0..BlocksOf(f)
    BY <1>1, <1>4, <2>1
  <2>3. QED
    BY <1>1, <2>1, <2>2, HeadingBits DEF base
<1>8. stream[index] = H[r + 1]
  <2>1. index = base + (r + 1) /\ r + 1 \in 1..3
    BY <1>1, <1>5, <1>6, <1>7
  <2>2. QED
    BY <1>1, <1>7, <2>1
<1>9. /\ c \in Context /\ c.bitsRead = r + 1
      /\ \A i \in 1..3 : c.methodBits[i] = IF i <= r + 1 THEN H[i] ELSE 0
      /\ c.state = ctx.state /\ c.header = ctx.header
      /\ c.blockIndex = ctx.blockIndex /\ c.symbolCounter = ctx.symbolCounter
      /\ c.isFirstBlock = ctx.isFirstBlock
  BY <1>1, <1>5, <1>6, BufferedFacts
<1> DEFINE method == 4 * c.methodBits[1] + 2 * c.methodBits[2] + c.methodBits[3]
<1>10. /\ decoder' = decoder /\ node' = node /\ literal' = literal /\ result' = result
       /\ IF r + 1 = 3 /\ method # 7
          THEN ctx' = StartBlock(c) /\ Restart(ScanMethods[method + 1])
          ELSE ctx' = c /\ scan' = scan /\ visited' = visited
       /\ stopped' = (r + 1 = 3 /\ method = 7)
  <2> DEFINE bit == stream[index]
             bits == IF bit = 1 THEN [ctx.methodBits EXCEPT ![r + 1] = 1] ELSE ctx.methodBits
             m == 4 * bits[1] + 2 * bits[2] + bits[3]
             buffered == [ctx EXCEPT !.bitsRead = r + 1, !.methodBits = bits]
  <2>1. buffered = c
    BY <1>8 DEF Buffered
  <2>2. buffered.methodBits = bits
    BY <1>1 DEF Context
  <2>3. /\ IF r + 1 = 3 /\ m # 7
           THEN ctx' = StartBlock(buffered) /\ Restart(ScanMethods[m + 1])
           ELSE ctx' = buffered /\ scan' = scan /\ visited' = visited
        /\ stopped' = (r + 1 = 3 /\ m = 7)
        /\ decoder' = decoder /\ node' = node /\ literal' = literal /\ result' = result
    BY DEF ReadMethodBit, r
  <2> HIDE DEF bits, buffered, c, H
  <2>4. m = method
    BY <2>1, <2>2
  <2>5. QED
    BY <2>1, <2>3, <2>4
<1>11. r + 1 = 3 => method = IF b = BlocksOf(f) THEN 7 ELSE MethodNumber(f, b) - 1
  <2> SUFFICES ASSUME r + 1 = 3
               PROVE  method = IF b = BlocksOf(f) THEN 7 ELSE MethodNumber(f, b) - 1
    OBVIOUS
  <2>1. c.methodBits[1] = H[1] /\ c.methodBits[2] = H[2] /\ c.methodBits[3] = H[3]
    BY <1>9
  <2>2. 4 * H[1] + 2 * H[2] + H[3] = IF b = BlocksOf(f) THEN 7 ELSE MethodNumber(f, b) - 1
    BY <1>1, HeadingFacts
  <2>3. QED
    BY <2>1, <2>2
<1> HIDE DEF c, method, H
<1>12. CASE r + 1 # 3 \/ method = 7
  <2>1. /\ ctx' = c /\ scan' = scan /\ visited' = visited
        /\ stopped' <=> r + 1 = 3
    BY <1>10, <1>12
  <2>2. ScanInv'
    BY <1>1, <2>1 DEF ScanInv
  <2>3. index' - 1 = base + (r + 1)
    BY <1>1, <1>6, <1>7, <1>5
  <2>4. r + 1 = 3 => b = BlocksOf(f)
    <3>1. MethodNumber(f, b) - 1 \in 0..4
      BY <1>1, BlockFacts
    <3>2. QED
      BY <1>11, <1>12, <3>1
  <2>5. /\ ctx'.bitsRead = r + 1 /\ ctx'.state = "BlockHeader" /\ ctx'.header = ctx.header
        /\ ctx'.blockIndex = b /\ ctx'.symbolCounter = 0
        /\ (ctx'.isFirstBlock <=> b = 0)
        /\ \A i \in 1..3 : ctx'.methodBits[i] = IF i <= r + 1 THEN Heading(f, b)[i] ELSE 0
    BY <1>1, <1>3, <1>6, <1>9, <2>1 DEF H
  <2>6. AtMethod(Source, ctx.blockIndex, ctx.bitsRead)'
    <3>1. r + 1 = 3 => index' - 1 >= base + 3
      BY <1>7, <2>3
    <3>2. scan'.index = IF b = 0 THEN 0 ELSE BlockSize
      BY <1>6, <2>1
    <3>3. QED
      BY <1>2, <1>6, <1>10, <2>1, <2>3, <2>4, <2>5, <3>1, <3>2 DEF AtMethod, base
  <2>7. AtBlock(Source, ctx.blockIndex, ctx.symbolCounter)'
    <3>1. decoder' = CoderAt(Source', Number(b, 0)) /\ Drawn(Source', b, 0, result')
      BY <1>2, <1>4, <1>6, <1>10
    <3>2. Len(ctx'.header) = 6 /\ HeaderIs(Source', ctx'.header) /\ b <= BlocksOf(Source')
      BY <1>2, <1>4, <2>5
    <3>3. QED
      BY <2>5, <2>6, <3>1, <3>2 DEF AtBlock
  <2>8. ctx' \in Context
    BY <1>9, <2>1
  <2>9. stopped' \in BOOLEAN
    BY <1>10
  <2>10. QED
    BY <1>1, <1>10, <2>2, <2>5, <2>7, <2>8, <2>9 DEF Arrives
<1>13. CASE r + 1 = 3 /\ method # 7
  <2>1. /\ ctx' = StartBlock(c) /\ Restart(ScanMethods[method + 1])
        /\ stopped' = FALSE
    BY <1>10, <1>13
  <2>2. b # BlocksOf(f) /\ method + 1 = MethodNumber(f, b)
    <3>1. b # BlocksOf(f) /\ method = MethodNumber(f, b) - 1
      BY <1>11, <1>13
    <3>2. MethodNumber(f, b) \in 1..5
      BY <1>1, BlockFacts
    <3>3. QED
      BY <3>1, <3>2
  <2>3. Restart(MethodOf(f, b)) /\ MethodOf(f, b) \in ScanMethod
    BY <1>1, <2>1, <2>2, BlockFacts DEF MethodOf
  <2>4. ScanInv'
    <3>1. scan.index \in {0, BlockSize}
      BY <1>6
    <3>2. Reset
      BY <2>3, <3>1 DEF Reset
    <3>3. QED
      BY <3>2, ResetKeeps
  <2>5. scan'.index = 0 /\ scan'.scanMethod = MethodOf(f, b)
    BY <2>3 DEF Restart, ResetScan
  <2>6. /\ ctx' \in Context /\ ctx'.bitsRead = 0 /\ ctx'.header = ctx.header
        /\ ctx'.state = (IF b = 0 THEN "Value" ELSE "Tree")
        /\ ctx'.blockIndex = b /\ ctx'.symbolCounter = 0
        /\ ctx'.isFirstBlock = FALSE /\ ctx'.lastVal = 0
    <3>1. c \in Context /\ 0 \in Value
      BY <1>9, ValueFacts
    <3>2. ctx' = [c EXCEPT !.bitsRead = 0,
                           !.state = IF c.isFirstBlock THEN "Value" ELSE "Tree",
                           !.isFirstBlock = FALSE, !.lastVal = 0]
      BY <2>1 DEF StartBlock, FreshVal
    <3>3. /\ ctx' \in Context /\ ctx'.bitsRead = 0 /\ ctx'.header = c.header
          /\ ctx'.state = (IF c.isFirstBlock THEN "Value" ELSE "Tree")
          /\ ctx'.blockIndex = c.blockIndex /\ ctx'.symbolCounter = c.symbolCounter
          /\ ctx'.isFirstBlock = FALSE /\ ctx'.lastVal = 0
      <4> DEFINE st == IF c.isFirstBlock THEN "Value" ELSE "Tree"
      <4>1. st \in {"Value", "Tree"}
        OBVIOUS
      <4>2. ctx' = [c EXCEPT !.bitsRead = 0, !.state = st, !.isFirstBlock = FALSE,
                             !.lastVal = 0]
        BY <3>2
      <4> HIDE DEF st
      <4>3. /\ ctx' \in Context /\ ctx'.bitsRead = 0 /\ ctx'.state = st
            /\ ctx'.isFirstBlock = FALSE /\ ctx'.lastVal = 0
        <5>1. ctx'.bitsRead = 0 /\ ctx'.state = st /\ ctx'.lastVal = 0
          BY <3>1, <4>2 DEF Context
        <5>2. ctx'.isFirstBlock = FALSE
          BY <3>1, <4>2, Zenon DEF Context
        <5>3. ctx' \in Context
          <6> DEFINE off == FALSE
          <6>1. off \in BOOLEAN /\ 0 \in 0..3
            OBVIOUS
          <6>2. ctx' = [c EXCEPT !.bitsRead = 0, !.state = st, !.isFirstBlock = off,
                                 !.lastVal = 0]
            BY <4>2
          <6> HIDE DEF off
          <6>3. QED
            BY <3>1, <4>1, <6>1, <6>2 DEF Context
        <5>4. QED
          BY <5>1, <5>2, <5>3
      <4>4. /\ ctx'.header = c.header /\ ctx'.blockIndex = c.blockIndex
            /\ ctx'.symbolCounter = c.symbolCounter
        BY <3>1, <4>2 DEF Context
      <4>5. QED
        BY <4>3, <4>4 DEF st
    <3>4. QED
      BY <1>1, <1>6, <1>9, <3>3
  <2>7. b < BlocksOf(f) /\ b <= BlocksOf(f)
    BY <1>1, <1>4, <1>7, <2>2
  <2>8. /\ b # 0 => OnPath(f, Number(b, 0), Root, index' - 1)
        /\ b = 0 => InLiteral(f, Number(b, 0), Root, index' - 1, <<>>)
    <3>1. index' - 1 = BaseAt(f, Number(b, 0)) + 3
      BY <1>1, <1>5, <1>6, <1>7, <1>13 DEF base
    <3>2. QED
      BY <1>1, <2>7, <3>1, BlockBegins
  <2>9. Modelled(f, b, 0, 0)
    <3>1. Start(f, b) \in Point /\ MethodOf(f, b) \in ScanMethod
      BY <1>1, BlockFacts
    <3>2. LastVals(f, Start(f, b), MethodOf(f, b))[0] = 0
      BY <1>1, <3>1, LastValFacts
    <3>3. QED
      BY <3>2 DEF Modelled
  <2>10. node' = Root /\ literal' = <<>>
    BY <1>6, <1>10
  <2>11. AtSymbol(Source, ctx.blockIndex, ctx.symbolCounter)'
    <3>1. Modelled(Source', b, 0, ctx'.lastVal)
      BY <1>2, <2>6, <2>9
    <3>2. \/ /\ ctx'.state = "Tree" /\ literal' = <<>>
             /\ OnPath(Source', Number(b, 0), node', index' - 1)
          \/ /\ ctx'.state = "Value"
             /\ InLiteral(Source', Number(b, 0), node', index' - 1, literal')
      BY <1>2, <2>6, <2>8, <2>10
    <3>3. QED
      BY <1>2, <2>1, <2>5, <2>6, <2>7, <3>1, <3>2 DEF AtSymbol
  <2>12. AtBlock(Source, ctx.blockIndex, ctx.symbolCounter)'
    <3>1. decoder' = CoderAt(Source', Number(b, 0)) /\ Drawn(Source', b, 0, result')
      BY <1>2, <1>4, <1>6, <1>10
    <3>2. Len(ctx'.header) = 6 /\ HeaderIs(Source', ctx'.header) /\ b <= BlocksOf(Source')
      BY <1>2, <1>4, <2>6, <2>7
    <3>3. ctx'.state # "BlockHeader"
      BY <2>6
    <3>4. QED
      BY <2>6, <2>11, <3>1, <3>2, <3>3 DEF AtBlock
  <2>13. ctx'.state # "ImageHeader"
    BY <2>6
  <2>14. QED
    BY <1>1, <1>10, <2>1, <2>4, <2>6, <2>12, <2>13 DEF Arrives
<1>14. QED
  BY <1>12, <1>13

-----------------------------------------------------------------------------
(***************************************************************************)
(* The decoder takes a symbol: what it draws.                              *)
(***************************************************************************)
PlaceOf(f, b, j) == PosAt(Start(f, b), MethodOf(f, b), j)
Kept(f, p) == IsInside(p, f.width, RowsKept(f.height))

\* Place j of block b lies in that block.
LEMMA PlaceFacts ==
  ASSUME NEW f, NEW b, NEW j, IsSource(f), b \in Nat, j \in Index
  PROVE  LET p == PlaceOf(f, b, j)
         IN /\ p \in Point /\ Start(f, b) \in Point
            /\ p.x - Start(f, b).x \in 0..(BlockWidth - 1)
            /\ p.y - Start(f, b).y \in 0..(BlockHeight - 1)
            /\ Start(f, b).y <= p.y /\ p.y < Start(f, b).y + BlockHeight
<1> DEFINE start == Start(f, b)
           q == IteratorPos(MethodOf(f, b), j)
           p == PlaceOf(f, b, j)
<1>1. start \in Point /\ MethodOf(f, b) \in ScanMethod
  BY BlockFacts
<1>2. q \in InBlock /\ p \in Point /\ p.x = start.x + q.x /\ p.y = start.y + q.y
  BY <1>1, Positions DEF PlaceOf
<1> HIDE DEF start, q, p
<1>3. /\ start.x \in Nat /\ start.y \in Nat
      /\ q.x \in 0..(BlockWidth - 1) /\ q.y \in 0..(BlockHeight - 1)
      /\ BlockWidth \in Nat /\ BlockHeight \in Nat
  BY <1>1, <1>2, SideFacts DEF Point, InBlock
<1>4. p.x - start.x = q.x /\ p.y - start.y = q.y
  BY <1>2, <1>3
<1>5. start.y <= p.y /\ p.y < start.y + BlockHeight
  BY <1>2, <1>3
<1>6. QED
  BY <1>1, <1>2, <1>3, <1>4, <1>5 DEF start, p

\* One symbol more covers one place more.
LEMMA CoveredNext ==
  ASSUME NEW f, NEW b, NEW j, IsSource(f), b \in Nat, j \in Index, NEW p
  PROVE  Covered(f, b, j + 1, p) <=> Covered(f, b, j, p) \/ PlaceOf(f, b, j) = p
<1>1. \A i : i \in 0..((j + 1) - 1) <=> i \in 0..(j - 1) \/ i = j
  BY SideFacts DEF Index
<1>2. QED
  BY <1>1 DEF Covered, PlaceOf

\* All positions of a block are covered when all of its symbols are read.
LEMMA BlockCovered ==
  ASSUME NEW f, NEW b, IsSource(f), b \in Nat, NEW p \in Point
  PROVE  Covered(f, b, BlockSize, p) <=> Covered(f, b + 1, 0, p)
<1> DEFINE start == Start(f, b)
           method == MethodOf(f, b)
<1>1. start \in Point /\ method \in ScanMethod
  BY BlockFacts
<1>2. \A a : a \in 0..((b + 1) - 1) <=> a \in 0..(b - 1) \/ a = b
  OBVIOUS
<1>3. ASSUME NEW i \in Index, PlaceOf(f, b, i) = p PROVE InBlockOf(f, b, p)
  BY <1>3, PlaceFacts DEF InBlockOf
<1>4. ASSUME InBlockOf(f, b, p) PROVE \E i \in Index : PlaceOf(f, b, i) = p
  <2> DEFINE q == At(p.x - start.x, p.y - start.y)
  <2>1. /\ p.x - start.x \in 0..(BlockWidth - 1) /\ p.y - start.y \in 0..(BlockHeight - 1)
        /\ p.x \in Nat /\ p.y \in Nat /\ start.x \in Nat /\ start.y \in Nat
    BY <1>1, <1>4 DEF InBlockOf, Point
  <2>2. q \in InBlock /\ q.x = p.x - start.x /\ q.y = p.y - start.y
    BY <2>1 DEF At, InBlock
  <2> HIDE DEF q, start, method
  <2>3. {IteratorPos(method, i) : i \in Index} = InBlock
    BY <1>1, AllSuit, ScansCover
  <2>4. PICK i \in Index : IteratorPos(method, i) = q
    BY <2>2, <2>3
  <2>5. PosAt(start, method, i) = At(start.x + q.x, start.y + q.y)
    BY <2>4 DEF PosAt, PosInImage
  <2>6. start.x + q.x = p.x /\ start.y + q.y = p.y
    BY <2>1, <2>2
  <2>7. PosAt(start, method, i) = p
    BY <2>5, <2>6 DEF At, Point
  <2>8. QED
    BY <2>7 DEF PlaceOf, start, method
<1>5. (\E i \in 0..(BlockSize - 1) : PosAt(start, method, i) = p) <=> InBlockOf(f, b, p)
  BY <1>3, <1>4 DEF PlaceOf, Index
<1>6. 0..(0 - 1) = {}
  OBVIOUS
<1>7. Covered(f, b + 1, 0, p)
        <=> (\E a \in 0..(b - 1) : InBlockOf(f, a, p)) \/ InBlockOf(f, b, p)
  BY <1>2, <1>6 DEF Covered
<1>8. QED
  BY <1>5, <1>7 DEF Covered

\* A pixel of the rows kept, and its address.
LEMMA PixelIn ==
  ASSUME NEW f, IsSource(f), NEW x \in 0..(f.width - 1),
         NEW y \in 0..(RowsKept(f.height) - 1)
  PROVE  LET p == At(x, y)
         IN /\ p \in Point /\ p.x = x /\ p.y = y /\ p.x < f.width
            /\ Kept(f, p)
            /\ Address(p, f.width) \in 1..(f.width * RowsKept(f.height))
<1> DEFINE w == f.width
           h == RowsKept(f.height)
           p == At(x, y)
<1>1. w \in Nat /\ w > 0 /\ h \in Nat
  BY SourceFacts, RowsFacts
<1> HIDE DEF w, h
<1>2. x \in 0..(w - 1) /\ y \in 0..(h - 1)
  BY DEF w, h
<1>3. p \in Point /\ p.x = x /\ p.y = y
  BY <1>1, <1>2 DEF At, Point
<1> HIDE DEF p
<1>4. p.x < w /\ p.y < h
  BY <1>1, <1>2, <1>3
<1>5. /\ p.y < h <=> Address(p, w) \in 1..(w * h)
      /\ Address(p, w) \in Nat /\ Address(p, w) > 0
      /\ (Address(p, w) - 1) % w = p.x /\ (Address(p, w) - 1) \div w = p.y
  BY <1>1, <1>3, <1>4, Addresses
<1>6. Address(p, w) \in 1..(w * h)
  BY <1>4, <1>5
<1>7. QED
  BY <1>3, <1>4, <1>6 DEF Kept, IsInside, w, h, p

\* A place inside of the rows kept is a pixel of the image.
LEMMA KeptFacts ==
  ASSUME NEW f, IsSource(f), NEW p \in Point, Kept(f, p)
  PROVE  /\ p.x < f.width /\ IsInside(p, f.width, f.height)
         /\ Address(p, f.width) \in 1..(f.width * RowsKept(f.height))
         /\ f.pixels[Address(p, f.width)] \in Value
<1> DEFINE w == f.width
           h == RowsKept(f.height)
<1>1. /\ w \in Nat /\ w > 0 /\ h \in Nat /\ h <= f.height /\ f.height \in Nat
      /\ p.x \in Nat /\ p.y \in Nat
  BY SourceFacts, RowsFacts DEF Point
<1>2. p.x < w /\ p.y < h
  BY DEF Kept, IsInside
<1> HIDE DEF w, h
<1>3. IsInside(p, f.width, f.height)
  BY <1>1, <1>2 DEF IsInside, w
<1>4. /\ p.y < h <=> Address(p, w) \in 1..(w * h)
      /\ Address(p, w) \in Nat /\ Address(p, w) > 0
      /\ (Address(p, w) - 1) % w = p.x /\ (Address(p, w) - 1) \div w = p.y
  BY <1>1, <1>2, Addresses
<1>5. Address(p, w) \in 1..(w * h)
  BY <1>2, <1>4
<1>6. f.pixels[Address(p, f.width)] \in Value
  BY <1>3, PixelFacts
<1>7. QED
  BY <1>2, <1>3, <1>5, <1>6 DEF w, h

\* Drawing a pixel changes no size.
LEMMA OneDrawn ==
  ASSUME NEW s, NEW a \in 1..Len(s), NEW v \in Value, s \in Seq(Value)
  PROVE  [s EXCEPT ![a] = v] \in Seq(Value) /\ Len([s EXCEPT ![a] = v]) = Len(s)
OBVIOUS

\* With one symbol more one pixel more is drawn, or none outside of the rows kept.
LEMMA DrawnNext ==
  ASSUME NEW f, NEW b, NEW j, IsSource(f), b \in Nat, j \in Index,
         NEW drawn, Drawn(f, b, j, drawn), NEW new, NEW p, p = PlaceOf(f, b, j),
         new = IF Kept(f, p)
               THEN [drawn EXCEPT ![Address(p, f.width)] = f.pixels[Address(p, f.width)]]
               ELSE drawn
  PROVE  Drawn(f, b, j + 1, new)
<1> DEFINE w == f.width
           h == RowsKept(f.height)
           n == w * h
           ap == Address(p, w)
           v == f.pixels[ap]
<1>1. /\ drawn \in Seq(Value) /\ Len(drawn) = n
      /\ \A x \in 0..(w - 1), y \in 0..(h - 1) :
           drawn[Address(At(x, y), w)]
             = IF Covered(f, b, j, At(x, y)) THEN f.pixels[Address(At(x, y), w)] ELSE 0
  BY DEF Drawn
<1>2. p \in Point /\ n \in Nat
  BY PlaceFacts, RowsFacts
<1>3. Kept(f, p) => p.x < w /\ ap \in 1..n /\ v \in Value
  BY <1>2, KeptFacts
<1>4. new = IF Kept(f, p) THEN [drawn EXCEPT ![ap] = v] ELSE drawn
  OBVIOUS
<1> HIDE DEF n, v
<1>5. new \in Seq(Value) /\ Len(new) = n
  <2>1. CASE Kept(f, p)
    <3> HIDE DEF ap
    <3>1. new = [drawn EXCEPT ![ap] = v] /\ ap \in 1..n /\ v \in Value
      BY <1>3, <1>4, <2>1
    <3>2. ap \in 1..Len(drawn)
      BY <1>1, <3>1
    <3>3. drawn \in Seq(Value) /\ Len(drawn) = n /\ v \in Value
      BY <1>1, <3>1
    <3> HIDE DEF v, n, ap
    <3>4. /\ [drawn EXCEPT ![ap] = v] \in Seq(Value)
          /\ Len([drawn EXCEPT ![ap] = v]) = Len(drawn)
      BY <3>2, <3>3, OneDrawn
    <3>5. QED
      BY <3>1, <3>3, <3>4
  <2>2. CASE ~Kept(f, p)
    BY <1>1, <1>4, <2>2
  <2>3. QED
    BY <2>1, <2>2
<1>6. ASSUME NEW x \in 0..(w - 1), NEW y \in 0..(h - 1)
      PROVE  new[Address(At(x, y), w)]
               = IF Covered(f, b, j + 1, At(x, y)) THEN f.pixels[Address(At(x, y), w)] ELSE 0
  <2> DEFINE q == At(x, y)
             aq == Address(q, w)
  <2>1. q \in Point /\ q.x < w /\ Kept(f, q) /\ aq \in 1..n
    BY PixelIn DEF n
  <2>2. Covered(f, b, j + 1, q) <=> Covered(f, b, j, q) \/ p = q
    BY CoveredNext
  <2>3. drawn[aq] = IF Covered(f, b, j, q) THEN f.pixels[aq] ELSE 0
    BY <1>1
  <2>4. w \in Nat /\ w > 0
    BY SourceFacts
  <2> HIDE DEF q, w
  <2>5. CASE p = q
    <3>1. new = [drawn EXCEPT ![aq] = f.pixels[aq]]
      BY <1>4, <2>1, <2>5 DEF v
    <3> HIDE DEF aq
    <3>2. new[aq] = f.pixels[aq]
      BY <1>1, <2>1, <3>1
    <3>3. QED
      BY <2>2, <2>5, <3>2 DEF q, w, aq
  <2>6. CASE p # q
    <3>1. Kept(f, p) => ap # aq
      BY <1>2, <1>3, <2>1, <2>4, <2>6, SameAddress
    <3> HIDE DEF aq, ap
    <3>2. new[aq] = drawn[aq]
      BY <1>1, <1>3, <1>4, <2>1, <3>1
    <3>3. QED
      BY <2>2, <2>3, <2>6, <3>2 DEF q, w, aq
  <2>7. QED
    BY <2>5, <2>6
<1>7. QED
  BY <1>5, <1>6 DEF Drawn, w, h, n

\* A block complete is the next one begun.
LEMMA DrawnBlock ==
  ASSUME NEW f, NEW b, IsSource(f), b \in Nat, NEW drawn, Drawn(f, b, BlockSize, drawn)
  PROVE  Drawn(f, b + 1, 0, drawn)
<1>1. ASSUME NEW x \in 0..(f.width - 1), NEW y \in 0..(RowsKept(f.height) - 1)
      PROVE  Covered(f, b, BlockSize, At(x, y)) <=> Covered(f, b + 1, 0, At(x, y))
  <2>1. At(x, y) \in Point
    BY PixelIn
  <2>2. QED
    BY <2>1, BlockCovered
<1>2. QED
  BY <1>1 DEF Drawn

-----------------------------------------------------------------------------
(***************************************************************************)
(* The decoder takes a symbol: its pixel and its model.                    *)
(***************************************************************************)
\* Where there is a model, the height that the header has room for cuts no block
\* (KeepsBlocks): encoder and decoder agree on what lies outside of the image.
LEMMA SameRows ==
  ASSUME NEW f, NEW b, NEW j, IsSource(f), b \in Nat, j \in Index,
         UseModel, Start(f, b).y < RowsKept(f.height),
         IsInside(PlaceOf(f, b, j), f.width, f.height)
  PROVE  Kept(f, PlaceOf(f, b, j))
<1> DEFINE p == PlaceOf(f, b, j)
           top == Start(f, b).y
           line == b \div Across(f)
           R == RowsKept(f.height)
           H == BlockHeight
<1>1. /\ p \in Point /\ top <= p.y /\ p.y < top + H
      /\ p.x < f.width /\ p.y < f.height
  BY PlaceFacts DEF IsInside
<1>2. line \in Nat /\ top = line * H
  BY StartOfBlock
<1>3. H \in Nat \ {0} /\ R \in Nat
  BY SideFacts, RowsFacts
<1>4. R = f.height \/ R % H = 0
  BY DEF IsSource, KeepsBlocks
<1>5. top < R
  OBVIOUS
<1> HIDE DEF top, line, R, H, p
<1>6. p.y < R
  <2>1. CASE R = f.height
    BY <1>1, <2>1
  <2>2. CASE R % H = 0
    <3> DEFINE q == R \div H
    <3>1. q \in Nat /\ R % H \in 0..(H - 1) /\ q * H + (R % H) = R
      BY <1>3, QuotientAndRest
    <3> HIDE DEF q
    <3>2. q * H \in Nat /\ line * H \in Nat
      BY <1>2, <1>3, <3>1
    <3>3. R = q * H
      BY <2>2, <3>1, <3>2
    <3>4. line < q
      <4>1. ASSUME ~(line < q) PROVE FALSE
        <5>1. q * H <= line * H
          BY <1>2, <1>3, <3>1, <4>1
        <5>2. QED
          BY <1>2, <1>5, <3>2, <3>3, <5>1
      <4>2. QED
        BY <4>1
    <3>5. line * H + H <= q * H
      <4>1. (line + 1) * H <= q * H
        BY <1>2, <1>3, <3>1, <3>4
      <4>2. (line + 1) * H = line * H + H
        BY <1>2, <1>3
      <4>3. QED
        BY <4>1, <4>2
    <3>6. top + H <= R /\ top \in Nat
      BY <1>2, <3>2, <3>3, <3>5
    <3>7. p.y \in Nat
      BY <1>1 DEF Point
    <3>8. QED
      BY <1>1, <1>3, <3>6, <3>7
  <2>3. QED
    BY <1>4, <2>1, <2>2
<1>7. QED
  BY <1>1, <1>6 DEF Kept, IsInside, p, R

\* The model takes a symbol back to its pixel, and goes on as the encoder's did.
LEMMA SymbolReverted ==
  ASSUME NEW f, NEW b, NEW j, IsSource(f), b \in Nat, j \in Index,
         NEW last \in Value, Modelled(f, b, j, last),
         NEW v, v = Revert(SymbolAt(f, Number(b, j)), last)
  PROVE  LET p == PlaceOf(f, b, j)
         IN /\ v \in Value
            /\ Kept(f, p) => v = f.pixels[Address(p, f.width)]
            /\ Modelled(f, b, j + 1, IF Kept(f, p) THEN v ELSE last)
<1> DEFINE p == PlaceOf(f, b, j)
           start == Start(f, b)
           method == MethodOf(f, b)
           L == LastVals(f, start, method)
           x == f.pixels[Address(p, f.width)]
           in == IsInside(p, f.width, f.height)
           s == SymbolAt(f, Number(b, j))
           low == start.y < RowsKept(f.height)
<1>1. start \in Point /\ method \in ScanMethod
  BY BlockFacts
<1>2. /\ in <=> InImage(f, start, method, j)
      /\ x = PixelAt(f, start, method, j)
  BY DEF PlaceOf, InImage, PixelAt
<1>3. s = IF in THEN Apply(x, L[j]) ELSE 0
  <2>1. s = SymbolsOf(f, b)[j + 1]
    BY PieceIs
  <2>2. Scanned(f, start, method)[j + 1]
          = IF InImage(f, start, method, j)
            THEN Apply(PixelAt(f, start, method, j), L[j]) ELSE 0
    BY <1>1, SymbolFacts
  <2>3. QED
    BY <1>2, <2>1, <2>2 DEF SymbolsOf
<1>4. L[j + 1] = IF in THEN x ELSE L[j]
  <2>1. L[j + 1] = IF InImage(f, start, method, j) THEN PixelAt(f, start, method, j) ELSE L[j]
    BY <1>1, LastValFacts
  <2>2. QED
    BY <1>2, <2>1
<1>5. L[j] \in Value
  <2>1. j \in 0..BlockSize
    BY SideFacts DEF Index
  <2>2. QED
    BY <1>1, <2>1, LastValFacts
<1>6. p \in Point /\ start.y <= p.y /\ start.y \in Nat /\ p.y \in Nat
  BY PlaceFacts DEF Point
<1>7. Kept(f, p) => in /\ low /\ x \in Value
  <2>1. Kept(f, p) => in /\ x \in Value
    BY <1>6, KeptFacts
  <2>2. Kept(f, p) => p.y < RowsKept(f.height)
    BY DEF Kept, IsInside
  <2>3. RowsKept(f.height) \in Nat
    BY RowsFacts
  <2> DEFINE R == RowsKept(f.height)
  <2>4. R \in Nat /\ (Kept(f, p) => p.y < R)
    BY <2>2, <2>3
  <2> HIDE DEF R, p, start
  <2>5. Kept(f, p) => start.y < R
    BY <1>6, <2>4
  <2>6. QED
    BY <2>1, <2>5 DEF R, p, start
<1>8. UseModel /\ low /\ in => Kept(f, p)
  BY SameRows
<1>9. UseModel /\ low => last = L[j]
  BY DEF Modelled
<1>10. \A y : Modelled(f, b, j + 1, y) <=> (UseModel /\ low => y = L[j + 1])
  BY DEF Modelled
<1>11. s \in Value
  BY <1>1, NumberSplit, PieceFacts
<1>12. UseModel \in BOOLEAN
  BY ImageAssumption
<1> HIDE DEF p, L, x, in, s, low, start, method
<1>13. v = Revert(s, last) /\ v \in Value
  BY <1>11, ModelReverted DEF s
<1>14. Kept(f, p) => v = x
  <2> SUFFICES ASSUME Kept(f, p) PROVE v = x
    OBVIOUS
  <2>1. in /\ low /\ x \in Value /\ s = Apply(x, L[j])
    BY <1>3, <1>7
  <2>2. CASE UseModel
    <3>1. last = L[j]
      BY <1>9, <2>1, <2>2
    <3>2. QED
      BY <1>13, <2>1, <3>1, ModelReverted
  <2>3. CASE ~UseModel
    <3>1. Apply(x, L[j]) = x
      BY <1>5, <2>1, <2>3, ModelReverted
    <3>2. Revert(s, last) = s
      BY <1>11, <2>3, ModelReverted
    <3>3. QED
      BY <1>13, <2>1, <3>1, <3>2
  <2>4. QED
    BY <1>12, <2>2, <2>3
<1>15. Modelled(f, b, j + 1, IF Kept(f, p) THEN v ELSE last)
  <2> DEFINE y == IF Kept(f, p) THEN v ELSE last
  <2>1. UseModel /\ low => y = L[j + 1]
    <3>1. Kept(f, p) => y = x /\ in
      BY <1>7, <1>14
    <3>2. ~Kept(f, p) => y = last
      OBVIOUS
    <3>3. QED
      BY <1>4, <1>8, <1>9, <3>1, <3>2
  <2> HIDE DEF y
  <2>2. QED
    BY <1>10, <2>1 DEF y
<1>16. QED
  BY <1>13, <1>14, <1>15 DEF p, x

\* The context after a symbol, the last one of its block and any other.
Counted(c, n, last) ==
  /\ c.symbolCounter = n
  /\ n # BlockSize =>
       /\ c \in Context /\ c.state = "Tree" /\ c.lastVal = last
       /\ c.header = ctx.header /\ c.bitsRead = ctx.bitsRead
       /\ c.blockIndex = ctx.blockIndex /\ c.isFirstBlock = ctx.isFirstBlock

BlockEnded(e) ==
  /\ e \in Context /\ e.state = "BlockHeader" /\ e.methodBits = NoBits
  /\ e.symbolCounter = 0 /\ e.blockIndex = ctx.blockIndex + 1
  /\ e.header = ctx.header /\ e.bitsRead = ctx.bitsRead
  /\ e.isFirstBlock = ctx.isFirstBlock

\* The context after a symbol, within its block and at its end.
LEMMA TakenContext ==
  ASSUME ctx \in Context, NEW j \in Index, j = ctx.symbolCounter, NEW last \in Value,
         NEW c, c = [ctx EXCEPT !.state = "Tree", !.symbolCounter = j + 1, !.lastVal = last]
  PROVE  Counted(c, j + 1, last) /\ BlockEnded(EndBlockContext(c))
<1> DEFINE e == EndBlockContext(c)
           n == j + 1
<1>1. c = [ctx EXCEPT !.state = "Tree", !.symbolCounter = n, !.lastVal = last]
  OBVIOUS
<1>2. BlockSize \in Nat /\ j \in 0..(BlockSize - 1) /\ 0 \in 0..(BlockSize - 1)
  BY SideFacts DEF Index
<1>3. n # BlockSize => n \in 0..(BlockSize - 1)
  BY <1>2
<1> HIDE DEF n
<1>4. /\ c.symbolCounter = n /\ c.state = "Tree" /\ c.lastVal = last
      /\ c.header = ctx.header /\ c.bitsRead = ctx.bitsRead
      /\ c.blockIndex = ctx.blockIndex /\ c.isFirstBlock = ctx.isFirstBlock
  BY <1>1 DEF Context
<1>5. n # BlockSize => c \in Context
  BY <1>1, <1>3 DEF Context
<1>6. e = [ctx EXCEPT !.state = "BlockHeader", !.symbolCounter = 0, !.lastVal = last,
                      !.methodBits = NoBits, !.blockIndex = ctx.blockIndex + 1]
  BY <1>1 DEF EndBlockContext, Context
<1>7. NoBits \in [1..3 -> {0, 1}]
  BY DEF NoBits
<1>8. ctx.blockIndex + 1 \in Nat
  BY DEF Context
<1> HIDE DEF e
<1> DEFINE b == ctx.blockIndex + 1
<1> HIDE DEF b
<1>9. /\ e \in Context /\ e.state = "BlockHeader" /\ e.methodBits = NoBits
      /\ e.symbolCounter = 0 /\ e.blockIndex = b
      /\ e.header = ctx.header /\ e.bitsRead = ctx.bitsRead
      /\ e.isFirstBlock = ctx.isFirstBlock
  <2>1. e = [ctx EXCEPT !.state = "BlockHeader", !.symbolCounter = 0, !.lastVal = last,
                        !.methodBits = NoBits, !.blockIndex = b] /\ b \in Nat
    BY <1>6, <1>8 DEF b
  <2>2. e \in Context
    BY <1>2, <1>7, <2>1 DEF Context
  <2>3. QED
    BY <2>1, <2>2 DEF Context
<1>10. QED
  BY <1>4, <1>5, <1>9 DEF e, n, b, Counted, BlockEnded

\* What TakeSymbol does when the decoder has been right so far.
LEMMA SymbolDrawn ==
  ASSUME NEW f, NEW b, NEW j, NEW s, AtBit(f, b, j), AtSymbol(f, b, j),
         TakeSymbol(s, "Tree", <<>>)
  PROVE  LET p == PlaceOf(f, b, j)
             v == Revert(s, ctx.lastVal)
             c == [ctx EXCEPT !.state = "Tree", !.symbolCounter = @ + 1,
                              !.lastVal = IF Kept(f, p) THEN v ELSE ctx.lastVal]
         IN /\ decoder' = UpdateTree(decoder, s)
            /\ node' = Root /\ literal' = <<>>
            /\ result' = IF Kept(f, p) THEN [result EXCEPT ![Address(p, f.width)] = v]
                         ELSE result
            /\ ctx' = IF c.symbolCounter = BlockSize THEN EndBlockContext(c) ELSE c
            /\ ScanInv' /\ scan'.index = j + 1 /\ scan'.scanMethod = MethodOf(f, b)
<1>1. /\ IsSource(f) /\ Len(ctx.header) = 6 /\ HeaderIs(f, ctx.header)
      /\ b = ctx.blockIndex /\ j \in Index /\ ctx \in Context /\ ScanInv
      /\ scan.index = j /\ scan.scanMethod = MethodOf(f, b)
  BY DEF AtBit, AtBlock, AtSymbol
<1>2. FieldWidth = f.width /\ FieldHeight = RowsKept(f.height) /\ SymbolsInBlock = BlockSize
  BY <1>1, HeaderFields DEF FieldWidth, FieldHeight, SymbolsInBlock
<1>3. scan.pos = IteratorPos(MethodOf(f, b), j)
  BY <1>1 DEF ScanInv, ScanAfter
<1>4. PosInImage(StartPosForBlock(ctx.blockIndex, FieldWidth), scan.pos) = PlaceOf(f, b, j)
  BY <1>1, <1>2, <1>3 DEF PlaceOf, PosAt, Start
<1> DEFINE p == PlaceOf(f, b, j)
           v == Revert(s, ctx.lastVal)
           in == IsInside(p, f.width, RowsKept(f.height))
           last == IF in THEN v ELSE ctx.lastVal
           c == [ctx EXCEPT !.state = "Tree", !.symbolCounter = @ + 1, !.lastVal = last]
<1>5. /\ decoder' = UpdateTree(decoder, s) /\ Advance
      /\ node' = Root /\ literal' = <<>>
      /\ result' = IF in THEN [result EXCEPT ![Address(p, f.width)] = v] ELSE result
      /\ ctx' = IF c.symbolCounter = BlockSize THEN EndBlockContext(c) ELSE c
  BY <1>2, <1>4 DEF TakeSymbol
<1>6. Move
  <2>1. scan.index < BlockSize
    BY <1>1, SideFacts DEF Index
  <2>2. QED
    BY <1>5, <2>1 DEF Move
<1>7. ScanInv' /\ scan'.index = j + 1 /\ scan'.scanMethod = MethodOf(f, b)
  <2>1. /\ ScanInv'
        /\ scan'.scanMethod = scan.scanMethod /\ scan'.index = scan.index + 1
        /\ scan'.pos = IteratorPos(scan.scanMethod, scan.index + 1)
    BY <1>1, <1>6, MoveKeeps
  <2>2. QED
    BY <1>1, <2>1
<1>8. QED
  BY <1>5, <1>7 DEF Kept

\* In a block the next symbol's path begins where the last symbol ends.
LEMMA SymbolBegins ==
  ASSUME NEW f, NEW b, NEW j, IsSource(f), b \in Nat, b < BlocksOf(f),
         j \in Index, j # 0
  PROVE  OnPath(f, Number(b, j), Root, BaseAt(f, Number(b, j)))
<1> DEFINE k == Number(b, j)
<1>1. k \in Nat /\ k < Count(f) /\ k # 0
  <2>1. k \in Nat
    BY NumberSplit
  <2>2. k < Count(f)
    BY NumberFacts
  <2>3. j - 1 \in Index /\ (j - 1) + 1 = j
    BY SideFacts DEF Index
  <2>4. k = Number(b, j - 1) + 1 /\ Number(b, j - 1) + 1 # 0
    BY <2>3, NumberFacts
  <2>5. QED
    BY <2>1, <2>2, <2>4
<1>2. Opening(f, k) = <<>>
  BY PieceIs
<1>3. SymbolStart(f, k) = BaseAt(f, k)
  <2>1. BaseAt(f, k) \in Nat
    BY <1>1, NextBits
  <2>2. SymbolStart(f, k) = BaseAt(f, k) + 0
    BY <1>2 DEF SymbolStart
  <2>3. QED
    BY <2>1, <2>2
<1> HIDE DEF k
<1>4. /\ GoalAt(f, k) # Root =>
           OnWay(CoderAt(f, k), GoalAt(f, k), Written(f), EndAt(f, k), Root, SymbolStart(f, k))
      /\ k # 0 => GoalAt(f, k) # Root
  BY <1>1, SymbolBits
<1>5. QED
  BY <1>1, <1>3, <1>4 DEF OnPath, k

\* The symbol that was written is taken where it ends.
LEMMA SymbolTaken ==
  ASSUME NEW f, NEW b, NEW j, NEW k, AtBit(f, b, j), AtSymbol(f, b, j),
         k = Number(b, j), index = BaseAt(f, k + 1),
         TakeSymbol(SymbolAt(f, k), "Tree", <<>>), stopped' = stopped
  PROVE  Arrives
<1> DEFINE s == SymbolAt(f, k)
           p == PlaceOf(f, b, j)
           v == Revert(s, ctx.lastVal)
           last == IF Kept(f, p) THEN v ELSE ctx.lastVal
           c == [ctx EXCEPT !.state = "Tree", !.symbolCounter = @ + 1, !.lastVal = last]
           e == EndBlockContext(c)
<1>1. /\ f = Source /\ b = ctx.blockIndex /\ j = ctx.symbolCounter
      /\ IsSource(f) /\ ctx \in Context /\ b \in Nat /\ j \in Index
      /\ index - 1 \in Nat /\ (index - 1) + 1 = index /\ index' = index + 1
      /\ image' = image /\ pixels' = pixels /\ AtBlock(f, b, j)
  BY DEF AtBit
<1>2. Source' = f
  BY <1>1, SourceStays
<1>3. /\ Len(ctx.header) = 6 /\ HeaderIs(f, ctx.header)
      /\ decoder = CoderAt(f, k) /\ Drawn(f, b, j, result)
  BY <1>1 DEF AtBlock
<1>4. /\ b < BlocksOf(f) /\ ctx.bitsRead = 0 /\ ~ctx.isFirstBlock /\ ~stopped
      /\ Modelled(f, b, j, ctx.lastVal)
  BY DEF AtSymbol
<1>5. /\ k \in Nat /\ k < Count(f) /\ Number(b, j + 1) = k + 1
      /\ Number(b, BlockSize) = Number(b + 1, 0)
  <2>1. k \in Nat
    BY <1>1, NumberSplit
  <2>2. QED
    BY <1>1, <1>4, <2>1, NumberFacts
<1>6. CoderAt(f, k + 1) = UpdateTree(CoderAt(f, k), s)
  BY <1>1, <1>5, SymbolBits
<1>7. /\ decoder' = UpdateTree(decoder, s)
      /\ node' = Root /\ literal' = <<>>
      /\ result' = IF Kept(f, p) THEN [result EXCEPT ![Address(p, f.width)] = v] ELSE result
      /\ ctx' = IF c.symbolCounter = BlockSize THEN e ELSE c
      /\ ScanInv' /\ scan'.index = j + 1 /\ scan'.scanMethod = MethodOf(f, b)
  BY SymbolDrawn
<1>8. decoder' = CoderAt(f, k + 1)
  BY <1>3, <1>6, <1>7
<1>9. ctx.lastVal \in Value
  BY <1>1 DEF Context
<1>10. /\ v \in Value
       /\ Kept(f, p) => v = f.pixels[Address(p, f.width)]
       /\ Modelled(f, b, j + 1, last)
  BY <1>1, <1>4, <1>9, SymbolReverted
<1>11. Drawn(f, b, j + 1, result')
  <2> DEFINE new == IF Kept(f, p)
                    THEN [result EXCEPT ![Address(p, f.width)] = f.pixels[Address(p, f.width)]]
                    ELSE result
  <2>1. result' = new
    BY <1>7, <1>10
  <2> HIDE DEF v, last, c, e
  <2>2. Drawn(f, b, j + 1, new)
    BY <1>1, <1>3, DrawnNext
  <2>3. QED
    BY <2>1, <2>2
<1>12. last \in Value
  BY <1>9, <1>10
<1> HIDE DEF last, v, p, s
<1>13. Counted(c, j + 1, last) /\ BlockEnded(e)
  <2>1. ctx \in Context /\ j \in Index /\ j = ctx.symbolCounter
    BY <1>1
  <2>2. c = [ctx EXCEPT !.state = "Tree", !.symbolCounter = j + 1, !.lastVal = last]
    BY <2>1
  <2> HIDE DEF c
  <2>3. QED
    BY <1>12, <2>1, <2>2, TakenContext
<1> HIDE DEF c, e
<1>14. index' - 1 = index /\ index \in Nat /\ stopped' = FALSE
  <2>1. stopped \in BOOLEAN
    BY DEF AtBit
  <2>2. QED
    BY <1>1, <1>4, <2>1
<1>15. Root \in Node /\ <<>> \in Seq(Bit)
  BY NewCoderTyped
<1>16. CASE j + 1 = BlockSize
  <2>1. ctx' = e
    BY <1>7, <1>13, <1>16 DEF Counted
  <2>2. /\ ctx' \in Context /\ ctx'.state = "BlockHeader" /\ ctx'.methodBits = NoBits
        /\ ctx'.symbolCounter = 0 /\ ctx'.blockIndex = b + 1 /\ ctx'.header = ctx.header
        /\ ctx'.bitsRead = 0 /\ ~ctx'.isFirstBlock
    BY <1>1, <1>4, <1>13, <2>1 DEF BlockEnded
  <2>3. k + 1 = Number(b + 1, 0)
    BY <1>5, <1>16
  <2>4. b + 1 \in Nat /\ b + 1 # 0 /\ b + 1 <= BlocksOf(f) /\ BlocksOf(f) \in Nat
    BY <1>1, <1>4, SourceFacts
  <2>5. Drawn(f, b + 1, 0, result')
    BY <1>1, <1>11, <1>16, DrawnBlock
  <2>6. AtMethod(Source, ctx.blockIndex, ctx.bitsRead)'
    <3>1. index' - 1 = BaseAt(f, Number(b + 1, 0)) + 0
      <4>1. index = BaseAt(f, Number(b + 1, 0))
        BY <2>3
      <4>2. QED
        BY <1>14, <4>1
    <3>2. \A i \in 1..3 : ctx'.methodBits[i] = IF i <= 0 THEN Heading(f, b + 1)[i] ELSE 0
      <4>1. \A i \in 1..3 : NoBits[i] = 0 /\ ~(i <= 0)
        BY DEF NoBits
      <4>2. QED
        BY <2>2, <4>1
    <3>3. ctx'.isFirstBlock <=> b + 1 = 0
      BY <2>2, <2>4
    <3>4. scan'.index = IF b + 1 = 0 THEN 0 ELSE BlockSize
      BY <1>7, <1>16, <2>4
    <3>5. stopped' <=> ctx'.bitsRead = 3
      BY <1>14, <2>2
    <3>6. ctx'.bitsRead # 3 /\ ctx'.bitsRead = 0
      BY <2>2
    <3>7. QED
      BY <1>2, <1>7, <2>2, <3>1, <3>2, <3>3, <3>4, <3>5, <3>6 DEF AtMethod
  <2>7. AtBlock(Source, ctx.blockIndex, ctx.symbolCounter)'
    <3>1. decoder' = CoderAt(Source', Number(b + 1, 0)) /\ Drawn(Source', b + 1, 0, result')
      BY <1>2, <1>8, <2>3, <2>5
    <3>2. Len(ctx'.header) = 6 /\ HeaderIs(Source', ctx'.header) /\ b + 1 <= BlocksOf(Source')
      BY <1>2, <1>3, <2>2, <2>4
    <3>3. QED
      BY <2>2, <2>6, <3>1, <3>2 DEF AtBlock
  <2>8. QED
    BY <1>7, <1>14, <1>15, <2>2, <2>7 DEF Arrives
<1>17. CASE j + 1 # BlockSize
  <2>1. ctx' = c
    BY <1>7, <1>13, <1>17 DEF Counted
  <2>2. /\ ctx' \in Context /\ ctx'.state = "Tree" /\ ctx'.lastVal = last
        /\ ctx'.symbolCounter = j + 1 /\ ctx'.blockIndex = b /\ ctx'.header = ctx.header
        /\ ctx'.bitsRead = 0 /\ ~ctx'.isFirstBlock
    BY <1>1, <1>4, <1>13, <1>17, <2>1 DEF Counted
  <2>3. j + 1 \in Index /\ j + 1 # 0
    BY <1>1, <1>17, SideFacts DEF Index
  <2>4. b <= BlocksOf(f)
    BY <1>1, <1>4, SourceFacts
  <2>5. OnPath(f, Number(b, j + 1), Root, index' - 1)
    <3>1. OnPath(f, Number(b, j + 1), Root, BaseAt(f, Number(b, j + 1)))
      BY <1>1, <1>4, <2>3, SymbolBegins
    <3>2. index' - 1 = BaseAt(f, Number(b, j + 1))
      BY <1>5, <1>14
    <3>3. QED
      BY <3>1, <3>2
  <2>6. AtSymbol(Source, ctx.blockIndex, ctx.symbolCounter)'
    <3>1. Modelled(Source', b, j + 1, ctx'.lastVal)
      BY <1>2, <1>10, <2>2
    <3>2. OnPath(Source', Number(b, j + 1), node', index' - 1)
      BY <1>2, <1>7, <2>5
    <3>3. QED
      BY <1>2, <1>4, <1>7, <1>14, <2>2, <3>1, <3>2 DEF AtSymbol
  <2>7. AtBlock(Source, ctx.blockIndex, ctx.symbolCounter)'
    <3>1. decoder' = CoderAt(Source', Number(b, j + 1)) /\ Drawn(Source', b, j + 1, result')
      BY <1>2, <1>5, <1>8, <1>11
    <3>2. Len(ctx'.header) = 6 /\ HeaderIs(Source', ctx'.header) /\ b <= BlocksOf(Source')
      BY <1>2, <1>3, <2>2, <2>4
    <3>3. ctx'.state # "BlockHeader"
      BY <2>2
    <3>4. QED
      BY <2>2, <2>6, <3>1, <3>2, <3>3 DEF AtBlock
  <2>8. ctx'.state # "ImageHeader"
    BY <2>2
  <2>9. QED
    BY <1>7, <1>14, <1>15, <2>2, <2>7, <2>8 DEF Arrives
<1>18. QED
  BY <1>16, <1>17

-----------------------------------------------------------------------------
(***************************************************************************)
(* The decoder reads a bit of a symbol.                                    *)
(***************************************************************************)
\* A bit that does not complete its symbol.
LEMMA SymbolGoesOn ==
  ASSUME NEW f, NEW b, NEW j, NEW st, AtBit(f, b, j), AtSymbol(f, b, j),
         st \in {"Tree", "Value"}, ctx' = [ctx EXCEPT !.state = st],
         decoder' = decoder, result' = result, scan' = scan, visited' = visited,
         stopped' = stopped, node' \in Node, literal' \in Seq(Bit),
         \/ st = "Tree" /\ literal' = <<>> /\ OnPath(f, Number(b, j), node', index)
         \/ st = "Value" /\ InLiteral(f, Number(b, j), node', index, literal')
  PROVE  Arrives
<1>1. /\ f = Source /\ b = ctx.blockIndex /\ j = ctx.symbolCounter /\ ctx \in Context
      /\ ScanInv /\ index - 1 \in Nat /\ (index - 1) + 1 = index /\ index' = index + 1
      /\ image' = image /\ pixels' = pixels /\ AtBlock(f, b, j) /\ stopped \in BOOLEAN
  BY DEF AtBit
<1>2. Source' = f
  BY <1>1, SourceStays
<1>3. /\ Len(ctx.header) = 6 /\ HeaderIs(f, ctx.header) /\ b <= BlocksOf(f)
      /\ decoder = CoderAt(f, Number(b, j)) /\ Drawn(f, b, j, result)
  BY <1>1 DEF AtBlock
<1>4. /\ b < BlocksOf(f) /\ ctx.bitsRead = 0 /\ ~ctx.isFirstBlock /\ ~stopped
      /\ scan.index = j /\ scan.scanMethod = MethodOf(f, b)
      /\ Modelled(f, b, j, ctx.lastVal)
  BY DEF AtSymbol
<1>5. /\ ctx' \in Context /\ ctx'.state = st /\ ctx'.header = ctx.header
      /\ ctx'.blockIndex = b /\ ctx'.symbolCounter = j /\ ctx'.lastVal = ctx.lastVal
      /\ ctx'.bitsRead = ctx.bitsRead /\ ctx'.isFirstBlock = ctx.isFirstBlock
  BY <1>1 DEF Context
<1>6. ScanInv'
  BY <1>1 DEF ScanInv
<1>7. index' - 1 = index
  BY <1>1
<1>8. AtSymbol(Source, ctx.blockIndex, ctx.symbolCounter)'
  <2>1. Modelled(Source', b, j, ctx'.lastVal)
    BY <1>2, <1>4, <1>5
  <2>2. \/ ctx'.state = "Tree" /\ literal' = <<>> /\ OnPath(Source', Number(b, j), node', index' - 1)
        \/ ctx'.state = "Value" /\ InLiteral(Source', Number(b, j), node', index' - 1, literal')
    BY <1>2, <1>5, <1>7
  <2>3. ctx'.bitsRead = 0 /\ ~ctx'.isFirstBlock /\ ~stopped'
    BY <1>4, <1>5
  <2>4. QED
    BY <1>2, <1>4, <1>5, <2>1, <2>2, <2>3 DEF AtSymbol
<1>9. AtBlock(Source, ctx.blockIndex, ctx.symbolCounter)'
  <2>1. decoder' = CoderAt(Source', Number(b, j)) /\ Drawn(Source', b, j, result')
    BY <1>2, <1>3
  <2>2. Len(ctx'.header) = 6 /\ HeaderIs(Source', ctx'.header) /\ b <= BlocksOf(Source')
    BY <1>2, <1>3, <1>5
  <2>3. ctx'.state # "BlockHeader"
    BY <1>5
  <2>4. QED
    BY <1>5, <1>8, <2>1, <2>2, <2>3 DEF AtBlock
<1>10. ctx'.state # "ImageHeader"
  BY <1>5
<1>11. QED
  BY <1>1, <1>5, <1>6, <1>9, <1>10 DEF Arrives

\* A bit taken in the state Tree.
LEMMA TreeBit ==
  ASSUME NEW f, NEW b, NEW j, AtBit(f, b, j), AtSymbol(f, b, j),
         ctx.state = "Tree", literal = <<>>, OnPath(f, Number(b, j), node, index - 1),
         ReadSymbolBit(stream[index])
  PROVE  Arrives
<1> DEFINE k == Number(b, j)
           c == CoderAt(f, k)
           s == SymbolAt(f, k)
           goal == GoalAt(f, k)
           W == Written(f)
           end == EndAt(f, k)
           at == index - 1
           bit == stream[index]
           m == Walk(bit)
<1>1. /\ IsSource(f) /\ ctx \in Context /\ b \in Nat /\ j \in Index
      /\ stream = W /\ at \in Nat /\ at + 1 = index /\ AtBlock(f, b, j)
  BY DEF AtBit
<1>2. decoder = c /\ b < BlocksOf(f)
  BY <1>1 DEF AtBlock, AtSymbol
<1>3. k \in Nat /\ k < Count(f)
  BY <1>1, <1>2, NumberSplit, NumberFacts
<1>4. /\ Sound(c) /\ end \in Nat
      /\ goal # c.nyt => /\ BaseAt(f, k + 1) = end
                         /\ IsLeaf(c.tree, goal) /\ c.tree.value[goal] = s
  BY <1>1, <1>3, SymbolBits
<1>5. m = ChildBy(c.tree, node, W[at + 1])
  BY <1>1, <1>2 DEF Walk, ChildBy
<1>6. \A x, y : OnPath(f, k, x, y) <=> OnWay(c, goal, W, end, x, y)
  BY DEF OnPath
<1>7. /\ DecodeLeaf(m) \/ DecodeNYT(m, bit) \/ DecodeTurn(m)
      /\ stopped' = stopped
  BY DEF ReadSymbolBit
<1> HIDE DEF c, s, goal, W, end, at, bit, m
<1>8. /\ m \in Allocated(c.tree)
      /\ m = goal => at + 1 = end
      /\ m # goal => ~IsLeaf(c.tree, m) /\ OnWay(c, goal, W, end, m, at + 1)
  <2>1. OnWay(c, goal, W, end, node, at)
    BY <1>6 DEF at
  <2>2. LET x == ChildBy(c.tree, node, W[at + 1])
        IN /\ at < end
           /\ x \in Allocated(c.tree)
           /\ x = goal => at + 1 = end
           /\ x # goal => ~IsLeaf(c.tree, x) /\ OnWay(c, goal, W, end, x, at + 1)
    BY <1>1, <1>4, <2>1, BitOnWay
  <2>3. QED
    BY <1>5, <2>2
<1>9. /\ m \in Node /\ (decoder.tree.isNYT[m] <=> m = c.nyt)
      /\ IsLeaf(c.tree, c.nyt)
  BY <1>2, <1>4, <1>8, SoundFacts
<1>10. LiteralBits \in Nat /\ LiteralBits > 0 /\ Len(<<>>) = 0 /\ <<>> \in Seq(Bit)
  BY ImageAssumption
<1>11. CASE m # goal
  <2>1. ~IsLeaf(decoder.tree, m) /\ ~decoder.tree.isNYT[m]
    BY <1>2, <1>4, <1>8, <1>9, <1>11
  <2>2. DecodeTurn(m)
    BY <1>7, <2>1 DEF DecodeLeaf, DecodeNYT
  <2>3. /\ node' = m /\ decoder' = decoder /\ literal' = <<>> /\ result' = result
        /\ ctx' = ctx /\ scan' = scan /\ visited' = visited
    BY <2>2 DEF DecodeTurn
  <2>4. ctx' = [ctx EXCEPT !.state = "Tree"]
    BY <1>1, <2>3 DEF Context
  <2>5. OnPath(f, k, node', index)
    BY <1>1, <1>6, <1>8, <1>11, <2>3
  <2> HIDE DEF k
  <2>6. node' \in Node /\ literal' \in Seq(Bit) /\ "Tree" \in {"Tree", "Value"}
    BY <1>9, <1>10, <2>3
  <2>7. QED
    BY <1>7, <2>3, <2>4, <2>5, <2>6, SymbolGoesOn DEF k
<1>12. CASE m = goal /\ goal = c.nyt
  <2>1. DecodeNYT(m, bit)
    BY <1>7, <1>9, <1>12 DEF DecodeLeaf, DecodeTurn
  <2>2. /\ node' = m /\ literal' = <<>> /\ ctx' = [ctx EXCEPT !.state = "Value"]
        /\ decoder' = decoder /\ scan' = scan /\ visited' = visited /\ result' = result
    BY <1>10, <2>1 DEF DecodeNYT
  <2>3. InLiteral(f, k, node', index, <<>>)
    <3>1. index = end + Len(<<>>)
      BY <1>1, <1>4, <1>8, <1>10, <1>12
    <3>2. node' = CoderAt(f, k).nyt /\ GoalAt(f, k) = node'
      BY <1>12, <2>2 DEF c, goal
    <3>3. Behind(Written(f), EndAt(f, k), <<>>)
      BY DEF Behind
    <3>4. QED
      BY <1>10, <3>1, <3>2, <3>3 DEF InLiteral, end
  <2> HIDE DEF k
  <2>4. node' \in Node /\ literal' \in Seq(Bit) /\ "Value" \in {"Tree", "Value"}
    BY <1>9, <1>10, <2>2
  <2>5. InLiteral(f, k, node', index, literal')
    BY <2>2, <2>3
  <2>6. QED
    BY <1>7, <2>2, <2>4, <2>5, SymbolGoesOn DEF k
<1>13. CASE m = goal /\ goal # c.nyt
  <2>1. DecodeLeaf(m)
    BY <1>2, <1>4, <1>7, <1>9, <1>13 DEF DecodeNYT, DecodeTurn
  <2>2. TakeSymbol(s, "Tree", <<>>)
    BY <1>2, <1>4, <1>13, <2>1 DEF DecodeLeaf
  <2>3. index = BaseAt(f, k + 1)
    BY <1>1, <1>4, <1>8, <1>13
  <2> HIDE DEF k
  <2>4. QED
    BY <1>7, <2>2, <2>3, SymbolTaken DEF k, s
<1>14. QED
  BY <1>11, <1>12, <1>13

\* A bit taken in the state Value.
LEMMA ValueBit ==
  ASSUME NEW f, NEW b, NEW j, AtBit(f, b, j), AtSymbol(f, b, j),
         ctx.state = "Value", InLiteral(f, Number(b, j), node, index - 1, literal),
         ReadSymbolBit(stream[index])
  PROVE  Arrives
<1> DEFINE k == Number(b, j)
           c == CoderAt(f, k)
           s == SymbolAt(f, k)
           W == Written(f)
           end == EndAt(f, k)
           at == index - 1
           bit == stream[index]
           bits == Append(literal, bit)
<1>1. /\ IsSource(f) /\ ctx \in Context /\ b \in Nat /\ j \in Index /\ node \in Node
      /\ stream = W /\ at \in Nat /\ at + 1 = index /\ AtBlock(f, b, j)
      /\ at < Len(stream) /\ literal \in Seq(Bit)
  BY DEF AtBit
<1>2. decoder = c /\ b < BlocksOf(f)
  BY <1>1 DEF AtBlock, AtSymbol
<1>3. k \in Nat /\ k < Count(f)
  BY <1>1, <1>2, NumberSplit, NumberFacts
<1>4. /\ node = c.nyt /\ GoalAt(f, k) = node /\ Len(literal) < LiteralBits
      /\ at = end + Len(literal) /\ Behind(W, end, literal)
  BY DEF InLiteral
<1>5. /\ Sound(c) /\ end \in Nat /\ s \in Value
      /\ GoalAt(f, k) = c.nyt => /\ BaseAt(f, k + 1) = end + LiteralBits
                                 /\ Behind(W, end, TypeToBits(s, LiteralBits))
  BY <1>1, <1>3, SymbolBits
<1>6. decoder.tree.isNYT[node]
  BY <1>2, <1>4, <1>5, SoundFacts
<1>7. DecodeNYT(node, bit) /\ stopped' = stopped
  <2>1. Walk(bit) = node
    BY DEF Walk
  <2>2. /\ DecodeLeaf(node) \/ DecodeNYT(node, bit) \/ DecodeTurn(node)
        /\ stopped' = stopped
    BY <2>1 DEF ReadSymbolBit
  <2>3. QED
    BY <1>6, <2>2 DEF DecodeLeaf, DecodeTurn
<1>8. W \in Seq(Bit) /\ Len(W) \in Nat
  BY <1>1, StreamGrows
<1> HIDE DEF c, s, W, end, at, bit
<1>9. bit = W[at + 1] /\ bit \in Bit
  <2>1. bit = W[at + 1]
    BY <1>1 DEF bit
  <2>2. at + 1 \in 1..Len(W)
    BY <1>1, <1>8
  <2>3. QED
    BY <1>8, <2>1, <2>2
<1>10. /\ bits \in Seq(Bit) /\ Len(bits) = Len(literal) + 1
       /\ \A i \in 1..Len(literal) : bits[i] = literal[i]
       /\ bits[Len(literal) + 1] = bit
  BY <1>1, <1>9
<1> DEFINE n == Len(literal)
<1>11. n \in Nat /\ LiteralBits \in Nat
  BY <1>1, ImageAssumption
<1> HIDE DEF bits
<1>12. Behind(W, end, bits)
  <2>1. ASSUME NEW i \in 1..Len(bits) PROVE W[end + i] = bits[i]
    <3>1. CASE i \in 1..n
      BY <1>4, <1>10, <3>1 DEF Behind
    <3>2. CASE i = n + 1
      <4>1. end + (n + 1) = at + 1
        BY <1>4, <1>5, <1>11
      <4>2. QED
        BY <1>9, <1>10, <3>2, <4>1
    <3>3. i \in 1..n \/ i = n + 1
      <4>1. i \in 1..(n + 1)
        BY <1>10
      <4> HIDE DEF n
      <4>2. QED
        BY <1>11, <4>1
    <3>4. QED
      BY <3>1, <3>2, <3>3
  <2>2. QED
    BY <2>1 DEF Behind
<1>13. index = end + Len(bits)
  BY <1>1, <1>4, <1>5, <1>10, <1>11
<1>14. CASE Len(bits) = LiteralBits
  <2>1. TakeSymbol(BinToIntegral(bits), "Tree", <<>>)
    BY <1>7, <1>14 DEF DecodeNYT, bits
  <2>2. bits = TypeToBits(s, LiteralBits) /\ BinToIntegral(TypeToBits(s, LiteralBits)) = s
    <3> DEFINE lit == TypeToBits(s, LiteralBits)
    <3>1. lit \in Seq(Bit) /\ Len(lit) = LiteralBits /\ BinToIntegral(lit) = s
      BY <1>5, LiteralRead
    <3>2. Behind(W, end, lit)
      BY <1>4, <1>5
    <3> HIDE DEF lit
    <3>3. \A i \in 1..LiteralBits : bits[i] = lit[i]
      BY <1>12, <1>14, <3>1, <3>2 DEF Behind
    <3>4. bits = lit
      BY <1>10, <1>14, <3>1, <3>3
    <3>5. QED
      BY <3>1, <3>4 DEF lit
  <2>3. index = BaseAt(f, k + 1)
    BY <1>4, <1>5, <1>13, <1>14
  <2>4. TakeSymbol(s, "Tree", <<>>)
    BY <2>1, <2>2
  <2> HIDE DEF k
  <2>5. QED
    BY <1>7, <2>3, <2>4, SymbolTaken DEF k, s
<1>15. CASE Len(bits) # LiteralBits
  <2>1. /\ node' = node /\ literal' = bits /\ ctx' = [ctx EXCEPT !.state = "Value"]
        /\ decoder' = decoder /\ scan' = scan /\ visited' = visited /\ result' = result
    BY <1>7, <1>15 DEF DecodeNYT, bits
  <2>2. Len(bits) < LiteralBits
    BY <1>4, <1>10, <1>11, <1>15
  <2>3. InLiteral(f, k, node', index, literal')
    BY <1>4, <1>12, <1>13, <2>1, <2>2 DEF InLiteral, c, W, end
  <2>4. node' \in Node /\ literal' \in Seq(Bit) /\ "Value" \in {"Tree", "Value"}
    BY <1>1, <1>10, <2>1
  <2> HIDE DEF k
  <2>5. QED
    BY <1>7, <2>1, <2>3, <2>4, SymbolGoesOn DEF k
<1>16. QED
  BY <1>14, <1>15

\* While blocks are read, the decoder's coder and image have their types.
LEMMA AtBlockTyped ==
  IsSource(Source) /\ ctx \in Context
    /\ AtBlock(Source, ctx.blockIndex, ctx.symbolCounter)
    => decoder \in Coder /\ result \in Seq(Value)
<1> SUFFICES ASSUME IsSource(Source), ctx \in Context,
                    AtBlock(Source, ctx.blockIndex, ctx.symbolCounter)
             PROVE  decoder \in Coder /\ result \in Seq(Value)
  OBVIOUS
<1> DEFINE f == Source
           b == ctx.blockIndex
           j == ctx.symbolCounter
<1>1. b \in Nat /\ j \in Index /\ ctx.bitsRead \in 0..3
  BY DEF Context, Index
<1>2. /\ b <= BlocksOf(f) /\ decoder = CoderAt(f, Number(b, j)) /\ Drawn(f, b, j, result)
      /\ ctx.state = "BlockHeader" => AtMethod(f, b, ctx.bitsRead)
      /\ ctx.state # "BlockHeader" => AtSymbol(f, b, j)
  BY DEF AtBlock
<1>3. b < BlocksOf(f) \/ j = 0
  <2>1. CASE ctx.state = "BlockHeader"
    BY <1>2, <2>1 DEF AtMethod
  <2>2. CASE ctx.state # "BlockHeader"
    BY <1>2, <2>2 DEF AtSymbol
  <2>3. QED
    BY <2>1, <2>2
<1> HIDE DEF f, b, j
<1>4. IsSource(f)
  BY DEF f
<1>5. Number(b, j) \in 0..Count(f)
  <2>1. CASE j = 0
    BY <1>1, <1>2, <1>4, <2>1, NumberFacts
  <2>2. CASE b < BlocksOf(f)
    <3>1. Number(b, j) \in Nat /\ Number(b, j) < Count(f) /\ Count(f) \in Nat
      <4>1. Number(b, j) \in Nat
        BY <1>1, NumberSplit
      <4>2. QED
        BY <1>1, <1>4, <2>2, <4>1, NumberFacts
    <3>2. QED
      BY <3>1
  <2>3. QED
    BY <1>3, <2>1, <2>2
<1>6. decoder \in Coder
  BY <1>2, <1>4, <1>5, EncodingTypes
<1>7. result \in Seq(Value)
  BY <1>2 DEF Drawn
<1>8. QED
  BY <1>6, <1>7

\* The same of the next state.
LEMMA AtBlockTypedNext ==
  IsSource(Source)' /\ (ctx \in Context)'
    /\ AtBlock(Source, ctx.blockIndex, ctx.symbolCounter)'
    => (decoder \in Coder)' /\ (result \in Seq(Value))'
  BY AtBlockTyped, PTL

\* Behind the end mark nothing is read any more.
LEMMA StoppedBit ==
  ASSUME NEW f, NEW b, NEW j, AtBit(f, b, j), stopped,
         decoder' = decoder, node' = node, literal' = literal, ctx' = ctx,
         scan' = scan, visited' = visited, stopped' = stopped, result' = result
  PROVE  Arrives
<1>1. /\ f = Source /\ b = ctx.blockIndex /\ j = ctx.symbolCounter /\ ctx \in Context
      /\ IsSource(f) /\ b \in Nat /\ node \in Node /\ literal \in Seq(Bit)
      /\ ScanInv /\ index - 1 \in Nat /\ (index - 1) + 1 = index /\ index' = index + 1
      /\ image' = image /\ pixels' = pixels /\ AtBlock(f, b, j) /\ stopped \in BOOLEAN
      /\ ctx.state # "ImageHeader"
  BY DEF AtBit
<1>2. Source' = f
  BY <1>1, SourceStays
<1>3. /\ Len(ctx.header) = 6 /\ HeaderIs(f, ctx.header) /\ b <= BlocksOf(f)
      /\ decoder = CoderAt(f, Number(b, j)) /\ Drawn(f, b, j, result)
      /\ ctx.state = "BlockHeader" => AtMethod(f, b, ctx.bitsRead)
      /\ ctx.state # "BlockHeader" => AtSymbol(f, b, j)
  BY <1>1 DEF AtBlock
<1>4. ctx.state = "BlockHeader" /\ AtMethod(f, b, ctx.bitsRead)
  BY <1>3 DEF AtSymbol
<1>5. ScanInv'
  BY <1>1 DEF ScanInv
<1>6. ctx.bitsRead = 3 /\ b = BlocksOf(f) /\ index - 1 >= BaseAt(f, Number(b, 0)) + 3
  BY <1>4 DEF AtMethod
<1>7. index' - 1 >= BaseAt(f, Number(b, 0)) + 3
  <2>1. BlocksOf(f) \in Nat
    BY <1>1, SourceFacts
  <2>2. b \in 0..BlocksOf(f)
    BY <1>1, <1>6, <2>1
  <2>3. BaseAt(f, Number(b, 0)) \in Nat
    BY <1>1, <2>2, HeadingBits
  <2>4. QED
    BY <1>1, <1>6, <2>3
<1>8. AtMethod(Source, ctx.blockIndex, ctx.bitsRead)'
  <2>1. /\ ctx'.symbolCounter = 0 /\ node' = Root /\ literal' = <<>>
        /\ \A i \in 1..3 : ctx'.methodBits[i] = IF i <= 3 THEN Heading(f, b)[i] ELSE 0
        /\ ctx'.isFirstBlock <=> b = 0
        /\ scan'.index = IF b = 0 THEN 0 ELSE BlockSize
        /\ stopped'
    BY <1>4, <1>6 DEF AtMethod
  <2>2. ctx'.blockIndex = b /\ ctx'.bitsRead = 3 /\ ~(3 < 3)
    BY <1>1, <1>6
  <2>3. QED
    BY <1>2, <1>6, <1>7, <2>1, <2>2 DEF AtMethod
<1>9. AtBlock(Source, ctx.blockIndex, ctx.symbolCounter)'
  <2>1. decoder' = CoderAt(Source', Number(b, j)) /\ Drawn(Source', b, j, result')
    BY <1>2, <1>3
  <2>2. Len(ctx'.header) = 6 /\ HeaderIs(Source', ctx'.header) /\ b <= BlocksOf(Source')
    BY <1>2, <1>3
  <2>3. ctx'.state = "BlockHeader" /\ ctx'.blockIndex = b /\ ctx'.symbolCounter = j
    BY <1>1, <1>4
  <2>4. QED
    BY <1>8, <2>1, <2>2, <2>3 DEF AtBlock
<1>10. QED
  BY <1>1, <1>5, <1>9 DEF Arrives

\* Every bit behind the header keeps the invariant.
LEMMA DecodeBitInv == IInv /\ DecodeBit => IInv'
<1> SUFFICES ASSUME IInv, DecodeBit PROVE IInv'
  OBVIOUS
<1> DEFINE f == Source
           b == ctx.blockIndex
           j == ctx.symbolCounter
<1>1. /\ phase = "decode" /\ ctx.state # "ImageHeader" /\ index <= Len(stream)
      /\ index' = index + 1 /\ phase' = phase /\ UNCHANGED <<encoding>>
      /\ image' = image /\ pixels' = pixels
  BY DEF DecodeBit, encoding
<1>2. /\ IsSource(f) /\ ~lost /\ stream = Written(f)
      /\ stream \in Seq(Bit) /\ Len(stream) \in Nat
      /\ index \in Nat /\ index - 1 \in Nat /\ (index - 1) + 1 = index
      /\ index - 1 < Len(stream)
  BY <1>1, ReadingOn
<1>3. AtBlock(f, b, j)
  BY <1>1 DEF IInv, Reading
<1>4. ctx \in Context /\ node \in Node /\ literal \in Seq(Bit) /\ ScanInv /\ stopped \in BOOLEAN
  BY DEF IInv, TypeOK, Bits, Bit
<1>5. b \in Nat /\ j \in Index
  BY <1>4 DEF Context, Index
<1>6. AtBit(f, b, j)
  BY <1>1, <1>2, <1>3, <1>4, <1>5 DEF AtBit
<1>7. Arrives
  <2>1. CASE stopped
    <3>1. /\ decoder' = decoder /\ node' = node /\ literal' = literal /\ ctx' = ctx
          /\ scan' = scan /\ visited' = visited /\ stopped' = stopped /\ result' = result
      BY <2>1 DEF DecodeBit
    <3>2. QED
      BY <1>6, <2>1, <3>1, StoppedBit
  <2>2. CASE ~stopped
    <3>1. ReadMethodBit(stream[index]) \/ ReadSymbolBit(stream[index])
      BY <2>2 DEF DecodeBit
    <3>2. CASE ReadMethodBit(stream[index])
      BY <1>6, <2>2, <3>2, MethodBit
    <3>3. CASE ReadSymbolBit(stream[index])
      <4>1. AtSymbol(f, b, j)
        <5>1. ctx.state # "BlockHeader"
          BY <3>3 DEF ReadSymbolBit
        <5>2. QED
          BY <1>3, <5>1 DEF AtBlock
      <4>2. \/ /\ ctx.state = "Tree" /\ literal = <<>>
               /\ OnPath(f, Number(b, j), node, index - 1)
            \/ ctx.state = "Value" /\ InLiteral(f, Number(b, j), node, index - 1, literal)
        BY <4>1 DEF AtSymbol
      <4> HIDE DEF f, b, j
      <4>3. CASE ctx.state = "Tree" /\ literal = <<>> /\ OnPath(f, Number(b, j), node, index - 1)
        BY <1>6, <3>3, <4>1, <4>3, TreeBit
      <4>4. CASE ctx.state = "Value" /\ InLiteral(f, Number(b, j), node, index - 1, literal)
        BY <1>6, <3>3, <4>1, <4>4, ValueBit
      <4>5. QED
        BY <4>2, <4>3, <4>4
    <3>4. QED
      BY <3>1, <3>2, <3>3
  <2>3. QED
    BY <2>1, <2>2
<1>8. index' \in Nat /\ index' \in 1..(Len(stream) + 1)
  BY <1>1, <1>2
<1>9. /\ Source' = f /\ IsSource(Source)' /\ phase' = "decode"
      /\ Idle' /\ Starting' /\ Between' /\ Scanning' /\ Encoded'
  BY <1>1, <1>2, <1>8, EncoderDone
<1>10. /\ ctx' \in Context /\ ctx'.state # "ImageHeader"
       /\ node' \in Node /\ literal' \in Seq(Bit) /\ stopped' \in BOOLEAN
       /\ ScanInv' /\ AtBlock(Source, ctx.blockIndex, ctx.symbolCounter)'
  BY <1>7 DEF Arrives
<1>11. decoder' \in Coder /\ result' \in Seq(Value)
  BY <1>9, <1>10, AtBlockTypedNext
<1>12. ScanTypeOK'
  BY <1>10, ScanTypedNext
<1>13. TypeOK'
  BY <1>1, <1>8, <1>10, <1>11, <1>12 DEF IInv, TypeOK, encoding, Bits, Bit
<1>14. Reading'
  BY <1>10 DEF Reading
<1>15. QED
  BY <1>9, <1>10, <1>13, <1>14 DEF IInv

-----------------------------------------------------------------------------
(***************************************************************************)
(* The end of the stream, and every step.                                  *)
(***************************************************************************)
\* The decoder's return keeps the invariant.
LEMMA ReturnInv == IInv /\ Return => IInv'
<1> SUFFICES ASSUME IInv, Return PROVE IInv'
  OBVIOUS
<1>1. /\ phase = "decode" /\ index > Len(stream) /\ phase' = "done"
      /\ image' = image /\ pixels' = pixels /\ block' = block /\ symbols' = symbols
      /\ coder' = coder /\ stream' = stream /\ lost' = lost /\ index' = index
      /\ decoder' = decoder /\ node' = node /\ literal' = literal /\ ctx' = ctx
      /\ stopped' = stopped /\ result' = result /\ scan' = scan /\ visited' = visited
  BY DEF Return, encoding, decoding
<1>2. Source' = Source
  BY <1>1, SourceStays
<1>3. ScanInv' /\ ScanTypeOK' /\ IsSource(Source)'
  <2>1. ScanInv'
    BY <1>1 DEF IInv, ScanInv
  <2>2. QED
    BY <1>2, <2>1, ScanTypedNext DEF IInv
<1>4. TypeOK'
  BY <1>1, <1>3 DEF IInv, TypeOK
<1>5. Idle' /\ Starting' /\ Between' /\ Scanning'
  BY <1>1 DEF Idle, Starting, Between, Scanning
<1>6. Encoded'
  BY <1>1, <1>2 DEF IInv, Encoded
<1>7. Reading'
  <2>1. AtHeader(Source)' <=> AtHeader(Source)
    BY <1>1, <1>2 DEF AtHeader, Fresh
  <2>2. AtMethod(Source, ctx.blockIndex, ctx.bitsRead)'
          <=> AtMethod(Source, ctx.blockIndex, ctx.bitsRead)
    BY <1>1, <1>2 DEF AtMethod
  <2>3. AtSymbol(Source, ctx.blockIndex, ctx.symbolCounter)'
          <=> AtSymbol(Source, ctx.blockIndex, ctx.symbolCounter)
    BY <1>1, <1>2 DEF AtSymbol
  <2>4. AtBlock(Source, ctx.blockIndex, ctx.symbolCounter)'
          <=> AtBlock(Source, ctx.blockIndex, ctx.symbolCounter)
    BY <1>1, <1>2, <2>2, <2>3 DEF AtBlock
  <2>5. QED
    BY <1>1, <2>1, <2>4 DEF IInv, Reading
<1>8. QED
  BY <1>3, <1>4, <1>5, <1>6, <1>7 DEF IInv

\* Losing the end of the file keeps the invariant, and happens once.
LEMMA LoseEndInv == IInv /\ LoseEnd => IInv' /\ ~lost
<1> SUFFICES ASSUME IInv, LoseEnd PROVE IInv' /\ ~lost
  OBVIOUS
<1>1. /\ phase = "decode" /\ index <= Len(stream) /\ phase' = phase
      /\ stream' = SubSeq(stream, 1, index - 1) /\ lost' = TRUE
      /\ image' = image /\ pixels' = pixels /\ block' = block /\ symbols' = symbols
      /\ coder' = coder /\ index' = index
      /\ decoder' = decoder /\ node' = node /\ literal' = literal /\ ctx' = ctx
      /\ stopped' = stopped /\ result' = result /\ scan' = scan /\ visited' = visited
  BY DEF LoseEnd, decoding
<1>2. /\ IsSource(Source) /\ ~lost /\ stream = Written(Source)
      /\ stream \in Seq(Bit) /\ Len(stream) \in Nat
      /\ index \in Nat /\ index - 1 \in Nat /\ (index - 1) + 1 = index
      /\ index - 1 < Len(stream)
  BY <1>1, ReadingOn
<1>3. Source' = Source
  BY <1>1, SourceStays
<1> DEFINE n == index - 1
<1>4. n \in 0..Len(stream)
  BY <1>2
<1>5. /\ stream' \in Seq(Bit) /\ Len(stream') = n
      /\ \A i \in 1..n : stream'[i] = stream[i]
  BY <1>1, <1>2, <1>4
<1>6. Begins(stream', Written(Source'))
  <2>1. Len(stream') <= Len(stream) /\ \A i \in 1..Len(stream') : stream'[i] = stream[i]
    BY <1>2, <1>4, <1>5
  <2>2. QED
    BY <1>2, <1>3, <2>1 DEF Begins
<1>7. ScanInv' /\ ScanTypeOK' /\ IsSource(Source)'
  <2>1. ScanInv'
    BY <1>1 DEF IInv, ScanInv
  <2>2. QED
    BY <1>2, <1>3, <2>1, ScanTypedNext
<1>8. TypeOK'
  <2>1. stream' \in Bits /\ lost' \in BOOLEAN
    BY <1>1, <1>5 DEF Bits, Bit
  <2>2. QED
    BY <1>1, <1>7, <2>1 DEF IInv, TypeOK
<1>9. Idle' /\ Starting' /\ Between' /\ Scanning'
  BY <1>1 DEF Idle, Starting, Between, Scanning
<1>10. Encoded'
  <2>1. index' \in 1..(Len(stream') + 1) /\ index' > Len(stream')
    BY <1>1, <1>2, <1>5
  <2>2. /\ block = BlocksOf(Source) /\ symbols = <<>>
        /\ coder = CoderAt(Source, Count(Source))
    BY <1>1 DEF IInv, Encoded
  <2>3. QED
    BY <1>1, <1>3, <1>6, <2>1, <2>2 DEF Encoded
<1>11. Reading'
  <2>1. AtHeader(Source)' <=> AtHeader(Source)
    BY <1>1, <1>3 DEF AtHeader, Fresh
  <2>2. AtMethod(Source, ctx.blockIndex, ctx.bitsRead)'
          <=> AtMethod(Source, ctx.blockIndex, ctx.bitsRead)
    BY <1>1, <1>3 DEF AtMethod
  <2>3. AtSymbol(Source, ctx.blockIndex, ctx.symbolCounter)'
          <=> AtSymbol(Source, ctx.blockIndex, ctx.symbolCounter)
    BY <1>1, <1>3 DEF AtSymbol
  <2>4. AtBlock(Source, ctx.blockIndex, ctx.symbolCounter)'
          <=> AtBlock(Source, ctx.blockIndex, ctx.symbolCounter)
    BY <1>1, <1>3, <2>2, <2>3 DEF AtBlock
  <2>5. QED
    BY <1>1, <2>1, <2>4 DEF IInv, Reading
<1>12. QED
  BY <1>2, <1>7, <1>8, <1>9, <1>10, <1>11 DEF IInv

\* So does doing nothing.
LEMMA StutterInv == IInv /\ UNCHANGED vars => IInv'
<1> SUFFICES ASSUME IInv, UNCHANGED vars PROVE IInv'
  OBVIOUS
<1>1. /\ phase' = phase
      /\ image' = image /\ pixels' = pixels /\ block' = block /\ symbols' = symbols
      /\ coder' = coder /\ stream' = stream /\ lost' = lost /\ index' = index
      /\ decoder' = decoder /\ node' = node /\ literal' = literal /\ ctx' = ctx
      /\ stopped' = stopped /\ result' = result /\ scan' = scan /\ visited' = visited
  BY DEF vars
<1>2. Source' = Source
  BY <1>1, SourceStays
<1>3. ScanInv' /\ ScanTypeOK' /\ IsSource(Source)'
  <2>1. ScanInv'
    BY <1>1 DEF IInv, ScanInv
  <2>2. QED
    BY <1>2, <2>1, ScanTypedNext DEF IInv
<1>4. TypeOK'
  BY <1>1, <1>3 DEF IInv, TypeOK
<1>5. Idle' /\ Starting' /\ Between'
  BY <1>1, <1>2 DEF IInv, Idle, Fresh, Starting, Between
<1>6. Scanning' /\ Encoded'
  BY <1>1, <1>2 DEF IInv, Scanning, InScan, Encoded
<1>7. Reading'
  <2>1. AtHeader(Source)' <=> AtHeader(Source)
    BY <1>1, <1>2 DEF AtHeader, Fresh
  <2>2. AtMethod(Source, ctx.blockIndex, ctx.bitsRead)'
          <=> AtMethod(Source, ctx.blockIndex, ctx.bitsRead)
    BY <1>1, <1>2 DEF AtMethod
  <2>3. AtSymbol(Source, ctx.blockIndex, ctx.symbolCounter)'
          <=> AtSymbol(Source, ctx.blockIndex, ctx.symbolCounter)
    BY <1>1, <1>2 DEF AtSymbol
  <2>4. AtBlock(Source, ctx.blockIndex, ctx.symbolCounter)'
          <=> AtBlock(Source, ctx.blockIndex, ctx.symbolCounter)
    BY <1>1, <1>2, <2>2, <2>3 DEF AtBlock
  <2>5. QED
    BY <1>1, <2>1, <2>4 DEF IInv, Reading
<1>8. QED
  BY <1>3, <1>4, <1>5, <1>6, <1>7 DEF IInv

\* Every step keeps the invariant.
LEMMA NextInv == IInv /\ [Next]_vars => IInv'
<1> SUFFICES ASSUME IInv, [Next]_vars PROVE IInv'
  OBVIOUS
<1>1. CASE WriteHeader
  BY <1>1, WriteHeaderInv
<1>2. CASE BeginBlock
  BY <1>2, BeginBlockInv
<1>3. CASE EncodeSymbol
  BY <1>3, EncodeSymbolInv
<1>4. CASE EndBlock
  BY <1>4, EndBlockInv
<1>5. CASE EndImage
  BY <1>5, EndImageInv
<1>6. CASE ReadHeaderByte
  BY <1>6, ReadHeaderByteInv
<1>7. CASE DecodeBit
  BY <1>7, DecodeBitInv
<1>8. CASE Return
  BY <1>8, ReturnInv
<1>9. CASE LoseEnd
  BY <1>9, LoseEndInv
<1>10. CASE UNCHANGED vars
  BY <1>10, StutterInv
<1>11. QED
  BY <1>1, <1>2, <1>3, <1>4, <1>5, <1>6, <1>7, <1>8, <1>9, <1>10 DEF Next, Step, Done

\* The decoder stops at the end mark and nowhere else.
LEMMA StoppedIsDone ==
  ASSUME IInv, stopped
  PROVE  /\ phase \in {"decode", "done"} /\ IsSource(Source)
         /\ ctx.state = "BlockHeader" /\ ctx.symbolCounter = 0
         /\ ctx.blockIndex = BlocksOf(Source) /\ block = BlocksOf(Source)
         /\ Drawn(Source, BlocksOf(Source), 0, result)
         /\ Len(stream) - index < CellBits - 1
<1>1. phase \in {"decode", "done"}
  BY DEF IInv, TypeOK, Idle, Fresh
<1>2. ctx.state # "ImageHeader"
  BY <1>1 DEF IInv, Reading, AtHeader, Fresh
<1>3. AtBlock(Source, ctx.blockIndex, ctx.symbolCounter)
  BY <1>1, <1>2 DEF IInv, Reading
<1>4. ctx.state = "BlockHeader"
  BY <1>3 DEF AtBlock, AtSymbol
<1>5. AtMethod(Source, ctx.blockIndex, ctx.bitsRead)
  BY <1>3, <1>4 DEF AtBlock
<1> DEFINE n == BlocksOf(Source)
           base == BaseAt(Source, Number(n, 0))
<1>6. /\ ctx.symbolCounter = 0 /\ ctx.blockIndex = n
      /\ index - 1 >= BaseAt(Source, Number(n, 0)) + 3
  BY <1>5 DEF AtMethod
<1>7. Drawn(Source, n, 0, result)
  BY <1>3, <1>6 DEF AtBlock
<1>8. IsSource(Source) /\ block = n /\ Begins(stream, Written(Source))
  BY <1>1 DEF IInv, Encoded
<1>9. base \in Nat /\ Len(Written(Source)) < base + 3 + CellBits
  <2>1. n \in Nat /\ n \in 0..n
    BY <1>8, SourceFacts
  <2>2. QED
    BY <1>8, <2>1, HeadingBits
<1>10. Len(stream) - index < CellBits - 1
  <2>1. /\ Len(stream) \in Nat /\ index \in Nat /\ Len(stream) <= Len(Written(Source))
        /\ Len(Written(Source)) \in Nat /\ CellBits \in Nat
    BY <1>8, StreamGrows, CellFacts DEF IInv, TypeOK, Bits, Begins
  <2>2. index - 1 >= base + 3
    BY <1>6
  <2> HIDE DEF base
  <2>3. QED
    BY <1>9, <2>1, <2>2
<1>11. QED
  BY <1>1, <1>4, <1>6, <1>7, <1>8, <1>10

\* Every other part of a complete stream is followed by another one.
LEMMA EndReached ==
  ASSUME IInv, phase \in {"decode", "done"}, ~lost, index > Len(stream)
  PROVE  stopped
<1> SUFFICES ASSUME ~stopped PROVE FALSE
  OBVIOUS
<1> DEFINE f == Source
           b == ctx.blockIndex
           j == ctx.symbolCounter
           k == Number(b, j)
           W == Written(f)
           at == index - 1
<1>1. /\ IsSource(f) /\ stream = W /\ index \in 1..(Len(stream) + 1)
      /\ ctx.state = "ImageHeader" => AtHeader(f)
      /\ ctx.state # "ImageHeader" => AtBlock(f, b, j)
  BY DEF IInv, Encoded, Reading
<1>2. W \in Seq(Bit) /\ Len(W) \in Nat
  BY <1>1, StreamGrows
<1>3. ctx \in Context /\ b \in Nat /\ j \in Index /\ ctx.bitsRead \in 0..3
  BY DEF IInv, TypeOK, Context, Index
<1> HIDE DEF f, W
<1>4. at \in Nat /\ at = Len(W)
  BY <1>1, <1>2
<1>5. ASSUME ctx.state = "ImageHeader" PROVE FALSE
  <2> DEFINE n == Len(ctx.header)
  <2>1. n \in 0..5 /\ at = n * CellBits
    BY <1>1, <1>5 DEF AtHeader
  <2>2. CellBits \in Nat /\ CellBits > 0
    BY CellFacts
  <2>3. 0 \in 0..Count(f) /\ BaseAt(f, 0) = 6 * CellBits
    <3>1. Count(f) \in Nat
      BY <1>1, NumberFacts
    <3>2. QED
      BY <1>1, <3>1, EncodingStarts
  <2>4. 6 * CellBits <= Len(W)
    <3>1. Begins(StreamAt(f, 0), W)
      BY <1>1, <2>3, StreamGrows DEF W
    <3>2. QED
      BY <2>3, <3>1 DEF Begins, BaseAt
  <2> HIDE DEF n, at
  <2>5. n * CellBits < 6 * CellBits
    <3>1. n = 0 \/ n = 1 \/ n = 2 \/ n = 3 \/ n = 4 \/ n = 5
      BY <2>1
    <3>2. QED
      BY <2>2, <3>1
  <2>6. QED
    BY <1>2, <1>4, <2>1, <2>2, <2>4, <2>5
<1>6. ASSUME ctx.state = "BlockHeader" PROVE FALSE
  <2>1. AtMethod(f, b, ctx.bitsRead) /\ b <= BlocksOf(f)
    BY <1>1, <1>6 DEF AtBlock
  <2>2. ctx.bitsRead \in 0..2 /\ at = BaseAt(f, Number(b, 0)) + ctx.bitsRead
    <3>1. ctx.bitsRead # 3
      BY <2>1 DEF AtMethod
    <3>2. ctx.bitsRead < 3 /\ ctx.bitsRead \in 0..2
      BY <1>3, <3>1
    <3>3. QED
      BY <2>1, <3>2 DEF AtMethod
  <2>3. BaseAt(f, Number(b, 0)) \in Nat /\ BaseAt(f, Number(b, 0)) + 3 <= Len(W)
    <3>1. b \in 0..BlocksOf(f)
      BY <1>1, <1>3, <2>1, SourceFacts
    <3>2. QED
      BY <1>1, <3>1, HeadingBits DEF W
  <2> HIDE DEF at
  <2>4. QED
    BY <1>2, <1>4, <2>2, <2>3
<1>7. ASSUME ctx.state \notin {"ImageHeader", "BlockHeader"} PROVE FALSE
  <2>1. AtSymbol(f, b, j)
    BY <1>1, <1>7 DEF AtBlock
  <2>2. /\ b < BlocksOf(f)
        /\ OnPath(f, k, node, at) \/ InLiteral(f, k, node, at, literal)
    BY <2>1 DEF AtSymbol
  <2>3. k \in Nat /\ k < Count(f)
    BY <1>1, <1>3, <2>2, NumberSplit, NumberFacts
  <2> HIDE DEF k, at
  <2>4. /\ Sound(CoderAt(f, k)) /\ EndAt(f, k) \in Nat
        /\ BaseAt(f, k + 1) \in Nat /\ BaseAt(f, k + 1) <= Len(W) /\ EndAt(f, k) <= Len(W)
        /\ GoalAt(f, k) = CoderAt(f, k).nyt => BaseAt(f, k + 1) = EndAt(f, k) + LiteralBits
    BY <1>1, <2>3, SymbolBits DEF W
  <2>5. CASE OnPath(f, k, node, at)
    <3>1. OnWay(CoderAt(f, k), GoalAt(f, k), W, EndAt(f, k), node, at)
      BY <2>5 DEF OnPath, W
    <3>2. at < EndAt(f, k)
      BY <1>4, <2>4, <3>1, BitOnWay
    <3>3. QED
      BY <1>2, <1>4, <2>4, <3>2
  <2>6. CASE InLiteral(f, k, node, at, literal)
    <3>1. /\ GoalAt(f, k) = CoderAt(f, k).nyt
          /\ Len(literal) < LiteralBits /\ at = EndAt(f, k) + Len(literal)
      BY <2>6 DEF InLiteral
    <3>2. Len(literal) \in Nat /\ LiteralBits \in Nat
      BY ImageAssumption DEF IInv, TypeOK, Bits
    <3>3. QED
      BY <1>2, <1>4, <2>4, <3>1, <3>2
  <2>7. QED
    BY <2>2, <2>5, <2>6
<1>8. QED
  BY <1>5, <1>6, <1>7

-----------------------------------------------------------------------------
(***************************************************************************)
(* What has been drawn.                                                    *)
(***************************************************************************)
\* A pixel that is drawn is right, any other is zero.
LEMMA DrawnPixels ==
  ASSUME NEW f, NEW b, NEW j, NEW drawn, IsSource(f), Drawn(f, b, j, drawn),
         NEW a \in 1..(f.width * RowsKept(f.height))
  PROVE  drawn[a] \in {f.pixels[a], 0}
<1>1. f.width \in Nat /\ f.width > 0 /\ RowsKept(f.height) \in Nat
  BY SourceFacts, RowsFacts
<1>2. PICK x \in 0..(f.width - 1), y \in 0..(RowsKept(f.height) - 1) :
        Address(At(x, y), f.width) = a
  BY <1>1, AddressedPixel
<1>3. drawn[a] = IF Covered(f, b, j, At(x, y)) THEN f.pixels[a] ELSE 0
  BY <1>2 DEF Drawn
<1>4. QED
  BY <1>3

\* After the last block all pixels are.
LEMMA AllDrawn ==
  ASSUME NEW f, NEW drawn, IsSource(f), Drawn(f, BlocksOf(f), 0, drawn),
         NEW a \in 1..(f.width * RowsKept(f.height))
  PROVE  drawn[a] = f.pixels[a]
<1>1. /\ f.width \in Nat /\ f.width > 0 /\ RowsKept(f.height) \in Nat
      /\ RowsKept(f.height) <= f.height /\ f.height \in Nat
  BY SourceFacts, RowsFacts
<1>2. PICK x \in 0..(f.width - 1), y \in 0..(RowsKept(f.height) - 1) :
        Address(At(x, y), f.width) = a
  BY <1>1, AddressedPixel
<1>3. At(x, y).x = x /\ At(x, y).y = y
  BY DEF At
<1>4. y \in 0..(f.height - 1)
  <2> DEFINE R == RowsKept(f.height)
             h == f.height
  <2>1. R \in Nat /\ R <= h /\ h \in Nat /\ y \in 0..(R - 1)
    BY <1>1
  <2> HIDE DEF R, h
  <2>2. y \in 0..(h - 1)
    BY <2>1
  <2>3. QED
    BY <2>2 DEF h
<1>5. \E b \in 0..(BlocksOf(f) - 1) :
         /\ x - Start(f, b).x \in 0..(BlockWidth - 1)
         /\ y - Start(f, b).y \in 0..(BlockHeight - 1)
  BY <1>4, EveryPixelInBlock
<1>6. Covered(f, BlocksOf(f), 0, At(x, y))
  BY <1>3, <1>5 DEF Covered, InBlockOf
<1>7. QED
  BY <1>2, <1>6 DEF Drawn

\* The rows that the header has room for.
LEMMA WholeRowsFacts ==
  ASSUME IsSource(Source)
  PROVE  LET n == Source.width * RowsKept(Source.height)
         IN /\ n \in Nat /\ WholeRows \in Seq(Value) /\ Len(WholeRows) = n
            /\ \A a \in 1..n : WholeRows[a] = Source.pixels[a]
<1> DEFINE w == Source.width
           h == Source.height
           R == RowsKept(h)
           n == w * R
           s == Source.pixels
<1>1. /\ w \in Nat /\ h \in Nat /\ w * h \in Nat /\ s \in Seq(Value) /\ Len(s) = w * h
      /\ R \in Nat /\ R <= h /\ n \in Nat
  BY SourceFacts, RowsFacts
<1>2. WholeRows = SubSeq(s, 1, n)
  BY SourceIs DEF WholeRows
<1> HIDE DEF w, h, R, s
<1>3. n <= Len(s)
  BY <1>1
<1> HIDE DEF n
<1>4. /\ SubSeq(s, 1, n) \in Seq(Value) /\ Len(SubSeq(s, 1, n)) = n
      /\ \A a \in 1..n : SubSeq(s, 1, n)[a] = s[a]
  BY <1>1, <1>3
<1>5. QED
  BY <1>1, <1>2, <1>4 DEF n, w, h, R, s

\* The decoder returns the image, and of a file cut short a part of it.
LEMMA Returned ==
  ASSUME IInv, phase \in {"decode", "done"}, index > Len(stream)
  PROVE  /\ WholeRows \in Seq(Value)
         /\ ~lost => result = WholeRows
         /\ PartlyDrawn(result, WholeRows)
<1> DEFINE f == Source
           n == f.width * RowsKept(f.height)
<1>1. IsSource(f)
  BY DEF IInv
<1>2. /\ n \in Nat /\ WholeRows \in Seq(Value) /\ Len(WholeRows) = n
      /\ \A a \in 1..n : WholeRows[a] = f.pixels[a]
  BY <1>1, WholeRowsFacts
<1>3. ASSUME ~lost PROVE result = WholeRows
  <2>1. Drawn(f, BlocksOf(f), 0, result)
    BY <1>3, EndReached, StoppedIsDone
  <2>2. result \in Seq(Value) /\ Len(result) = n
    BY <2>1 DEF Drawn
  <2>3. \A a \in 1..n : result[a] = f.pixels[a]
    BY <1>1, <2>1, AllDrawn
  <2> HIDE DEF f, n
  <2>4. \A a \in 1..n : result[a] = WholeRows[a]
    BY <1>2, <2>3
  <2>5. QED
    BY <1>2, <2>2, <2>4
<1>4. PartlyDrawn(result, WholeRows)
  <2>1. CASE ctx.state = "ImageHeader"
    <3>1. result = <<>>
      BY <2>1 DEF IInv, Reading, AtHeader, Fresh
    <3>2. QED
      BY <3>1 DEF PartlyDrawn
  <2>2. CASE ctx.state # "ImageHeader"
    <3>1. Drawn(f, ctx.blockIndex, ctx.symbolCounter, result)
      BY <2>2 DEF IInv, Reading, AtBlock
    <3>2. result \in Seq(Value) /\ Len(result) = n
      BY <3>1 DEF Drawn
    <3>3. \A a \in 1..n : result[a] \in {f.pixels[a], 0}
      BY <1>1, <3>1, DrawnPixels
    <3> HIDE DEF f, n
    <3>4. DOMAIN result = 1..n /\ DOMAIN WholeRows = 1..n
      BY <1>2, <3>2
    <3>5. \A a \in 1..n : result[a] \in {WholeRows[a], 0}
      BY <1>2, <3>3
    <3>6. QED
      BY <3>4, <3>5 DEF PartlyDrawn
  <2>3. QED
    BY <2>1, <2>2
<1>5. QED
  BY <1>2, <1>3, <1>4

\* Between two blocks nothing is drawn but the blocks before.
LEMMA BetweenBlocks ==
  ASSUME IInv, phase = "decode", ctx.state = "BlockHeader"
  PROVE  BlocksRestored
<1> DEFINE f == Source
           b == ctx.blockIndex
<1>1. AtBlock(f, b, ctx.symbolCounter) /\ IsSource(f)
  BY DEF IInv, Reading
<1>2. /\ Len(ctx.header) = 6 /\ HeaderIs(f, ctx.header)
      /\ AtMethod(f, b, ctx.bitsRead) /\ Drawn(f, b, ctx.symbolCounter, result)
  BY <1>1 DEF AtBlock
<1>3. Drawn(f, b, 0, result)
  BY <1>2 DEF AtMethod
<1>4. FieldWidth = f.width /\ FieldHeight = RowsKept(f.height)
  BY <1>1, <1>2, HeaderFields DEF FieldWidth, FieldHeight
<1>5. f.pixels = pixels /\ \A a : Start(f, a) = StartPosForBlock(a, f.width)
  BY SourceIs DEF Start
<1>6. ASSUME NEW p PROVE Covered(f, b, 0, p) <=> InFirstBlocks(p, b)
  <2>1. 0..(0 - 1) = {}
    OBVIOUS
  <2>2. \A a : InBlockOf(f, a, p)
          <=> /\ p.x - StartPosForBlock(a, FieldWidth).x \in 0..(BlockWidth - 1)
              /\ p.y - StartPosForBlock(a, FieldWidth).y \in 0..(BlockHeight - 1)
    BY <1>4, <1>5 DEF InBlockOf
  <2>3. QED
    BY <2>1, <2>2 DEF Covered, InFirstBlocks
<1> HIDE DEF f, b
<1>7. ASSUME NEW x \in 0..(FieldWidth - 1), NEW y \in 0..(FieldHeight - 1)
      PROVE  result[Address(At(x, y), FieldWidth)]
               = IF InFirstBlocks(At(x, y), b) THEN pixels[Address(At(x, y), FieldWidth)]
                 ELSE 0
  <2>1. x \in 0..(f.width - 1) /\ y \in 0..(RowsKept(f.height) - 1)
    BY <1>4
  <2>2. result[Address(At(x, y), f.width)]
          = IF Covered(f, b, 0, At(x, y)) THEN f.pixels[Address(At(x, y), f.width)] ELSE 0
    BY <1>3, <2>1 DEF Drawn
  <2>3. QED
    BY <1>4, <1>5, <1>6, <2>2
<1>8. QED
  BY <1>7 DEF BlocksRestored, b

-----------------------------------------------------------------------------
(***************************************************************************)
(* The theorems.                                                           *)
(***************************************************************************)
\* The invariant holds of encodeImageAdaptiveBlocks and decodeImageAdaptiveBlocks
\* for every width of the values, of the literals and of the cells, for square
\* blocks of every power of two, with and without the model and for every image
\* whose width fits the header.
THEOREM SpecInvariant == Spec => []IInv
<1>1. Init => IInv
  BY InitInv
<1>2. IInv /\ [Next]_vars => IInv'
  BY NextInv
<1>3. QED
  BY <1>1, <1>2, PTL DEF Spec

\* Every variable keeps its type: no pixel is drawn outside of the image, no count of
\* symbols leaves its block, and every node the decoder walks to is a node.
THEOREM TypeCorrect == Spec => []TypeOK
<1>1. IInv => TypeOK
  BY DEF IInv
<1>2. QED
  BY <1>1, SpecInvariant, PTL

\* Whenever decodeImageAdaptiveBlocks is between two blocks it has drawn all pixels of
\* the blocks it has read and none of another, for every scan method the encoder may
\* have found best.
THEOREM BlocksAreRestored == Spec => []BlocksRestored
<1>1. IInv => BlocksRestored
  <2> SUFFICES ASSUME IInv PROVE BlocksRestored
    OBVIOUS
  <2>1. CASE phase = "decode" /\ ctx.state = "BlockHeader"
    BY <2>1, BetweenBlocks
  <2>2. CASE ~(phase = "decode" /\ ctx.state = "BlockHeader")
    BY <2>2 DEF BlocksRestored
  <2>3. QED
    BY <2>1, <2>2
<1>2. QED
  BY <1>1, SpecInvariant, PTL

\* Nothing of a block is left for the next one: DecodeContext is reset completely.
THEOREM NothingIsLeft == Spec => []CleanBetweenBlocks
<1>1. IInv => CleanBetweenBlocks
  <2> SUFFICES ASSUME IInv, ctx.state = "BlockHeader", ctx.bitsRead = 0
               PROVE  /\ node = Root /\ literal = <<>>
                      /\ ctx.symbolCounter = 0 /\ ctx.methodBits = NoBits
                      /\ ctx.blockIndex > 0 => scan.index = BlockSize
    BY DEF CleanBetweenBlocks
  <2>1. phase \in {"decode", "done"}
    <3>1. CASE phase \in {"start", "block", "scan"}
      <4>1. ctx = [NewContext EXCEPT !.header = ctx.header]
        BY <3>1 DEF IInv, Idle, Fresh
      <4>2. ctx.state = "ImageHeader"
        BY <4>1 DEF NewContext
      <4>3. QED
        BY <4>2
    <3>2. QED
      BY <3>1 DEF IInv, TypeOK
  <2>2. AtMethod(Source, ctx.blockIndex, 0)
    BY <2>1 DEF IInv, Reading, AtBlock
  <2>3. ctx.methodBits \in [1..3 -> {0, 1}] /\ ctx.blockIndex \in Nat
    BY DEF IInv, TypeOK, Context
  <2>4. ctx.methodBits = NoBits
    <3>1. \A i \in 1..3 : ctx.methodBits[i] = 0
      BY <2>2 DEF AtMethod
    <3>2. QED
      BY <2>3, <3>1 DEF NoBits
  <2>5. ctx.blockIndex > 0 => scan.index = BlockSize
    BY <2>2, <2>3 DEF AtMethod
  <2>6. QED
    BY <2>2, <2>4, <2>5 DEF AtMethod
<1>2. QED
  BY <1>1, SpecInvariant, PTL

\* decodeImageAdaptiveBlocks recognises the end mark, there and nowhere else, and all
\* that is behind it fills a cell.
THEOREM EndMarkStops == Spec => []StopsAtEndMark
<1>1. IInv => StopsAtEndMark
  <2> SUFFICES ASSUME IInv PROVE StopsAtEndMark
    OBVIOUS
  <2>1. phase = "done" /\ ~lost => stopped
    <3>1. phase = "done" => index > Len(stream)
      BY DEF IInv, Encoded
    <3>2. QED
      BY <3>1, EndReached
  <2>2. stopped => ctx.blockIndex = block /\ Len(stream) - index < CellBits - 1
    BY StoppedIsDone
  <2>3. QED
    BY <2>1, <2>2 DEF StopsAtEndMark
<1>2. QED
  BY <1>1, SpecInvariant, PTL

\* The step of a bit of a method moves the decoder's scan as BlockScan does.
LEMMA MethodBitScans ==
  ASSUME IInv, IInv', phase = "decode", NEW bit, ReadMethodBit(bit)
  PROVE  ScanNext \/ UNCHANGED scanVars
<1> DEFINE read == ctx.bitsRead + 1
           bits == IF bit = 1 THEN [ctx.methodBits EXCEPT ![read] = 1] ELSE ctx.methodBits
           method == 4 * bits[1] + 2 * bits[2] + bits[3]
           M == ScanMethods[method + 1]
<1>1. CASE read = 3 /\ method # 7
  <2>1. Restart(M) /\ ctx.state = "BlockHeader"
    BY <1>1 DEF ReadMethodBit
  <2> HIDE DEF M
  <2>2. AtMethod(Source, ctx.blockIndex, ctx.bitsRead)
    BY <2>1 DEF IInv, Reading, AtBlock
  <2>3. scan.index \in {0, BlockSize}
    BY <2>2 DEF AtMethod
  <2>4. M \in ScanMethod
    <3>1. scan'.scanMethod = M
      BY <2>1 DEF Restart, ResetScan
    <3>2. scan'.scanMethod \in ScanMethod
      BY DEF IInv, TypeOK, ScanTypeOK
    <3>3. QED
      BY <3>1, <3>2
  <2>5. Reset
    BY <2>1, <2>3, <2>4 DEF Reset
  <2>6. QED
    BY <2>5 DEF ScanNext
<1>2. CASE ~(read = 3 /\ method # 7)
  <2>1. UNCHANGED <<scan, visited>>
    BY <1>2 DEF ReadMethodBit
  <2>2. QED
    BY <2>1 DEF scanVars
<1>3. QED
  BY <1>1, <1>2

\* So does that of a bit of a symbol, the last one of a block included.
LEMMA SymbolBitScans ==
  ASSUME IInv, phase = "decode", NEW bit, ReadSymbolBit(bit)
  PROVE  ScanNext \/ UNCHANGED scanVars
<1>1. ctx.state \in {"Tree", "Value"}
  BY DEF ReadSymbolBit
<1>2. AtSymbol(Source, ctx.blockIndex, ctx.symbolCounter)
  BY <1>1 DEF IInv, Reading, AtBlock
<1>3. scan.index < BlockSize
  <2>1. scan.index = ctx.symbolCounter
    BY <1>2 DEF AtSymbol
  <2>2. ctx.symbolCounter \in 0..(BlockSize - 1)
    BY DEF IInv, TypeOK, Context
  <2>3. BlockSize \in Nat
    BY SideFacts
  <2>4. QED
    BY <2>1, <2>2, <2>3
<1>4. Advance \/ (scan' = scan /\ visited' = visited)
  <2> DEFINE n == Walk(bit)
  <2>1. DecodeLeaf(n) \/ DecodeNYT(n, bit) \/ DecodeTurn(n)
    BY DEF ReadSymbolBit
  <2> HIDE DEF n
  <2>2. CASE DecodeLeaf(n)
    BY <2>2 DEF DecodeLeaf, TakeSymbol
  <2>3. CASE DecodeNYT(n, bit)
    BY <2>3 DEF DecodeNYT, TakeSymbol
  <2>4. CASE DecodeTurn(n)
    BY <2>4 DEF DecodeTurn
  <2>5. QED
    BY <2>1, <2>2, <2>3, <2>4
<1>5. QED
  BY <1>3, <1>4 DEF ScanNext, Move, scanVars

\* The decoder composes BlockScan: it resets its scan only when the scan has not begun
\* or is at the end of a block, with a method that exists, and moves it only within a
\* block, so that all that is proved of the scan holds of the decoder's.
THEOREM ScanIsBlockScan == Spec => ScansBlocks
<1>1. Init => ScanInit
  BY DEF Init
<1>2. IInv /\ IInv' /\ [Next]_vars => [ScanNext]_scanVars
  <2> SUFFICES ASSUME IInv, IInv', [Next]_vars PROVE ScanNext \/ UNCHANGED scanVars
    OBVIOUS
  <2>1. CASE DecodeBit
    <3>1. phase = "decode"
      BY <2>1 DEF DecodeBit
    <3>2. \/ scan' = scan /\ visited' = visited
          \/ ReadMethodBit(stream[index])
          \/ ReadSymbolBit(stream[index])
      BY <2>1 DEF DecodeBit
    <3>3. CASE scan' = scan /\ visited' = visited
      BY <3>3 DEF scanVars
    <3>4. CASE ReadMethodBit(stream[index])
      BY <3>1, <3>4, MethodBitScans
    <3>5. CASE ReadSymbolBit(stream[index])
      BY <3>1, <3>5, SymbolBitScans
    <3>6. QED
      BY <3>2, <3>3, <3>4, <3>5
  <2>2. CASE \/ WriteHeader \/ BeginBlock \/ EncodeSymbol \/ EndBlock \/ EndImage
             \/ ReadHeaderByte \/ Return \/ LoseEnd \/ UNCHANGED vars
    <3>1. scan' = scan /\ visited' = visited
      BY <2>2 DEF WriteHeader, BeginBlock, EncodeSymbol, EndBlock, EndImage,
                  ReadHeaderByte, Return, LoseEnd, vars, decoding
    <3>2. QED
      BY <3>1 DEF scanVars
  <2>3. QED
    BY <2>1, <2>2 DEF Next, Step, Done
<1>3. QED
  BY <1>1, <1>2, SpecInvariant, PTL DEF Spec, ScansBlocks, ScanSpec

\* The block codec is lossless: every step is one of LosslessCodec or none, so that
\* what decodeImageAdaptiveBlocks returns is the image in whole rows, as many of them
\* as the header has room for, and of a file that was cut short an image of that size
\* whose pixels are right or zero.
THEOREM Lossless == Spec => Codec!Init /\ [][Codec!Next]_(Codec!vars)
<1>1. Init => Codec!Init
  <2> SUFFICES ASSUME Init PROVE Codec!Init
    OBVIOUS
  <2>1. IsSource(Source)
    BY InitInv DEF IInv
  <2>2. WholeRows \in Seq(Value)
    BY <2>1, WholeRowsFacts
  <2>3. phase = "start" /\ lost = FALSE
    BY DEF Init
  <2>4. QED
    BY <2>2, <2>3 DEF Codec!Init
<1>2. IInv /\ [Next]_vars => [Codec!Next]_(Codec!vars)
  <2> SUFFICES ASSUME IInv, [Next]_vars PROVE [Codec!Next]_(Codec!vars)
    OBVIOUS
  <2>1. CASE Return
    <3>1. /\ phase = "decode" /\ phase' = "done" /\ index > Len(stream)
          /\ image' = image /\ pixels' = pixels /\ lost' = lost /\ result' = result
      BY <2>1 DEF Return, encoding, decoding
    <3>2. WholeRows' = WholeRows
      BY <3>1 DEF WholeRows, ImageHeight
    <3>3. PartlyDrawn(result, WholeRows) /\ (~lost => result = WholeRows)
      BY <3>1, Returned
    <3> HIDE DEF WholeRows
    <3>4. QED
      BY <3>1, <3>2, <3>3 DEF Codec!Next, Codec!Return
  <2>2. CASE LoseEnd
    <3>1. ~lost
      BY <2>2, LoseEndInv
    <3>2. /\ phase = "decode" /\ phase' = phase /\ lost' = TRUE
          /\ image' = image /\ pixels' = pixels
      BY <2>2 DEF LoseEnd
    <3>3. WholeRows' = WholeRows
      BY <3>2 DEF WholeRows, ImageHeight
    <3>4. QED
      BY <3>1, <3>2, <3>3 DEF Codec!Next, Codec!LoseEnd
  <2>3. CASE \/ WriteHeader \/ BeginBlock \/ EncodeSymbol \/ EndBlock \/ EndImage
             \/ ReadHeaderByte \/ DecodeBit
    <3>1. /\ phase # "done" /\ phase' # "done" /\ lost' = lost
          /\ image' = image /\ pixels' = pixels
      BY <2>3 DEF WriteHeader, BeginBlock, EncodeSymbol, EndBlock, EndImage,
                  ReadHeaderByte, DecodeBit, encoding
    <3>2. WholeRows' = WholeRows
      BY <3>1 DEF WholeRows, ImageHeight
    <3>3. QED
      BY <3>1, <3>2 DEF Codec!vars
  <2>4. CASE UNCHANGED vars
    <3>1. /\ phase' = phase /\ lost' = lost /\ image' = image /\ pixels' = pixels
          /\ result' = result
      BY <2>4 DEF vars
    <3>2. WholeRows' = WholeRows
      BY <3>1 DEF WholeRows, ImageHeight
    <3>3. QED
      BY <3>1, <3>2 DEF Codec!vars
  <2>5. QED
    BY <2>1, <2>2, <2>3, <2>4 DEF Next, Step, Done
<1>3. QED
  BY <1>1, <1>2, SpecInvariant, PTL DEF Spec
=============================================================================
