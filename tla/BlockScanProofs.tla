-------------------------- MODULE BlockScanProofs --------------------------
(***************************************************************************)
(* Proofs about BlockScan.  In blocks of every size, and with all of the   *)
(* methods, the decoder is where the encoder is, and neither zig-zag nor   *)
(* Hilbert's curve ever jumps.  In square blocks whose side is a power of  *)
(* two, as the 8 of the code, every method visits every position of a      *)
(* block once; columns, rows and zig-zag do so in blocks of every size.    *)
(*                                                                         *)
(* The first parts are about the methods, as functions of the index; the   *)
(* last are about the walk of the decoder.                                 *)
(***************************************************************************)
EXTENDS BlockScan, CodingTreeProofs

\* The indices of the symbols of a block.
Index == 0..(BlockSize - 1)

\* A method finds a position of its own for every index.
Scans(method) ==
  /\ \A i \in Index : IteratorPos(method, i) \in InBlock
  /\ \A i, j \in Index : IteratorPos(method, i) = IteratorPos(method, j) => i = j

\* Hilbert's curve needs quadrants of quadrants, and the quadruples of Morton's
\* have to fill rows of a square.
Suits(method) ==
  /\ method \in ScanMethod
  /\ method = "MortonCurve" =>
       BlockWidth = BlockHeight /\ \E half \in Nat : BlockWidth = 2 * half
  /\ method = "HilbertCurve" =>
       BlockWidth = BlockHeight /\ \E m \in Nat : BlockWidth = 2 ^ m

-----------------------------------------------------------------------------
(***************************************************************************)
(* Blocks and their sizes.                                                 *)
(***************************************************************************)
\* A block has more than one position.
LEMMA SizeFacts ==
  /\ BlockSize \in Nat
  /\ BlockSize > 1
<1>1. BlockWidth \in Nat /\ BlockHeight \in Nat /\ BlockWidth >= 2 /\ BlockHeight >= 2
  BY BlockAssumption
<1>2. BlockWidth * BlockHeight \in Nat
  BY <1>1
<1>3. BlockWidth * BlockHeight >= 2 * BlockHeight
  BY <1>1
<1> QED
  BY <1>1, <1>2, <1>3 DEF BlockSize

\* A position is its coordinates.
LEMMA SamePlace ==
  ASSUME NEW p \in InBlock, NEW q \in InBlock, p.x = q.x, p.y = q.y
  PROVE  p = q
BY DEF InBlock

\* Coordinates below the sides make a position of the block.
LEMMA AtInBlock ==
  ASSUME NEW px \in 0..(BlockWidth - 1), NEW py \in 0..(BlockHeight - 1)
  PROVE  At(px, py) \in InBlock /\ At(px, py).x = px /\ At(px, py).y = py
BY DEF At, InBlock

\* There are as many positions as the size says.
LEMMA PositionCount == IsFiniteSet(InBlock) /\ Cardinality(InBlock) = BlockSize
<1> DEFINE Columns == 0..(BlockWidth - 1)
           Rows == 0..(BlockHeight - 1)
           f == [c \in Columns \X Rows |-> At(c[1], c[2])]
<1>1. IsFiniteSet(Columns) /\ Cardinality(Columns) = BlockWidth
  BY FS_Interval, BlockAssumption
<1>2. IsFiniteSet(Rows) /\ Cardinality(Rows) = BlockHeight
  BY FS_Interval, BlockAssumption
<1>3. IsFiniteSet(Columns \X Rows) /\ Cardinality(Columns \X Rows) = BlockSize
  <2> HIDE DEF Columns, Rows
  <2>1. /\ IsFiniteSet(Columns \X Rows)
        /\ Cardinality(Columns \X Rows) = Cardinality(Columns) * Cardinality(Rows)
    BY <1>1, <1>2, FS_Product, Zenon
  <2> QED
    BY <1>1, <1>2, <2>1 DEF BlockSize
<1>4. f \in Bijection(Columns \X Rows, InBlock)
  <2>1. f \in [Columns \X Rows -> InBlock]
    BY AtInBlock
  <2>2. \A c, d \in Columns \X Rows : f[c] = f[d] => c = d
    BY AtInBlock
  <2>3. \A q \in InBlock : \E c \in Columns \X Rows : f[c] = q
    <3> SUFFICES ASSUME NEW q \in InBlock
                 PROVE  \E c \in Columns \X Rows : f[c] = q
      OBVIOUS
    <3>1. <<q.x, q.y>> \in Columns \X Rows
      BY DEF InBlock
    <3>2. f[<<q.x, q.y>>] = q
      BY <3>1 DEF At, InBlock
    <3> QED
      BY <3>1, <3>2
  <2> QED
    BY <2>1, <2>2, <2>3 DEF Bijection, Injection, Surjection, IsInjective
<1> QED
  BY <1>3, <1>4, FS_Bijection DEF ExistsBijection

-----------------------------------------------------------------------------
(***************************************************************************)
(* Zig-zag.                                                                *)
(***************************************************************************)
Corner == At(BlockWidth - 1, BlockHeight - 1)

\* The automaton's next move stays in the block.
CanMove(p, state) ==
  /\ state = "Right" => p.x < BlockWidth - 1 /\ p.y \in {0, BlockHeight - 1}
  /\ state = "Down" => p.y < BlockHeight - 1 /\ p.x \in {0, BlockWidth - 1}
  /\ state = "LeftDown" => 0 < p.x /\ p.y < BlockHeight - 1
  /\ state = "RightUp" => 0 < p.y /\ p.x < BlockWidth - 1

\* Position q is on the diagonal of p, and the automaton has passed it.
PassedOnDiagonal(q, p, state) ==
  /\ q.x + q.y = p.x + p.y
  /\ state = "LeftDown" => p.x <= q.x
  /\ state = "RightUp" => q.x <= p.x

\* The diagonals before that of p, and the part of p's own up to p.
ZigZagVisited(p, state) ==
  {q \in InBlock : q.x + q.y < p.x + p.y \/ PassedOnDiagonal(q, p, state)}

\* At the far corner everything has been visited.
LEMMA ZigZagEnd ==
  ASSUME NEW state \in ZigZagState
  PROVE  ZigZagVisited(Corner, state) = InBlock
<1>1. Corner \in InBlock /\ Corner.x = BlockWidth - 1 /\ Corner.y = BlockHeight - 1
  BY AtInBlock, BlockAssumption DEF Corner
<1>2. ASSUME NEW q \in InBlock
      PROVE  q.x + q.y < Corner.x + Corner.y \/ PassedOnDiagonal(q, Corner, state)
  <2>1. q.x \in 0..(BlockWidth - 1) /\ q.y \in 0..(BlockHeight - 1)
    BY DEF InBlock
  <2> QED
    BY <1>1, <2>1, BlockAssumption DEF PassedOnDiagonal
<1> QED
  BY <1>2 DEF ZigZagVisited

\* A move of the automaton is to a position of the block that is new, and adds
\* just that position to what has been visited.
LEMMA ZigZagStep ==
  ASSUME NEW p \in InBlock, NEW state \in ZigZagState, CanMove(p, state),
         NEW moved, moved = ZigZagMove(p, state)
  PROVE  /\ moved.pos \in InBlock \ ZigZagVisited(p, state)
         /\ moved.state \in ZigZagState
         /\ moved.pos = Corner \/ CanMove(moved.pos, moved.state)
         /\ ZigZagVisited(moved.pos, moved.state)
              = ZigZagVisited(p, state) \cup {moved.pos}
<1> DEFINE n == moved.pos
           turn == moved.state
<1>1. p.x \in 0..(BlockWidth - 1) /\ p.y \in 0..(BlockHeight - 1)
  BY DEF InBlock
<1>2. n = ZigZagPos(p, state) /\ turn = ZigZagTurn(n, state)
  BY DEF ZigZagMove
<1>3. /\ state = "Right" => n = At(p.x + 1, p.y)
      /\ state = "Down" => n = At(p.x, p.y + 1)
      /\ state = "LeftDown" => n = At(p.x - 1, p.y + 1)
      /\ state = "RightUp" => n = At(p.x + 1, p.y - 1)
  BY <1>2 DEF ZigZagPos
<1>4. /\ n \in InBlock
      /\ state = "Right" => n.x = p.x + 1 /\ n.y = p.y
      /\ state = "Down" => n.x = p.x /\ n.y = p.y + 1
      /\ state = "LeftDown" => n.x = p.x - 1 /\ n.y = p.y + 1
      /\ state = "RightUp" => n.x = p.x + 1 /\ n.y = p.y - 1
  BY <1>1, <1>3, BlockAssumption DEF CanMove, ZigZagState, At, InBlock
<1>5. /\ turn \in ZigZagState
      /\ state = "Right" =>
           turn = IF n.y = BlockHeight - 1 THEN "RightUp" ELSE "LeftDown"
      /\ state = "Down" =>
           turn = IF n.x = BlockWidth - 1 THEN "LeftDown" ELSE "RightUp"
      /\ state = "LeftDown" =>
           turn = IF n.y = BlockHeight - 1 THEN "Right"
                  ELSE IF n.x = 0 THEN "Down" ELSE "LeftDown"
      /\ state = "RightUp" =>
           turn = IF n.x = BlockWidth - 1 THEN "Down"
                  ELSE IF n.y = 0 THEN "Right" ELSE "RightUp"
  BY <1>2 DEF ZigZagTurn, ZigZagState
<1>6. n.x \in 0..(BlockWidth - 1) /\ n.y \in 0..(BlockHeight - 1)
  BY <1>4 DEF InBlock
<1> HIDE DEF n, turn
<1>7. n = Corner \/ CanMove(n, turn)
  <2>1. n.x = BlockWidth - 1 /\ n.y = BlockHeight - 1 => n = Corner
    BY <1>4, AtInBlock, SamePlace, BlockAssumption DEF Corner
  <2> QED
    BY <1>1, <1>4, <1>5, <1>6, <2>1, BlockAssumption DEF CanMove, ZigZagState
<1>8. n \notin ZigZagVisited(p, state)
  BY <1>1, <1>4, <1>6 DEF ZigZagVisited, PassedOnDiagonal, ZigZagState
<1>9. ASSUME NEW q \in InBlock
      PROVE  q \in ZigZagVisited(n, turn) <=> q \in ZigZagVisited(p, state) \/ q = n
  <2>1. q.x \in 0..(BlockWidth - 1) /\ q.y \in 0..(BlockHeight - 1)
    BY DEF InBlock
  <2>2. q = n <=> q.x = n.x /\ q.y = n.y
    BY <1>4, SamePlace
  <2>3. (q.x + q.y < n.x + n.y \/ PassedOnDiagonal(q, n, turn))
          <=> (q.x + q.y < p.x + p.y \/ PassedOnDiagonal(q, p, state)
                 \/ (q.x = n.x /\ q.y = n.y))
    <3>1. CASE state = "Right"
      BY <3>1, <1>1, <1>4, <1>5, <1>6, <2>1, BlockAssumption DEF PassedOnDiagonal, CanMove
    <3>2. CASE state = "Down"
      BY <3>2, <1>1, <1>4, <1>5, <1>6, <2>1, BlockAssumption DEF PassedOnDiagonal, CanMove
    <3>3. CASE state = "LeftDown"
      BY <3>3, <1>1, <1>4, <1>5, <1>6, <2>1, BlockAssumption DEF PassedOnDiagonal, CanMove
    <3>4. CASE state = "RightUp"
      BY <3>4, <1>1, <1>4, <1>5, <1>6, <2>1, BlockAssumption DEF PassedOnDiagonal, CanMove
    <3> QED
      BY <3>1, <3>2, <3>3, <3>4 DEF ZigZagState
  <2> QED
    BY <2>2, <2>3 DEF ZigZagVisited
<1>10. ZigZagVisited(n, turn) = ZigZagVisited(p, state) \cup {n}
  BY <1>4, <1>9 DEF ZigZagVisited
<1> QED
  BY <1>4, <1>5, <1>7, <1>8, <1>10 DEF n, turn

\* The position after every number of moves, as the encoder's iterator has it.
LEMMA ZigZagUnfolds ==
  /\ ZigZagAfter[0] = [pos |-> Origin, state |-> "Right"]
  /\ \A n \in Nat :
       ZigZagAfter[n + 1] = ZigZagMove(ZigZagAfter[n].pos, ZigZagAfter[n].state)
<1> DEFINE Place == [x : Int, y : Int]
           X == [pos : Place, state : ZigZagState]
           first == [pos |-> Origin, state |-> "Right"]
           next == [c \in Nat \X X |-> ZigZagMove(c[2].pos, c[2].state)]
           Fits(f) == f = [index \in Nat |->
                             IF index = 0 THEN [pos |-> Origin, state |-> "Right"]
                             ELSE LET before == f[index - 1]
                                  IN ZigZagMove(before.pos, before.state)]
<1>1. first \in X
  BY DEF Origin, ZigZagState
<1>2. \A z \in X : ZigZagMove(z.pos, z.state) \in X
  <2> SUFFICES ASSUME NEW z \in X PROVE ZigZagMove(z.pos, z.state) \in X
    OBVIOUS
  <2>1. ZigZagPos(z.pos, z.state) \in Place
    BY DEF ZigZagPos, ZigZagState, At
  <2>2. ZigZagTurn(ZigZagPos(z.pos, z.state), z.state) \in ZigZagState
    BY DEF ZigZagTurn, ZigZagState
  <2>3. QED
    BY <2>1, <2>2 DEF ZigZagMove
<1>3. next \in [Nat \X X -> X]
  BY <1>2
<1>4. \E f : Fits(f)
  <2> HIDE DEF X, first, next
  <2>1. PICK f : IterateForever(f, X, first, next)
    BY <1>1, <1>3, IteratesForever
  <2>2. f \in [Nat -> X] /\ f[0] = first
    BY <2>1 DEF IterateForever
  <2>3. ASSUME NEW n \in Nat, n # 0
        PROVE  f[n] = ZigZagMove(f[n - 1].pos, f[n - 1].state)
    <3>1. n - 1 \in Nat /\ (n - 1) + 1 = n
      BY <2>3
    <3>2. f[n] = next[<<n, f[n - 1]>>] /\ f[n - 1] \in X
      BY <2>1, <3>1 DEF IterateForever
    <3>3. QED
      BY <3>2 DEF next
  <2>4. f = [index \in Nat |-> f[index]]
    BY <2>2
  <2>5. QED
    BY <2>2, <2>3, <2>4 DEF first
<1>5. Fits(ZigZagAfter)
  <2> HIDE DEF Fits
  <2>1. ZigZagAfter = CHOOSE f : Fits(f)
    BY DEF ZigZagAfter, Fits
  <2>2. QED
    BY <1>4, <2>1
<1>6. \A n \in Nat : n + 1 \in Nat /\ n + 1 # 0 /\ (n + 1) - 1 = n
  OBVIOUS
<1>7. QED
  BY <1>5, <1>6

\* Up to index n the automaton has passed n + 1 positions, which are those that
\* can be told from where it stands, and no position twice.
Trail(n) ==
  LET z == ZigZagAfter[n]
  IN /\ z.pos \in InBlock /\ z.state \in ZigZagState
     /\ z.pos = Corner \/ CanMove(z.pos, z.state)
     /\ ZigZagVisited(z.pos, z.state) = {ZigZagAfter[i].pos : i \in 0..n}
     /\ Cardinality(ZigZagVisited(z.pos, z.state)) = n + 1
     /\ \A i \in 0..(n - 1) : ZigZagAfter[i].pos # z.pos

\* The trail of zig-zag begins at the origin.
LEMMA TrailStarts == Trail(0)
<1> DEFINE z == [pos |-> Origin, state |-> "Right"]
<1>1. ZigZagAfter[0] = z
  BY ZigZagUnfolds
<1>2. Origin \in InBlock /\ Origin.x = 0 /\ Origin.y = 0
  BY BlockAssumption DEF Origin, InBlock
<1>3. CanMove(Origin, "Right")
  BY <1>2, BlockAssumption DEF CanMove
<1>4. ASSUME NEW q \in InBlock
      PROVE  /\ q.x \in Nat /\ q.y \in Nat
             /\ q = Origin <=> q.x = 0 /\ q.y = 0
  BY <1>2, SamePlace, BlockAssumption DEF InBlock
<1>5. {Origin} = ZigZagVisited(Origin, "Right")
  BY <1>2, <1>4 DEF ZigZagVisited, PassedOnDiagonal
<1>6. Cardinality({Origin}) = 1
  BY FS_Singleton
<1>7. {ZigZagAfter[i].pos : i \in 0..0} = {Origin}
  BY <1>1
<1>8. 0..(0 - 1) = {} /\ 0 + 1 = 1
  OBVIOUS
<1>9. QED
  BY <1>1, <1>2, <1>3, <1>5, <1>6, <1>7, <1>8 DEF Trail, ZigZagState

\* A move of zig-zag goes on with its trail.
LEMMA TrailGoesOn ==
  ASSUME NEW n \in Nat, n + 1 < BlockSize, Trail(n)
  PROVE  Trail(n + 1)
<1> DEFINE z == ZigZagAfter[n]
           moved == ZigZagAfter[n + 1]
           V == ZigZagVisited(z.pos, z.state)
<1>1. moved = ZigZagMove(z.pos, z.state)
  BY ZigZagUnfolds
<1>2. /\ z.pos \in InBlock /\ z.state \in ZigZagState
      /\ z.pos = Corner \/ CanMove(z.pos, z.state)
      /\ V = {ZigZagAfter[i].pos : i \in 0..n}
      /\ Cardinality(V) = n + 1
  BY DEF Trail
<1>3. V \in SUBSET InBlock
  BY DEF ZigZagVisited
<1>4. V # InBlock
  <2>1. Cardinality(V) # Cardinality(InBlock)
    BY <1>2, PositionCount, SizeFacts
  <2> HIDE DEF V
  <2>2. QED
    BY <2>1
<1>5. CanMove(z.pos, z.state)
  BY <1>2, <1>4, ZigZagEnd
<1>6. /\ moved.pos \in InBlock \ V
      /\ moved.state \in ZigZagState
      /\ moved.pos = Corner \/ CanMove(moved.pos, moved.state)
      /\ ZigZagVisited(moved.pos, moved.state) = V \cup {moved.pos}
  <2> HIDE DEF z, moved
  <2>1. QED
    BY <1>1, <1>2, <1>5, ZigZagStep
<1> HIDE DEF V, z
<1>7. Cardinality(V \cup {moved.pos}) = (n + 1) + 1
  <2>1. IsFiniteSet(V)
    BY <1>3, PositionCount, FS_Subset
  <2> HIDE DEF moved
  <2>2. Cardinality(V \cup {moved.pos}) = Cardinality(V) + 1
    BY <1>6, <2>1, FS_AddElement
  <2>3. QED
    BY <1>2, <2>2
<1>8. V \cup {moved.pos} = {ZigZagAfter[i].pos : i \in 0..(n + 1)}
  <2>1. 0..(n + 1) = (0..n) \cup {n + 1}
    OBVIOUS
  <2>2. QED
    BY <1>2, <2>1
<1>9. \A i \in 0..((n + 1) - 1) : ZigZagAfter[i].pos # moved.pos
  <2>1. (n + 1) - 1 = n
    OBVIOUS
  <2>2. QED
    BY <1>2, <1>6, <2>1
<1>10. QED
  BY <1>6, <1>7, <1>8, <1>9 DEF Trail

\* The trail of zig-zag, at every index of the block.
LEMMA TrailGoesRound == \A n \in Index : Trail(n)
<1> DEFINE S == {n \in Nat : n < BlockSize => Trail(n)}
<1>1. 0 \in S
  BY TrailStarts
<1>2. ASSUME NEW n \in Nat, n \in S PROVE n + 1 \in S
  <2>1. n + 1 < BlockSize => n < BlockSize
    BY SizeFacts
  <2>2. QED
    BY <1>2, <2>1, TrailGoesOn
<1>3. \A n \in Nat : n \in S
  <2> HIDE DEF S
  <2>1. QED
    BY <1>1, <1>2, Induction
<1>4. QED
  BY <1>3, SizeFacts DEF Index

\* Zig-zag scans every block.
LEMMA ZigZagScans == Scans("ZigZag")
<1>1. \A i \in Index : IteratorPos("ZigZag", i) = ZigZagAfter[i].pos
  BY DEF IteratorPos
<1>2. ASSUME NEW i \in Index, NEW j \in Index, i < j
      PROVE  ZigZagAfter[i].pos # ZigZagAfter[j].pos
  <2>1. i \in 0..(j - 1)
    BY <1>2, SizeFacts DEF Index
  <2>2. QED
    BY <2>1, TrailGoesRound DEF Trail
<1>3. \A i, j \in Index : i < j \/ j < i \/ i = j
  BY SizeFacts DEF Index
<1>4. \A i \in Index : ZigZagAfter[i].pos \in InBlock
  BY TrailGoesRound DEF Trail
<1>5. QED
  BY <1>1, <1>2, <1>3, <1>4 DEF Scans

-----------------------------------------------------------------------------
(***************************************************************************)
(* Rows, columns and Morton: an index is a quotient and a remainder.       *)
(***************************************************************************)
\* The index of a place in lines of length w.
LineIndex(line, place, w) == line * w + place

\* There is one way of dividing a number.
LEMMA DivisionUnique ==
  ASSUME NEW w \in Nat \ {0}, NEW a \in Int, NEW b \in Int,
         NEW r \in 0..(w - 1), NEW s \in 0..(w - 1),
         LineIndex(a, r, w) = LineIndex(b, s, w)
  PROVE  a = b /\ r = s
<1> USE DEF LineIndex
<1>1. ASSUME NEW c \in Int, NEW d \in Int, c >= d + 1
      PROVE  c * w >= d * w + w
  BY <1>1
<1>2. ~(a >= b + 1)
  BY <1>1
<1>3. ~(b >= a + 1)
  BY <1>1
<1> QED
  BY <1>2, <1>3

\* An index less than h * w is at a place of its own in h lines of w.
LEMMA Division ==
  ASSUME NEW w \in Nat \ {0}, NEW h \in Nat \ {0}, NEW n \in Nat, n < h * w
  PROVE  /\ n \div w \in 0..(h - 1)
         /\ n % w \in 0..(w - 1)
         /\ LineIndex(n \div w, n % w, w) = n
<1> USE DEF LineIndex
<1>1. n % w \in 0..(w - 1) /\ n \div w \in Nat /\ (n \div w) * w + (n % w) = n
  OBVIOUS
<1>2. ASSUME n \div w >= h
      PROVE  (n \div w) * w >= h * w
  BY <1>1, <1>2
<1> QED
  BY <1>1, <1>2

\* Rows scan every block.
LEMMA RowsScan == Scans("Horizontal")
<1>1. ASSUME NEW i \in Index
      PROVE  /\ IteratorPos("Horizontal", i) = Horizontal(i)
             /\ Horizontal(i) \in InBlock
             /\ Horizontal(i).x = i % BlockWidth /\ Horizontal(i).y = i \div BlockWidth
             /\ LineIndex(i \div BlockWidth, i % BlockWidth, BlockWidth) = i
  <2>1. i \in Nat /\ i < BlockHeight * BlockWidth
    BY SizeFacts, BlockAssumption DEF BlockSize, Index
  <2>2. QED
    BY <2>1, Division, AtInBlock, BlockAssumption DEF Horizontal, IteratorPos, PosInBlock
<1>2. ASSUME NEW i \in Index, NEW j \in Index, Horizontal(i) = Horizontal(j)
      PROVE  i = j
  BY <1>1, <1>2
<1>3. QED
  BY <1>1, <1>2 DEF Scans

\* Columns scan every block.
LEMMA ColumnsScan == Scans("Vertical")
<1>1. ASSUME NEW i \in Index
      PROVE  /\ IteratorPos("Vertical", i) = Vertical(i)
             /\ Vertical(i) \in InBlock
             /\ Vertical(i).x = i \div BlockHeight /\ Vertical(i).y = i % BlockHeight
             /\ LineIndex(i \div BlockHeight, i % BlockHeight, BlockHeight) = i
  <2>1. i \in Nat /\ i < BlockWidth * BlockHeight
    BY SizeFacts, BlockAssumption DEF BlockSize, Index
  <2>2. QED
    BY <2>1, Division, AtInBlock, BlockAssumption DEF Vertical, IteratorPos, PosInBlock
<1>2. ASSUME NEW i \in Index, NEW j \in Index, Vertical(i) = Vertical(j)
      PROVE  i = j
  BY <1>1, <1>2
<1>3. QED
  BY <1>1, <1>2 DEF Scans

\* Quadruple v * half + u of a square of half by half quadruples is the one in row
\* v and column u, and a Z visits its four positions.
MortonPlace(i, half) ==
  \E u, v \in 0..(half - 1), d, e \in 0..1 :
    /\ i = 4 * LineIndex(v, u, half) + 2 * e + d
    /\ MortonCurve(i) = At(2 * u + d, 2 * v + e)

\* Morton's position of an index lies in the quadruple the index names.
LEMMA MortonPlaces ==
  ASSUME NEW half \in Nat, BlockWidth = 2 * half, BlockHeight = 2 * half,
         NEW i \in Index
  PROVE  MortonPlace(i, half)
<1> DEFINE a == i \div 4
           r == i % 4
           u == a % half
           v == a \div half
           d == i % 2
           e == r \div 2
<1>1. half \in Nat \ {0} /\ i \in Nat
  BY BlockAssumption, SizeFacts DEF Index
<1>2. a \in Nat /\ r \in 0..3 /\ i = 4 * a + r
  BY <1>1
<1>3. d \in 0..1 /\ e \in 0..1 /\ r = 2 * e + d
  BY <1>1
<1>4. BlockSize = 4 * (half * half)
  BY <1>1 DEF BlockSize
<1>5. a < half * half
  BY <1>1, <1>2, <1>4 DEF Index
<1>6. v \in 0..(half - 1) /\ u \in 0..(half - 1) /\ LineIndex(v, u, half) = a
  <2> HIDE DEF a
  <2>1. QED
    BY <1>1, <1>2, <1>5, Division
<1> HIDE DEF a, r, u, v, d, e
<1>7. (a * 2) % (2 * half) = 2 * u
  <2>1. LineIndex(v, 2 * u, 2 * half) = a * 2
    BY <1>1, <1>2, <1>6 DEF LineIndex
  <2>2. /\ (a * 2) % (2 * half) \in 0..(2 * half - 1)
        /\ (a * 2) \div (2 * half) \in Nat
        /\ LineIndex((a * 2) \div (2 * half), (a * 2) % (2 * half), 2 * half) = a * 2
    <3> DEFINE w == 2 * half
               n == a * 2
    <3>1. w \in Nat \ {0} /\ n \in Nat
      BY <1>1, <1>2
    <3> HIDE DEF w, n
    <3>2. n % w \in 0..(w - 1) /\ n \div w \in Nat /\ (n \div w) * w + (n % w) = n
      BY <3>1
    <3>3. QED
      BY <3>2 DEF LineIndex, w, n
  <2>3. 2 * u \in 0..(2 * half - 1) /\ 2 * half \in Nat \ {0} /\ v \in Int
    BY <1>1, <1>6
  <2> HIDE DEF LineIndex
  <2>4. QED
    BY <2>1, <2>2, <2>3, DivisionUnique
<1>8. i \div (2 * (2 * half)) = v
  <2> DEFINE w == 2 * (2 * half)
  <2>1. w \in Nat \ {0} /\ w = 4 * half
    BY <1>1
  <2>2. 4 * u + r \in 0..(w - 1) /\ v \in Int
    BY <1>1, <1>2, <1>6, <2>1
  <2>3. v * w + (4 * u + r) = i
    <3>1. v * w = 4 * (v * half)
      BY <1>1, <1>6, <2>1
    <3>2. v * half \in Nat /\ v * half + u = a
      BY <1>1, <1>6 DEF LineIndex
    <3>3. QED
      BY <1>2, <1>6, <3>1, <3>2
  <2> HIDE DEF w
  <2>4. i % w \in 0..(w - 1) /\ i \div w \in Nat /\ (i \div w) * w + (i % w) = i
    BY <1>1, <2>1
  <2>5. LineIndex(v, 4 * u + r, w) = LineIndex(i \div w, i % w, w)
    BY <2>3, <2>4 DEF LineIndex
  <2>6. i \div w = v
    BY <2>1, <2>2, <2>4, <2>5, DivisionUnique
  <2>7. QED
    BY <2>6 DEF w
<1>9. MortonCurve(i) = At(2 * u + d, 2 * v + e)
  <2>1. v * 2 = 2 * v
    BY <1>6
  <2>2. QED
    BY <1>7, <1>8, <2>1 DEF MortonCurve, a, r, d, e
<1>10. i = 4 * LineIndex(v, u, half) + 2 * e + d
  BY <1>2, <1>3, <1>6
<1>11. QED
  BY <1>3, <1>6, <1>9, <1>10 DEF MortonPlace

\* Morton's order scans a square of even side.
LEMMA MortonScans ==
  ASSUME Suits("MortonCurve")
  PROVE  Scans("MortonCurve")
<1>1. PICK half \in Nat : BlockWidth = 2 * half /\ BlockHeight = 2 * half
  BY DEF Suits
<1>2. \A i \in Index : MortonPlace(i, half)
  BY <1>1, MortonPlaces
<1>3. \A i \in Index : IteratorPos("MortonCurve", i) = MortonCurve(i)
  BY DEF IteratorPos, PosInBlock
<1>4. ASSUME NEW i \in Index PROVE MortonCurve(i) \in InBlock
  <2>1. PICK u \in 0..(half - 1), v \in 0..(half - 1), d \in 0..1, e \in 0..1 :
               MortonCurve(i) = At(2 * u + d, 2 * v + e)
    BY <1>2 DEF MortonPlace
  <2>2. 2 * u + d \in 0..(BlockWidth - 1) /\ 2 * v + e \in 0..(BlockHeight - 1)
    BY <1>1
  <2>3. QED
    BY <2>1, <2>2, AtInBlock
<1>5. ASSUME NEW i \in Index, NEW j \in Index, MortonCurve(i) = MortonCurve(j)
      PROVE  i = j
  <2>1. PICK u \in 0..(half - 1), v \in 0..(half - 1), d \in 0..1, e \in 0..1 :
               /\ i = 4 * LineIndex(v, u, half) + 2 * e + d
               /\ MortonCurve(i) = At(2 * u + d, 2 * v + e)
    BY <1>2 DEF MortonPlace
  <2>2. PICK s \in 0..(half - 1), t \in 0..(half - 1), f \in 0..1, g \in 0..1 :
               /\ j = 4 * LineIndex(t, s, half) + 2 * g + f
               /\ MortonCurve(j) = At(2 * s + f, 2 * t + g)
    BY <1>2 DEF MortonPlace
  <2>3. 2 * u + d = 2 * s + f /\ 2 * v + e = 2 * t + g
    BY <1>5, <2>1, <2>2 DEF At
  <2>4. u = s /\ d = f /\ v = t /\ e = g
    BY <2>3
  <2>5. QED
    BY <2>1, <2>2, <2>4
<1>6. QED
  BY <1>3, <1>4, <1>5 DEF Scans

-----------------------------------------------------------------------------
(***************************************************************************)
(* Hilbert's curve: one level of it, a quadrant.                           *)
(***************************************************************************)
Square(s) == [x : 0..(s - 1), y : 0..(s - 1)]

\* Neighbours in a row or in a column.
Beside(p, q) ==
  \/ p.x = q.x /\ (q.y = p.y + 1 \/ p.y = q.y + 1)
  \/ p.y = q.y /\ (q.x = p.x + 1 \/ p.x = q.x + 1)

\* Where a quadrant of Hilbert's curve puts a position of a smaller square.
LEMMA QuadrantPlace ==
  ASSUME NEW q \in 0..3, NEW h \in Nat, NEW p, p \in Square(h)
  PROVE  /\ p.x \in 0..(h - 1) /\ p.y \in 0..(h - 1)
         /\ HilbertQuadrant(q, h, p) \in Square(2 * h)
         /\ LET n == HilbertQuadrant(q, h, p)
            IN /\ q = 0 => n.x = p.y /\ n.y = p.x
               /\ q = 1 => n.x = p.x /\ n.y = p.y + h
               /\ q = 2 => n.x = p.x + h /\ n.y = p.y + h
               /\ q = 3 => n.x = 2 * h - 1 - p.y /\ n.y = h - 1 - p.x
<1> DEFINE n == HilbertQuadrant(q, h, p)
<1>1. p.x \in 0..(h - 1) /\ p.y \in 0..(h - 1)
  BY DEF Square
<1>2. /\ q = 0 => n = At(p.y, p.x)
      /\ q = 1 => n = At(p.x, p.y + h)
      /\ q = 2 => n = At(p.x + h, p.y + h)
      /\ q = 3 => n = At(h - 1 - p.y + h, h - 1 - p.x)
  BY DEF HilbertQuadrant
<1>3. h - 1 - p.y + h = 2 * h - 1 - p.y
  BY <1>1
<1> HIDE DEF n
<1>4. n \in Square(2 * h)
  BY <1>1, <1>2 DEF Square, At
<1>5. /\ q = 0 => n.x = p.y /\ n.y = p.x
      /\ q = 1 => n.x = p.x /\ n.y = p.y + h
      /\ q = 2 => n.x = p.x + h /\ n.y = p.y + h
      /\ q = 3 => n.x = 2 * h - 1 - p.y /\ n.y = h - 1 - p.x
  BY <1>2, <1>3 DEF At
<1>6. QED
  BY <1>1, <1>4, <1>5 DEF n

\* The quadrant can be told from the position, and the position in it too.
LEMMA QuadrantUnique ==
  ASSUME NEW h \in Nat, NEW q \in 0..3, NEW r \in 0..3, NEW p, NEW s,
         p \in Square(h), s \in Square(h),
         HilbertQuadrant(q, h, p) = HilbertQuadrant(r, h, s)
  PROVE  q = r /\ p = s
<1> DEFINE n == HilbertQuadrant(q, h, p)
<1>1. /\ p.x \in 0..(h - 1) /\ p.y \in 0..(h - 1)
      /\ q = 0 => n.x = p.y /\ n.y = p.x
      /\ q = 1 => n.x = p.x /\ n.y = p.y + h
      /\ q = 2 => n.x = p.x + h /\ n.y = p.y + h
      /\ q = 3 => n.x = 2 * h - 1 - p.y /\ n.y = h - 1 - p.x
  BY QuadrantPlace, ZenonT(60)
<1>2. /\ s.x \in 0..(h - 1) /\ s.y \in 0..(h - 1)
      /\ r = 0 => n.x = s.y /\ n.y = s.x
      /\ r = 1 => n.x = s.x /\ n.y = s.y + h
      /\ r = 2 => n.x = s.x + h /\ n.y = s.y + h
      /\ r = 3 => n.x = 2 * h - 1 - s.y /\ n.y = h - 1 - s.x
  BY QuadrantPlace
<1> HIDE DEF n
<1>3. q = r /\ p.x = s.x /\ p.y = s.y
  BY <1>1, <1>2
<1>4. QED
  BY <1>3 DEF Square

\* A quadrant is turned, not torn.
LEMMA QuadrantNear ==
  ASSUME NEW h \in Nat, NEW q \in 0..3, NEW p, NEW s,
         p \in Square(h), s \in Square(h), Beside(p, s)
  PROVE  Beside(HilbertQuadrant(q, h, p), HilbertQuadrant(q, h, s))
<1> DEFINE n == HilbertQuadrant(q, h, p)
           m == HilbertQuadrant(q, h, s)
<1>1. /\ p.x \in 0..(h - 1) /\ p.y \in 0..(h - 1)
      /\ q = 0 => n.x = p.y /\ n.y = p.x
      /\ q = 1 => n.x = p.x /\ n.y = p.y + h
      /\ q = 2 => n.x = p.x + h /\ n.y = p.y + h
      /\ q = 3 => n.x = 2 * h - 1 - p.y /\ n.y = h - 1 - p.x
  BY QuadrantPlace
<1>2. /\ s.x \in 0..(h - 1) /\ s.y \in 0..(h - 1)
      /\ q = 0 => m.x = s.y /\ m.y = s.x
      /\ q = 1 => m.x = s.x /\ m.y = s.y + h
      /\ q = 2 => m.x = s.x + h /\ m.y = s.y + h
      /\ q = 3 => m.x = 2 * h - 1 - s.y /\ m.y = h - 1 - s.x
  BY QuadrantPlace
<1> HIDE DEF n, m
<1>3. Beside(n, m)
  BY <1>1, <1>2 DEF Beside
<1>4. QED
  BY <1>3 DEF n, m

\* Where a quadrant ends the next begins.
LEMMA QuadrantsMeet ==
  ASSUME NEW h \in Nat, h > 0, NEW q \in 0..2
  PROVE  Beside(HilbertQuadrant(q, h, At(h - 1, 0)), HilbertQuadrant(q + 1, h, At(0, 0)))
<1> DEFINE p == At(h - 1, 0)
           s == At(0, 0)
           n == HilbertQuadrant(q, h, p)
           m == HilbertQuadrant(q + 1, h, s)
<1>1. /\ p \in Square(h) /\ s \in Square(h) /\ q \in 0..3 /\ q + 1 \in 0..3
      /\ p.x = h - 1 /\ p.y = 0 /\ s.x = 0 /\ s.y = 0
  BY DEF Square, At
<1> HIDE DEF p, s
<1>2. /\ p.x \in 0..(h - 1) /\ p.y \in 0..(h - 1)
      /\ q = 0 => n.x = p.y /\ n.y = p.x
      /\ q = 1 => n.x = p.x /\ n.y = p.y + h
      /\ q = 2 => n.x = p.x + h /\ n.y = p.y + h
      /\ q = 3 => n.x = 2 * h - 1 - p.y /\ n.y = h - 1 - p.x
  <2> HIDE DEF n
  <2>1. LET k == HilbertQuadrant(q, h, p)
        IN /\ p.x \in 0..(h - 1) /\ p.y \in 0..(h - 1)
           /\ k \in Square(2 * h)
           /\ q = 0 => k.x = p.y /\ k.y = p.x
           /\ q = 1 => k.x = p.x /\ k.y = p.y + h
           /\ q = 2 => k.x = p.x + h /\ k.y = p.y + h
           /\ q = 3 => k.x = 2 * h - 1 - p.y /\ k.y = h - 1 - p.x
    BY <1>1, QuadrantPlace, ZenonT(60)
  <2>2. QED
    BY <2>1 DEF n
<1>3. /\ q + 1 = 1 => m.x = s.x /\ m.y = s.y + h
      /\ q + 1 = 2 => m.x = s.x + h /\ m.y = s.y + h
      /\ q + 1 = 3 => m.x = 2 * h - 1 - s.y /\ m.y = h - 1 - s.x
  <2> DEFINE r == q + 1
  <2>1. r \in 0..3
    BY <1>1
  <2> HIDE DEF r
  <2>2. LET k == HilbertQuadrant(r, h, s)
        IN /\ s.x \in 0..(h - 1) /\ s.y \in 0..(h - 1)
           /\ k \in Square(2 * h)
           /\ r = 0 => k.x = s.y /\ k.y = s.x
           /\ r = 1 => k.x = s.x /\ k.y = s.y + h
           /\ r = 2 => k.x = s.x + h /\ k.y = s.y + h
           /\ r = 3 => k.x = 2 * h - 1 - s.y /\ k.y = h - 1 - s.x
    BY <1>1, <2>1, QuadrantPlace, ZenonT(60)
  <2>3. QED
    BY <2>2 DEF r
<1> HIDE DEF n, m
<1>4. Beside(n, m)
  BY <1>1, <1>2, <1>3 DEF Beside
<1>5. QED
  BY <1>4 DEF n, m, p, s

-----------------------------------------------------------------------------
(***************************************************************************)
(* Hilbert's curve: level by level.  Two bits of the index choose the      *)
(* quadrant of each.                                                       *)
(***************************************************************************)
\* The powers of four.
LEMMA PowersOfFour ==
  /\ 2 ^ (2 * 1) = 4
  /\ \A k \in Nat : /\ 2 ^ (2 * k) \in Nat /\ 2 ^ (2 * k) > 0
                    /\ 2 ^ (2 * (k + 1)) = 4 * 2 ^ (2 * k)
<1>1. ASSUME NEW k \in Nat
      PROVE  /\ 2 ^ (2 * k) \in Nat /\ 2 ^ (2 * k) > 0
             /\ 2 ^ (2 * (k + 1)) = 4 * 2 ^ (2 * k)
  <2>1. 2 * k \in Nat /\ 2 * k + 1 \in Nat /\ 2 * (k + 1) = (2 * k + 1) + 1
    OBVIOUS
  <2>2. 2 ^ ((2 * k + 1) + 1) = 2 * 2 ^ (2 * k + 1) /\ 2 ^ (2 * k + 1) = 2 * 2 ^ (2 * k)
    BY <2>1, PowersOfTwo
  <2>3. 2 ^ (2 * k) \in Nat /\ 2 ^ (2 * k) > 0
    BY <2>1, PowersOfTwo
  <2>4. 2 ^ (2 * (k + 1)) = 2 ^ ((2 * k + 1) + 1)
    BY <2>1
  <2>5. QED
    BY <2>2, <2>3, <2>4
<1>2. 2 ^ (2 * 0) = 1
  <2>1. 2 * 0 = 0
    OBVIOUS
  <2>2. QED
    BY <2>1, PowersOfTwo
<1>3. 2 ^ (2 * 1) = 4 * 2 ^ (2 * 0)
  <2>1. 0 + 1 = 1
    OBVIOUS
  <2>2. 2 ^ (2 * (0 + 1)) = 4 * 2 ^ (2 * 0)
    BY <1>1
  <2>3. QED
    BY <2>1, <2>2
<1>4. QED
  BY <1>1, <1>2, <1>3

\* The two bits of i above those that P counts, and the ones below.
LEMMA NextDigit ==
  ASSUME NEW i \in Nat, NEW P \in Nat, P > 0
  PROVE  /\ (i \div P) % 4 \in 0..3 /\ i % P \in 0..(P - 1)
         /\ i % (4 * P) = P * ((i \div P) % 4) + (i % P)
<1> DEFINE a == i \div P
           r == i % P
           b == a \div 4
           q == a % 4
           w == 4 * P
<1>1. a \in Nat /\ r \in 0..(P - 1) /\ a * P + r = i
  OBVIOUS
<1> HIDE DEF a, r
<1>2. b \in Nat /\ q \in 0..3 /\ a = 4 * b + q
  BY <1>1
<1> HIDE DEF b, q
<1>3. P * q + r \in 0..(w - 1)
  <2>1. P * q \in Nat /\ P * q <= P * 3
    BY <1>2
  <2>2. QED
    BY <1>1, <2>1
<1>4. LineIndex(b, P * q + r, w) = i
  <2>1. a * P = b * (4 * P) + P * q
    BY <1>2
  <2>2. b * (4 * P) \in Nat /\ P * q \in Nat
    BY <1>2
  <2>3. QED
    BY <1>1, <2>1, <2>2 DEF LineIndex
<1>5. w \in Nat \ {0}
  OBVIOUS
<1> HIDE DEF w
<1>6. i % w \in 0..(w - 1) /\ i \div w \in Nat /\ LineIndex(i \div w, i % w, w) = i
  <2>1. i % w \in 0..(w - 1) /\ i \div w \in Nat /\ (i \div w) * w + (i % w) = i
    BY <1>5
  <2>2. QED
    BY <2>1 DEF LineIndex
<1>7. i % w = P * q + r
  BY <1>2, <1>3, <1>4, <1>5, <1>6, DivisionUnique
<1>8. QED
  BY <1>1, <1>2, <1>7 DEF a, r, q, w

\* Counting on stays in a quadrant or goes to the beginning of the next.
LEMMA NextInQuadrant ==
  ASSUME NEW i \in Nat, NEW P \in Nat, P > 0, i % (4 * P) < 4 * P - 1
  PROVE  \/ /\ i % P < P - 1
            /\ (i + 1) \div P = i \div P
         \/ /\ i % P = P - 1 /\ (i + 1) % P = 0
            /\ (i \div P) % 4 \in 0..2
            /\ ((i + 1) \div P) % 4 = ((i \div P) % 4) + 1
<1> DEFINE a == i \div P
           r == i % P
           c == (i + 1) \div P
           s == (i + 1) % P
<1>1. a \in Nat /\ r \in 0..(P - 1) /\ a * P + r = i
  OBVIOUS
<1>2. c \in Nat /\ s \in 0..(P - 1) /\ c * P + s = i + 1
  OBVIOUS
<1>3. a % 4 \in 0..3 /\ i % (4 * P) = P * (a % 4) + r
  BY NextDigit
<1> HIDE DEF a, r, c, s
<1>4. CASE r < P - 1
  <2>1. LineIndex(a, r + 1, P) = LineIndex(c, s, P) /\ r + 1 \in 0..(P - 1)
    BY <1>1, <1>2, <1>4 DEF LineIndex
  <2>2. a = c
    BY <1>1, <1>2, <2>1, DivisionUnique
  <2>3. QED
    BY <1>4, <2>2 DEF a, r, c
<1>5. CASE r = P - 1
  <2>1. (a + 1) * P = a * P + P
    BY <1>1
  <2>2. LineIndex(a + 1, 0, P) = LineIndex(c, s, P) /\ 0 \in 0..(P - 1)
    BY <1>1, <1>2, <1>5, <2>1 DEF LineIndex
  <2>3. a + 1 = c /\ s = 0
    BY <1>1, <1>2, <2>2, DivisionUnique
  <2>4. a % 4 # 3
    <3>1. SUFFICES ASSUME a % 4 = 3 PROVE FALSE
      OBVIOUS
    <3>2. i % (4 * P) = P * 3 + (P - 1)
      BY <1>3, <1>5, <3>1
    <3>3. QED
      BY <3>2
  <2>5. (a + 1) % 4 = (a % 4) + 1
    BY <1>1, <1>3, <2>4
  <2>6. QED
    BY <1>3, <1>5, <2>3, <2>4, <2>5 DEF a, r, c, s
<1>6. QED
  BY <1>1, <1>4, <1>5

\* The function that HilbertCurve evaluates.
CurveOf(index) ==
  CHOOSE f : f = [k \in Nat \ {0} |->
    IF k = 1 THEN HilbertQuadruple[index % 4]
    ELSE HilbertQuadrant((index \div 2 ^ (2 * (k - 1))) % 4, 2 ^ (k - 1), f[k - 1])]

\* The turns of the loop of hilbertCurve, one after the other.
LEMMA CurveUnfolds ==
  ASSUME NEW index \in Nat
  PROVE  /\ CurveOf(index)[1] = HilbertQuadruple[index % 4]
         /\ \A k \in Nat \ {0} : CurveOf(index)[k + 1]
              = HilbertQuadrant((index \div 2 ^ (2 * k)) % 4, 2 ^ k, CurveOf(index)[k])
<1> DEFINE X == [x : Int, y : Int]
           first == HilbertQuadruple[index % 4]
           turn(k, p) == HilbertQuadrant((index \div 2 ^ (2 * k)) % 4, 2 ^ k, p)
           next == [c \in Nat \X X |-> turn(c[1], c[2])]
           Fits(f) == f = [k \in Nat \ {0} |->
                             IF k = 1 THEN HilbertQuadruple[index % 4]
                             ELSE HilbertQuadrant((index \div 2 ^ (2 * (k - 1))) % 4,
                                                  2 ^ (k - 1), f[k - 1])]
<1>1. first \in X
  <2>1. index % 4 \in 0..3
    OBVIOUS
  <2>2. QED
    BY <2>1 DEF HilbertQuadruple, At
<1>2. ASSUME NEW k \in Nat, NEW p, p \in X PROVE turn(k, p) \in X
  <2> DEFINE q == (index \div 2 ^ (2 * k)) % 4
             h == 2 ^ k
  <2>1. q \in 0..3 /\ h \in Nat
    BY PowersOfTwo, PowersOfFour, NextDigit
  <2> HIDE DEF q, h
  <2>2. HilbertQuadrant(q, h, p) \in X
    BY <1>2, <2>1 DEF HilbertQuadrant, At
  <2>3. QED
    BY <2>2 DEF q, h
<1> HIDE DEF turn, first
<1>3. next \in [Nat \X X -> X]
  <2> HIDE DEF X
  <2>1. QED
    BY <1>2
<1>4. \E f : Fits(f)
  <2> HIDE DEF X, next
  <2>1. PICK f : IterateForever(f, X, first, next)
    BY <1>1, <1>3, IteratesForever
  <2>2. f \in [Nat -> X] /\ f[0] = first
    BY <2>1 DEF IterateForever
  <2> DEFINE g == [k \in Nat \ {0} |-> f[k - 1]]
  <2>3. g[1] = first
    <3>1. 1 \in Nat \ {0} /\ 1 - 1 = 0
      OBVIOUS
    <3>2. QED
      BY <2>2, <3>1
  <2>4. ASSUME NEW k \in Nat \ {0}, k # 1
        PROVE  g[k] = turn(k - 1, g[k - 1])
    <3>1. k - 1 \in Nat \ {0} /\ k - 2 \in Nat /\ (k - 2) + 1 = k - 1 /\ (k - 1) - 1 = k - 2
      BY <2>4
    <3>2. f[k - 1] = next[<<k - 1, f[k - 2]>>] /\ f[k - 2] \in X
      BY <2>1, <3>1 DEF IterateForever
    <3>3. f[k - 1] = turn(k - 1, f[k - 2])
      BY <3>1, <3>2 DEF next
    <3>4. g[k] = f[k - 1] /\ g[k - 1] = f[k - 2]
      BY <3>1
    <3>5. QED
      BY <3>3, <3>4
  <2>5. g = [k \in Nat \ {0} |-> g[k]]
    OBVIOUS
  <2> HIDE DEF g
  <2>6. g = [k \in Nat \ {0} |-> IF k = 1 THEN first ELSE turn(k - 1, g[k - 1])]
    BY <2>3, <2>4, <2>5
  <2>7. Fits(g)
    BY <2>6 DEF first, turn
  <2> HIDE DEF Fits
  <2>8. QED
    BY <2>7
<1>5. Fits(CurveOf(index))
  <2> HIDE DEF Fits
  <2>1. CurveOf(index) = CHOOSE f : Fits(f)
    BY DEF CurveOf, Fits
  <2>2. QED
    BY <1>4, <2>1
<1>6. ASSUME NEW k \in Nat \ {0}
      PROVE  CurveOf(index)[k + 1] = turn(k, CurveOf(index)[k])
  <2> DEFINE f == CurveOf(index)
             j == k + 1
  <2>1. j \in Nat \ {0} /\ j # 1 /\ j - 1 = k
    OBVIOUS
  <2>2. f[j] = HilbertQuadrant((index \div 2 ^ (2 * (j - 1))) % 4, 2 ^ (j - 1), f[j - 1])
    <3> HIDE DEF f, j
    <3>1. f = [l \in Nat \ {0} |->
                 IF l = 1 THEN HilbertQuadruple[index % 4]
                 ELSE HilbertQuadrant((index \div 2 ^ (2 * (l - 1))) % 4,
                                      2 ^ (l - 1), f[l - 1])]
      BY <1>5 DEF f
    <3>2. QED
      BY <2>1, <3>1
  <2>3. QED
    BY <2>1, <2>2 DEF turn
<1>7. CurveOf(index)[1] = first
  <2> DEFINE f == CurveOf(index)
  <2> HIDE DEF f
  <2>1. Fits(f)
    BY <1>5 DEF f
  <2>2. 1 \in Nat \ {0}
    OBVIOUS
  <2>3. f[1] = HilbertQuadruple[index % 4]
    BY <2>1, <2>2
  <2>4. QED
    BY <2>3 DEF f, first
<1>8. QED
  BY <1>6, <1>7 DEF first, turn

\* The beginning of the induction: a quadruple.
LEMMA Quadruple ==
  ASSUME NEW i \in Nat
  PROVE  /\ CurveOf(i)[1] \in Square(2)
         /\ i % 4 \in 0..3
         /\ LET n == CurveOf(i)[1]
            IN /\ i % 4 = 0 => n.x = 0 /\ n.y = 0
               /\ i % 4 = 1 => n.x = 0 /\ n.y = 1
               /\ i % 4 = 2 => n.x = 1 /\ n.y = 1
               /\ i % 4 = 3 => n.x = 1 /\ n.y = 0
<1> DEFINE n == CurveOf(i)[1]
<1>1. i % 4 \in 0..3
  OBVIOUS
<1>2. n = HilbertQuadruple[i % 4]
  BY CurveUnfolds
<1> HIDE DEF n
<1>3. /\ i % 4 = 0 => n = At(0, 0)
      /\ i % 4 = 1 => n = At(0, 1)
      /\ i % 4 = 2 => n = At(1, 1)
      /\ i % 4 = 3 => n = At(1, 0)
  BY <1>1, <1>2 DEF HilbertQuadruple
<1>4. /\ i % 4 = 0 => n.x = 0 /\ n.y = 0
      /\ i % 4 = 1 => n.x = 0 /\ n.y = 1
      /\ i % 4 = 2 => n.x = 1 /\ n.y = 1
      /\ i % 4 = 3 => n.x = 1 /\ n.y = 0
  BY <1>1, <1>3 DEF At
<1>5. n \in Square(2)
  BY <1>1, <1>3 DEF Square, At
<1>6. QED
  BY <1>1, <1>4, <1>5 DEF n

\* The next level, with the powers of the level named.
LEMMA NextLevel ==
  ASSUME NEW k \in Nat \ {0}
  PROVE  \E h \in Nat, P \in Nat :
           /\ h = 2 ^ k /\ P = 2 ^ (2 * k) /\ h > 0 /\ P > 0
           /\ 2 ^ (k + 1) = 2 * h /\ 2 ^ (2 * (k + 1)) = 4 * P
           /\ \A i \in Nat : /\ (i \div P) % 4 \in 0..3
                             /\ CurveOf(i)[k + 1]
                                  = HilbertQuadrant((i \div P) % 4, h, CurveOf(i)[k])
<1> DEFINE h == 2 ^ k
           P == 2 ^ (2 * k)
<1>1. h \in Nat /\ h > 0 /\ 2 ^ (k + 1) = 2 * h
  BY PowersOfTwo
<1>2. P \in Nat /\ P > 0 /\ 2 ^ (2 * (k + 1)) = 4 * P
  BY PowersOfFour
<1>3. ASSUME NEW i \in Nat
      PROVE  /\ (i \div P) % 4 \in 0..3
             /\ CurveOf(i)[k + 1] = HilbertQuadrant((i \div P) % 4, h, CurveOf(i)[k])
  <2>1. CurveOf(i)[k + 1] = HilbertQuadrant((i \div P) % 4, h, CurveOf(i)[k])
    BY CurveUnfolds
  <2> HIDE DEF P
  <2>2. (i \div P) % 4 \in 0..3
    BY <1>2, NextDigit
  <2>3. QED
    BY <2>1, <2>2
<1>4. h = 2 ^ k /\ P = 2 ^ (2 * k)
  OBVIOUS
<1> HIDE DEF h, P
<1>5. QED
  BY <1>1, <1>2, <1>3, <1>4

\* After k turns the curve is in a square of side 2^k.
LEMMA CurveInSquare ==
  \A k \in Nat \ {0} : \A i \in Nat : CurveOf(i)[k] \in Square(2 ^ k)
<1> DEFINE S == {n \in Nat : \A i \in Nat : CurveOf(i)[n + 1] \in Square(2 ^ (n + 1))}
<1>1. 0 \in S
  <2>1. 0 + 1 = 1 /\ 2 ^ 0 = 1 /\ 2 ^ (0 + 1) = 2 * 2 ^ 0
    BY PowersOfTwo
  <2>2. 2 ^ (0 + 1) = 2
    BY <2>1
  <2>3. QED
    BY <2>1, <2>2, Quadruple
<1>2. ASSUME NEW n \in Nat, n \in S PROVE n + 1 \in S
  <2> DEFINE k == n + 1
  <2>1. k \in Nat \ {0}
    OBVIOUS
  <2>2. \A i \in Nat : CurveOf(i)[k] \in Square(2 ^ k)
    BY <1>2
  <2> HIDE DEF k
  <2>3. PICK h \in Nat, P \in Nat :
          /\ h = 2 ^ k /\ 2 ^ (k + 1) = 2 * h
          /\ \A i \in Nat : /\ (i \div P) % 4 \in 0..3
                            /\ CurveOf(i)[k + 1]
                                 = HilbertQuadrant((i \div P) % 4, h, CurveOf(i)[k])
    BY <2>1, NextLevel
  <2>4. ASSUME NEW i \in Nat PROVE CurveOf(i)[k + 1] \in Square(2 ^ (k + 1))
    <3> DEFINE q == (i \div P) % 4
               p == CurveOf(i)[k]
    <3>1. q \in 0..3 /\ p \in Square(h) /\ CurveOf(i)[k + 1] = HilbertQuadrant(q, h, p)
      BY <2>2, <2>3
    <3> HIDE DEF q, p
    <3>2. HilbertQuadrant(q, h, p) \in Square(2 * h)
      BY <3>1, QuadrantPlace
    <3>3. QED
      BY <2>3, <3>1, <3>2
  <2>5. QED
    BY <2>4 DEF k
<1>3. \A n \in Nat : n \in S
  <2> HIDE DEF S
  <2>1. QED
    BY <1>1, <1>2, Induction
<1>4. \A k \in Nat \ {0} : k - 1 \in Nat /\ (k - 1) + 1 = k
  OBVIOUS
<1>5. QED
  BY <1>3, <1>4

\* A position tells the bits of its index.
LEMMA CurveUnique ==
  \A k \in Nat \ {0} : \A i, j \in Nat :
    CurveOf(i)[k] = CurveOf(j)[k] => i % 2 ^ (2 * k) = j % 2 ^ (2 * k)
<1> DEFINE Unique(k) == \A i, j \in Nat :
             CurveOf(i)[k] = CurveOf(j)[k] => i % 2 ^ (2 * k) = j % 2 ^ (2 * k)
           S == {n \in Nat : Unique(n + 1)}
<1>1. 0 \in S
  <2>1. ASSUME NEW i \in Nat, NEW j \in Nat, CurveOf(i)[1] = CurveOf(j)[1]
        PROVE  i % 4 = j % 4
    BY <2>1, Quadruple
  <2>2. Unique(1)
    BY <2>1, PowersOfFour
  <2>3. 0 + 1 = 1
    OBVIOUS
  <2>4. QED
    BY <2>2, <2>3
<1>2. ASSUME NEW n \in Nat, n \in S PROVE n + 1 \in S
  <2> DEFINE k == n + 1
  <2>1. k \in Nat \ {0} /\ Unique(k)
    BY <1>2
  <2> HIDE DEF k
  <2>2. PICK h \in Nat, P \in Nat :
          /\ h = 2 ^ k /\ P = 2 ^ (2 * k) /\ P > 0 /\ 2 ^ (2 * (k + 1)) = 4 * P
          /\ \A i \in Nat : /\ (i \div P) % 4 \in 0..3
                            /\ CurveOf(i)[k + 1]
                                 = HilbertQuadrant((i \div P) % 4, h, CurveOf(i)[k])
    BY <2>1, NextLevel
  <2>3. ASSUME NEW i \in Nat, NEW j \in Nat, CurveOf(i)[k + 1] = CurveOf(j)[k + 1]
        PROVE  i % (4 * P) = j % (4 * P)
    <3> DEFINE q == (i \div P) % 4
               r == (j \div P) % 4
               p == CurveOf(i)[k]
               s == CurveOf(j)[k]
    <3>1. /\ q \in 0..3 /\ r \in 0..3 /\ p \in Square(h) /\ s \in Square(h)
          /\ HilbertQuadrant(q, h, p) = HilbertQuadrant(r, h, s)
      BY <2>1, <2>2, <2>3, CurveInSquare
    <3>2. q = r /\ p = s
      <4> HIDE DEF q, r, p, s
      <4>1. QED
        BY <3>1, QuadrantUnique
    <3>3. i % P = j % P
      BY <2>1, <2>2, <3>2
    <3>4. i % (4 * P) = P * q + (i % P) /\ j % (4 * P) = P * r + (j % P)
      BY <2>2, NextDigit
    <3>5. QED
      BY <3>2, <3>3, <3>4
  <2>4. Unique(k + 1)
    BY <2>2, <2>3
  <2>5. QED
    BY <2>4 DEF k
<1>3. \A n \in Nat : n \in S
  <2> HIDE DEF S
  <2>1. QED
    BY <1>1, <1>2, Induction
<1>4. ASSUME NEW k \in Nat \ {0} PROVE Unique(k)
  <2>1. k - 1 \in Nat /\ (k - 1) + 1 = k
    OBVIOUS
  <2> HIDE DEF Unique
  <2>2. QED
    BY <1>3, <2>1
<1>5. QED
  BY <1>4

\* The curve begins and ends in the corners of the first row.
LEMMA CurveEnds ==
  \A k \in Nat \ {0} : \A i \in Nat :
    /\ i % 2 ^ (2 * k) = 0 => CurveOf(i)[k] = At(0, 0)
    /\ i % 2 ^ (2 * k) = 2 ^ (2 * k) - 1 => CurveOf(i)[k] = At(2 ^ k - 1, 0)
<1> DEFINE Ends(k) == \A i \in Nat :
             /\ i % 2 ^ (2 * k) = 0 => CurveOf(i)[k] = At(0, 0)
             /\ i % 2 ^ (2 * k) = 2 ^ (2 * k) - 1 => CurveOf(i)[k] = At(2 ^ k - 1, 0)
           S == {n \in Nat : Ends(n + 1)}
<1>1. 0 \in S
  <2>1. ASSUME NEW i \in Nat
        PROVE  /\ i % 4 = 0 => CurveOf(i)[1] = At(0, 0)
               /\ i % 4 = 4 - 1 => CurveOf(i)[1] = At(2 - 1, 0)
    BY Quadruple DEF Square, At
  <2>2. 2 ^ 1 = 2
    <3>1. 0 + 1 = 1 /\ 2 ^ (0 + 1) = 2 * 2 ^ 0 /\ 2 ^ 0 = 1
      BY PowersOfTwo
    <3>2. QED
      BY <3>1
  <2>3. Ends(1)
    BY <2>1, <2>2, PowersOfFour
  <2>4. 0 + 1 = 1
    OBVIOUS
  <2>5. QED
    BY <2>3, <2>4
<1>2. ASSUME NEW n \in Nat, n \in S PROVE n + 1 \in S
  <2> DEFINE k == n + 1
  <2>1. k \in Nat \ {0} /\ Ends(k)
    BY <1>2
  <2> HIDE DEF k
  <2>2. PICK h \in Nat, P \in Nat :
          /\ h = 2 ^ k /\ P = 2 ^ (2 * k) /\ h > 0 /\ P > 0
          /\ 2 ^ (k + 1) = 2 * h /\ 2 ^ (2 * (k + 1)) = 4 * P
          /\ \A i \in Nat : /\ (i \div P) % 4 \in 0..3
                            /\ CurveOf(i)[k + 1]
                                 = HilbertQuadrant((i \div P) % 4, h, CurveOf(i)[k])
    BY <2>1, NextLevel
  <2>3. At(0, 0) \in Square(h) /\ At(h - 1, 0) \in Square(h)
    BY <2>2 DEF At, Square
  <2>4. HilbertQuadrant(0, h, At(0, 0)) = At(0, 0)
    BY DEF HilbertQuadrant, At
  <2>5. HilbertQuadrant(3, h, At(h - 1, 0)) = At(2 * h - 1, 0)
    BY <2>2 DEF HilbertQuadrant, At
  <2>6. ASSUME NEW i \in Nat, i % (4 * P) = 0
        PROVE  CurveOf(i)[k + 1] = At(0, 0)
    <3> DEFINE q == (i \div P) % 4
               r == i % P
    <3>1. q \in 0..3 /\ r \in 0..(P - 1) /\ P * q + r = 0
      BY <2>2, <2>6, NextDigit
    <3>2. q = 0 /\ r = 0
      <4> HIDE DEF q, r
      <4>1. P * q \in Nat
        BY <3>1
      <4>2. r = 0 /\ P * q = 0
        BY <3>1, <4>1
      <4>3. q # 0 => P * q >= P
        BY <3>1
      <4>4. QED
        BY <2>2, <4>2, <4>3
    <3>3. QED
      BY <2>1, <2>2, <2>4, <3>2
  <2>7. ASSUME NEW i \in Nat, i % (4 * P) = 4 * P - 1
        PROVE  CurveOf(i)[k + 1] = At(2 * h - 1, 0)
    <3> DEFINE q == (i \div P) % 4
               r == i % P
    <3>1. q \in 0..3 /\ r \in 0..(P - 1) /\ P * q + r = 4 * P - 1
      BY <2>2, <2>7, NextDigit
    <3>2. q = 3 /\ r = P - 1
      <4> HIDE DEF q, r
      <4>1. /\ q = 0 => P * q = 0
            /\ q = 1 => P * q = P
            /\ q = 2 => P * q = 2 * P
            /\ q = 3 => P * q = 3 * P
        OBVIOUS
      <4>2. QED
        BY <2>2, <3>1, <4>1
    <3>3. QED
      BY <2>1, <2>2, <2>5, <3>2
  <2>8. Ends(k + 1)
    BY <2>2, <2>6, <2>7
  <2>9. QED
    BY <2>8 DEF k
<1>3. \A n \in Nat : n \in S
  <2> HIDE DEF S
  <2>1. QED
    BY <1>1, <1>2, Induction
<1>4. ASSUME NEW k \in Nat \ {0} PROVE Ends(k)
  <2>1. k - 1 \in Nat /\ (k - 1) + 1 = k
    OBVIOUS
  <2> HIDE DEF Ends
  <2>2. QED
    BY <1>3, <2>1
<1>5. QED
  BY <1>4

\* From an index to the next the curve goes to a position beside.
LEMMA CurveNear ==
  \A k \in Nat \ {0} : \A i \in Nat :
    i % 2 ^ (2 * k) < 2 ^ (2 * k) - 1 => Beside(CurveOf(i)[k], CurveOf(i + 1)[k])
<1> DEFINE NearBy(k) == \A i \in Nat :
             i % 2 ^ (2 * k) < 2 ^ (2 * k) - 1 => Beside(CurveOf(i)[k], CurveOf(i + 1)[k])
           S == {n \in Nat : NearBy(n + 1)}
<1>1. 0 \in S
  <2>1. ASSUME NEW i \in Nat, i % 4 < 4 - 1
        PROVE  Beside(CurveOf(i)[1], CurveOf(i + 1)[1])
    <3>1. i + 1 \in Nat /\ (i + 1) % 4 = (i % 4) + 1 /\ i % 4 \in 0..2
      BY <2>1
    <3> DEFINE p == CurveOf(i)[1]
               q == CurveOf(i + 1)[1]
    <3>2. /\ i % 4 = 0 => p.x = 0 /\ p.y = 0
          /\ i % 4 = 1 => p.x = 0 /\ p.y = 1
          /\ i % 4 = 2 => p.x = 1 /\ p.y = 1
      BY Quadruple
    <3>3. /\ (i + 1) % 4 = 1 => q.x = 0 /\ q.y = 1
          /\ (i + 1) % 4 = 2 => q.x = 1 /\ q.y = 1
          /\ (i + 1) % 4 = 3 => q.x = 1 /\ q.y = 0
      BY <3>1, Quadruple
    <3> HIDE DEF p, q
    <3>4. Beside(p, q)
      BY <3>1, <3>2, <3>3 DEF Beside
    <3>5. QED
      BY <3>4 DEF p, q
  <2>2. NearBy(1)
    BY <2>1, PowersOfFour
  <2>3. 0 + 1 = 1
    OBVIOUS
  <2>4. QED
    BY <2>2, <2>3
<1>2. ASSUME NEW n \in Nat, n \in S PROVE n + 1 \in S
  <2> DEFINE k == n + 1
  <2>1. k \in Nat \ {0} /\ NearBy(k)
    BY <1>2
  <2> HIDE DEF k
  <2>2. PICK h \in Nat, P \in Nat :
          /\ h = 2 ^ k /\ P = 2 ^ (2 * k) /\ h > 0 /\ P > 0
          /\ 2 ^ (k + 1) = 2 * h /\ 2 ^ (2 * (k + 1)) = 4 * P
          /\ \A i \in Nat : /\ (i \div P) % 4 \in 0..3
                            /\ CurveOf(i)[k + 1]
                                 = HilbertQuadrant((i \div P) % 4, h, CurveOf(i)[k])
    BY <2>1, NextLevel
  <2>3. ASSUME NEW i \in Nat, i % (4 * P) < 4 * P - 1
        PROVE  Beside(CurveOf(i)[k + 1], CurveOf(i + 1)[k + 1])
    <3> DEFINE j == i + 1
               q == (i \div P) % 4
               r == (j \div P) % 4
               p == CurveOf(i)[k]
               s == CurveOf(j)[k]
    <3>1. j \in Nat
      OBVIOUS
    <3>2. \/ i % P < P - 1 /\ j \div P = i \div P
          \/ i % P = P - 1 /\ j % P = 0 /\ q \in 0..2 /\ r = q + 1
      BY <2>2, <2>3, NextInQuadrant
    <3>3. /\ CurveOf(i)[k + 1] = HilbertQuadrant(q, h, p)
          /\ CurveOf(j)[k + 1] = HilbertQuadrant(r, h, s)
          /\ q \in 0..3 /\ r \in 0..3 /\ p \in Square(h) /\ s \in Square(h)
      BY <2>1, <2>2, <3>1, CurveInSquare
    <3>4. CASE i % P < P - 1 /\ j \div P = i \div P
      <4>1. Beside(p, s)
        BY <2>1, <2>2, <3>4
      <4>2. q = r
        BY <3>4
      <4> HIDE DEF p, q, r, s, j
      <4>3. Beside(HilbertQuadrant(q, h, p), HilbertQuadrant(q, h, s))
        BY <3>3, <4>1, QuadrantNear
      <4>4. QED
        BY <3>3, <4>2, <4>3 DEF j
    <3>5. CASE i % P = P - 1 /\ j % P = 0 /\ q \in 0..2 /\ r = q + 1
      <4>1. p = At(h - 1, 0) /\ s = At(0, 0)
        BY <2>1, <2>2, <3>1, <3>5, CurveEnds
      <4> HIDE DEF p, q, r, s, j
      <4>2. Beside(HilbertQuadrant(q, h, At(h - 1, 0)), HilbertQuadrant(q + 1, h, At(0, 0)))
        BY <2>2, <3>5, QuadrantsMeet
      <4>3. QED
        BY <3>3, <3>5, <4>1, <4>2 DEF j
    <3>6. QED
      BY <3>2, <3>4, <3>5
  <2>4. NearBy(k + 1)
    BY <2>2, <2>3
  <2>5. QED
    BY <2>4 DEF k
<1>3. \A n \in Nat : n \in S
  <2> HIDE DEF S
  <2>1. QED
    BY <1>1, <1>2, Induction
<1>4. ASSUME NEW k \in Nat \ {0} PROVE NearBy(k)
  <2>1. k - 1 \in Nat /\ (k - 1) + 1 = k
    OBVIOUS
  <2> HIDE DEF NearBy
  <2>2. QED
    BY <1>3, <2>1
<1>5. QED
  BY <1>4

\* A smaller number has the quotient zero.
LEMMA SmallQuotient ==
  ASSUME NEW i \in Nat, NEW P \in Nat, i < P
  PROVE  i \div P = 0
<1>1. P \in Nat \ {0}
  OBVIOUS
<1>2. i % P \in 0..(P - 1) /\ i \div P \in Nat /\ (i \div P) * P + (i % P) = i
  BY <1>1
<1>3. i \in 0..(P - 1) /\ 0 * P + i = i
  OBVIOUS
<1>4. LineIndex(i \div P, i % P, P) = LineIndex(0, i, P)
  BY <1>2, <1>3 DEF LineIndex
<1>5. QED
  BY <1>1, <1>2, <1>3, <1>4, DivisionUnique

\* The surplus turns: levels that no bit of the index is left for only transpose.
LEMMA CurveStays ==
  ASSUME NEW m \in Nat \ {0}, NEW i \in Nat, i < 2 ^ (2 * m),
         NEW k \in Nat, k >= m
  PROVE  CurveOf(i)[k] \in Square(2 ^ m)
<1> DEFINE side == 2 ^ m
           S == {n \in Nat : CurveOf(i)[m + n] \in Square(side)}
<1>1. 0 \in S
  <2>1. m + 0 = m
    OBVIOUS
  <2>2. QED
    BY <2>1, CurveInSquare
<1>2. ASSUME NEW n \in Nat, n \in S PROVE n + 1 \in S
  <2> DEFINE l == m + n
             p == CurveOf(i)[l]
  <2>1. l \in Nat \ {0} /\ m + (n + 1) = l + 1 /\ 2 * m <= 2 * l /\ 2 * m \in Nat /\ 2 * l \in Nat
    OBVIOUS
  <2>2. p \in Square(side)
    BY <1>2
  <2> HIDE DEF l, p, side
  <2>3. PICK h \in Nat, P \in Nat :
          /\ P = 2 ^ (2 * l) /\ P > 0
          /\ \A j \in Nat : /\ (j \div P) % 4 \in 0..3
                            /\ CurveOf(j)[l + 1]
                                 = HilbertQuadrant((j \div P) % 4, h, CurveOf(j)[l])
    BY <2>1, NextLevel
  <2>4. i < P
    <3>1. 2 ^ (2 * m) <= 2 ^ (2 * l)
      BY <2>1, PowersGrow
    <3>2. 2 ^ (2 * m) \in Nat
      BY <2>1, PowersOfTwo
    <3>3. QED
      BY <2>3, <3>1, <3>2
  <2>5. i \div P = 0
    <3>1. P \in Nat
      BY <2>3
    <3>2. QED
      BY <2>4, <3>1, SmallQuotient
  <2>6. (i \div P) % 4 = 0
    <3>1. 0 % 4 = 0
      OBVIOUS
    <3>2. QED
      BY <2>5, <3>1, Zenon
  <2>7. CurveOf(i)[l + 1] = At(p.y, p.x)
    BY <2>3, <2>6 DEF HilbertQuadrant, p
  <2>8. At(p.y, p.x) \in Square(side)
    BY <2>2 DEF Square, At
  <2>9. QED
    BY <2>1, <2>7, <2>8
<1>3. k - m \in S
  <2> HIDE DEF S
  <2>1. k - m \in Nat
    OBVIOUS
  <2>2. QED
    BY <1>1, <1>2, <2>1, Induction
<1>4. m + (k - m) = k
  OBVIOUS
<1>5. QED
  BY <1>3, <1>4

-----------------------------------------------------------------------------
(***************************************************************************)
(* The number of levels.                                                   *)
(***************************************************************************)
IsLog2(n, k) == IF n < 2 THEN k = 0 ELSE 2 ^ k <= n /\ n < 2 ^ (k + 1)

\* Every number has a logarithm.
LEMMA Log2Exists == \A n \in Nat : \E k \in Nat : IsLog2(n, k)
<1> DEFINE S == {n \in Nat : \E k \in Nat : IsLog2(n, k)}
<1>1. 0 \in S
  BY DEF IsLog2
<1>2. ASSUME NEW n \in Nat, n \in S PROVE n + 1 \in S
  <2>1. PICK k \in Nat : IsLog2(n, k)
    BY <1>2
  <2>2. CASE n + 1 < 2
    BY <2>2 DEF IsLog2
  <2>3. CASE n + 1 = 2
    <3>1. 2 ^ 0 = 1 /\ 2 ^ (0 + 1) = 2 * 2 ^ 0 /\ 2 ^ (1 + 1) = 2 * 2 ^ 1 /\ 0 + 1 = 1
      BY PowersOfTwo
    <3>2. 2 ^ 1 = 2 /\ 2 ^ (1 + 1) = 4
      BY <3>1
    <3>3. IsLog2(n + 1, 1)
      BY <2>3, <3>2 DEF IsLog2
    <3>4. QED
      BY <3>3
  <2>4. CASE n >= 2
    <3>1. 2 ^ k <= n /\ n < 2 ^ (k + 1) /\ ~(n + 1 < 2)
      BY <2>1, <2>4 DEF IsLog2
    <3>2. /\ 2 ^ k \in Nat /\ 2 ^ (k + 1) \in Nat /\ 2 ^ (k + 1) > 0
          /\ 2 ^ ((k + 1) + 1) = 2 * 2 ^ (k + 1)
      BY PowersOfTwo
    <3>3. IsLog2(n + 1, k) \/ IsLog2(n + 1, k + 1)
      BY <3>1, <3>2 DEF IsLog2
    <3>4. QED
      BY <3>3
  <2>5. QED
    BY <2>2, <2>3, <2>4
<1>3. \A n \in Nat : n \in S
  <2> HIDE DEF S
  <2>1. QED
    BY <1>1, <1>2, Induction
<1>4. QED
  BY <1>3

\* No number has two logarithms.
LEMMA Log2Unique ==
  ASSUME NEW n \in Nat, NEW k \in Nat, NEW l \in Nat, IsLog2(n, k), IsLog2(n, l)
  PROVE  k = l
<1>1. ASSUME NEW a \in Nat, NEW b \in Nat, a < b, 2 ^ b <= n, n < 2 ^ (a + 1)
      PROVE  FALSE
  <2>1. a + 1 \in Nat /\ a + 1 <= b
    BY <1>1
  <2>2. 2 ^ (a + 1) <= 2 ^ b /\ 2 ^ (a + 1) \in Nat /\ 2 ^ b \in Nat
    BY <2>1, PowersGrow, PowersOfTwo
  <2>3. QED
    BY <1>1, <2>2
<1>2. QED
  BY <1>1 DEF IsLog2

\* One bit less.
LEMMA Log2Halves ==
  ASSUME NEW n \in Nat, n >= 2, NEW k \in Nat, IsLog2(n \div 2, k)
  PROVE  IsLog2(n, k + 1)
<1> DEFINE a == n \div 2
<1>1. a \in Nat /\ a >= 1 /\ (n = 2 * a \/ n = 2 * a + 1)
  OBVIOUS
<1>2. IsLog2(a, k)
  OBVIOUS
<1> HIDE DEF a
<1>3. /\ 2 ^ k \in Nat /\ 2 ^ (k + 1) \in Nat /\ 2 ^ (k + 1) = 2 * 2 ^ k
      /\ 2 ^ ((k + 1) + 1) = 2 * 2 ^ (k + 1)
  BY PowersOfTwo
<1>4. 2 ^ k <= a /\ a < 2 ^ (k + 1)
  <2>1. CASE a < 2
    <3>1. a = 1 /\ k = 0
      BY <1>1, <1>2, <2>1 DEF IsLog2
    <3>2. 2 ^ 0 = 1 /\ 0 + 1 = 1 /\ 2 ^ (0 + 1) = 2 * 2 ^ 0
      BY PowersOfTwo
    <3>3. QED
      BY <3>1, <3>2
  <2>2. CASE a >= 2
    BY <1>1, <1>2, <2>2 DEF IsLog2
  <2>3. QED
    BY <1>1, <2>1, <2>2
<1>5. 2 ^ (k + 1) <= n /\ n < 2 ^ ((k + 1) + 1)
  BY <1>1, <1>3, <1>4
<1>6. QED
  BY <1>5 DEF IsLog2

\* The recursion Log2 computes the logarithm.
LEMMA Log2Is == \A n \in Nat : Log2[n] \in Nat /\ IsLog2(n, Log2[n])
<1> DEFINE L == [n \in Nat |-> CHOOSE k \in Nat : IsLog2(n, k)]
           Fits(f) == f = [n \in Nat |-> IF n < 2 THEN 0 ELSE 1 + f[n \div 2]]
<1>1. \A n \in Nat : L[n] \in Nat /\ IsLog2(n, L[n])
  BY Log2Exists
<1>2. ASSUME NEW n \in Nat PROVE L[n] = IF n < 2 THEN 0 ELSE 1 + L[n \div 2]
  <2>1. CASE n < 2
    BY <1>1, <2>1 DEF IsLog2
  <2>2. CASE n >= 2
    <3>1. n \div 2 \in Nat
      OBVIOUS
    <3> HIDE DEF L
    <3>2. IsLog2(n, L[n \div 2] + 1)
      BY <1>1, <2>2, <3>1, Log2Halves
    <3>3. L[n] = L[n \div 2] + 1
      <4>1. L[n] \in Nat /\ L[n \div 2] + 1 \in Nat /\ IsLog2(n, L[n])
        BY <1>1, <3>1
      <4>2. QED
        BY <3>2, <4>1, Log2Unique
    <3>4. L[n \div 2] \in Nat
      BY <1>1, <3>1
    <3>5. QED
      BY <2>2, <3>3, <3>4
  <2>3. QED
    BY <2>1, <2>2
<1>3. Fits(L)
  <2>1. L = [n \in Nat |-> L[n]]
    OBVIOUS
  <2> HIDE DEF L
  <2>2. QED
    BY <1>2, <2>1
<1>4. Fits(Log2)
  <2> HIDE DEF Fits, L
  <2>1. Log2 = CHOOSE f : Fits(f)
    BY DEF Log2, Fits
  <2>2. \E f : Fits(f)
    BY <1>3
  <2>3. QED
    BY <2>1, <2>2
<1> DEFINE S == {b \in Nat : \A n \in Nat : n <= b => Log2[n] = L[n]}
<1>5. ASSUME NEW n \in Nat
      PROVE  /\ n < 2 => Log2[n] = 0
             /\ n >= 2 => Log2[n] = 1 + Log2[n \div 2]
  BY <1>4
<1>6. 0 \in S
  <2> HIDE DEF L, Fits
  <2>1. Log2[0] = 0 /\ L[0] = 0
    BY <1>2, <1>5
  <2>2. \A n \in Nat : n <= 0 => n = 0
    OBVIOUS
  <2>3. QED
    BY <2>1, <2>2
<1>7. ASSUME NEW b \in Nat, b \in S PROVE b + 1 \in S
  <2>1. ASSUME NEW n \in Nat, n = b + 1 PROVE Log2[n] = L[n]
    <3> HIDE DEF L, Fits
    <3>1. CASE n < 2
      BY <1>2, <1>5, <3>1
    <3>2. CASE n >= 2
      <4>1. n \div 2 \in Nat /\ n \div 2 <= b
        BY <2>1, <3>2
      <4>2. Log2[n \div 2] = L[n \div 2]
        BY <1>7, <4>1
      <4>3. QED
        BY <1>2, <1>5, <3>2, <4>2
    <3>3. QED
      BY <3>1, <3>2
  <2>2. \A n \in Nat : n <= b + 1 => n <= b \/ n = b + 1
    OBVIOUS
  <2>3. QED
    BY <1>7, <2>1, <2>2
<1>8. \A b \in Nat : b \in S
  <2> HIDE DEF S
  <2>1. QED
    BY <1>6, <1>7, Induction
<1>9. \A n \in Nat : Log2[n] = L[n]
  BY <1>8
<1> HIDE DEF L
<1>10. QED
  BY <1>1, <1>9

\* The levels have bits for all indices of a block.
LEMMA Levels ==
  /\ Log2[BlockSize] \in Nat \ {0}
  /\ BlockSize < 2 ^ (2 * Log2[BlockSize])
<1> DEFINE K == Log2[BlockSize]
<1>1. K \in Nat /\ IsLog2(BlockSize, K) /\ BlockSize \in Nat /\ BlockSize > 1
  BY Log2Is, SizeFacts
<1> HIDE DEF K
<1>2. BlockSize < 2 ^ (K + 1)
  BY <1>1 DEF IsLog2
<1>3. K # 0
  <2>1. 0 + 1 = 1 /\ 2 ^ 0 = 1 /\ 2 ^ (0 + 1) = 2 * 2 ^ 0
    BY PowersOfTwo
  <2>2. 2 ^ (0 + 1) = 2
    BY <2>1
  <2>3. K = 0 => 2 ^ (K + 1) = 2
    BY <2>2
  <2>4. QED
    BY <1>1, <1>2, <2>3
<1>4. 2 ^ (K + 1) <= 2 ^ (2 * K) /\ 2 ^ (K + 1) \in Nat /\ 2 ^ (2 * K) \in Nat
  <2>1. K + 1 \in Nat /\ 2 * K \in Nat /\ K + 1 <= 2 * K
    BY <1>1, <1>3
  <2>2. QED
    BY <2>1, PowersGrow, PowersOfTwo
<1>5. QED
  BY <1>1, <1>2, <1>3, <1>4 DEF K

\* A square with a side of two to the m has two levels' bits for each of m.
LEMMA SquareLevels ==
  ASSUME NEW m \in Nat, BlockWidth = 2 ^ m, BlockHeight = 2 ^ m
  PROVE  m # 0 /\ BlockSize = 2 ^ (2 * m) /\ Log2[BlockSize] = 2 * m
<1>1. m # 0
  BY PowersOfTwo, BlockAssumption
<1>2. \A n \in Nat : 2 ^ (2 * n) = 2 ^ n * 2 ^ n
  <2> DEFINE S == {n \in Nat : 2 ^ (2 * n) = 2 ^ n * 2 ^ n}
  <2>1. 0 \in S
    <3>1. 2 * 0 = 0 /\ 2 ^ 0 = 1
      BY PowersOfTwo
    <3>2. QED
      BY <3>1
  <2>2. ASSUME NEW n \in Nat, n \in S PROVE n + 1 \in S
    <3> DEFINE x == 2 ^ n
               y == 2 ^ (2 * n)
    <3>1. x \in Nat /\ y \in Nat /\ y = x * x
      BY <2>2, PowersOfTwo, PowersOfFour
    <3>2. 2 ^ (n + 1) = 2 * x /\ 2 ^ (2 * (n + 1)) = 4 * y
      BY PowersOfTwo, PowersOfFour
    <3> HIDE DEF x, y
    <3>3. 4 * y = (2 * x) * (2 * x)
      BY <3>1
    <3>4. QED
      BY <3>2, <3>3
  <2> HIDE DEF S
  <2>3. \A n \in Nat : n \in S
    BY <2>1, <2>2, Induction
  <2>4. QED
    BY <2>3 DEF S
<1>3. BlockSize = 2 ^ (2 * m)
  BY <1>2 DEF BlockSize
<1>4. IsLog2(BlockSize, 2 * m)
  <2>1. 2 * m \in Nat /\ BlockSize \in Nat /\ BlockSize > 1
    BY SizeFacts
  <2>2. 2 ^ (2 * m + 1) = 2 * 2 ^ (2 * m)
    BY <2>1, PowersOfTwo
  <2>3. BlockSize < 2 ^ (2 * m + 1)
    BY <1>3, <2>1, <2>2
  <2>4. QED
    BY <1>3, <2>1, <2>3 DEF IsLog2
<1>5. Log2[BlockSize] = 2 * m
  <2>1. BlockSize \in Nat /\ 2 * m \in Nat
    BY SizeFacts
  <2>2. Log2[BlockSize] \in Nat /\ IsLog2(BlockSize, Log2[BlockSize])
    BY <2>1, Log2Is
  <2>3. QED
    BY <1>4, <2>1, <2>2, Log2Unique
<1>6. QED
  BY <1>1, <1>3, <1>5

\* Hilbert's position of an index is the curve after all turns of the loop.
LEMMA HilbertIs ==
  ASSUME NEW i
  PROVE  IteratorPos("HilbertCurve", i) = CurveOf(i)[Log2[BlockSize]]
<1>1. IteratorPos("HilbertCurve", i) = HilbertCurve(i)
  BY DEF IteratorPos, PosInBlock
<1>2. HilbertCurve(i) = CurveOf(i)[Log2[BlockSize]]
  BY DEF HilbertCurve, CurveOf
<1>3. QED
  BY <1>1, <1>2

\* All indices of a block, and the one behind the last, are below the levels.
LEMMA IndexInLevels ==
  ASSUME NEW i \in 0..BlockSize
  PROVE  i \in Nat /\ i % 2 ^ (2 * Log2[BlockSize]) = i
<1> DEFINE P == 2 ^ (2 * Log2[BlockSize])
<1>1. P \in Nat /\ BlockSize \in Nat /\ BlockSize < P
  BY Levels, PowersOfFour, SizeFacts
<1> HIDE DEF P
<1>2. i \in 0..(P - 1) /\ P \in Nat \ {0} /\ i \in Nat
  BY <1>1
<1>3. i % P = i
  <2>1. i % P \in 0..(P - 1) /\ i \div P \in Nat /\ (i \div P) * P + (i % P) = i
    BY <1>2
  <2>2. i \div P = 0
    BY <1>1, <1>2, SmallQuotient
  <2>3. (i \div P) * P = 0
    BY <1>1, <2>2
  <2>4. QED
    BY <1>2, <2>1, <2>3
<1>4. QED
  BY <1>2, <1>3 DEF P

\* Hilbert's curve scans a square whose side is a power of two.
LEMMA HilbertScans ==
  ASSUME Suits("HilbertCurve")
  PROVE  Scans("HilbertCurve")
<1> DEFINE K == Log2[BlockSize]
<1>1. PICK m \in Nat : BlockWidth = 2 ^ m /\ BlockHeight = 2 ^ m
  BY DEF Suits
<1>2. m \in Nat \ {0} /\ BlockSize = 2 ^ (2 * m) /\ K = 2 * m
  BY <1>1, SquareLevels
<1>3. K \in Nat \ {0} /\ K >= m
  BY <1>2, Levels
<1> HIDE DEF K
<1>4. ASSUME NEW i \in Index
      PROVE  /\ IteratorPos("HilbertCurve", i) = CurveOf(i)[K]
             /\ i \in Nat /\ i < BlockSize /\ i % 2 ^ (2 * K) = i
  <2>1. i \in 0..BlockSize /\ i < BlockSize
    BY SizeFacts DEF Index
  <2>2. QED
    BY <2>1, HilbertIs, IndexInLevels DEF K
<1>5. ASSUME NEW i \in Index PROVE IteratorPos("HilbertCurve", i) \in InBlock
  <2>1. i \in Nat /\ i < 2 ^ (2 * m)
    BY <1>2, <1>4
  <2>2. CurveOf(i)[K] \in Square(2 ^ m)
    BY <1>2, <1>3, <2>1, CurveStays
  <2>3. Square(2 ^ m) = InBlock
    BY <1>1 DEF Square, InBlock
  <2>4. QED
    BY <1>4, <2>2, <2>3
<1>6. ASSUME NEW i \in Index, NEW j \in Index,
             IteratorPos("HilbertCurve", i) = IteratorPos("HilbertCurve", j)
      PROVE  i = j
  <2>1. CurveOf(i)[K] = CurveOf(j)[K] /\ i \in Nat /\ j \in Nat
    BY <1>4, <1>6
  <2>2. i % 2 ^ (2 * K) = j % 2 ^ (2 * K)
    BY <1>3, <2>1, CurveUnique
  <2>3. QED
    BY <1>4, <2>2
<1>7. QED
  BY <1>5, <1>6 DEF Scans

-----------------------------------------------------------------------------
(***************************************************************************)
(* Every method.                                                           *)
(***************************************************************************)
\* The methods there are.
LEMMA TheMethods ==
  ScanMethod = {"Vertical", "Horizontal", "ZigZag", "HilbertCurve", "MortonCurve"}
<1>1. DOMAIN ScanMethods = {1, 2, 3, 4, 5}
  BY DEF ScanMethods
<1>2. /\ ScanMethods[1] = "Vertical" /\ ScanMethods[2] = "Horizontal"
      /\ ScanMethods[3] = "ZigZag" /\ ScanMethods[4] = "HilbertCurve"
      /\ ScanMethods[5] = "MortonCurve"
  BY DEF ScanMethods
<1>3. QED
  BY <1>1, <1>2 DEF ScanMethod

\* A method that suits the block scans it.
LEMMA SuitedScans ==
  ASSUME NEW method, Suits(method)
  PROVE  Scans(method)
<1>1. method \in ScanMethod
  BY DEF Suits
<1>2. CASE method = "Vertical"
  BY <1>2, ColumnsScan
<1>3. CASE method = "Horizontal"
  BY <1>3, RowsScan
<1>4. CASE method = "ZigZag"
  BY <1>4, ZigZagScans
<1>5. CASE method = "HilbertCurve"
  BY <1>5, HilbertScans
<1>6. CASE method = "MortonCurve"
  BY <1>6, MortonScans
<1>7. QED
  BY <1>1, <1>2, <1>3, <1>4, <1>5, <1>6, TheMethods

\* There are as many indices as positions, so that none is left out.
LEMMA ScansCover ==
  ASSUME NEW method, Scans(method)
  PROVE  {IteratorPos(method, i) : i \in Index} = InBlock
<1> DEFINE Seen == {IteratorPos(method, i) : i \in Index}
           f == [i \in Index |-> IteratorPos(method, i)]
<1>1. f \in Bijection(Index, Seen)
  <2>1. f \in [Index -> Seen]
    OBVIOUS
  <2>2. \A i, j \in Index : f[i] = f[j] => i = j
    BY DEF Scans
  <2>3. \A p \in Seen : \E i \in Index : f[i] = p
    OBVIOUS
  <2> HIDE DEF f, Seen
  <2>4. QED
    BY <2>1, <2>2, <2>3, Fun_IsBij
<1>2. Seen \in SUBSET InBlock
  BY DEF Scans
<1>3. IsFiniteSet(Index) /\ Cardinality(Index) = BlockSize
  <2>1. BlockSize \in Nat /\ BlockSize > 1
    BY SizeFacts
  <2>2. 0 \in Int /\ BlockSize - 1 \in Int /\ 0 <= BlockSize - 1
    BY <2>1
  <2>3. /\ IsFiniteSet(0..(BlockSize - 1))
        /\ Cardinality(0..(BlockSize - 1)) = (BlockSize - 1) - 0 + 1
    BY <2>1, <2>2, FS_Interval
  <2>4. QED
    BY <2>1, <2>3 DEF Index
<1> HIDE DEF f, Seen
<1>4. Cardinality(Seen) = BlockSize
  <2>1. ExistsBijection(Index, Seen)
    BY <1>1 DEF ExistsBijection
  <2>2. QED
    BY <1>3, <2>1, FS_Bijection
<1>5. Seen = InBlock
  <2>1. IsFiniteSet(InBlock) /\ Cardinality(InBlock) = Cardinality(Seen)
    BY <1>4, PositionCount
  <2>2. QED
    BY <1>2, <2>1, FS_Subset
<1>6. QED
  BY <1>5 DEF Seen

\* Every method begins at the origin.
LEMMA FirstPos ==
  ASSUME NEW method \in ScanMethod
  PROVE  IteratorPos(method, 0) = Origin
<1>1. 0 % BlockWidth = 0 /\ 0 \div BlockWidth = 0 /\ 0 % BlockHeight = 0 /\ 0 \div BlockHeight = 0
  BY BlockAssumption
<1>2. CASE method = "Vertical"
  BY <1>1, <1>2 DEF IteratorPos, PosInBlock, Vertical, At, Origin
<1>3. CASE method = "Horizontal"
  BY <1>1, <1>3 DEF IteratorPos, PosInBlock, Horizontal, At, Origin
<1>4. CASE method = "ZigZag"
  BY <1>4, ZigZagUnfolds DEF IteratorPos
<1>5. CASE method = "HilbertCurve"
  <2>1. 0 \in 0..BlockSize
    BY SizeFacts
  <2>2. 0 \in Nat /\ 0 % 2 ^ (2 * Log2[BlockSize]) = 0
    BY <2>1, IndexInLevels
  <2>3. CurveOf(0)[Log2[BlockSize]] = At(0, 0)
    BY <2>2, Levels, CurveEnds
  <2>4. QED
    BY <1>5, <2>3, HilbertIs DEF At, Origin
<1>6. CASE method = "MortonCurve"
  <2>1. 0 \div 4 = 0 /\ 0 * 2 = 0 /\ 0 % 2 = 0 /\ 0 % 4 = 0 /\ 0 \div 2 = 0 /\ 0 + 0 = 0
    OBVIOUS
  <2>2. 0 \div (2 * BlockHeight) = 0
    <3>1. 2 * BlockHeight \in Nat /\ 0 < 2 * BlockHeight
      BY BlockAssumption
    <3>2. QED
      BY <3>1, SmallQuotient
  <2>3. MortonCurve(0) = At(0, 0)
    BY <1>1, <2>1, <2>2 DEF MortonCurve
  <2>4. QED
    BY <1>6, <2>3 DEF IteratorPos, PosInBlock, At, Origin
<1>7. QED
  BY <1>2, <1>3, <1>4, <1>5, <1>6, TheMethods

\* No coordinate is negative, not even behind the last position of a block.
LEMMA PosType ==
  ASSUME NEW method \in ScanMethod, NEW i \in 0..BlockSize
  PROVE  IteratorPos(method, i) \in [x : Nat, y : Nat]
<1>1. i \in Nat
  BY SizeFacts
<1>2. CASE method = "Vertical"
  BY <1>1, <1>2, BlockAssumption DEF IteratorPos, PosInBlock, Vertical, At
<1>3. CASE method = "Horizontal"
  BY <1>1, <1>3, BlockAssumption DEF IteratorPos, PosInBlock, Horizontal, At
<1>4. CASE method = "ZigZag"
  <2> DEFINE z == ZigZagAfter[i]
  <2>1. CASE i < BlockSize
    <3>1. i \in Index
      BY <1>1, <2>1, SizeFacts DEF Index
    <3>2. z.pos \in InBlock
      BY <3>1, TrailGoesRound DEF Trail
    <3>3. QED
      BY <1>4, <3>2, BlockAssumption DEF IteratorPos, InBlock
  <2>2. CASE i = BlockSize
    <3> DEFINE y == ZigZagAfter[i - 1]
    <3>1. i - 1 \in Index /\ i - 1 \in Nat /\ (i - 1) + 1 = i
      BY <2>2, SizeFacts DEF Index
    <3>2. /\ y.pos \in InBlock /\ y.state \in ZigZagState
          /\ y.pos = Corner \/ CanMove(y.pos, y.state)
      BY <3>1, TrailGoesRound DEF Trail
    <3>3. z.pos = ZigZagPos(y.pos, y.state)
      <4>1. ZigZagAfter[(i - 1) + 1] = ZigZagMove(y.pos, y.state)
        BY <3>1, ZigZagUnfolds
      <4>2. z = ZigZagMove(y.pos, y.state)
        BY <3>1, <4>1
      <4>3. QED
        BY <4>2 DEF ZigZagMove
    <3> HIDE DEF y, z
    <3>4. /\ y.pos.x \in Nat /\ y.pos.y \in Nat
          /\ y.state = "LeftDown" => y.pos.x > 0
          /\ y.state = "RightUp" => y.pos.y > 0
      BY <3>2, BlockAssumption DEF InBlock, Corner, At, CanMove
    <3>5. z.pos \in [x : Nat, y : Nat]
      BY <3>2, <3>3, <3>4 DEF ZigZagPos, ZigZagState, At
    <3>6. QED
      BY <1>4, <3>5 DEF IteratorPos, z
  <2>3. QED
    BY <1>1, <2>1, <2>2, SizeFacts
<1>5. CASE method = "HilbertCurve"
  <2>1. CurveOf(i)[Log2[BlockSize]] \in Square(2 ^ Log2[BlockSize])
    BY <1>1, Levels, CurveInSquare
  <2>2. 2 ^ Log2[BlockSize] \in Nat
    BY Levels, PowersOfTwo
  <2>3. Square(2 ^ Log2[BlockSize]) \subseteq [x : Nat, y : Nat]
    BY <2>2 DEF Square
  <2>4. QED
    BY <1>5, <2>1, <2>3, HilbertIs
<1>6. CASE method = "MortonCurve"
  <2> DEFINE a == i \div 4
             b == i % 2
             c == i \div (2 * BlockHeight)
             d == (i % 4) \div 2
  <2>1. a \in Nat /\ b \in Nat /\ d \in Nat
    BY <1>1
  <2>2. c \in Nat
    <3>1. 2 * BlockHeight \in Nat \ {0}
      BY BlockAssumption
    <3>2. QED
      BY <1>1, <3>1
  <2>3. MortonCurve(i) = At(((a * 2) % BlockWidth) + b, c * 2 + d)
    BY DEF MortonCurve
  <2> HIDE DEF a, b, c, d
  <2>4. (a * 2) % BlockWidth \in Nat
    BY <2>1, BlockAssumption
  <2>5. ((a * 2) % BlockWidth) + b \in Nat /\ c * 2 + d \in Nat
    BY <2>1, <2>2, <2>4
  <2>6. QED
    BY <1>6, <2>3, <2>5 DEF IteratorPos, PosInBlock, At
<1>7. QED
  BY <1>2, <1>3, <1>4, <1>5, <1>6, TheMethods

-----------------------------------------------------------------------------
(***************************************************************************)
(* The walk of the decoder.                                                *)
(***************************************************************************)
\* Where the decoder stands after n moves.
ScanAfter(method, n) ==
  [index |-> n, pos |-> IteratorPos(method, n),
   zigZagState |-> IF method = "ZigZag" THEN ZigZagAfter[n].state ELSE "Right",
   scanMethod |-> method]

\* The positions of the indices up to n.
Seen(method, n) == {IteratorPos(method, i) : i \in {j \in Index : j <= n}}

\* The strengthening: the walk is that of the encoder's iterator.
ScanInv ==
  /\ scan.index \in 0..BlockSize
  /\ scan.scanMethod \in ScanMethod
  /\ scan = ScanAfter(scan.scanMethod, scan.index)
  /\ visited = Seen(scan.scanMethod, scan.index)

\* A reset scan has made no move.
LEMMA ResetIsFirst ==
  ASSUME NEW method \in ScanMethod
  PROVE  ResetScan(method) = ScanAfter(method, 0)
BY FirstPos, ZigZagUnfolds DEF ResetScan, ScanAfter

\* A move of the scan is one move more.
LEMMA MoveIsNext ==
  ASSUME NEW method, NEW n \in Nat
  PROVE  MoveScan(ScanAfter(method, n)) = ScanAfter(method, n + 1)
<1> DEFINE s == ScanAfter(method, n)
<1>1. s.index = n /\ s.scanMethod = method /\ s.pos = IteratorPos(method, n)
  BY DEF ScanAfter
<1>2. CASE method = "ZigZag"
  <2> DEFINE z == ZigZagAfter[n]
             moved == ZigZagAfter[n + 1]
  <2>1. moved = ZigZagMove(z.pos, z.state)
    BY ZigZagUnfolds
  <2>2. s.pos = z.pos /\ s.zigZagState = z.state
    BY <1>2 DEF IteratorPos, ScanAfter
  <2>3. ScanAfter(method, n + 1)
          = [index |-> n + 1, pos |-> moved.pos,
             zigZagState |-> moved.state, scanMethod |-> method]
    BY <1>2 DEF ScanAfter, IteratorPos
  <2> HIDE DEF s, z, moved
  <2>4. MoveScan(s) = [index |-> n + 1, pos |-> moved.pos,
                       zigZagState |-> moved.state, scanMethod |-> method]
    BY <1>1, <1>2, <2>1, <2>2 DEF MoveScan
  <2>5. QED
    BY <2>3, <2>4 DEF s
<1>3. CASE method # "ZigZag"
  <2>1. s.zigZagState = "Right"
    BY <1>3 DEF ScanAfter
  <2> HIDE DEF s
  <2>2. MoveScan(s) = [index |-> n + 1, pos |-> PosInBlock(method, n + 1),
                       zigZagState |-> "Right", scanMethod |-> method]
    BY <1>1, <1>3, <2>1 DEF MoveScan
  <2>3. QED
    BY <1>3, <2>2 DEF ScanAfter, IteratorPos, s
<1>4. QED
  BY <1>2, <1>3

\* Where a scan is after a reset, and what it has visited.
LEMMA StartStep ==
  ASSUME NEW method \in ScanMethod, NEW start, NEW seen,
         start = ResetScan(method), seen = {Origin}
  PROVE  /\ start.index = 0 /\ start.scanMethod = method
         /\ 0 \in 0..BlockSize
         /\ start = ScanAfter(method, 0) /\ seen = Seen(method, 0)
<1>1. {j \in Index : j <= 0} = {0} /\ 0 \in 0..BlockSize
  BY SizeFacts DEF Index
<1>2. Seen(method, 0) = {Origin}
  BY <1>1, FirstPos DEF Seen
<1>3. start = ScanAfter(method, 0)
  BY ResetIsFirst
<1>4. QED
  BY <1>1, <1>2, <1>3 DEF ScanAfter

\* The invariant holds initially.
LEMMA InitScanInv == ScanInit => ScanInv
<1>1. ScanMethods[1] \in ScanMethod
  BY TheMethods DEF ScanMethods
<1>2. QED
  BY <1>1, StartStep DEF ScanInit, ScanInv

\* A reset keeps the invariant.
LEMMA ResetKeeps ==
  ASSUME Reset
  PROVE  ScanInv'
<1>1. PICK method \in ScanMethod : scan' = ResetScan(method) /\ visited' = {Origin}
  BY DEF Reset, Restart
<1>2. visited' = {Origin}
  BY <1>1
<1>3. /\ scan'.index = 0 /\ scan'.scanMethod = method
      /\ 0 \in 0..BlockSize
      /\ scan' = ScanAfter(method, 0) /\ visited' = Seen(method, 0)
  BY <1>1, <1>2, StartStep
<1>4. QED
  BY <1>3 DEF ScanInv

\* A move keeps the invariant, and goes where the iterator goes.
LEMMA MoveKeeps ==
  ASSUME ScanInv, Move
  PROVE  /\ ScanInv'
         /\ scan'.scanMethod = scan.scanMethod /\ scan'.index = scan.index + 1
         /\ scan'.pos = IteratorPos(scan.scanMethod, scan.index + 1)
<1> DEFINE method == scan.scanMethod
           n == scan.index
<1>1. /\ method \in ScanMethod /\ n \in Nat /\ n < BlockSize /\ n + 1 \in 0..BlockSize
      /\ scan = ScanAfter(method, n) /\ visited = Seen(method, n)
      /\ scan' = MoveScan(scan)
      /\ visited' = IF n + 1 < BlockSize THEN visited \cup {scan'.pos} ELSE visited
  BY SizeFacts DEF ScanInv, Move, Advance
<1> HIDE DEF method, n
<1>2. scan' = ScanAfter(method, n + 1)
  BY <1>1, MoveIsNext
<1>3. /\ scan'.index = n + 1 /\ scan'.scanMethod = method
      /\ scan'.pos = IteratorPos(method, n + 1)
  BY <1>2 DEF ScanAfter
<1>4. visited' = Seen(method, n + 1)
  <2>1. CASE n + 1 < BlockSize
    <3>1. {j \in Index : j <= n + 1} = {j \in Index : j <= n} \cup {n + 1}
      BY <1>1, <2>1, SizeFacts DEF Index
    <3>2. QED
      BY <1>1, <1>3, <2>1, <3>1 DEF Seen
  <2>2. CASE ~(n + 1 < BlockSize)
    <3>1. {j \in Index : j <= n + 1} = {j \in Index : j <= n}
      BY <1>1, <2>2, SizeFacts DEF Index
    <3>2. QED
      BY <1>1, <2>2, <3>1 DEF Seen
  <2>3. QED
    BY <2>1, <2>2
<1>5. ScanInv'
  BY <1>1, <1>2, <1>3, <1>4 DEF ScanInv
<1>6. QED
  BY <1>3, <1>5 DEF method, n

\* Every step keeps the invariant.
LEMMA ScanNextKeeps == ScanInv /\ [ScanNext]_scanVars => ScanInv'
<1> SUFFICES ASSUME ScanInv, [ScanNext]_scanVars PROVE ScanInv'
  OBVIOUS
<1>1. CASE Reset
  BY <1>1, ResetKeeps
<1>2. CASE Move
  BY <1>2, MoveKeeps
<1>3. CASE UNCHANGED scanVars
  BY <1>3 DEF scanVars, ScanInv
<1>4. QED
  BY <1>1, <1>2, <1>3 DEF ScanNext

\* A move within a block, by a method that suits it, is to a new position.
LEMMA MoveIsNew ==
  ASSUME ScanInv, Move, Suits(scan.scanMethod), scan.index + 1 < BlockSize
  PROVE  scan'.pos \in InBlock \ visited
<1> DEFINE method == scan.scanMethod
           n == scan.index
<1>1. n \in Nat /\ n + 1 \in Index /\ visited = Seen(method, n)
  BY SizeFacts DEF ScanInv, Index
<1>2. scan'.pos = IteratorPos(method, n + 1)
  BY MoveKeeps
<1>3. Scans(method)
  BY SuitedScans
<1> HIDE DEF method, n
<1>4. IteratorPos(method, n + 1) \in InBlock
  BY <1>1, <1>3 DEF Scans
<1>5. ASSUME NEW i \in Index, i <= n PROVE IteratorPos(method, i) # IteratorPos(method, n + 1)
  <2>1. i # n + 1
    BY <1>1, <1>5, SizeFacts DEF Index
  <2>2. QED
    BY <1>1, <1>3, <2>1 DEF Scans
<1>6. QED
  BY <1>1, <1>2, <1>4, <1>5 DEF Seen

\* What has been visited is in the block, and at the end is all of it.
LEMMA SeenFacts ==
  ASSUME ScanInv, Suits(scan.scanMethod)
  PROVE  /\ visited \subseteq InBlock
         /\ scan.index = BlockSize => visited = InBlock
<1> DEFINE method == scan.scanMethod
           n == scan.index
<1>1. Scans(method) /\ visited = Seen(method, n)
  BY SuitedScans DEF ScanInv
<1> HIDE DEF method, n
<1>2. visited \subseteq InBlock
  BY <1>1 DEF Seen, Scans
<1>3. ASSUME n = BlockSize PROVE visited = InBlock
  <2>1. {j \in Index : j <= n} = Index
    BY <1>3, SizeFacts DEF Index
  <2>2. visited = {IteratorPos(method, i) : i \in Index}
    BY <1>1, <2>1 DEF Seen
  <2>3. QED
    BY <1>1, <2>2, ScansCover
<1>4. QED
  BY <1>2, <1>3 DEF n

\* What is behind the last position of a block has its type too.
LEMMA ScanTypes ==
  ASSUME ScanInv
  PROVE  scan \in [index : 0..BlockSize, pos : [x : Nat, y : Nat],
                   zigZagState : ZigZagState, scanMethod : ScanMethod]
<1> DEFINE method == scan.scanMethod
           n == scan.index
           state == IF method = "ZigZag" THEN ZigZagAfter[n].state ELSE "Right"
<1>1. n \in 0..BlockSize /\ method \in ScanMethod /\ scan = ScanAfter(method, n)
  BY DEF ScanInv
<1> HIDE DEF method, n
<1>2. IteratorPos(method, n) \in [x : Nat, y : Nat]
  BY <1>1, PosType
<1>3. state \in ZigZagState
  <2>1. CASE method = "ZigZag" /\ n < BlockSize
    <3>1. n \in Index
      BY <1>1, <2>1, SizeFacts DEF Index
    <3>2. QED
      BY <2>1, <3>1, TrailGoesRound DEF Trail
  <2>2. CASE method = "ZigZag" /\ n = BlockSize
    <3> DEFINE y == ZigZagAfter[n - 1]
    <3>1. n - 1 \in Index /\ n - 1 \in Nat /\ (n - 1) + 1 = n
      BY <2>2, SizeFacts DEF Index
    <3>2. y.pos \in InBlock /\ y.state \in ZigZagState
      BY <3>1, TrailGoesRound DEF Trail
    <3>3. ZigZagAfter[(n - 1) + 1] = ZigZagMove(y.pos, y.state)
      BY <3>1, ZigZagUnfolds
    <3>4. ZigZagAfter[n] = ZigZagMove(y.pos, y.state)
      BY <3>1, <3>3
    <3>5. ZigZagAfter[n].state = ZigZagTurn(ZigZagPos(y.pos, y.state), y.state)
      BY <3>4 DEF ZigZagMove
    <3> HIDE DEF y
    <3>6. QED
      BY <2>2, <3>2, <3>5 DEF ZigZagTurn, ZigZagState
  <2>3. CASE method # "ZigZag"
    BY <2>3 DEF ZigZagState
  <2>4. QED
    BY <1>1, <2>1, <2>2, <2>3, SizeFacts
<1>4. scan = [index |-> n, pos |-> IteratorPos(method, n),
              zigZagState |-> state, scanMethod |-> method]
  BY <1>1 DEF ScanAfter
<1> HIDE DEF state
<1>5. QED
  BY <1>1, <1>2, <1>3, <1>4

-----------------------------------------------------------------------------
(***************************************************************************)
(* The theorems.                                                           *)
(***************************************************************************)
\* Where the decoder is, and what it has visited, are functions of the method and
\* of the number of its moves, for blocks of any size and any sequence of blocks
\* (BlockScanData's reset and move).
THEOREM ScanInductive == ScanSpec => []ScanInv
<1>1. ScanInit => ScanInv
  BY InitScanInv
<1>2. ScanInv /\ [ScanNext]_scanVars => ScanInv'
  BY ScanNextKeeps
<1>3. QED
  BY <1>1, <1>2, PTL DEF ScanSpec

\* Encoder and decoder are at the same position for the same symbol, with every
\* method and in blocks of any size (Block::Iterator and BlockScanData).
THEOREM PositionsAgree == ScanSpec => []SamePosition
<1>1. ScanInv => SamePosition
  BY DEF ScanInv, ScanAfter, SamePosition
<1>2. QED
  BY <1>1, ScanInductive, PTL

\* Neither zig-zag nor Hilbert's curve ever jumps, in blocks of any size: the
\* automaton goes to one of eight neighbours, the curve to one of four
\* (zigZagMove, hilbertCurve).
THEOREM NeverJumps == ScanSpec => StaysNear
<1>1. ASSUME ScanInv, Move, scan.index + 1 < BlockSize
      PROVE  Near(scan.scanMethod, scan.pos, scan'.pos)
  <2> DEFINE method == scan.scanMethod
             n == scan.index
             p == scan.pos
             q == scan'.pos
  <2>1. /\ method \in ScanMethod /\ n \in Index /\ n + 1 \in Index
        /\ n \in 0..BlockSize /\ n \in Nat /\ n + 1 \in 0..BlockSize
        /\ p = IteratorPos(method, n) /\ q = IteratorPos(method, n + 1)
        /\ scan' = MoveScan(scan) /\ scan = ScanAfter(method, n)
    <3>1. scan = ScanAfter(method, n) /\ n \in 0..BlockSize /\ method \in ScanMethod
      BY <1>1 DEF ScanInv
    <3>2. p = IteratorPos(method, n)
      BY <3>1 DEF ScanAfter
    <3>3. q = IteratorPos(method, n + 1) /\ scan' = MoveScan(scan)
      BY <1>1, MoveKeeps DEF Move, Advance
    <3>4. n \in Index /\ n + 1 \in Index /\ n \in Nat /\ n + 1 \in 0..BlockSize
      BY <1>1, <3>1, SizeFacts DEF Index
    <3>5. QED
      BY <3>1, <3>2, <3>3, <3>4
  <2> HIDE DEF method, n, p, q
  <2>2. p.x \in Int /\ p.y \in Int /\ q.x \in Int /\ q.y \in Int
    <3>1. p \in [x : Nat, y : Nat] /\ q \in [x : Nat, y : Nat]
      BY <2>1, PosType
    <3>2. QED
      BY <3>1
  <2>3. CASE method = "ZigZag"
    <3> DEFINE z == ZigZagAfter[n]
    <3>1. p = z.pos /\ z.state \in ZigZagState
      BY <2>1, <2>3, TrailGoesRound DEF IteratorPos, Trail
    <3>2. q = ZigZagPos(p, z.state)
      <4>1. ZigZagAfter[n + 1] = ZigZagMove(z.pos, z.state)
        BY <2>1, ZigZagUnfolds
      <4>2. ZigZagAfter[n + 1].pos = ZigZagPos(z.pos, z.state)
        BY <4>1 DEF ZigZagMove
      <4>3. q = ZigZagAfter[n + 1].pos
        BY <2>1, <2>3 DEF IteratorPos
      <4>4. QED
        BY <3>1, <4>2, <4>3
    <3> HIDE DEF z
    <3>3. q.x - p.x \in -1..1 /\ q.y - p.y \in -1..1
      BY <2>2, <3>1, <3>2 DEF ZigZagPos, ZigZagState, At
    <3>4. QED
      BY <2>3, <3>3 DEF Near, method, p, q
  <2>4. CASE method = "HilbertCurve"
    <3> DEFINE K == Log2[BlockSize]
               P == 2 ^ (2 * K)
    <3>1. n % P = n /\ (n + 1) % P = n + 1 /\ n < P - 1 /\ K \in Nat \ {0}
      <4>1. BlockSize < P /\ P \in Nat /\ K \in Nat \ {0} /\ n + 1 <= BlockSize
        BY <2>1, Levels, PowersOfFour, SizeFacts
      <4>2. n % P = n /\ (n + 1) % P = n + 1
        BY <2>1, IndexInLevels
      <4> HIDE DEF K, P
      <4>3. QED
        BY <2>1, <4>1, <4>2, SizeFacts
    <3>2. p = CurveOf(n)[K] /\ q = CurveOf(n + 1)[K]
      BY <2>1, <2>4, HilbertIs
    <3>3. Beside(p, q)
      BY <2>1, <3>1, <3>2, CurveNear
    <3> DEFINE dx == q.x - p.x
               dy == q.y - p.y
    <3>4. dx * dx + dy * dy = 1
      <4>1. \/ dx = 0 /\ dy = 1
            \/ dx = 0 /\ dy = -1
            \/ dx = 1 /\ dy = 0
            \/ dx = -1 /\ dy = 0
        BY <2>2, <3>3 DEF Beside
      <4> HIDE DEF dx, dy
      <4>2. QED
        BY <4>1
    <3>5. QED
      BY <2>4, <3>4 DEF Near, method, p, q
  <2>5. QED
    BY <2>3, <2>4 DEF Near, method
<1>2. ScanInv /\ [ScanNext]_scanVars
        => [Move /\ scan.index + 1 < BlockSize
              => Near(scan.scanMethod, scan.pos, scan'.pos)]_scanVars
  BY <1>1
<1>3. QED
  BY <1>2, ScanInductive, PTL DEF ScanSpec, StaysNear

\* When the methods of all blocks suit them, no pixel of a block is written twice
\* and none is written outside of it (BlockScanData::move).
THEOREM VisitsAreNew == ScanSpec /\ []Suits(scan.scanMethod) => VisitsNew
<1>1. ScanInv /\ Suits(scan.scanMethod) /\ [ScanNext]_scanVars
        => [Move /\ scan.index + 1 < BlockSize => scan'.pos \in InBlock \ visited]_scanVars
  BY MoveIsNew
<1>2. QED
  BY <1>1, ScanInductive, PTL DEF ScanSpec, VisitsNew

\* And at the end of every block all of its pixels have been written.
THEOREM BlocksAreCovered == ScanSpec /\ []Suits(scan.scanMethod) => []CoversBlock
<1>1. ScanInv /\ Suits(scan.scanMethod) => CoversBlock
  BY SeenFacts DEF CoversBlock
<1>2. QED
  BY <1>1, ScanInductive, PTL

\* And no coordinate wraps around below 0, not even behind the last pixel
\* (zigZagMove decrements unsigned numbers).
THEOREM ScanTypeCorrect == ScanSpec /\ []Suits(scan.scanMethod) => []ScanTypeOK
<1>1. ScanInv /\ Suits(scan.scanMethod) => ScanTypeOK
  BY SeenFacts, ScanTypes DEF ScanTypeOK
<1>2. QED
  BY <1>1, ScanInductive, PTL

\* Square blocks with a side of a power of two, as the 8 by 8 of the code, are
\* visited once and completely with every method.
THEOREM SquareBlocks ==
  ASSUME NEW m \in Nat, BlockWidth = 2 ^ m, BlockHeight = 2 ^ m
  PROVE  ScanSpec => []ScanTypeOK /\ []CoversBlock /\ VisitsNew
<1>1. \E half \in Nat : BlockWidth = 2 * half
  <2>1. m # 0
    BY SquareLevels
  <2>2. m - 1 \in Nat /\ (m - 1) + 1 = m
    BY <2>1
  <2>3. 2 ^ ((m - 1) + 1) = 2 * 2 ^ (m - 1) /\ 2 ^ (m - 1) \in Nat
    BY <2>2, PowersOfTwo
  <2>4. 2 ^ ((m - 1) + 1) = 2 ^ m
    BY <2>2
  <2>5. QED
    BY <2>3, <2>4
<1>2. \A method \in ScanMethod : Suits(method)
  BY <1>1 DEF Suits
<1>3. ScanInv => Suits(scan.scanMethod)
  BY <1>2 DEF ScanInv
<1>4. ScanSpec => []Suits(scan.scanMethod)
  BY <1>3, ScanInductive, PTL
<1>5. QED
  BY <1>4, ScanTypeCorrect, BlocksAreCovered, VisitsAreNew, PTL
=============================================================================
