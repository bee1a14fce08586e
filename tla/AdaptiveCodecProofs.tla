------------------------ MODULE AdaptiveCodecProofs ------------------------
(***************************************************************************)
(* The adaptive codec is lossless: proofs for every width of the values,   *)
(* of a literal and of a cell, with and without the model, and for inputs  *)
(* of every length.                                                        *)
(*                                                                         *)
(* The first parts are about the data alone.  A literal is read as it was  *)
(* written, the models cancel out, and what the encoder makes of the data  *)
(* is a function of the data (Encoding) that tells of every position of    *)
(* the stream what it means.  The last parts are about the steps.          *)
(***************************************************************************)
EXTENDS AdaptiveCodec, CodingTreeProofs

-----------------------------------------------------------------------------
(***************************************************************************)
(* Literals.                                                               *)
(***************************************************************************)
\* A literal has its width in bits.
LEMMA LiteralType ==
  ASSUME NEW v \in Value
  PROVE  /\ TypeToBits(v, LiteralBits) \in Seq(Bit)
         /\ Len(TypeToBits(v, LiteralBits)) = LiteralBits
<1>1. \A i \in 1..LiteralBits : (v \div 2 ^ (LiteralBits - i)) % 2 \in Bit
  <2> SUFFICES ASSUME NEW i \in 1..LiteralBits
               PROVE  (v \div 2 ^ (LiteralBits - i)) % 2 \in Bit
    OBVIOUS
  <2>1. LiteralBits - i \in Nat
    BY WidthAssumption
  <2> DEFINE P == 2 ^ (LiteralBits - i)
  <2>2. P \in Nat /\ P > 0
    BY <2>1, PowersOfTwo
  <2>3. v \in Nat
    BY PowersOfTwo, WidthAssumption DEF Value, ValueCount
  <2> HIDE DEF P
  <2>4. (v \div P) % 2 \in {0, 1}
    BY <2>2, <2>3, Halves
  <2>5. QED
    BY <2>4 DEF P, Bit
<1>2. LiteralBits \in Nat
  BY WidthAssumption
<1>3. QED
  BY <1>1, <1>2 DEF TypeToBits

\* binToIntegral takes the literal of a value back.
LEMMA LiteralRead ==
  ASSUME NEW v \in Value
  PROVE  BinToIntegral(TypeToBits(v, LiteralBits)) = v
<1> DEFINE n == LiteralBits
           bits == TypeToBits(v, n)
<1>1. /\ n \in Nat /\ v \in Nat /\ v < ValueCount
      /\ ValueBits \in Nat /\ ValueBits <= n
      /\ ValueCount \in Nat /\ ValueCount > 0 /\ ValueCount = 2 ^ ValueBits
  BY PowersOfTwo, WidthAssumption DEF Value, ValueCount
<1>2. v < 2 ^ n
  <2>1. 2 ^ ValueBits <= 2 ^ n /\ 2 ^ n \in Nat
    BY <1>1, PowersGrow, PowersOfTwo
  <2>2. QED
    BY <1>1, <2>1
<1>3. BitsOf(bits, v, n)
  BY DEF BitsOf, TypeToBits
<1>4. Len(bits) = n
  BY LiteralType
<1> HIDE DEF bits
<1> DEFINE Partial == CHOOSE f : IsBitSum(f, bits, n)
<1>5. IsBitSum(Partial, bits, n) /\ Partial[n] = v
  <2>1. \E f : IsBitSum(f, bits, n)
    BY <1>1, <1>2, <1>3, BitSum
  <2>2. IsBitSum(Partial, bits, n)
    BY <2>1, Zenon
  <2>3. QED
    BY <1>1, <1>2, <1>3, <2>2, BitSum
<1>6. BinToIntegral(bits) = Partial[n] % ValueCount
  BY <1>4 DEF BinToIntegral, IsBitSum
<1>7. QED
  BY <1>1, <1>5, <1>6 DEF bits

-----------------------------------------------------------------------------
(***************************************************************************)
(* The models.                                                             *)
(***************************************************************************)
\* The values of a sample, which are the symbols of the tree.
LEMMA ValueFacts ==
  /\ ValueCount \in Nat /\ ValueCount > 0
  /\ Value = 0..(ValueCount - 1) /\ Symbol = Value
  BY PowersOfTwo, WidthAssumption, AlphabetAssumption DEF Value, ValueCount

\* The model turns values into values.
LEMMA AppliedType ==
  ASSUME NEW d, d \in Seq(Value)
  PROVE  Applied(d, UseModel) \in Seq(Value) /\ Len(Applied(d, UseModel)) = Len(d)
<1>1. UseModel \in BOOLEAN
  BY WidthAssumption
<1>2. ASSUME UseModel
      PROVE  Differences(d) \in Seq(Value) /\ Len(Differences(d)) = Len(d)
  <2> DEFINE last(i) == IF i = 1 THEN InitialVal ELSE d[i - 1]
  <2>1. Len(d) \in Nat /\ DOMAIN d = 1..Len(d) /\ \A i \in 1..Len(d) : d[i] \in Value
    OBVIOUS
  <2>2. \A i \in 1..Len(d) : last(i) \in Value
    BY <2>1, ValueFacts DEF InitialVal
  <2>3. \A i \in 1..Len(d) : (d[i] - last(i)) % ValueCount \in Value
    <3> HIDE DEF last
    <3>1. \A x, y \in Value : (x - y) % ValueCount \in Value
      BY ValueFacts
    <3>2. QED
      BY <2>1, <2>2, <3>1
  <2>4. Differences(d) = [i \in 1..Len(d) |-> (d[i] - last(i)) % ValueCount]
    BY <2>1 DEF Differences
  <2> HIDE DEF last
  <2>5. QED
    BY <2>1, <2>3, <2>4
<1>3. QED
  BY <1>1, <1>2 DEF Applied

\* What the model takes apart is put together again, of the part that there is.
LEMMA ModelReverted ==
  ASSUME NEW d, NEW r, d \in Seq(Value), r \in Seq(Value),
         Begins(r, Applied(d, UseModel))
  PROVE  /\ Reverted(r, UseModel) \in Seq(Value)
         /\ Len(Reverted(r, UseModel)) = Len(r)
         /\ Begins(Reverted(r, UseModel), d)
<1>1. UseModel \in BOOLEAN
  BY WidthAssumption
<1>2. CASE ~UseModel
  BY <1>2 DEF Applied, Reverted, Begins
<1>3. CASE UseModel
  <2> DEFINE n == Len(r)
             x(i) == IF i = 0 THEN InitialVal ELSE d[i]
             Body(f) == [i \in 0..Len(r) |->
                           IF i = 0 THEN InitialVal ELSE (r[i] + f[i - 1]) % ValueCount]
             Whole == [i \in 0..n |-> x(i)]
             Sum == CHOOSE f : f = Body(f)
  <2>1. /\ n \in Nat /\ n <= Len(d) /\ Len(d) \in Nat
        /\ DOMAIN d = 1..Len(d) /\ DOMAIN r = 1..n
        /\ \A i \in 1..Len(d) : d[i] \in Value
    <3>1. Len(Applied(d, UseModel)) = Len(d)
      BY AppliedType
    <3>2. Len(r) <= Len(d)
      BY <3>1 DEF Begins
    <3>3. QED
      BY <3>2
  <2>2. \A i \in 0..n : x(i) \in Value
    BY <2>1, ValueFacts DEF InitialVal
  <2>3. ASSUME NEW i \in 1..n PROVE (r[i] + x(i - 1)) % ValueCount = x(i)
    <3>1. i \in DOMAIN d /\ i # 0
      BY <2>1
    <3>2. r[i] = (x(i) - x(i - 1)) % ValueCount
      <4>1. r[i] = Applied(d, UseModel)[i]
        BY <2>1 DEF Begins
      <4>2. Applied(d, UseModel)[i]
              = (d[i] - (IF i = 1 THEN InitialVal ELSE d[i - 1])) % ValueCount
        BY <1>3, <3>1 DEF Applied, Differences
      <4>3. x(i - 1) = (IF i = 1 THEN InitialVal ELSE d[i - 1]) /\ x(i) = d[i]
        BY <2>1
      <4> HIDE DEF x
      <4>4. QED
        BY <4>1, <4>2, <4>3
    <3>3. x(i) \in Value /\ x(i - 1) \in Value
      BY <2>1, <2>2
    <3> HIDE DEF x
    <3>4. ASSUME NEW a \in Value, NEW b \in Value
          PROVE  (((a - b) % ValueCount) + b) % ValueCount = a
      <4> DEFINE M == ValueCount
      <4>1. M \in Nat /\ a \in 0..(M - 1) /\ b \in 0..(M - 1)
        BY ValueFacts
      <4> HIDE DEF M
      <4>2. (((a - b) % M) + b) % M = a
        BY <4>1
      <4>3. QED
        BY <4>2 DEF M
    <3>5. QED
      BY <3>2, <3>3, <3>4
  <2>4. Whole = Body(Whole)
    <3>1. \A i \in 1..n : Whole[i - 1] = x(i - 1)
      BY <2>1
    <3>2. ASSUME NEW i \in 0..n
          PROVE  x(i) = IF i = 0 THEN InitialVal ELSE (r[i] + Whole[i - 1]) % ValueCount
      <4>1. i # 0 => i \in 1..n
        BY <2>1
      <4>2. x(0) = InitialVal
        OBVIOUS
      <4> HIDE DEF x, Whole
      <4>3. QED
        BY <2>3, <3>1, <4>1, <4>2
    <3> HIDE DEF x
    <3>3. QED
      BY <3>2
  <2>5. Sum = Body(Sum)
    <3> HIDE DEF Whole, Body
    <3>1. \E f : f = Body(f)
      BY <2>4
    <3>2. QED
      BY <3>1, Zenon
  <2>6. Reverted(r, UseModel) = [i \in 1..n |-> Sum[i]]
    <3>1. Reverted(r, UseModel) = Sums(r)
      BY <1>3 DEF Reverted
    <3>2. Sums(r) = [i \in DOMAIN r |-> Sum[i]]
      BY DEF Sums
    <3> HIDE DEF Sum
    <3>3. QED
      BY <2>1, <3>1, <3>2
  <2> HIDE DEF Sum
  <2>7. /\ Sum[0] = x(0)
        /\ \A i \in 1..n : Sum[i] = (r[i] + Sum[i - 1]) % ValueCount
    <3>1. \A i \in 0..n :
            Sum[i] = IF i = 0 THEN InitialVal ELSE (r[i] + Sum[i - 1]) % ValueCount
      BY <2>5
    <3>2. QED
      BY <2>1, <3>1
  <2> DEFINE S == {i \in Nat : i <= n => Sum[i] = x(i)}
  <2>8. 0 \in S
    BY <2>7
  <2>9. ASSUME NEW i \in Nat, i \in S PROVE i + 1 \in S
    <3> SUFFICES ASSUME i + 1 <= n PROVE Sum[i + 1] = x(i + 1)
      OBVIOUS
    <3>1. i + 1 \in 1..n /\ (i + 1) - 1 = i
      BY <2>1
    <3>2. Sum[i] = x(i)
      BY <2>1, <2>9
    <3> HIDE DEF x
    <3>3. QED
      BY <2>3, <2>7, <3>1, <3>2
  <2>10. \A i \in 1..n : Sum[i] = x(i)
    <3> HIDE DEF S
    <3>1. \A i \in Nat : i \in S
      BY <2>8, <2>9, Induction
    <3>2. QED
      BY <2>1, <3>1 DEF S
  <2>11. \A i \in 1..n : Sum[i] = d[i] /\ d[i] \in Value
    BY <2>1, <2>10
  <2>12. QED
    BY <2>1, <2>6, <2>11 DEF Begins
<1>4. QED
  BY <1>1, <1>2, <1>3

-----------------------------------------------------------------------------
(***************************************************************************)
(* What the encoder makes of the data: its coder and its stream after      *)
(* every symbol, as a function of the data alone.                          *)
(***************************************************************************)
\* The bits of one symbol.
CodeOf(c, s) == Code(c, s, TypeToBits(s, LiteralBits))

After(e, s) ==
  [coder |-> UpdateTree(e.coder, s), stream |-> e.stream \o CodeOf(e.coder, s)]

Encoding(d) ==
  LET Encoded[i \in 0..Len(d)] ==
        IF i = 0 THEN [coder |-> NewCoder, stream |-> <<>>]
        ELSE After(Encoded[i - 1], d[i])
  IN Encoded

\* The whole stream.
Written(d) ==
  LET end == Encoding(d)[Len(d)]
  IN FillCell(end.stream \o PathTo(end.coder.tree, end.coder.nyt))

\* What a sound coder is made of.
LEMMA SoundCoder ==
  ASSUME NEW c, Sound(c)
  PROVE  /\ c \in Coder
         /\ Built(c.tree, c.nyt, c.cache, Null) /\ Ranked(c.tree, c.nyt, Null)
         /\ ParentsAbove(c.tree)
         /\ c.nyt \in Allocated(c.tree)
         /\ \A s \in Value : c.cache[s] # Null => c.cache[s] \in Allocated(c.tree) \ {c.nyt}
<1>1. Built(c.tree, c.nyt, c.cache, Null) /\ Ranked(c.tree, c.nyt, Null)
  BY DEF Sound
<1>2. /\ c.tree \in Tree /\ c.nyt \in Node /\ c.cache \in [Value -> Node \cup {Null}]
      /\ c.nyt \in Allocated(c.tree)
  BY <1>1, ValueFacts DEF Built, RanksLast
<1>3. c \in Coder
  BY <1>2 DEF Sound, Coder
<1>4. \A s \in Value : c.cache[s] # Null => c.cache[s] \in Allocated(c.tree) \ {c.nyt}
  BY <1>1, ValueFacts DEF Built, TwoPerSymbol, SeenIn
<1>5. QED
  BY <1>1, <1>2, <1>3, <1>4 DEF Ranked

\* The path a code starts with, or is.
LEMMA PathBits ==
  ASSUME NEW c, NEW n, Sound(c), n \in Allocated(c.tree)
  PROVE  PathTo(c.tree, n) \in Seq(Bit) /\ PathTo(c.tree, n) \in PathsTo(c.tree, n)[Root]
  BY SoundCoder, PathFound

\* The code of a symbol: a path, and behind that to NYT a literal.
LEMMA CodeType ==
  ASSUME NEW c, NEW s, Sound(c), s \in Value
  PROVE  /\ CodeOf(c, s) \in Seq(Bit)
         /\ c.cache[s] = Null =>
              /\ Len(CodeOf(c, s)) = Len(PathTo(c.tree, c.nyt)) + LiteralBits
              /\ \A i \in 1..Len(PathTo(c.tree, c.nyt)) :
                   CodeOf(c, s)[i] = PathTo(c.tree, c.nyt)[i]
              /\ \A i \in 1..LiteralBits :
                   CodeOf(c, s)[Len(PathTo(c.tree, c.nyt)) + i] = TypeToBits(s, LiteralBits)[i]
<1>1. CASE c.cache[s] # Null
  BY <1>1, SoundCoder, PathBits DEF CodeOf, CodeOf, Code
<1>2. CASE c.cache[s] = Null
  <2> DEFINE p == PathTo(c.tree, c.nyt)
             b == TypeToBits(s, LiteralBits)
  <2>1. p \in Seq(Bit)
    BY SoundCoder, PathBits
  <2>2. b \in Seq(Bit) /\ Len(b) = LiteralBits
    BY LiteralType
  <2>3. CodeOf(c, s) = p \o b
    BY <1>2 DEF CodeOf, CodeOf, Code
  <2> HIDE DEF p, b
  <2>4. /\ p \o b \in Seq(Bit) /\ Len(p \o b) = Len(p) + Len(b)
        /\ \A i \in 1..Len(p) : (p \o b)[i] = p[i]
        /\ \A i \in 1..Len(b) : (p \o b)[Len(p) + i] = b[i]
    BY <2>1, <2>2
  <2>5. QED
    BY <2>2, <2>3, <2>4 DEF p, b
<1>3. QED
  BY <1>1, <1>2

\* The recursion, and the types of what it gives.
LEMMA EncodingSteps ==
  ASSUME NEW d, d \in Seq(Value)
  PROVE  /\ Encoding(d)[0] = [coder |-> NewCoder, stream |-> <<>>]
         /\ \A i \in 1..Len(d) : Encoding(d)[i] = After(Encoding(d)[i - 1], d[i])
         /\ \A i \in 0..Len(d) : /\ Sound(Encoding(d)[i].coder)
                                 /\ Encoding(d)[i].stream \in Seq(Bit)
                                 /\ i # 0 => Encoding(d)[i].coder.nyt # Root
<1> DEFINE n == Len(d)
           first == [coder |-> NewCoder, stream |-> <<>>]
           Good(e) == Sound(e.coder) /\ e.stream \in Seq(Bit)
           X == {e \in [coder : Coder, stream : Seq(Bit)] : Good(e)}
           E == Encoding(d)
<1>1. n \in Nat /\ \A i \in 1..n : d[i] \in Value
  OBVIOUS
<1>2. Good(first) /\ first \in X
  <2>1. Good(first)
    BY NewCoderSound
  <2>2. first.coder \in Coder
    BY <2>1, SoundCoder
  <2>3. QED
    BY <2>1, <2>2
<1>3. ASSUME NEW e, NEW s, Good(e), s \in Value
      PROVE  /\ Good(After(e, s)) /\ After(e, s) \in X
             /\ After(e, s).coder.nyt # Root
  <2>1. Sound(UpdateTree(e.coder, s)) /\ UpdateTree(e.coder, s).nyt # Root
    BY <1>3, ValueFacts, UpdateTreeKeepsSound
  <2>2. CodeOf(e.coder, s) \in Seq(Bit)
    BY <1>3, CodeType
  <2>3. e.stream \o CodeOf(e.coder, s) \in Seq(Bit)
    BY <1>3, <2>2
  <2>4. UpdateTree(e.coder, s) \in Coder
    BY <2>1, SoundCoder
  <2>5. QED
    BY <2>1, <2>3, <2>4 DEF After
<1>4. \E f : f = [i \in 0..n |-> IF i = 0 THEN first ELSE After(f[i - 1], d[i])]
  <2> DEFINE next == [p \in (1..n) \X X |-> After(p[2], d[p[1]])]
  <2>1. next \in [(1..n) \X X -> X]
    <3> SUFFICES ASSUME NEW p \in (1..n) \X X PROVE After(p[2], d[p[1]]) \in X
      OBVIOUS
    <3>1. Good(p[2]) /\ d[p[1]] \in Value
      BY <1>1
    <3> HIDE DEF X, Good
    <3>2. QED
      BY <1>3, <3>1
  <2> HIDE DEF X, next, first, n
  <2>2. PICK f : Iterate(f, X, first, n, next)
    BY <1>1, <1>2, <2>1, Iterates
  <2>3. \A i \in 1..n : f[i] = After(f[i - 1], d[i])
    <3> SUFFICES ASSUME NEW i \in 1..n PROVE f[i] = After(f[i - 1], d[i])
      OBVIOUS
    <3>1. f[i - 1] \in X
      BY <1>1, <2>2 DEF Iterate
    <3>2. next[<<i, f[i - 1]>>] = After(f[i - 1], d[i])
      BY <3>1 DEF next
    <3>3. QED
      BY <2>2, <3>2 DEF Iterate
  <2>4. \A i \in 0..n : f[i] = IF i = 0 THEN first ELSE After(f[i - 1], d[i])
    BY <1>1, <2>2, <2>3 DEF Iterate
  <2>5. f = [i \in 0..n |-> IF i = 0 THEN first ELSE After(f[i - 1], d[i])]
    BY <2>2, <2>4 DEF Iterate
  <2>6. QED
    BY <2>5
<1>5. E = [i \in 0..n |-> IF i = 0 THEN first ELSE After(E[i - 1], d[i])]
  BY <1>4, Zenon DEF Encoding
<1> HIDE DEF E, first, n, Good, X
<1>6. E[0] = first /\ \A i \in 1..n : E[i] = After(E[i - 1], d[i])
  <2>1. \A i \in 0..n : E[i] = IF i = 0 THEN first ELSE After(E[i - 1], d[i])
    BY <1>5
  <2>2. QED
    BY <1>1, <2>1
<1> DEFINE S == {i \in Nat : i <= n => Good(E[i]) /\ (i # 0 => E[i].coder.nyt # Root)}
<1>7. 0 \in S
  BY <1>2, <1>6
<1>8. ASSUME NEW i \in Nat, i \in S PROVE i + 1 \in S
  <2> SUFFICES ASSUME i + 1 <= n PROVE Good(E[i + 1]) /\ E[i + 1].coder.nyt # Root
    OBVIOUS
  <2>1. i + 1 \in 1..n /\ (i + 1) - 1 = i
    BY <1>1
  <2>2. Good(E[i]) /\ E[i + 1] = After(E[i], d[i + 1]) /\ d[i + 1] \in Value
    BY <1>1, <1>6, <1>8, <2>1
  <2>3. QED
    BY <1>3, <2>2
<1>9. \A i \in Nat : i \in S
  <2> HIDE DEF S
  <2>1. QED
    BY <1>7, <1>8, Induction
<1>10. \A i \in 0..n : Good(E[i]) /\ (i # 0 => E[i].coder.nyt # Root)
  BY <1>1, <1>9
<1>11. QED
  BY <1>6, <1>10 DEF E, n, first, Good

\* The same, field by field.
LEMMA EncodingFields ==
  ASSUME NEW d, d \in Seq(Value), NEW i, i \in 1..Len(d)
  PROVE  LET e == Encoding(d)[i - 1]
         IN /\ Encoding(d)[i].coder = UpdateTree(e.coder, d[i])
            /\ Encoding(d)[i].stream = e.stream \o CodeOf(e.coder, d[i])
<1>1. Encoding(d)[i] = After(Encoding(d)[i - 1], d[i])
  BY EncodingSteps
<1>2. ASSUME NEW e, NEW s
      PROVE  /\ After(e, s).coder = UpdateTree(e.coder, s)
             /\ After(e, s).stream = e.stream \o CodeOf(e.coder, s)
  BY DEF After
<1>3. QED
  BY <1>1, <1>2

\* The last cell is filled with fewer bits than it has.
LEMMA CellFilled ==
  ASSUME NEW b, b \in Seq(Bit)
  PROVE  /\ FillCell(b) \in Seq(Bit)
         /\ Begins(b, FillCell(b))
         /\ Len(FillCell(b)) < Len(b) + CellBits
<1>1. CellBits \in Nat \ {0}
  BY WidthAssumption
<1>2. QED
  BY <1>1, ZerosBehind DEF FillCell

\* What is written of k symbols stays at the beginning of the stream.
LEMMA StreamGrows ==
  ASSUME NEW d, d \in Seq(Value)
  PROVE  LET E == Encoding(d)
             end == E[Len(d)]
             mark == PathTo(end.coder.tree, end.coder.nyt)
             W == Written(d)
         IN /\ W \in Seq(Bit)
            /\ \A k \in 0..Len(d) : Begins(E[k].stream, W)
            /\ mark \in Seq(Bit)
            /\ Len(end.stream) + Len(mark) <= Len(W)
            /\ Len(W) < Len(end.stream) + Len(mark) + CellBits
            /\ \A i \in 1..Len(mark) : W[Len(end.stream) + i] = mark[i]
<1> DEFINE E == Encoding(d)
           n == Len(d)
           end == E[n]
           mark == PathTo(end.coder.tree, end.coder.nyt)
           W == Written(d)
           whole == end.stream \o mark
<1>1. n \in Nat /\ \A i \in 1..n : d[i] \in Value
  OBVIOUS
<1>2. /\ \A i \in 1..n : E[i] = After(E[i - 1], d[i])
      /\ \A i \in 0..n : Sound(E[i].coder) /\ E[i].stream \in Seq(Bit)
  BY EncodingSteps
<1>3. mark \in Seq(Bit)
  <2>1. Sound(end.coder)
    BY <1>1, <1>2
  <2> HIDE DEF end
  <2>2. QED
    BY <2>1, SoundCoder, PathBits
<1>4. end.stream \in Seq(Bit)
  BY <1>1, <1>2
<1>5. W = FillCell(whole)
  BY DEF Written
<1> HIDE DEF mark, W, end
<1>6. /\ whole \in Seq(Bit) /\ Len(whole) = Len(end.stream) + Len(mark)
      /\ \A i \in 1..Len(end.stream) : whole[i] = end.stream[i]
      /\ \A i \in 1..Len(mark) : whole[Len(end.stream) + i] = mark[i]
  BY <1>3, <1>4
<1> HIDE DEF whole
<1>7. W \in Seq(Bit) /\ Begins(whole, W) /\ Len(W) < Len(whole) + CellBits
  BY <1>5, <1>6, CellFilled
<1>8. /\ Len(end.stream) + Len(mark) <= Len(W)
      /\ Len(W) < Len(end.stream) + Len(mark) + CellBits
      /\ \A i \in 1..Len(mark) : W[Len(end.stream) + i] = mark[i]
      /\ Begins(end.stream, W)
  <2>1. Begins(end.stream \o mark, W) /\ W \in Seq(Bit)
    BY <1>7 DEF whole
  <2>2. /\ Begins(end.stream, W)
        /\ Len(end.stream) + Len(mark) <= Len(W)
        /\ \A i \in 1..Len(mark) : W[Len(end.stream) + i] = mark[i]
    BY <1>3, <1>4, <2>1, BeginsWithBoth
  <2>3. QED
    BY <1>6, <1>7, <2>2
<1> HIDE DEF E, n
<1> DEFINE S == {i \in Nat : i <= n => Begins(E[n - i].stream, W)}
<1>9. 0 \in S
  BY <1>1, <1>8 DEF end
<1>10. ASSUME NEW i \in Nat, i \in S PROVE i + 1 \in S
  <2> DEFINE k == n - i
             new == CodeOf(E[k - 1].coder, d[k])
  <2> SUFFICES ASSUME i + 1 <= n PROVE Begins(E[n - (i + 1)].stream, W)
    OBVIOUS
  <2>1. k \in 1..n /\ n - (i + 1) = k - 1 /\ k - 1 \in 0..n /\ k \in 0..n
    BY <1>1
  <2>2. Begins(E[k].stream, W)
    BY <1>1, <1>10
  <2> HIDE DEF k
  <2>3. E[k].stream = E[k - 1].stream \o new
    BY <2>1, EncodingFields DEF E, n
  <2>4. E[k - 1].stream \in Seq(Bit) /\ new \in Seq(Bit)
    BY <1>1, <1>2, <2>1, CodeType
  <2> HIDE DEF new
  <2>5. Begins(E[k - 1].stream, W)
    BY <1>7, <2>2, <2>3, <2>4, BeginsWithBoth
  <2>6. QED
    BY <2>1, <2>5
<1>11. \A i \in Nat : i \in S
  <2> HIDE DEF S
  <2>1. QED
    BY <1>9, <1>10, Induction
<1>12. ASSUME NEW k \in 0..n PROVE Begins(E[k].stream, W)
  <2>1. n - k \in Nat /\ n - k <= n /\ n - (n - k) = k
    BY <1>1
  <2>2. n - k \in S
    BY <1>11, <2>1
  <2>3. QED
    BY <2>1, <2>2
<1>13. QED
  BY <1>3, <1>7, <1>8, <1>12 DEF E, n, end, mark, W

-----------------------------------------------------------------------------
(***************************************************************************)
(* Where the decoder goes.                                                 *)
(***************************************************************************)
CoderAfter(d, k) == Encoding(d)[k].coder
LengthAfter(d, k) == Len(Encoding(d)[k].stream)

\* The leaf the decoder is on its way to after k symbols: that of the next one if it
\* has one, otherwise, and at the end, the NYT node.
GoalAfter(d, k) ==
  LET c == CoderAfter(d, k)
  IN IF k < Len(d) /\ c.cache[d[k + 1]] # Null THEN c.cache[d[k + 1]] ELSE c.nyt

PathAfter(d, k) == PathTo(CoderAfter(d, k).tree, GoalAfter(d, k))

\* The bits that follow those of k symbols, and those of the next symbol.
LEMMA NextBits ==
  ASSUME NEW d, NEW k, d \in Seq(Value), k \in 0..Len(d)
  PROVE  LET c == CoderAfter(d, k)
             s == d[k + 1]
             W == Written(d)
         IN /\ Sound(c) /\ (k # 0 => c.nyt # Root)
            /\ LengthAfter(d, k) \in Nat /\ W \in Seq(Bit)
            /\ k < Len(d) =>
                 /\ s \in Value /\ s \in Symbol
                 /\ CoderAfter(d, k + 1) = UpdateTree(c, s)
                 /\ CodeOf(c, s) \in Seq(Bit)
                 /\ LengthAfter(d, k + 1) = LengthAfter(d, k) + Len(CodeOf(c, s))
                 /\ LengthAfter(d, k + 1) <= Len(W)
                 /\ \A i \in 1..Len(CodeOf(c, s)) : W[LengthAfter(d, k) + i] = CodeOf(c, s)[i]
            /\ k = Len(d) =>
                 /\ LengthAfter(d, k) + Len(PathTo(c.tree, c.nyt)) <= Len(W)
                 /\ Len(W) < LengthAfter(d, k) + Len(PathTo(c.tree, c.nyt)) + CellBits
                 /\ \A i \in 1..Len(PathTo(c.tree, c.nyt)) :
                      W[LengthAfter(d, k) + i] = PathTo(c.tree, c.nyt)[i]
<1> DEFINE E == Encoding(d)
           n == Len(d)
           c == CoderAfter(d, k)
           s == d[k + 1]
           W == Written(d)
           code == CodeOf(c, s)
           base == LengthAfter(d, k)
           next == LengthAfter(d, k + 1)
<1>1. n \in Nat /\ \A i \in 1..n : d[i] \in Value
  OBVIOUS
<1>2. c = E[k].coder /\ base = Len(E[k].stream)
  BY DEF CoderAfter, LengthAfter
<1>3. /\ Sound(c) /\ E[k].stream \in Seq(Bit) /\ (k # 0 => c.nyt # Root)
  BY <1>2, EncodingSteps
<1>4. W \in Seq(Bit) /\ \A i \in 0..n : Begins(E[i].stream, W)
  BY StreamGrows
<1>5. base \in Nat
  BY <1>2, <1>3
<1>6. ASSUME k = n
      PROVE  /\ base + Len(PathTo(c.tree, c.nyt)) <= Len(W)
             /\ Len(W) < base + Len(PathTo(c.tree, c.nyt)) + CellBits
             /\ \A i \in 1..Len(PathTo(c.tree, c.nyt)) :
                  W[base + i] = PathTo(c.tree, c.nyt)[i]
  BY <1>6, StreamGrows DEF CoderAfter, LengthAfter
<1>7. ASSUME k < n
      PROVE  /\ s \in Value /\ s \in Symbol
             /\ CoderAfter(d, k + 1) = UpdateTree(c, s)
             /\ code \in Seq(Bit)
             /\ next = base + Len(code)
             /\ next <= Len(W)
             /\ \A i \in 1..Len(code) : W[base + i] = code[i]
  <2>1. s \in Value /\ s \in Symbol /\ k + 1 \in 1..n /\ k + 1 \in 0..n /\ (k + 1) - 1 = k
    BY <1>1, <1>7, ValueFacts
  <2>2. code \in Seq(Bit)
    BY <1>3, <2>1, CodeType
  <2>3. /\ E[k + 1].coder = UpdateTree(c, s)
        /\ E[k + 1].stream = E[k].stream \o code
    <3>1. /\ E[k + 1].coder = UpdateTree(E[(k + 1) - 1].coder, s)
          /\ E[k + 1].stream = E[(k + 1) - 1].stream \o CodeOf(E[(k + 1) - 1].coder, s)
      BY <2>1, EncodingFields
    <3>2. QED
      BY <1>2, <2>1, <3>1
  <2>4. CoderAfter(d, k + 1) = UpdateTree(c, s)
    BY <2>3 DEF CoderAfter
  <2>5. next = Len(E[k].stream \o code) /\ Begins(E[k].stream \o code, W)
    BY <1>4, <2>1, <2>3 DEF LengthAfter
  <2> HIDE DEF E, code, W, base, next, s, c
  <2>6. next = base + Len(code)
    BY <1>2, <1>3, <2>2, <2>5
  <2>7. /\ base + Len(code) <= Len(W)
        /\ \A i \in 1..Len(code) : W[base + i] = code[i]
    <3>1. E[k].stream \in Seq(Bit) /\ W \in Seq(Bit)
      BY <1>3, <1>4
    <3>2. QED
      BY <1>2, <2>2, <2>5, <3>1, BeginsWithBoth, SMTT(30)
  <2>8. QED
    BY <2>1, <2>2, <2>4, <2>6, <2>7
<1> HIDE DEF E, code, W, base, next, s, c
<1>8. QED
  BY <1>3, <1>4, <1>5, <1>6, <1>7 DEF code, W, base, next, s, c

\* The bits that follow those of k symbols are a path to the goal.
LEMMA PathFollows ==
  ASSUME NEW d, NEW k, d \in Seq(Value), k \in 0..Len(d)
  PROVE  LET c == CoderAfter(d, k)
             goal == GoalAfter(d, k)
             path == PathAfter(d, k)
         IN /\ goal \in Allocated(c.tree)
            /\ k # 0 => goal # Root
            /\ path \in Seq(Bit) /\ path \in PathsTo(c.tree, goal)[Root]
            /\ LengthAfter(d, k) + Len(path) <= Len(Written(d))
            /\ \A i \in 1..Len(path) : Written(d)[LengthAfter(d, k) + i] = path[i]
<1> DEFINE c == CoderAfter(d, k)
           s == d[k + 1]
           goal == GoalAfter(d, k)
           path == PathAfter(d, k)
           base == LengthAfter(d, k)
           W == Written(d)
           code == CodeOf(c, s)
<1>1. /\ goal = IF k < Len(d) /\ c.cache[s] # Null THEN c.cache[s] ELSE c.nyt
      /\ path = PathTo(c.tree, goal)
  BY DEF GoalAfter, PathAfter
<1>2. /\ Sound(c) /\ (k # 0 => c.nyt # Root) /\ base \in Nat
      /\ W \in Seq(Bit) /\ Len(W) \in Nat
  <2>1. Sound(c) /\ (k # 0 => c.nyt # Root) /\ base \in Nat /\ W \in Seq(Bit)
    BY NextBits
  <2> HIDE DEF c, base, W
  <2>2. QED
    BY <2>1
<1>3. ASSUME k < Len(d)
      PROVE  /\ s \in Value /\ s \in Symbol
             /\ code \in Seq(Bit)
             /\ base + Len(code) <= Len(W)
             /\ \A i \in 1..Len(code) : W[base + i] = code[i]
  BY <1>3, NextBits
<1>4. ASSUME k = Len(d)
      PROVE  /\ base + Len(PathTo(c.tree, c.nyt)) <= Len(W)
             /\ \A i \in 1..Len(PathTo(c.tree, c.nyt)) :
                  W[base + i] = PathTo(c.tree, c.nyt)[i]
  BY <1>4, NextBits
<1>5. k = Len(d) \/ k < Len(d)
  OBVIOUS
<1> HIDE DEF c, s, goal, path, base, W
<1>6. CASE k < Len(d) /\ c.cache[s] # Null
  <2>1. Built(c.tree, c.nyt, c.cache, Null)
    BY <1>2, SoundCoder
  <2>2. goal = c.cache[s] /\ code = path
    BY <1>1, <1>6 DEF CodeOf, CodeOf, Code
  <2>3. goal \in Allocated(c.tree) /\ IsLeaf(c.tree, goal)
    BY <1>3, <1>6, <2>1, <2>2, KnownLeaf
  <2>4. k # 0 => goal # Root
    BY <1>2, <2>1, <2>3 DEF Built, InnerRoot
  <2>5. path \in Seq(Bit) /\ path \in PathsTo(c.tree, goal)[Root]
    BY <1>1, <1>2, <2>3, PathBits
  <2> HIDE DEF code
  <2>6. QED
    BY <1>3, <1>6, <2>2, <2>3, <2>4, <2>5 DEF c, goal, path, base, W
<1>7. CASE ~(k < Len(d) /\ c.cache[s] # Null)
  <2>1. goal = c.nyt
    BY <1>1, <1>7
  <2>2. goal \in Allocated(c.tree)
    BY <1>2, <2>1, SoundCoder
  <2>3. path \in Seq(Bit) /\ path \in PathsTo(c.tree, goal)[Root]
    BY <1>1, <1>2, <2>2, PathBits
  <2>4. base + Len(path) <= Len(W) /\ \A i \in 1..Len(path) : W[base + i] = path[i]
    <3>1. CASE k = Len(d)
      BY <1>1, <1>4, <2>1, <3>1
    <3>2. CASE k < Len(d)
      <4>1. /\ Len(code) = Len(path) + LiteralBits
            /\ \A i \in 1..Len(path) : code[i] = path[i]
        BY <1>1, <1>2, <1>3, <1>7, <2>1, <3>2, CodeType
      <4>2. LiteralBits \in Nat /\ Len(path) \in Nat
        BY <2>3, WidthAssumption
      <4> HIDE DEF code
      <4>3. base + Len(code) <= Len(W)
        BY <1>3, <3>2
      <4>4. base + Len(path) <= Len(W)
        BY <1>2, <4>1, <4>2, <4>3
      <4>5. ASSUME NEW i \in 1..Len(path) PROVE W[base + i] = path[i]
        <5>1. i \in 1..Len(code)
          BY <4>1, <4>2
        <5>2. QED
          BY <1>3, <3>2, <4>1, <5>1
      <4>6. QED
        BY <4>4, <4>5
    <3>3. QED
      BY <1>5, <3>1, <3>2
  <2>5. QED
    BY <1>2, <2>1, <2>2, <2>3, <2>4 DEF c, goal, path, base, W
<1>8. QED
  BY <1>6, <1>7

\* Behind the path to the leaf of a symbol comes the next symbol; behind that to the
\* NYT node comes a literal, or, at the end, less than a cell.
LEMMA GoalReached ==
  ASSUME NEW d, NEW k, d \in Seq(Value), k \in 0..Len(d)
  PROVE  LET c == CoderAfter(d, k)
             goal == GoalAfter(d, k)
             end == LengthAfter(d, k) + Len(PathAfter(d, k))
         IN /\ end \in Nat
            /\ k < Len(d) =>
                 /\ goal = c.nyt =>
                      /\ LengthAfter(d, k + 1) = end + LiteralBits
                      /\ \A i \in 1..LiteralBits :
                           Written(d)[end + i] = TypeToBits(d[k + 1], LiteralBits)[i]
                 /\ goal # c.nyt =>
                      /\ LengthAfter(d, k + 1) = end
                      /\ IsLeaf(c.tree, goal) /\ c.tree.value[goal] = d[k + 1]
            /\ k = Len(d) => goal = c.nyt /\ Len(Written(d)) < end + CellBits
<1> DEFINE c == CoderAfter(d, k)
           s == d[k + 1]
           goal == GoalAfter(d, k)
           path == PathAfter(d, k)
           base == LengthAfter(d, k)
           next == LengthAfter(d, k + 1)
           W == Written(d)
           code == CodeOf(c, s)
<1>1. /\ goal = IF k < Len(d) /\ c.cache[s] # Null THEN c.cache[s] ELSE c.nyt
      /\ path = PathTo(c.tree, goal)
  BY DEF GoalAfter, PathAfter
<1>2. Sound(c) /\ base \in Nat /\ path \in Seq(Bit) /\ Len(path) \in Nat
  BY NextBits, PathFollows
<1>3. ASSUME k < Len(d)
      PROVE  /\ s \in Value /\ s \in Symbol
             /\ next = base + Len(code)
             /\ \A i \in 1..Len(code) : W[base + i] = code[i]
  BY <1>3, NextBits
<1>4. ASSUME k = Len(d)
      PROVE  Len(W) < base + Len(PathTo(c.tree, c.nyt)) + CellBits
  BY <1>4, NextBits
<1> HIDE DEF c, s, goal, path, base, next, W
<1>5. ASSUME k = Len(d) PROVE goal = c.nyt /\ Len(W) < base + Len(path) + CellBits
  BY <1>1, <1>4, <1>5
<1>6. ASSUME k < Len(d), c.cache[s] # Null
      PROVE  /\ goal # c.nyt /\ next = base + Len(path)
             /\ IsLeaf(c.tree, goal) /\ c.tree.value[goal] = s
  <2>1. Built(c.tree, c.nyt, c.cache, Null)
    BY <1>2, SoundCoder
  <2>2. goal = c.cache[s] /\ code = path
    BY <1>1, <1>6 DEF CodeOf, CodeOf, Code
  <2>3. goal \in Allocated(c.tree) \ {c.nyt} /\ IsLeaf(c.tree, goal)
    BY <1>3, <1>6, <2>1, <2>2, KnownLeaf
  <2>4. c.tree.value[goal] = s
    BY <1>3, <1>6, <2>1, <2>2, <2>3 DEF Built, Current
  <2> HIDE DEF code
  <2>5. QED
    BY <1>3, <1>6, <2>2, <2>3, <2>4
<1>7. ASSUME k < Len(d), c.cache[s] = Null
      PROVE  /\ goal = c.nyt /\ next = base + Len(path) + LiteralBits
             /\ \A i \in 1..LiteralBits :
                  W[base + Len(path) + i] = TypeToBits(s, LiteralBits)[i]
  <2>1. goal = c.nyt
    BY <1>1, <1>7
  <2>2. /\ Len(code) = Len(path) + LiteralBits
        /\ \A i \in 1..LiteralBits : code[Len(path) + i] = TypeToBits(s, LiteralBits)[i]
    <3>1. path = PathTo(c.tree, c.nyt)
      BY <1>1, <2>1
    <3>2. /\ Len(code) = Len(PathTo(c.tree, c.nyt)) + LiteralBits
          /\ \A i \in 1..LiteralBits :
               code[Len(PathTo(c.tree, c.nyt)) + i] = TypeToBits(s, LiteralBits)[i]
      BY <1>2, <1>3, <1>7, CodeType
    <3> HIDE DEF code
    <3>3. QED
      BY <3>1, <3>2
  <2>3. LiteralBits \in Nat
    BY WidthAssumption
  <2> HIDE DEF code
  <2>4. next = base + Len(code)
    BY <1>3, <1>7
  <2>5. next = base + Len(path) + LiteralBits
    BY <1>2, <2>2, <2>3, <2>4
  <2>6. ASSUME NEW i \in 1..LiteralBits
        PROVE  W[base + Len(path) + i] = TypeToBits(s, LiteralBits)[i]
    <3>1. Len(path) + i \in 1..Len(code) /\ base + (Len(path) + i) = base + Len(path) + i
      BY <1>2, <2>2, <2>3
    <3>2. W[base + (Len(path) + i)] = code[Len(path) + i]
      BY <1>3, <1>7, <3>1
    <3>3. QED
      BY <2>2, <3>1, <3>2
  <2>7. QED
    BY <2>1, <2>5, <2>6
<1>8. QED
  BY <1>2, <1>5, <1>6, <1>7 DEF c, s, goal, path, base, next, W

-----------------------------------------------------------------------------
(***************************************************************************)
(* Where the decoder stands: after k symbols and `at' bits, at node n.     *)
(***************************************************************************)
\* The number of bits up to the goal.
EndAfter(d, k) == LengthAfter(d, k) + Len(PathAfter(d, k))

\* The rest of the path to the goal is what comes next in the stream.
OnPath(d, k, n, at) ==
  OnWay(CoderAfter(d, k), GoalAfter(d, k), Written(d), EndAfter(d, k), n, at)

\* The bits since the goal, the NYT node, are the literal so far.
InLiteral(d, k, n, at, lit) ==
  /\ n = CoderAfter(d, k).nyt /\ GoalAfter(d, k) = n
  /\ Len(lit) < LiteralBits
  /\ at = EndAfter(d, k) + Len(lit)
  /\ \A i \in 1..Len(lit) : lit[i] = Written(d)[EndAfter(d, k) + i]

\* The facts of the decoder's tree that the steps need.
LEMMA TreeAfter ==
  ASSUME NEW d, NEW k, d \in Seq(Value), k \in 0..Len(d)
  PROVE  LET c == CoderAfter(d, k)
         IN /\ Sound(c)
            /\ Built(c.tree, c.nyt, c.cache, Null) /\ ParentsAbove(c.tree)
            /\ Root \in Allocated(c.tree)
            /\ c.nyt \in Allocated(c.tree) /\ IsLeaf(c.tree, c.nyt)
            /\ \A m \in Allocated(c.tree) : m \in Node /\ (c.tree.isNYT[m] <=> m = c.nyt)
<1> DEFINE c == CoderAfter(d, k)
<1>1. Sound(c)
  BY NextBits
<1> HIDE DEF c
<1>2. QED
  BY <1>1, SoundFacts DEF c

\* The types of what the decoder goes by.
LEMMA EndType ==
  ASSUME NEW d, NEW k, d \in Seq(Value), k \in 0..Len(d)
  PROVE  /\ LengthAfter(d, k) \in Nat /\ EndAfter(d, k) \in Nat
         /\ Written(d) \in Seq(Bit) /\ Len(Written(d)) \in Nat
         /\ EndAfter(d, k) <= Len(Written(d))
<1>1. LengthAfter(d, k) \in Nat /\ Written(d) \in Seq(Bit)
  BY NextBits
<1>2. PathAfter(d, k) \in Seq(Bit) /\ LengthAfter(d, k) + Len(PathAfter(d, k)) <= Len(Written(d))
  BY PathFollows
<1>3. QED
  BY <1>1, <1>2 DEF EndAfter

\* After a symbol the next path is still to be gone.
LEMMA PathStarts ==
  ASSUME NEW d, NEW k, d \in Seq(Value), k \in 0..Len(d), k # 0
  PROVE  OnPath(d, k, Root, LengthAfter(d, k))
<1> DEFINE c == CoderAfter(d, k)
           goal == GoalAfter(d, k)
           path == PathAfter(d, k)
           base == LengthAfter(d, k)
<1>1. /\ goal # Root
      /\ path \in Seq(Bit) /\ path \in PathsTo(c.tree, goal)[Root]
      /\ \A i \in 1..Len(path) : Written(d)[base + i] = path[i]
  BY PathFollows
<1>2. /\ Built(c.tree, c.nyt, c.cache, Null) /\ ParentsAbove(c.tree)
      /\ Root \in Allocated(c.tree)
  BY TreeAfter
<1> HIDE DEF c, goal, path, base
<1>3. path # <<>>
  BY <1>1, <1>2, PathsLead
<1>4. LeadsOn(Written(d), EndAfter(d, k), base, path)
  BY <1>1, <1>3 DEF LeadsOn, Behind, EndAfter, base, path
<1>5. QED
  BY <1>1, <1>2, <1>4 DEF OnPath, OnWay, c, goal, base

\* Before the first symbol the decoder stands at its goal, the root.
LEMMA LiteralStarts ==
  ASSUME NEW d, d \in Seq(Value)
  PROVE  InLiteral(d, 0, Root, 0, <<>>)
<1> DEFINE c == CoderAfter(d, 0)
           goal == GoalAfter(d, 0)
           path == PathAfter(d, 0)
<1>1. c = NewCoder /\ LengthAfter(d, 0) = 0
  BY EncodingSteps DEF CoderAfter, LengthAfter
<1>2. c.nyt = Root
  BY <1>1 DEF NewCoder
<1>3. 0 \in 0..Len(d)
  OBVIOUS
<1>4. goal = Root
  <2>1. 0 < Len(d) => d[1] \in Symbol
    BY ValueFacts
  <2>2. 0 < Len(d) => c.cache[d[0 + 1]] = Null
    BY <1>1, <2>1 DEF NewCoder
  <2>3. QED
    BY <1>2, <2>2 DEF GoalAfter
<1>5. path \in Seq(Bit) /\ path \in PathsTo(c.tree, goal)[Root]
  BY <1>3, PathFollows
<1>6. /\ Built(c.tree, c.nyt, c.cache, Null) /\ ParentsAbove(c.tree)
      /\ Root \in Allocated(c.tree)
  BY <1>3, TreeAfter
<1> HIDE DEF c, goal, path
<1>7. path = <<>>
  BY <1>4, <1>5, <1>6, PathsLead
<1>8. EndAfter(d, 0) = 0
  BY <1>1, <1>7 DEF EndAfter, path
<1>9. LiteralBits > 0
  BY WidthAssumption
<1>10. QED
  BY <1>2, <1>4, <1>8, <1>9 DEF InLiteral, c, goal

\* A bit on the way leads to the goal, or to an internal node nearer to it.
LEMMA BitOnPath ==
  ASSUME NEW d, NEW k, NEW n, NEW at, d \in Seq(Value), k \in 0..Len(d), at \in Nat,
         OnPath(d, k, n, at)
  PROVE  LET c == CoderAfter(d, k)
             m == ChildBy(c.tree, n, Written(d)[at + 1])
         IN /\ at < EndAfter(d, k)
            /\ m \in Allocated(c.tree)
            /\ m = GoalAfter(d, k) => at + 1 = EndAfter(d, k)
            /\ m # GoalAfter(d, k) => ~IsLeaf(c.tree, m) /\ OnPath(d, k, m, at + 1)
<1> DEFINE c == CoderAfter(d, k)
           goal == GoalAfter(d, k)
           W == Written(d)
           end == EndAfter(d, k)
<1>1. Sound(c) /\ end \in Nat
  BY TreeAfter, EndType
<1>2. OnWay(c, goal, W, end, n, at)
  BY DEF OnPath
<1>3. \A m : OnPath(d, k, m, at + 1) <=> OnWay(c, goal, W, end, m, at + 1)
  BY DEF OnPath
<1> HIDE DEF c, goal, W, end
<1>4. LET m == ChildBy(c.tree, n, W[at + 1])
      IN /\ at < end
         /\ m \in Allocated(c.tree)
         /\ m = goal => at + 1 = end
         /\ m # goal => ~IsLeaf(c.tree, m) /\ OnWay(c, goal, W, end, m, at + 1)
  BY <1>1, <1>2, BitOnWay
<1>5. QED
  BY <1>3, <1>4 DEF c, goal, W, end

\* A bit of a literal completes it or not; a complete one is the next symbol, since
\* the stream ends before a literal could be read of the bits that fill the cell.
LEMMA BitInLiteral ==
  ASSUME NEW d, NEW k, NEW n, NEW at, NEW lit, d \in Seq(Value), k \in 0..Len(d),
         lit \in Seq(Bit), InLiteral(d, k, n, at, lit), at < Len(Written(d))
  PROVE  LET bits == Append(lit, Written(d)[at + 1])
         IN /\ bits \in Seq(Bit)
            /\ Len(bits) # LiteralBits => InLiteral(d, k, n, at + 1, bits)
            /\ Len(bits) = LiteralBits =>
                 /\ k < Len(d)
                 /\ at + 1 = LengthAfter(d, k + 1)
                 /\ BinToIntegral(bits) = d[k + 1]
<1> DEFINE W == Written(d)
           end == EndAfter(d, k)
           bits == Append(lit, W[at + 1])
<1>1. /\ n = CoderAfter(d, k).nyt /\ GoalAfter(d, k) = n
      /\ Len(lit) < LiteralBits /\ at = end + Len(lit)
      /\ \A i \in 1..Len(lit) : lit[i] = W[end + i]
  BY DEF InLiteral
<1>2. end \in Nat /\ W \in Seq(Bit) /\ Len(W) \in Nat
  BY EndType
<1>3. /\ LiteralBits \in Nat /\ CellBits \in Nat /\ LiteralBits > CellBits
  BY WidthAssumption
<1>4. /\ k < Len(d) =>
           /\ LengthAfter(d, k + 1) = end + LiteralBits
           /\ \A i \in 1..LiteralBits : W[end + i] = TypeToBits(d[k + 1], LiteralBits)[i]
      /\ k = Len(d) => Len(W) < end + CellBits
  <2>1. GoalAfter(d, k) = CoderAfter(d, k).nyt
    BY <1>1
  <2>2. QED
    BY <2>1, GoalReached DEF EndAfter
<1> HIDE DEF W, end
<1>5. at \in Nat /\ Len(lit) \in Nat /\ at < Len(W) /\ W[at + 1] \in Bit
  BY <1>1, <1>2 DEF W
<1>6. /\ bits \in Seq(Bit) /\ Len(bits) = Len(lit) + 1
      /\ \A i \in 1..Len(lit) : bits[i] = lit[i]
      /\ bits[Len(lit) + 1] = W[at + 1]
  BY <1>5
<1>7. ASSUME NEW i \in 1..Len(bits) PROVE bits[i] = W[end + i]
  <2>1. CASE i \in 1..Len(lit)
    BY <1>1, <1>6, <2>1
  <2>2. CASE i = Len(lit) + 1
    <3>1. end + (Len(lit) + 1) = at + 1
      BY <1>1, <1>2, <1>5
    <3>2. QED
      BY <1>6, <2>2, <3>1
  <2>3. QED
    BY <1>5, <1>6, <2>1, <2>2
<1> HIDE DEF bits
<1>8. ASSUME Len(bits) # LiteralBits PROVE InLiteral(d, k, n, at + 1, bits)
  <2>1. Len(bits) < LiteralBits /\ at + 1 = end + Len(bits)
    BY <1>1, <1>2, <1>3, <1>5, <1>6, <1>8
  <2>2. QED
    BY <1>1, <1>7, <2>1 DEF InLiteral, W, end
<1>9. ASSUME Len(bits) = LiteralBits
      PROVE  /\ k < Len(d) /\ at + 1 = LengthAfter(d, k + 1)
             /\ BinToIntegral(bits) = d[k + 1]
  <2>1. at + 1 = end + LiteralBits
    <3>1. Len(lit) + 1 = LiteralBits /\ at = end + Len(lit)
      BY <1>1, <1>6, <1>9
    <3>2. QED
      BY <1>2, <1>5, <3>1
  <2>2. k # Len(d)
    BY <1>2, <1>3, <1>4, <1>5, <2>1
  <2>3. k < Len(d)
    BY <2>2
  <2>4. d[k + 1] \in Value
    BY <2>3
  <2>5. /\ TypeToBits(d[k + 1], LiteralBits) \in Seq(Bit)
        /\ Len(TypeToBits(d[k + 1], LiteralBits)) = LiteralBits
    BY <2>4, LiteralType
  <2>6. \A i \in 1..LiteralBits : bits[i] = TypeToBits(d[k + 1], LiteralBits)[i]
    BY <1>4, <1>7, <1>9, <2>3
  <2>7. bits = TypeToBits(d[k + 1], LiteralBits)
    BY <1>6, <1>9, <2>5, <2>6
  <2>8. QED
    BY <1>4, <2>1, <2>3, <2>4, <2>7, LiteralRead
<1>10. QED
  BY <1>6, <1>8, <1>9 DEF bits, W

\* At the end of the stream all symbols are decoded, and the bits behind the end
\* mark are fewer than a cell.
LEMMA StreamOver ==
  ASSUME NEW d, NEW k, NEW n, NEW at, NEW lit, d \in Seq(Value), k \in 0..Len(d),
         lit \in Seq(Bit), InLiteral(d, k, n, at, lit), at = Len(Written(d))
  PROVE  k = Len(d) /\ Len(lit) < CellBits
<1> DEFINE W == Written(d)
           end == EndAfter(d, k)
<1>1. /\ n = CoderAfter(d, k).nyt /\ GoalAfter(d, k) = n
      /\ Len(lit) < LiteralBits /\ at = end + Len(lit)
  BY DEF InLiteral
<1>2. end \in Nat /\ W \in Seq(Bit) /\ Len(W) \in Nat /\ Len(lit) \in Nat
  BY EndType
<1>3. LiteralBits \in Nat /\ CellBits \in Nat
  BY WidthAssumption
<1>4. /\ k < Len(d) => LengthAfter(d, k + 1) = end + LiteralBits
      /\ k = Len(d) => Len(W) < end + CellBits
  <2>1. GoalAfter(d, k) = CoderAfter(d, k).nyt
    BY <1>1
  <2>2. QED
    BY <2>1, GoalReached DEF EndAfter
<1>5. k < Len(d) => LengthAfter(d, k + 1) <= Len(W)
  BY NextBits
<1> HIDE DEF W, end
<1>6. at = Len(W)
  BY DEF W
<1>7. ~(k < Len(d))
  BY <1>1, <1>2, <1>3, <1>4, <1>5, <1>6
<1>8. k = Len(d)
  BY <1>7
<1>9. QED
  BY <1>1, <1>2, <1>3, <1>4, <1>6, <1>8

-----------------------------------------------------------------------------
(***************************************************************************)
(* The inductive invariant.  SameTree and ParkedAtNYT speak of the end     *)
(* only: what makes them true is that in between the decoder's coder is    *)
(* the one the encoder had after as many symbols, and that the bits it has *)
(* still to read up to its goal are those the encoder has written there.   *)
(***************************************************************************)
\* The decoder is called when the encoder is done.
Untouched ==
  phase \in {"apply", "encode"} =>
    /\ decoder = NewCoder /\ node = Root /\ state = "Value" /\ literal = <<>>
    /\ result = <<>> /\ ~lost

Applying ==
  /\ data = IF phase = "apply" THEN input ELSE Applied(input, UseModel)
  /\ phase = "apply" => index = 1 /\ coder = NewCoder /\ stream = <<>>

Encoded ==
  /\ phase = "encode" =>
       /\ index \in 1..(Len(data) + 1)
       /\ coder = CoderAfter(data, index - 1)
       /\ stream = Encoding(data)[index - 1].stream
  /\ phase \in {"decode", "done"} =>
       /\ coder = CoderAfter(data, Len(data))
       /\ Begins(stream, Written(data))
       /\ ~lost => stream = Written(data)

\* In its state the decoder knows what the bits are that come next.
Position(d, k, n, at, st, lit) ==
  \/ st = "Tree" /\ lit = <<>> /\ OnPath(d, k, n, at)
  \/ st = "Value" /\ InLiteral(d, k, n, at, lit)

Reading ==
  phase = "decode" =>
    /\ index \in 1..(Len(stream) + 1)
    /\ lost => index > Len(stream)
    /\ Begins(result, data)
    /\ decoder = CoderAfter(data, Len(result))
    /\ Position(data, Len(result), node, index - 1, state, literal)

Finished ==
  phase = "done" =>
    /\ Begins(result, input)
    /\ ~lost => /\ result = input /\ decoder = coder
                /\ node = decoder.nyt /\ Len(literal) < CellBits

IInv ==
  TypeOK /\ ~stopped /\ Untouched /\ Applying /\ Encoded /\ Reading /\ Finished

\* The invariant holds initially.
LEMMA InitInv == Init => IInv
<1> SUFFICES ASSUME Init PROVE IInv
  OBVIOUS
<1>1. input \in Seq(Value)
  BY WidthAssumption DEF Init, Inputs
<1>2. NewCoder \in Coder
  BY NewCoderSound, SoundCoder
<1>3. Root \in Node
  <2>1. Built(NewCoder.tree, NewCoder.nyt, NewCoder.cache, Null)
    BY NewCoderSound, SoundCoder
  <2>2. QED
    BY <2>1, Basics
<1>4. <<>> \in Seq(Value) /\ <<>> \in Bits
  BY DEF Bits
<1>5. TypeOK
  BY <1>1, <1>2, <1>3, <1>4 DEF Init, TypeOK
<1>6. Untouched /\ Applying /\ Encoded /\ Reading /\ Finished /\ ~stopped
  BY DEF Init, Untouched, Applying, Encoded, Reading, Finished
<1>7. QED
  BY <1>5, <1>6 DEF IInv

\* Applying the model keeps the invariant.
LEMMA ApplyModelInv == IInv /\ ApplyModel => IInv'
<1> SUFFICES ASSUME IInv, ApplyModel PROVE IInv'
  OBVIOUS
<1>1. /\ phase = "apply" /\ phase' = "encode" /\ data' = Applied(data, UseModel)
      /\ input' = input /\ index' = index /\ coder' = coder /\ stream' = stream
      /\ lost' = lost /\ decoder' = decoder /\ node' = node /\ state' = state
      /\ literal' = literal /\ stopped' = stopped /\ result' = result
  BY DEF ApplyModel, decoding
<1>2. data = input /\ index = 1 /\ coder = NewCoder /\ stream = <<>>
  BY <1>1 DEF IInv, Applying
<1>3. data' \in Seq(Value)
  BY <1>1, AppliedType DEF IInv, TypeOK
<1>4. TypeOK'
  BY <1>1, <1>3 DEF IInv, TypeOK
<1>5. Untouched' /\ Applying' /\ ~stopped'
  BY <1>1, <1>2 DEF IInv, Untouched, Applying
<1>6. Encoded'
  <2>1. Encoding(data')[0] = [coder |-> NewCoder, stream |-> <<>>]
    BY <1>3, EncodingSteps
  <2>2. Len(data') \in Nat
    BY <1>3
  <2>3. index' \in 1..(Len(data') + 1) /\ index' - 1 = 0
    BY <1>1, <1>2, <2>2
  <2>4. QED
    BY <1>1, <1>2, <2>1, <2>3 DEF Encoded, CoderAfter
<1>7. Reading' /\ Finished'
  BY <1>1 DEF Reading, Finished
<1>8. QED
  BY <1>4, <1>5, <1>6, <1>7 DEF IInv

\* Encoding a symbol keeps the invariant.
LEMMA EncodeSymbolInv == IInv /\ EncodeSymbol => IInv'
<1> SUFFICES ASSUME IInv, EncodeSymbol PROVE IInv'
  OBVIOUS
<1>1. /\ phase = "encode" /\ index <= Len(data)
      /\ index' = index + 1
      /\ input' = input /\ data' = data /\ phase' = phase
      /\ lost' = lost /\ decoder' = decoder /\ node' = node /\ state' = state
      /\ literal' = literal /\ stopped' = stopped /\ result' = result
  BY DEF EncodeSymbol, decoding
<1>2. /\ stream' = stream \o CodeOf(coder, data[index])
      /\ coder' = UpdateTree(coder, data[index])
  BY DEF EncodeSymbol, CodeOf, Code
<1>3. /\ data \in Seq(Value) /\ index \in 1..Len(data)
      /\ coder = Encoding(data)[index - 1].coder
      /\ stream = Encoding(data)[index - 1].stream
  BY <1>1 DEF IInv, TypeOK, Encoded, CoderAfter
<1>4. /\ coder' = Encoding(data)[index].coder
      /\ stream' = Encoding(data)[index].stream
  BY <1>2, <1>3, EncodingFields
<1>5. coder' \in Coder /\ stream' \in Bits
  <2>1. index \in 0..Len(data)
    BY <1>3
  <2>2. Sound(Encoding(data)[index].coder) /\ Encoding(data)[index].stream \in Seq(Bit)
    BY <1>3, <2>1, EncodingSteps
  <2>3. QED
    BY <1>4, <2>2, SoundCoder DEF Bits, Bit
<1>6. index' \in Nat
  BY <1>1, <1>3
<1>7. TypeOK'
  BY <1>1, <1>5, <1>6 DEF IInv, TypeOK
<1>8. Untouched' /\ Applying' /\ ~stopped'
  BY <1>1 DEF IInv, Untouched, Applying
<1>9. Encoded'
  <2>1. index' \in 1..(Len(data') + 1) /\ index' - 1 = index
    BY <1>1, <1>3
  <2>2. QED
    BY <1>1, <1>4, <2>1 DEF Encoded, CoderAfter
<1>10. Reading' /\ Finished'
  BY <1>1 DEF Reading, Finished
<1>11. QED
  BY <1>7, <1>8, <1>9, <1>10 DEF IInv

\* Writing the end mark keeps the invariant.
LEMMA EncodeEofInv == IInv /\ EncodeEof => IInv'
<1> SUFFICES ASSUME IInv, EncodeEof PROVE IInv'
  OBVIOUS
<1>1. /\ phase = "encode" /\ index > Len(data)
      /\ phase' = "decode" /\ index' = 1
      /\ stream' = FillCell(stream \o PathTo(coder.tree, coder.nyt))
      /\ input' = input /\ data' = data /\ coder' = coder
      /\ lost' = lost /\ decoder' = decoder /\ node' = node /\ state' = state
      /\ literal' = literal /\ stopped' = stopped /\ result' = result
  BY DEF EncodeEof, EndMark, decoding
<1>2. /\ data \in Seq(Value) /\ Len(data) \in Nat /\ index - 1 = Len(data)
      /\ coder = CoderAfter(data, index - 1)
      /\ stream = Encoding(data)[index - 1].stream
  BY <1>1 DEF IInv, TypeOK, Encoded
<1>3. coder = CoderAfter(data, Len(data)) /\ stream' = Written(data)
  BY <1>1, <1>2 DEF Written, CoderAfter
<1>4. Written(data) \in Seq(Bit)
  BY <1>2, StreamGrows
<1>5. /\ decoder = NewCoder /\ node = Root /\ state = "Value" /\ literal = <<>>
      /\ result = <<>> /\ ~lost
  BY <1>1 DEF IInv, Untouched
<1>6. TypeOK'
  BY <1>1, <1>3, <1>4 DEF IInv, TypeOK, Bits, Bit
<1>7. Untouched' /\ Applying' /\ Finished' /\ ~stopped'
  BY <1>1 DEF IInv, Untouched, Applying, Finished
<1>8. Encoded'
  <2>1. Begins(stream', Written(data))
    BY <1>3, <1>4 DEF Begins
  <2>2. QED
    BY <1>1, <1>3, <2>1 DEF Encoded
<1>9. Reading'
  <2>1. decoder = CoderAfter(data, 0)
    BY <1>2, <1>5, EncodingSteps DEF CoderAfter
  <2>2. Begins(<<>>, data)
    BY <1>2 DEF Begins
  <2>3. Position(data, 0, Root, 0, "Value", <<>>)
    BY <1>2, LiteralStarts DEF Position
  <2>4. Len(stream') \in Nat
    BY <1>3, <1>4
  <2>5. index' \in 1..(Len(stream') + 1) /\ index' - 1 = 0 /\ Len(result') = 0
    BY <1>1, <1>5, <2>4
  <2>6. QED
    BY <1>1, <1>5, <2>1, <2>2, <2>3, <2>5 DEF Reading
<1>10. QED
  BY <1>6, <1>7, <1>8, <1>9 DEF IInv

\* One more symbol of d.
LEMMA BeginsOneMore ==
  ASSUME NEW d, NEW r, d \in Seq(Value), r \in Seq(Value), Begins(r, d), Len(r) < Len(d)
  PROVE  LET longer == Append(r, d[Len(r) + 1])
         IN /\ longer \in Seq(Value) /\ Len(longer) = Len(r) + 1
            /\ Begins(longer, d)
<1> DEFINE s == d[Len(r) + 1]
           longer == Append(r, s)
<1>1. Len(r) \in Nat /\ Len(d) \in Nat /\ s \in Value
  OBVIOUS
<1> HIDE DEF s
<1>2. /\ longer \in Seq(Value) /\ Len(longer) = Len(r) + 1
      /\ \A i \in 1..Len(r) : longer[i] = r[i]
      /\ longer[Len(r) + 1] = s
  BY <1>1
<1> HIDE DEF longer
<1>3. ASSUME NEW i \in 1..Len(longer) PROVE longer[i] = d[i]
  <2>1. CASE i \in 1..Len(r)
    BY <1>2, <2>1 DEF Begins
  <2>2. CASE i = Len(r) + 1
    BY <1>2, <2>2 DEF s
  <2>3. QED
    BY <1>1, <1>2, <2>1, <2>2
<1>4. Len(longer) <= Len(d)
  BY <1>1, <1>2
<1>5. QED
  BY <1>2, <1>3, <1>4 DEF Begins, longer, s

\* The decoder between two bits.
Between(k, at, bit) ==
  /\ phase = "decode" /\ data \in Seq(Value) /\ result \in Seq(Value)
  /\ k = Len(result) /\ at = index - 1 /\ bit = Written(data)[at + 1]
  /\ k \in 0..Len(data) /\ at \in Nat /\ at < Len(Written(data))
  /\ literal \in Seq(Bit)
  /\ Begins(result, data)
  /\ decoder = CoderAfter(data, k)

\* What a bit leads to: the next position, of the same number of symbols or one more.
Arrives(at) ==
  /\ stopped' = stopped
  /\ result' \in Seq(Value) /\ literal' \in Seq(Bit)
  /\ node' \in Node /\ state' \in {"Tree", "Value"}
  /\ Begins(result', data)
  /\ Len(result') \in 0..Len(data)
  /\ decoder' = CoderAfter(data, Len(result'))
  /\ Position(data, Len(result'), node', at + 1, state', literal')

\* No symbol is PSEUDO_EOF: the next symbol of the data is decoded.
LEMMA SymbolEmitted ==
  ASSUME NEW k, NEW at, NEW bit, NEW n, Between(k, at, bit), ~stopped,
         k < Len(data), at + 1 = LengthAfter(data, k + 1),
         Emit(data[k + 1], n), state' = "Tree", literal' = <<>>
  PROVE  Arrives(at)
<1> DEFINE s == data[k + 1]
<1>1. /\ data \in Seq(Value) /\ result \in Seq(Value) /\ k = Len(result)
      /\ k \in 0..Len(data) /\ Len(data) \in Nat
      /\ Begins(result, data) /\ decoder = CoderAfter(data, k)
  BY DEF Between
<1>2. s \in Value /\ CoderAfter(data, k + 1) = UpdateTree(CoderAfter(data, k), s)
  BY <1>1, NextBits
<1>3. s # PSEUDO_EOF
  <2>1. s \in 0..(ValueCount - 1) /\ ValueCount \in Nat
    BY <1>2, ValueFacts
  <2> HIDE DEF s
  <2>2. QED
    BY <2>1 DEF PSEUDO_EOF
<1>4. /\ decoder' = UpdateTree(decoder, s) /\ node' = Root
      /\ result' = Append(result, s) /\ stopped' = stopped
  BY <1>3 DEF Emit, NextWalk
<1>5. result' \in Seq(Value) /\ Len(result') = k + 1 /\ Begins(result', data)
  BY <1>1, <1>4, BeginsOneMore
<1>6. decoder' = CoderAfter(data, k + 1)
  BY <1>1, <1>2, <1>4
<1>7. k + 1 \in 0..Len(data) /\ k + 1 # 0
  BY <1>1
<1>8. OnPath(data, k + 1, Root, at + 1)
  BY <1>1, <1>7, PathStarts
<1>9. Root \in Node
  BY <1>1, <1>7, TreeAfter
<1>10. Position(data, k + 1, Root, at + 1, "Tree", <<>>)
  BY <1>8 DEF Position
<1>11. <<>> \in Seq(Bit)
  OBVIOUS
<1>12. QED
  BY <1>4, <1>5, <1>6, <1>7, <1>9, <1>10, <1>11 DEF Arrives

\* A bit taken in the state Tree.
LEMMA TreeBit ==
  ASSUME NEW k, NEW at, NEW bit, Between(k, at, bit), ~stopped,
         state = "Tree", literal = <<>>, OnPath(data, k, node, at),
         DecodeLeaf(Walk(bit)) \/ DecodeNYT(Walk(bit), bit) \/ DecodeTurn(Walk(bit))
  PROVE  Arrives(at)
<1> DEFINE c == CoderAfter(data, k)
           goal == GoalAfter(data, k)
           m == Walk(bit)
<1>1. /\ data \in Seq(Value) /\ result \in Seq(Value) /\ k = Len(result)
      /\ k \in 0..Len(data) /\ Len(data) \in Nat /\ at \in Nat
      /\ Begins(result, data) /\ decoder = c /\ bit = Written(data)[at + 1]
  BY DEF Between
<1>2. m = ChildBy(c.tree, node, Written(data)[at + 1])
  BY <1>1 DEF Walk, ChildBy
<1>3. /\ m \in Allocated(c.tree)
      /\ m = goal => at + 1 = EndAfter(data, k)
      /\ m # goal => ~IsLeaf(c.tree, m) /\ OnPath(data, k, m, at + 1)
  BY <1>1, <1>2, BitOnPath
<1>4. /\ m \in Node /\ (decoder.tree.isNYT[m] <=> m = c.nyt)
      /\ IsLeaf(c.tree, c.nyt)
  BY <1>1, <1>3, TreeAfter
<1>5. LiteralBits > 0
  BY WidthAssumption
<1> HIDE DEF c, goal, m
<1>6. CASE m # goal
  <2>1. ~IsLeaf(decoder.tree, m) /\ ~decoder.tree.isNYT[m]
    BY <1>1, <1>3, <1>4, <1>6
  <2>2. DecodeTurn(m)
    BY <2>1 DEF DecodeLeaf, DecodeNYT, m
  <2>3. /\ node' = m /\ decoder' = decoder /\ state' = state /\ literal' = literal
        /\ stopped' = stopped /\ result' = result
    BY <2>2 DEF DecodeTurn
  <2>4. Position(data, k, m, at + 1, "Tree", <<>>)
    BY <1>3, <1>6 DEF Position
  <2>5. QED
    BY <1>1, <1>4, <2>3, <2>4 DEF Arrives, c
<1>7. CASE m = goal /\ goal = c.nyt
  <2>1. decoder.tree.isNYT[m]
    BY <1>4, <1>7
  <2>2. DecodeNYT(m, bit)
    BY <2>1 DEF DecodeLeaf, DecodeTurn, m
  <2>3. /\ node' = m /\ literal' = literal /\ state' = "Value"
        /\ decoder' = decoder /\ result' = result /\ stopped' = stopped
    BY <1>5, <2>2 DEF DecodeNYT
  <2>4. EndAfter(data, k) \in Nat
    BY <1>1, EndType
  <2>5. InLiteral(data, k, m, at + 1, <<>>)
    BY <1>3, <1>5, <1>7, <2>4 DEF InLiteral, c, goal
  <2>6. Position(data, k, m, at + 1, "Value", <<>>)
    BY <2>5 DEF Position
  <2>7. QED
    BY <1>1, <1>4, <2>3, <2>6 DEF Arrives, c
<1>8. CASE m = goal /\ goal # c.nyt
  <2>1. k < Len(data)
    BY <1>1, <1>8, GoalReached DEF c, goal
  <2>2. /\ LengthAfter(data, k + 1) = EndAfter(data, k)
        /\ IsLeaf(c.tree, goal) /\ c.tree.value[goal] = data[k + 1]
    BY <1>1, <1>8, <2>1, GoalReached DEF c, goal, EndAfter
  <2>3. DecodeLeaf(m)
    BY <1>1, <1>4, <1>8, <2>2 DEF DecodeNYT, DecodeTurn, m
  <2>4. Emit(data[k + 1], m) /\ state' = state /\ literal' = literal
    BY <1>1, <1>8, <2>2, <2>3 DEF DecodeLeaf
  <2>5. at + 1 = LengthAfter(data, k + 1)
    BY <1>3, <1>8, <2>2
  <2>6. QED
    BY <2>1, <2>4, <2>5, SymbolEmitted
<1>9. QED
  BY <1>6, <1>7, <1>8

\* A bit taken in the state Value.
LEMMA ValueBit ==
  ASSUME NEW k, NEW at, NEW bit, Between(k, at, bit), ~stopped,
         state = "Value", InLiteral(data, k, node, at, literal),
         DecodeLeaf(Walk(bit)) \/ DecodeNYT(Walk(bit), bit) \/ DecodeTurn(Walk(bit))
  PROVE  Arrives(at)
<1> DEFINE c == CoderAfter(data, k)
           bits == Append(literal, bit)
<1>1. /\ data \in Seq(Value) /\ result \in Seq(Value) /\ k = Len(result)
      /\ k \in 0..Len(data) /\ Len(data) \in Nat
      /\ Begins(result, data) /\ decoder = c /\ bit = Written(data)[at + 1]
      /\ at < Len(Written(data)) /\ literal \in Seq(Bit)
  BY DEF Between
<1>2. Walk(bit) = node /\ node = c.nyt
  BY DEF Walk, InLiteral
<1>3. node \in Node /\ decoder.tree.isNYT[node]
  BY <1>1, <1>2, TreeAfter
<1>4. DecodeNYT(node, bit)
  BY <1>2, <1>3 DEF DecodeLeaf, DecodeTurn
<1>5. /\ bits \in Seq(Bit)
      /\ Len(bits) # LiteralBits => InLiteral(data, k, node, at + 1, bits)
      /\ Len(bits) = LiteralBits =>
           /\ k < Len(data)
           /\ at + 1 = LengthAfter(data, k + 1)
           /\ BinToIntegral(bits) = data[k + 1]
  BY <1>1, BitInLiteral
<1>6. CASE Len(bits) = LiteralBits
  <2>1. Emit(BinToIntegral(bits), node) /\ literal' = <<>> /\ state' = "Tree"
    BY <1>4, <1>6 DEF DecodeNYT
  <2>2. Emit(data[k + 1], node)
    BY <1>5, <1>6, <2>1
  <2>3. QED
    BY <1>5, <1>6, <2>1, <2>2, SymbolEmitted
<1>7. CASE Len(bits) # LiteralBits
  <2>1. /\ node' = node /\ literal' = bits /\ state' = "Value"
        /\ decoder' = decoder /\ result' = result /\ stopped' = stopped
    BY <1>4, <1>7 DEF DecodeNYT
  <2> HIDE DEF bits
  <2>2. Position(data, k, node, at + 1, "Value", bits)
    BY <1>5, <1>7 DEF Position
  <2>3. QED
    BY <1>1, <1>3, <1>5, <2>1, <2>2 DEF Arrives, c
<1>8. QED
  BY <1>6, <1>7

\* Every bit that is decoded keeps the invariant.
LEMMA DecodeBitInv == IInv /\ DecodeBit => IInv'
<1> SUFFICES ASSUME IInv, DecodeBit PROVE IInv'
  OBVIOUS
<1> DEFINE k == Len(result)
           at == index - 1
           bit == stream[index]
<1>1. /\ phase = "decode" /\ index <= Len(stream) /\ index' = index + 1
      /\ phase' = phase /\ input' = input /\ data' = data /\ coder' = coder
      /\ stream' = stream /\ lost' = lost
  BY DEF DecodeBit, encoding
<1>2. ~stopped
  BY DEF IInv
<1>3. DecodeLeaf(Walk(bit)) \/ DecodeNYT(Walk(bit), bit) \/ DecodeTurn(Walk(bit))
  BY <1>2 DEF DecodeBit
<1>4. /\ index \in 1..(Len(stream) + 1) /\ Begins(result, data)
      /\ decoder = CoderAfter(data, k)
      /\ Position(data, k, node, at, state, literal)
      /\ ~lost
  BY <1>1 DEF IInv, Reading
<1>5. data \in Seq(Value) /\ result \in Seq(Value) /\ literal \in Seq(Bit) /\ stream \in Seq(Bit)
  BY DEF IInv, TypeOK, Bits, Bit
<1>6. stream = Written(data)
  BY <1>1, <1>4 DEF IInv, Encoded
<1>7. Between(k, at, bit)
  <2>1. k \in 0..Len(data)
    BY <1>4, <1>5 DEF Begins
  <2>2. at \in Nat /\ at + 1 = index /\ at < Len(stream)
    BY <1>1, <1>4, <1>5
  <2>3. bit = Written(data)[at + 1]
    BY <1>6, <2>2
  <2>4. QED
    BY <1>1, <1>4, <1>5, <1>6, <2>1, <2>2, <2>3 DEF Between
<1> HIDE DEF bit
<1>8. Arrives(at)
  <2>1. CASE state = "Tree" /\ literal = <<>> /\ OnPath(data, k, node, at)
    BY <1>2, <1>3, <1>7, <2>1, TreeBit
  <2>2. CASE state = "Value" /\ InLiteral(data, k, node, at, literal)
    BY <1>2, <1>3, <1>7, <2>2, ValueBit
  <2>3. QED
    BY <1>4, <2>1, <2>2 DEF Position
<1>9. /\ index' \in Nat /\ index' \in 1..(Len(stream') + 1) /\ at + 1 = index' - 1
  BY <1>1, <1>4, <1>5
<1> HIDE DEF k, at
<1>10. /\ stopped' = stopped /\ result' \in Seq(Value) /\ literal' \in Seq(Bit)
       /\ node' \in Node /\ state' \in {"Tree", "Value"} /\ Begins(result', data)
       /\ Len(result') \in 0..Len(data) /\ decoder' = CoderAfter(data, Len(result'))
       /\ Position(data, Len(result'), node', index' - 1, state', literal')
  BY <1>8, <1>9 DEF Arrives
<1>11. decoder' \in Coder
  BY <1>5, <1>10, TreeAfter, SoundCoder
<1>12. TypeOK'
  BY <1>1, <1>9, <1>10, <1>11 DEF IInv, TypeOK, Bits, Bit
<1>13. Untouched' /\ Applying' /\ Encoded' /\ Finished'
  BY <1>1 DEF IInv, Untouched, Applying, Encoded, Finished
<1>14. Reading'
  BY <1>1, <1>4, <1>9, <1>10 DEF Reading
<1>15. QED
  BY <1>2, <1>10, <1>12, <1>13, <1>14 DEF IInv

\* Reverting the model keeps the invariant.
LEMMA RevertModelInv == IInv /\ RevertModel => IInv'
<1> SUFFICES ASSUME IInv, RevertModel PROVE IInv'
  OBVIOUS
<1> DEFINE k == Len(result)
           at == index - 1
<1>1. /\ phase = "decode" /\ index > Len(stream)
      /\ result' = Reverted(result, UseModel) /\ phase' = "done"
      /\ input' = input /\ index' = index /\ data' = data /\ coder' = coder
      /\ stream' = stream /\ lost' = lost /\ decoder' = decoder /\ node' = node
      /\ state' = state /\ literal' = literal /\ stopped' = stopped
  BY DEF RevertModel, encoding
<1>2. /\ input \in Seq(Value) /\ data \in Seq(Value) /\ result \in Seq(Value)
      /\ literal \in Seq(Bit) /\ stream \in Seq(Bit)
  BY DEF IInv, TypeOK, Bits, Bit
<1>3. /\ index \in 1..(Len(stream) + 1) /\ Begins(result, data)
      /\ decoder = CoderAfter(data, k)
      /\ Position(data, k, node, at, state, literal)
  BY <1>1 DEF IInv, Reading
<1>4. /\ data = Applied(input, UseModel)
      /\ coder = CoderAfter(data, Len(data))
      /\ ~lost => stream = Written(data)
  BY <1>1 DEF IInv, Applying, Encoded
<1>5. /\ result' \in Seq(Value) /\ Len(result') = Len(result)
      /\ Begins(result', input)
  BY <1>1, <1>2, <1>3, <1>4, ModelReverted
<1>6. k \in 0..Len(data) /\ Len(data) = Len(input) /\ Len(input) \in Nat
  BY <1>2, <1>3, <1>4, AppliedType DEF Begins
<1>7. at \in Nat /\ at = Len(stream)
  BY <1>1, <1>2, <1>3
<1>8. ASSUME ~lost
      PROVE  /\ result' = input /\ decoder = coder
             /\ node = decoder.nyt /\ Len(literal) < CellBits
  <2>1. at = Len(Written(data))
    BY <1>4, <1>7, <1>8
  <2>2. InLiteral(data, k, node, at, literal)
    <3>1. ASSUME OnPath(data, k, node, at) PROVE FALSE
      <4>1. at < EndAfter(data, k)
        BY <1>2, <1>6, <1>7, <3>1, BitOnPath
      <4>2. EndAfter(data, k) \in Nat /\ EndAfter(data, k) <= Len(Written(data))
        BY <1>2, <1>6, EndType
      <4> HIDE DEF k, at
      <4>3. QED
        BY <1>7, <2>1, <4>1, <4>2
    <3>2. QED
      BY <1>3, <3>1 DEF Position
  <2>3. k = Len(data) /\ Len(literal) < CellBits
    BY <1>2, <1>6, <2>1, <2>2, StreamOver
  <2>4. decoder = coder /\ node = decoder.nyt
    BY <1>3, <1>4, <2>2, <2>3 DEF InLiteral
  <2>5. result' = input
    BY <1>2, <1>5, <1>6, <2>3 DEF Begins
  <2>6. QED
    BY <2>3, <2>4, <2>5
<1>9. TypeOK'
  BY <1>1, <1>5 DEF IInv, TypeOK
<1>10. Untouched' /\ Applying' /\ Encoded' /\ Reading' /\ ~stopped'
  BY <1>1 DEF IInv, Untouched, Applying, Encoded, Reading
<1>11. Finished'
  BY <1>1, <1>5, <1>8 DEF Finished
<1>12. QED
  BY <1>9, <1>10, <1>11 DEF IInv

\* Losing the end of the file keeps the invariant, and happens once.
LEMMA LoseEndInv == IInv /\ LoseEnd => IInv' /\ ~lost
<1> SUFFICES ASSUME IInv, LoseEnd PROVE IInv' /\ ~lost
  OBVIOUS
<1>1. /\ phase = "decode" /\ index <= Len(stream)
      /\ stream' = SubSeq(stream, 1, index - 1) /\ lost' = TRUE
      /\ input' = input /\ index' = index /\ data' = data /\ coder' = coder
      /\ phase' = phase /\ result' = result /\ decoder' = decoder /\ node' = node
      /\ state' = state /\ literal' = literal /\ stopped' = stopped
  BY DEF LoseEnd, decoding
<1>2. data \in Seq(Value) /\ stream \in Seq(Bit)
  BY DEF IInv, TypeOK, Bits, Bit
<1>3. index \in 1..(Len(stream) + 1) /\ Begins(stream, Written(data)) /\ ~lost
  BY <1>1 DEF IInv, Reading, Encoded
<1>4. index \in Nat /\ index - 1 \in 0..Len(stream)
  BY <1>1, <1>2, <1>3
<1>5. /\ stream' \in Seq(Bit) /\ Len(stream') = index - 1
      /\ \A i \in 1..(index - 1) : stream'[i] = stream[i]
  BY <1>1, <1>2, <1>4
<1>6. Begins(stream', Written(data))
  <2>1. Written(data) \in Seq(Bit) /\ Len(stream) <= Len(Written(data))
    BY <1>2, <1>3, StreamGrows DEF Begins
  <2>2. Len(stream') <= Len(Written(data))
    BY <1>2, <1>4, <1>5, <2>1
  <2>3. ASSUME NEW i \in 1..Len(stream') PROVE stream'[i] = Written(data)[i]
    <3>1. i \in 1..Len(stream) /\ stream'[i] = stream[i]
      BY <1>2, <1>4, <1>5
    <3>2. QED
      BY <1>3, <3>1 DEF Begins
  <2>4. QED
    BY <2>2, <2>3 DEF Begins
<1>7. TypeOK'
  BY <1>1, <1>5 DEF IInv, TypeOK, Bits, Bit
<1>8. Untouched' /\ Applying' /\ Finished' /\ ~stopped'
  BY <1>1 DEF IInv, Untouched, Applying, Finished
<1>9. Encoded'
  BY <1>1, <1>6 DEF IInv, Encoded
<1>10. Reading'
  <2>1. index' \in 1..(Len(stream') + 1) /\ index' > Len(stream')
    BY <1>1, <1>4, <1>5
  <2>2. QED
    BY <1>1, <2>1 DEF IInv, Reading
<1>11. QED
  BY <1>3, <1>7, <1>8, <1>9, <1>10 DEF IInv

\* Every step keeps the invariant.
LEMMA NextInv == IInv /\ [Next]_vars => IInv'
<1> SUFFICES ASSUME IInv, [Next]_vars PROVE IInv'
  OBVIOUS
<1>1. CASE ApplyModel
  BY <1>1, ApplyModelInv
<1>2. CASE EncodeSymbol
  BY <1>2, EncodeSymbolInv
<1>3. CASE EncodeEof
  BY <1>3, EncodeEofInv
<1>4. CASE DecodeBit
  BY <1>4, DecodeBitInv
<1>5. CASE RevertModel
  BY <1>5, RevertModelInv
<1>6. CASE LoseEnd
  BY <1>6, LoseEndInv
<1>7. CASE UNCHANGED vars
  BY <1>7 DEF vars, IInv, TypeOK, Untouched, Applying, Encoded, Reading, Finished
<1>8. QED
  BY <1>1, <1>2, <1>3, <1>4, <1>5, <1>6, <1>7 DEF Next, Step, Done

-----------------------------------------------------------------------------
(***************************************************************************)
(* The theorems.                                                           *)
(***************************************************************************)
\* The invariant holds of encodeAdaptive and decodeAdaptive for every width of the
\* values, of the literals and of the cells, and for inputs of every length.
THEOREM SpecInvariant == Spec => []IInv
<1>1. Init => IInv
  BY InitInv
<1>2. IInv /\ [Next]_vars => IInv'
  BY NextInv
<1>3. QED
  BY <1>1, <1>2, PTL DEF Spec

\* Every variable keeps its type: the values decoded are values of T, and every node
\* the decoder walks to is a node.
THEOREM TypeCorrect == Spec => []TypeOK
<1>1. IInv => TypeOK
  BY DEF IInv
<1>2. QED
  BY <1>1, SpecInvariant, PTL

\* decodeAdaptive ends with the tree, the NYT node and the symbol nodes with which
\* encodeAdaptive has ended.
THEOREM TreesEndAlike == Spec => []SameTree
<1>1. IInv => SameTree
  BY DEF IInv, Finished, SameTree
<1>2. QED
  BY <1>1, SpecInvariant, PTL

\* The end mark parks decodeAdaptive at the NYT node, with too few bits behind it
\* for a literal.
THEOREM EndsParked == Spec => []ParkedAtNYT
<1>1. IInv => ParkedAtNYT
  BY DEF IInv, Finished, ParkedAtNYT
<1>2. QED
  BY <1>1, SpecInvariant, PTL

\* The comparison with PSEUDO_EOF (src/adaptive_decoding.h:66) is never true.
THEOREM EofNeverSeen == Spec => []~stopped
<1>1. IInv => ~stopped
  BY DEF IInv
<1>2. QED
  BY <1>1, SpecInvariant, PTL

\* The adaptive codec is lossless: every step is one of LosslessCodec or none, so
\* that what decodeAdaptive returns is what encodeAdaptive was given, or of a file
\* that was cut short a beginning of it.
THEOREM Lossless == Spec => Codec!Init /\ [][Codec!Next]_(Codec!vars)
<1>1. Init => Codec!Init
  BY DEF Init, Codec!Init
<1>2. IInv /\ IInv' /\ [Next]_vars => [Codec!Next]_(Codec!vars)
  <2> SUFFICES ASSUME IInv, IInv', [Next]_vars PROVE [Codec!Next]_(Codec!vars)
    OBVIOUS
  <2>1. CASE RevertModel
    <3>1. /\ phase = "decode" /\ phase' = "done" /\ input' = input /\ lost' = lost
      BY <2>1 DEF RevertModel, encoding
    <3>2. Begins(result', input) /\ (~lost => result' = input)
      BY <3>1 DEF IInv, Finished
    <3>3. input \in Seq(Value) /\ result' \in Seq(Value)
      BY <3>1 DEF IInv, TypeOK
    <3>4. IsPrefix(result', input)
      BY <3>2, <3>3 DEF Begins, IsPrefix
    <3>5. QED
      BY <3>1, <3>2, <3>4 DEF Codec!Next, Codec!Return
  <2>2. CASE LoseEnd
    <3>1. ~lost
      BY <2>2, LoseEndInv
    <3>2. QED
      BY <2>2, <3>1 DEF LoseEnd, Codec!Next, Codec!LoseEnd
  <2>3. CASE ApplyModel \/ EncodeSymbol \/ EncodeEof \/ DecodeBit
    <3>1. /\ phase # "done" /\ phase' # "done" /\ input' = input /\ lost' = lost
      BY <2>3 DEF ApplyModel, EncodeSymbol, EncodeEof, DecodeBit, encoding
    <3>2. QED
      BY <3>1 DEF Codec!vars
  <2>4. CASE UNCHANGED vars
    BY <2>4 DEF vars, Codec!vars
  <2>5. QED
    BY <2>1, <2>2, <2>3, <2>4 DEF Next, Step, Done
<1>3. QED
  BY <1>1, <1>2, SpecInvariant, PTL DEF Spec
=============================================================================
