------------------------- MODULE StaticCodecProofs -------------------------
(***************************************************************************)
(* Proofs about the static codec, for every width of the values and of int *)
(* that WidthAssumption allows, and for data of every length.              *)
(*                                                                         *)
(* The codes of a tree share out all sequences of bits that are as long as *)
(* the longest of them; this is what makes the canonical codes a prefix    *)
(* code, what the decoder's tables count, and why a count that is narrowed *)
(* to a byte can be told from one that is not.  That a long code takes a   *)
(* lot of data follows from the weights of the trees, which grow like      *)
(* Fibonacci's numbers.                                                    *)
(*                                                                         *)
(* The parts, in this order: codes in the order of their lengths and the   *)
(* tables for them; the invariant of the heap and its steps; the codes     *)
(* made of the last tree; the file; the decoder; the invariant of the      *)
(* specification and its steps; the theorems; and that no prefix code is   *)
(* shorter.                                                                *)
(*                                                                         *)
(* Of CodingTreeProofs only what it begins with, numbers and sums and the  *)
(* lengths of codes, and Begins are used: nothing here is about its tree.  *)
(***************************************************************************)
EXTENDS MCStaticCodec, CodingTreeProofs

-----------------------------------------------------------------------------
(***************************************************************************)
(* Canonical codes: numbers N for the lengths L of n codes, sorted, where  *)
(* D is a length none is above.  A code of length m takes 2 ^ (D - m) of   *)
(* the 2 ^ D sequences of D bits, and together they take them all.         *)
(***************************************************************************)
Shares(L, D) == [i \in DOMAIN L |-> 2 ^ (D - L[i])]

\* What the first i codes take.
Taken(L, D, i) == Total(Shares(L, D), 1..i)

Lengths(L, D) ==
  /\ Len(L) \in Nat \ {0} /\ D \in Nat
  /\ DOMAIN L = 1..Len(L)
  /\ \A i \in 1..Len(L) : L[i] \in 1..D
  /\ \A i, j \in 1..Len(L) : i <= j => L[i] <= L[j]
  /\ Taken(L, D, Len(L)) = 2 ^ D

Canonical(L, D, N) ==
  /\ \A i \in 1..Len(L) : N[i] \in Nat
  /\ N[1] = 0
  /\ \A i \in 2..Len(L) : N[i] = (N[i - 1] + 1) * 2 ^ (L[i] - L[i - 1])

\* Every code takes its share.
LEMMA TakenGrows ==
  ASSUME NEW L, NEW D, Lengths(L, D)
  PROVE  /\ Taken(L, D, 0) = 0
         /\ \A i \in 0..Len(L) : Taken(L, D, i) \in Nat
         /\ \A i \in 1..Len(L) : /\ 2 ^ (D - L[i]) \in Nat /\ 2 ^ (D - L[i]) > 0
                                 /\ Taken(L, D, i) = Taken(L, D, i - 1) + 2 ^ (D - L[i])
         /\ \A i, j \in 0..Len(L) : i <= j => Taken(L, D, i) <= Taken(L, D, j)
<1> DEFINE n == Len(L)
           f == Shares(L, D)
<1>1. /\ n \in Nat /\ DOMAIN L = 1..n
      /\ \A i \in 1..n : L[i] \in 1..D /\ D - L[i] \in Nat
  BY DEF Lengths
<1>2. \A i \in 1..n : 2 ^ (D - L[i]) \in Nat /\ 2 ^ (D - L[i]) > 0
  BY <1>1, PowersOfTwo
<1>3. f \in [1..n -> Nat] /\ \A i \in 1..n : f[i] = 2 ^ (D - L[i])
  BY <1>1, <1>2 DEF Shares
<1> HIDE DEF f, n
<1>4. /\ Total(f, 1..0) = 0
      /\ \A i \in 0..n : Total(f, 1..i) \in Nat
      /\ \A i \in 1..n : Total(f, 1..i) = Total(f, 1..(i - 1)) + f[i]
  BY <1>1, <1>3, TotalOfFirst
<1>5. ASSUME NEW i \in 0..n, NEW j \in 0..n, i <= j PROVE Total(f, 1..i) <= Total(f, 1..j)
  <2>1. 1..i \subseteq 1..j /\ 1..j \subseteq 1..n
    BY <1>1, <1>5
  <2>2. IsFiniteSet(1..j)
    BY FS_Interval
  <2>3. QED
    BY <1>3, <2>1, <2>2, TotalOfPart
<1>6. QED
  BY <1>2, <1>3, <1>4, <1>5 DEF Taken, f, n

\* A code is what those before it take, in units of its own share.
LEMMA NumbersAreTaken ==
  ASSUME NEW L, NEW D, NEW N, Lengths(L, D), Canonical(L, D, N)
  PROVE  \A i \in 1..Len(L) : N[i] * 2 ^ (D - L[i]) = Taken(L, D, i - 1)
<1> DEFINE n == Len(L)
           S == {i \in Nat : i + 1 <= n => N[i + 1] * 2 ^ (D - L[i + 1]) = Taken(L, D, i)}
<1>1. 0 \in S
  <2>1. 1 \in 1..n
    BY DEF Lengths
  <2>2. 2 ^ (D - L[1]) \in Nat /\ Taken(L, D, 0) = 0
    BY <2>1, TakenGrows
  <2>3. N[1] = 0
    BY DEF Canonical
  <2> DEFINE p == 2 ^ (D - L[1])
  <2> HIDE DEF p
  <2>4. p \in Nat => 0 * p = 0
    OBVIOUS
  <2>5. N[0 + 1] * 2 ^ (D - L[0 + 1]) = Taken(L, D, 0)
    BY <2>2, <2>3, <2>4 DEF p
  <2>6. QED
    BY <2>5
<1>2. ASSUME NEW i \in Nat, i \in S PROVE i + 1 \in S
  <2> SUFFICES ASSUME (i + 1) + 1 <= n
               PROVE  N[(i + 1) + 1] * 2 ^ (D - L[(i + 1) + 1]) = Taken(L, D, i + 1)
    OBVIOUS
  <2> DEFINE j == i + 1
             k == j + 1
  <2>1. /\ n \in Nat /\ j \in 1..n /\ k \in 2..n /\ k \in 1..n /\ k - 1 = j /\ j - 1 = i
        /\ j <= k
    BY DEF Lengths
  <2>2. N[j] * 2 ^ (D - L[j]) = Taken(L, D, i)
    BY <1>2, <2>1
  <2>3. N[k] = (N[j] + 1) * 2 ^ (L[k] - L[j]) /\ N[j] \in Nat
    <3>1. N[k] = (N[k - 1] + 1) * 2 ^ (L[k] - L[k - 1])
      BY <2>1 DEF Canonical
    <3>2. N[j] \in Nat
      BY <2>1 DEF Canonical
    <3>3. QED
      BY <2>1, <3>1, <3>2
  <2>4. L[j] \in 1..D /\ L[k] \in 1..D /\ L[j] <= L[k] /\ D \in Nat
    BY <2>1 DEF Lengths
  <2> DEFINE a == L[k] - L[j]
             b == D - L[k]
             p == 2 ^ a
             q == 2 ^ b
             r == 2 ^ (D - L[j])
  <2>5. a \in Nat /\ b \in Nat /\ D - L[j] = a + b
    BY <2>4
  <2>6. r = p * q /\ p \in Nat /\ q \in Nat
    <3> HIDE DEF a, b
    <3>1. 2 ^ (a + b) = p * q /\ p \in Nat /\ q \in Nat
      BY <2>5, PowerOfSum, PowersOfTwo
    <3>2. QED
      BY <2>5, <3>1
  <2>7. Taken(L, D, j) = Taken(L, D, i) + r
    BY <2>1, TakenGrows
  <2> DEFINE x == N[j]
             t == Taken(L, D, i)
             u == Taken(L, D, j)
  <2>8. x \in Nat /\ x * r = t /\ u = t + r /\ N[k] = (x + 1) * p /\ t \in Nat
    <3>1. i \in 0..n
      BY <2>1
    <3>2. t \in Nat
      BY <3>1, TakenGrows
    <3>3. QED
      BY <2>2, <2>3, <2>7, <3>2
  <2>9. N[k] * q = u
    <3> HIDE DEF p, q, r, x, t, u
    <3>1. ((x + 1) * p) * q = x * (p * q) + p * q
      BY <2>6, <2>8
    <3>2. ((x + 1) * p) * q = x * r + r
      BY <2>6, <3>1
    <3>3. QED
      BY <2>8, <3>2
  <2>10. QED
    BY <2>9
<1> HIDE DEF S
<1>3. ASSUME NEW i \in 1..n PROVE N[i] * 2 ^ (D - L[i]) = Taken(L, D, i - 1)
  <2>1. i - 1 \in Nat /\ (i - 1) + 1 = i /\ i <= n
    BY DEF Lengths
  <2>2. i - 1 \in S
    BY <1>1, <1>2, <2>1, Induction
  <2>3. QED
    BY <2>1, <2>2 DEF S
<1>4. QED
  BY <1>3


\* Every code has as many digits as it is long.
LEMMA NumbersFit ==
  ASSUME NEW L, NEW D, NEW N, Lengths(L, D), Canonical(L, D, N)
  PROVE  \A i \in 1..Len(L) : N[i] \in Nat /\ N[i] < 2 ^ L[i]
<1> SUFFICES ASSUME NEW i \in 1..Len(L) PROVE N[i] \in Nat /\ N[i] < 2 ^ L[i]
  OBVIOUS
<1> DEFINE p == 2 ^ (D - L[i])
           q == 2 ^ L[i]
           t == Taken(L, D, i - 1)
           x == N[i]
<1>1. /\ L[i] \in Nat /\ D - L[i] \in Nat /\ D = L[i] + (D - L[i])
      /\ i - 1 \in 0..Len(L) /\ i \in 0..Len(L) /\ Len(L) \in 0..Len(L) /\ i <= Len(L)
      /\ Taken(L, D, Len(L)) = 2 ^ D
  <2>1. L[i] \in 1..D /\ D \in Nat /\ Len(L) \in Nat
    BY DEF Lengths
  <2>2. QED
    BY <2>1 DEF Lengths
<1>2. /\ p \in Nat /\ p > 0 /\ q \in Nat /\ 2 ^ D = q * p
  <2> DEFINE a == L[i]
             b == D - L[i]
  <2>1. a \in Nat /\ b \in Nat /\ D = a + b
    BY <1>1
  <2> HIDE DEF a, b
  <2>2. 2 ^ (a + b) = 2 ^ a * 2 ^ b
    BY <2>1, PowerOfSum
  <2>3. 2 ^ b \in Nat /\ 2 ^ b > 0 /\ 2 ^ a \in Nat
    BY <2>1, PowersOfTwo
  <2>4. QED
    BY <2>1, <2>2, <2>3 DEF a, b
<1>3. /\ t \in Nat /\ t + p <= 2 ^ D
  <2>1. Taken(L, D, i) = t + p /\ Taken(L, D, i) <= Taken(L, D, Len(L)) /\ t \in Nat
    BY <1>1, TakenGrows
  <2>2. QED
    BY <1>1, <2>1
<1>4. x * p = t /\ x \in Nat
  BY NumbersAreTaken DEF Canonical
<1>5. x * p < q * p
  <2> DEFINE y == x * p
             z == q * p
  <2>1. y \in Nat /\ y + p <= z
    BY <1>2, <1>3, <1>4
  <2>2. z \in Nat
    BY <1>2
  <2> HIDE DEF y, z, p
  <2>3. y < z
    BY <1>2, <2>1, <2>2
  <2>4. QED
    BY <2>3 DEF y, z
<1> HIDE DEF p, q, t, x
<1>6. x < q
  BY <1>2, <1>4, <1>5, Cancel
<1>7. QED
  BY <1>4, <1>6 DEF x, q

\* The digits of a number are its bits.
LEMMA DigitsAreBits ==
  ASSUME NEW v, NEW n \in Nat
  PROVE  /\ DOMAIN Digits(v, n) = 1..n /\ Len(Digits(v, n)) = n
         /\ BitsOf(Digits(v, n), v, n)
         /\ v \in Nat => Digits(v, n) \in Seq({0, 1})
<1>1. BitsOf(Digits(v, n), v, n) /\ DOMAIN Digits(v, n) = 1..n
  BY DEF BitsOf, Digits
<1>2. Len(Digits(v, n)) = n
  BY DEF Digits
<1>3. ASSUME v \in Nat PROVE Digits(v, n) \in Seq({0, 1})
  <2>1. ASSUME NEW i \in 1..n PROVE Digits(v, n)[i] \in {0, 1}
    BY <1>1, <1>3, Quotients
  <2>2. Digits(v, n) \in [1..n -> {0, 1}]
    BY <1>1, <2>1 DEF Digits
  <2>3. QED
    BY <2>2
<1>4. QED
  BY <1>1, <1>2, <1>3

\* Numbers with the same first digits.
LEMMA SamePrefix ==
  ASSUME NEW v \in Nat, NEW w \in Nat, NEW n \in Nat, NEW m \in Nat, n <= m,
         v < 2 ^ n, w < 2 ^ m, NEW b, NEW c, BitsOf(b, v, n), BitsOf(c, w, m),
         \A i \in 1..n : b[i] = c[i]
  PROVE  v = w \div 2 ^ (m - n)
<1> DEFINE x(i) == v \div 2 ^ (n - i)
           y(i) == w \div 2 ^ (m - i)
           S == {i \in Nat : i <= n => x(i) = y(i)}
<1>1. \A i \in 1..n : x(i) = 2 * x(i - 1) + b[i]
  BY Quotients
<1>2. \A i \in 1..m : y(i) = 2 * y(i - 1) + c[i]
  BY Quotients
<1>3. x(0) = 0 /\ y(0) = 0
  <2>1. n - 0 = n /\ m - 0 = m
    OBVIOUS
  <2>2. ASSUME NEW k \in Nat, NEW u \in Nat, u < 2 ^ k PROVE u \div 2 ^ k = 0
    <3> DEFINE p == 2 ^ k
    <3>1. p \in Nat /\ u < p
      BY <2>2, PowersOfTwo
    <3> HIDE DEF p
    <3>2. u \div p = 0
      BY <3>1
    <3>3. QED
      BY <3>2 DEF p
  <2>3. QED
    BY <2>1, <2>2
<1> HIDE DEF x, y
<1>4. 0 \in S
  BY <1>3
<1>5. ASSUME NEW i \in Nat, i \in S PROVE i + 1 \in S
  <2> SUFFICES ASSUME i + 1 <= n PROVE x(i + 1) = y(i + 1)
    OBVIOUS
  <2>1. i + 1 \in 1..n /\ i + 1 \in 1..m /\ (i + 1) - 1 = i
    OBVIOUS
  <2>2. x(i + 1) = 2 * x(i) + b[i + 1] /\ y(i + 1) = 2 * y(i) + c[i + 1]
    BY <1>1, <1>2, <2>1
  <2>3. x(i) = y(i) /\ b[i + 1] = c[i + 1]
    BY <1>5, <2>1
  <2>4. QED
    BY <2>2, <2>3
<1> HIDE DEF S
<1>6. n \in S
  BY <1>4, <1>5, Induction
<1>7. x(n) = y(n)
  BY <1>6 DEF S
<1>8. x(n) = v
  <2>1. n - n = 0 /\ v \div 1 = v
    OBVIOUS
  <2>2. QED
    BY <2>1, PowersOfTwo DEF x
<1>9. QED
  BY <1>7, <1>8 DEF y

\* No canonical code is the beginning of another.
LEMMA CanonicalPrefixFree ==
  ASSUME NEW L, NEW D, NEW N, Lengths(L, D), Canonical(L, D, N),
         NEW i \in 1..Len(L), NEW j \in 1..Len(L), L[i] <= L[j],
         \A k \in 1..L[i] : Digits(N[i], L[i])[k] = Digits(N[j], L[j])[k]
  PROVE  i = j
<1> DEFINE n == Len(L)
           x == N[i]
           y == N[j]
           s == 2 ^ (L[j] - L[i])
           p == 2 ^ (D - L[i])
           q == 2 ^ (D - L[j])
<1>1. /\ L[i] \in Nat /\ L[j] \in Nat /\ L[j] - L[i] \in Nat /\ D - L[j] \in Nat
      /\ D - L[i] = (L[j] - L[i]) + (D - L[j]) /\ n \in Nat
  <2>1. L[i] \in 1..D /\ L[j] \in 1..D /\ D \in Nat /\ n \in Nat
    BY DEF Lengths
  <2>2. QED
    BY <2>1
<1>2. x \in Nat /\ x < 2 ^ L[i] /\ y \in Nat /\ y < 2 ^ L[j]
  BY NumbersFit
<1>3. x = y \div s
  <2> DEFINE a == L[i]
             b == L[j]
             c == Digits(x, a)
             d == Digits(y, b)
  <2>1. a \in Nat /\ b \in Nat /\ a <= b /\ x < 2 ^ a /\ y < 2 ^ b
    BY <1>1, <1>2
  <2>2. \A k \in 1..a : c[k] = d[k]
    OBVIOUS
  <2>3. BitsOf(c, x, a) /\ BitsOf(d, y, b)
    <3> HIDE DEF a, b, x, y
    <3>1. QED
      BY <2>1, DigitsAreBits
  <2> HIDE DEF a, b, c, d, x, y
  <2>4. x = y \div 2 ^ (b - a)
    BY <1>2, <2>1, <2>2, <2>3, SamePrefix
  <2>5. QED
    BY <2>4 DEF a, b
<1>4. p = s * q /\ s \in Nat /\ s > 0 /\ q \in Nat /\ q > 0
  <2> DEFINE a == L[j] - L[i]
             b == D - L[j]
  <2>1. a \in Nat /\ b \in Nat /\ D - L[i] = a + b
    BY <1>1
  <2> HIDE DEF a, b
  <2>2. 2 ^ (a + b) = 2 ^ a * 2 ^ b
    BY <2>1, PowerOfSum
  <2>3. 2 ^ b \in Nat /\ 2 ^ b > 0 /\ 2 ^ a \in Nat /\ 2 ^ a > 0
    BY <2>1, PowersOfTwo
  <2>4. QED
    BY <2>1, <2>2, <2>3 DEF a, b
<1>5. x * p = Taken(L, D, i - 1) /\ y * q = Taken(L, D, j - 1)
  BY NumbersAreTaken
<1>6. /\ Taken(L, D, i) = Taken(L, D, i - 1) + p
      /\ Taken(L, D, j) = Taken(L, D, j - 1) + q
  BY TakenGrows
<1> HIDE DEF x, y, s, p, q
<1>7. x * s <= y /\ y < x * s + s
  BY <1>2, <1>3, <1>4
<1>8. x * p <= y * q /\ y * q < x * p + p
  <2> DEFINE z == x * s
  <2>1. z \in Nat /\ z <= y /\ y < z + s
    BY <1>2, <1>4, <1>7
  <2>2. x * p = z * q
    BY <1>2, <1>4
  <2> HIDE DEF z
  <2>3. z * q <= y * q
    BY <1>2, <1>4, <2>1
  <2>4. y * q + q <= z * q + s * q
    <3>1. (y + 1) * q <= (z + s) * q
      BY <1>2, <1>4, <2>1
    <3>2. (y + 1) * q = y * q + q /\ (z + s) * q = z * q + s * q
      BY <1>2, <1>4, <2>1
    <3>3. QED
      BY <3>1, <3>2
  <2> DEFINE f == z * q
             g == y * q
  <2>5. f \in Nat /\ g \in Nat /\ f <= g /\ g + q <= f + p
    BY <1>2, <1>4, <2>1, <2>3, <2>4
  <2> HIDE DEF f, g
  <2>6. f <= g /\ g < f + p
    <3>1. p \in Nat
      BY <1>4
    <3>2. QED
      BY <1>4, <2>5, <3>1
  <2>7. QED
    BY <2>2, <2>6 DEF f, g
<1>9. /\ i - 1 \in 0..n /\ i \in 0..n /\ j - 1 \in 0..n /\ j \in 0..n
  BY <1>1
<1>10. /\ \A k, l \in 0..n : k <= l => Taken(L, D, k) <= Taken(L, D, l)
       /\ \A k \in 0..n : Taken(L, D, k) \in Nat
  BY TakenGrows
<1>11. ~(i < j)
  <2> SUFFICES ASSUME i < j PROVE FALSE
    OBVIOUS
  <2>1. i <= j - 1
    BY <1>1
  <2>2. Taken(L, D, i) <= Taken(L, D, j - 1)
    BY <1>9, <1>10, <2>1
  <2> DEFINE a == x * p
             b == y * q
  <2>3. b < a + p
    BY <1>8
  <2>4. Taken(L, D, i) = a + p /\ Taken(L, D, j - 1) = b
    BY <1>5, <1>6
  <2>5. a + p \in Nat /\ b \in Nat
    BY <1>9, <1>10, <2>4
  <2> HIDE DEF a, b
  <2>6. QED
    BY <2>2, <2>3, <2>4, <2>5
<1>12. ~(j < i)
  <2> SUFFICES ASSUME j < i PROVE FALSE
    OBVIOUS
  <2>1. j <= i - 1
    BY <1>1
  <2>2. Taken(L, D, j) <= Taken(L, D, i - 1)
    BY <1>9, <1>10, <2>1
  <2> DEFINE a == x * p
             b == y * q
  <2>3. a <= b
    BY <1>8
  <2>4. Taken(L, D, j) = b + q /\ Taken(L, D, i - 1) = a
    BY <1>5, <1>6
  <2>5. a \in Nat /\ b \in Nat
    BY <1>9, <1>10, <1>5
  <2>6. q \in Nat /\ q > 0
    BY <1>4
  <2> HIDE DEF a, b
  <2>7. QED
    BY <2>2, <2>3, <2>4, <2>5, <2>6
<1>13. QED
  BY <1>1, <1>11, <1>12


-----------------------------------------------------------------------------
(***************************************************************************)
(* The decoder's tables for canonical codes.                               *)
(***************************************************************************)
\* The number of codes of length m, and of those that are no longer.
OfLength(L, m) == {i \in DOMAIN L : L[i] = m}
UpTo(L, m) == Cardinality({i \in DOMAIN L : L[i] <= m})

\* As the codes are sorted, those up to a length are the first ones.
LEMMA UpToIsFirst ==
  ASSUME NEW L, NEW D, Lengths(L, D), NEW m \in Nat
  PROVE  /\ UpTo(L, m) \in 0..Len(L)
         /\ \A i \in 1..Len(L) : i <= UpTo(L, m) <=> L[i] <= m
<1> DEFINE n == Len(L)
           S == {i \in DOMAIN L : L[i] <= m}
           Q == {k \in Nat : k <= n => \E j \in 0..k : \A i \in 1..k : i <= j <=> L[i] <= m}
<1>1. /\ n \in Nat /\ DOMAIN L = 1..n
      /\ \A i, j \in 1..n : i <= j => L[i] <= L[j]
      /\ \A i \in 1..n : L[i] \in Nat
  BY DEF Lengths
<1>2. \E j \in 0..n : \A i \in 1..n : i <= j <=> L[i] <= m
  <2>1. 0 \in Q
    OBVIOUS
  <2>2. ASSUME NEW k \in Nat, k \in Q PROVE k + 1 \in Q
    <3> SUFFICES ASSUME k + 1 <= n
                 PROVE  \E j \in 0..(k + 1) : \A i \in 1..(k + 1) : i <= j <=> L[i] <= m
      OBVIOUS
    <3>1. PICK j \in 0..k : \A i \in 1..k : i <= j <=> L[i] <= m
      BY <1>1, <2>2
    <3>2. CASE L[k + 1] <= m
      <4>1. \A i \in 1..(k + 1) : L[i] <= m
        <5> SUFFICES ASSUME NEW i \in 1..(k + 1) PROVE L[i] <= m
          OBVIOUS
        <5>1. i \in 1..n /\ k + 1 \in 1..n /\ i <= k + 1
          BY <1>1
        <5>2. L[i] <= L[k + 1] /\ L[i] \in Nat /\ L[k + 1] \in Nat
          BY <1>1, <5>1
        <5>3. QED
          BY <3>2, <5>2
      <4>2. k + 1 \in 0..(k + 1) /\ \A i \in 1..(k + 1) : i <= k + 1 <=> L[i] <= m
        BY <4>1
      <4>3. QED
        BY <4>2
    <3>3. CASE ~(L[k + 1] <= m)
      <4>1. \A i \in 1..(k + 1) : i <= j <=> L[i] <= m
        <5> SUFFICES ASSUME NEW i \in 1..(k + 1) PROVE i <= j <=> L[i] <= m
          OBVIOUS
        <5>1. CASE i = k + 1
          BY <3>3, <5>1
        <5>2. CASE i # k + 1
          BY <3>1, <5>2
        <5>3. QED
          BY <5>1, <5>2
      <4>2. j \in 0..(k + 1)
        OBVIOUS
      <4>3. QED
        BY <4>1, <4>2
    <3>4. QED
      BY <3>2, <3>3
  <2> HIDE DEF Q
  <2>3. n \in Q
    BY <1>1, <2>1, <2>2, Induction
  <2>4. QED
    BY <2>3 DEF Q
<1>3. PICK j \in 0..n : \A i \in 1..n : i <= j <=> L[i] <= m
  BY <1>2
<1>4. S = 1..j
  BY <1>1, <1>3
<1>5. Cardinality(1..j) = j
  BY <1>1, FS_Interval
<1>6. UpTo(L, m) = j
  BY <1>4, <1>5 DEF UpTo
<1>7. QED
  BY <1>3, <1>6

\* The codes of a length follow those that are shorter.
LEMMA CodesOfOneLength ==
  ASSUME NEW L, NEW D, Lengths(L, D), NEW m \in Nat
  PROVE  /\ UpTo(L, m) <= UpTo(L, m + 1)
         /\ IsFiniteSet(OfLength(L, m + 1))
         /\ Cardinality(OfLength(L, m + 1)) = UpTo(L, m + 1) - UpTo(L, m)
         /\ \A i \in 1..Len(L) :
              UpTo(L, m) < i /\ i <= UpTo(L, m + 1) <=> L[i] = m + 1
<1> DEFINE n == Len(L)
           a == UpTo(L, m)
           b == UpTo(L, m + 1)
<1>1. /\ a \in 0..n /\ \A i \in 1..n : i <= a <=> L[i] <= m
      /\ b \in 0..n /\ \A i \in 1..n : i <= b <=> L[i] <= m + 1
  <2>1. a \in 0..n /\ \A i \in 1..n : i <= a <=> L[i] <= m
    BY UpToIsFirst
  <2> DEFINE k == m + 1
  <2>2. k \in Nat
    OBVIOUS
  <2> HIDE DEF k
  <2>3. UpTo(L, k) \in 0..n /\ \A i \in 1..n : i <= UpTo(L, k) <=> L[i] <= k
    BY <2>2, UpToIsFirst
  <2>4. QED
    BY <2>1, <2>3 DEF k
<1>2. n \in Nat /\ DOMAIN L = 1..n /\ \A i \in 1..n : L[i] \in Nat
  BY DEF Lengths
<1> HIDE DEF a, b, n
<1>3. a <= b
  <2> SUFFICES ASSUME b < a PROVE FALSE
    BY <1>1, <1>2
  <2>1. a \in 1..n /\ ~(a <= b)
    BY <1>1, <1>2
  <2>2. L[a] <= m /\ ~(L[a] <= m + 1) /\ L[a] \in Nat
    BY <1>1, <1>2, <2>1
  <2>3. QED
    BY <2>2
<1>4. ASSUME NEW i \in 1..n PROVE a < i /\ i <= b <=> L[i] = m + 1
  <2>1. /\ i <= a <=> L[i] <= m
        /\ i <= b <=> L[i] <= m + 1
        /\ L[i] \in Nat /\ a \in Nat /\ i \in Nat
    BY <1>1, <1>2
  <2>2. QED
    BY <2>1
<1>5. OfLength(L, m + 1) = (a + 1)..b
  <2>1. ASSUME NEW i \in (a + 1)..b PROVE i \in OfLength(L, m + 1)
    <3>1. i \in 1..n /\ a < i /\ i <= b
      BY <1>1, <1>2
    <3>2. QED
      BY <1>2, <1>4, <3>1 DEF OfLength
  <2>2. ASSUME NEW i \in OfLength(L, m + 1) PROVE i \in (a + 1)..b
    <3>1. i \in 1..n /\ L[i] = m + 1
      BY <1>2 DEF OfLength
    <3>2. a < i /\ i <= b
      BY <1>4, <3>1
    <3>3. QED
      BY <1>1, <1>2, <3>1, <3>2
  <2>3. QED
    BY <2>1, <2>2
<1>6. a + 1 \in Int /\ b \in Int
  BY <1>1
<1>7. IsFiniteSet((a + 1)..b) /\ Cardinality((a + 1)..b) = b - a
  <2>1. /\ IsFiniteSet((a + 1)..b)
        /\ Cardinality((a + 1)..b) = IF a + 1 > b THEN 0 ELSE b - (a + 1) + 1
    BY <1>6, FS_Interval
  <2>2. QED
    BY <1>1, <1>3, <2>1
<1>8. QED
  BY <1>3, <1>4, <1>5, <1>7 DEF a, b, n

\* No code is shorter than one bit, none is longer than D.
LEMMA UpToEnds ==
  ASSUME NEW L, NEW D, Lengths(L, D)
  PROVE  UpTo(L, 0) = 0 /\ UpTo(L, D) = Len(L)
<1> DEFINE n == Len(L)
           a == UpTo(L, 0)
           b == UpTo(L, D)
<1>1. n \in Nat \ {0} /\ D \in Nat /\ \A i \in 1..n : L[i] \in 1..D
  BY DEF Lengths
<1>2. /\ a \in 0..n /\ \A i \in 1..n : i <= a <=> L[i] <= 0
      /\ b \in 0..n /\ \A i \in 1..n : i <= b <=> L[i] <= D
  BY <1>1, UpToIsFirst
<1> HIDE DEF a, b, n
<1>3. a = 0
  <2> SUFFICES ASSUME a # 0 PROVE FALSE
    OBVIOUS
  <2>1. a \in 1..n /\ a <= a
    BY <1>1, <1>2
  <2>2. L[a] <= 0 /\ L[a] \in 1..D
    BY <1>1, <1>2, <2>1
  <2>3. QED
    BY <1>1, <2>2
<1>4. b = n
  <2>1. n \in 1..n
    BY <1>1
  <2>2. L[n] <= D
    BY <1>1, <2>1
  <2>3. n <= b
    BY <1>2, <2>1, <2>2
  <2>4. QED
    BY <1>1, <1>2, <2>3
<1>5. QED
  BY <1>3, <1>4 DEF a, b, n

\* What the codes of one length take.
LEMMA TakenOfLength ==
  ASSUME NEW L, NEW D, Lengths(L, D), NEW m \in Nat, m + 1 <= D,
         NEW i, i \in UpTo(L, m)..UpTo(L, m + 1)
  PROVE  Taken(L, D, i)
           = Taken(L, D, UpTo(L, m)) + (i - UpTo(L, m)) * 2 ^ (D - (m + 1))
<1> DEFINE n == Len(L)
           a == UpTo(L, m)
           b == UpTo(L, m + 1)
           p == 2 ^ (D - (m + 1))
           S == {k \in Nat : a + k <= b => Taken(L, D, a + k) = Taken(L, D, a) + k * p}
<1>1. /\ a \in 0..n /\ b \in 0..n /\ a <= b /\ n \in Nat
      /\ \A k \in 1..n : a < k /\ k <= b <=> L[k] = m + 1
  <2>1. /\ a <= b /\ \A k \in 1..n : a < k /\ k <= b <=> L[k] = m + 1
    BY CodesOfOneLength
  <2>2. a \in 0..n /\ n \in Nat
    BY UpToIsFirst DEF Lengths
  <2> DEFINE k == m + 1
  <2>3. k \in Nat
    OBVIOUS
  <2> HIDE DEF k
  <2>4. UpTo(L, k) \in 0..n
    BY <2>3, UpToIsFirst
  <2>5. QED
    BY <2>1, <2>2, <2>4 DEF k
<1>2. p \in Nat
  <2>1. D - (m + 1) \in Nat
    BY DEF Lengths
  <2>2. QED
    BY <2>1, PowersOfTwo
<1>3. /\ \A k \in 0..n : Taken(L, D, k) \in Nat
      /\ \A k \in 1..n : Taken(L, D, k) = Taken(L, D, k - 1) + 2 ^ (D - L[k])
  BY TakenGrows
<1>4. i \in Nat /\ i - a \in Nat /\ a + (i - a) = i /\ i <= b
  BY <1>1
<1> DEFINE t == Taken(L, D, a)
<1>5. t \in Nat
  BY <1>1, <1>3
<1>6. 0 \in S
  <2>1. a + 0 = a
    BY <1>1
  <2> HIDE DEF p, a, b, t
  <2>2. 0 * p = 0
    BY <1>2
  <2>3. t = t + 0 * p
    BY <1>5, <2>2
  <2>4. QED
    BY <2>1, <2>3 DEF t
<1>7. ASSUME NEW k \in Nat, k \in S PROVE k + 1 \in S
  <2> SUFFICES ASSUME a + (k + 1) <= b
               PROVE  Taken(L, D, a + (k + 1)) = Taken(L, D, a) + (k + 1) * p
    OBVIOUS
  <2> DEFINE j == a + (k + 1)
  <2>1. j \in 1..n /\ j - 1 = a + k /\ a < j /\ j <= b /\ a + k <= b
    BY <1>1
  <2>2. Taken(L, D, a + k) = t + k * p
    BY <1>7, <2>1
  <2>3. L[j] = m + 1
    BY <1>1, <2>1
  <2>4. Taken(L, D, j) = Taken(L, D, j - 1) + p
    BY <1>3, <2>1, <2>3
  <2>5. Taken(L, D, j) = (t + k * p) + p
    BY <2>1, <2>2, <2>4
  <2> HIDE DEF p, t
  <2>6. (t + k * p) + p = t + (k + 1) * p
    BY <1>2, <1>5
  <2>7. QED
    BY <2>5, <2>6 DEF t
<1> HIDE DEF S
<1>8. i - a \in S
  BY <1>4, <1>6, <1>7, Induction
<1>9. QED
  BY <1>4, <1>8 DEF S


\* The tables for B[m] codes of each length m, as ReadTables makes them.
IsZeros(f, B, D) == f = [i \in 0..D |-> IF i = 0 THEN 0 ELSE 2 * (f[i - 1] + B[i])]
IsOnes(f, B, D) == f = [i \in 0..D |-> IF i = 0 THEN 1 ELSE f[i - 1] + B[i]]

\* There are such tables.
LEMMA TablesExist ==
  ASSUME NEW D \in Nat, NEW B, \A i \in 1..D : B[i] \in Nat
  PROVE  (\E f : IsZeros(f, B, D)) /\ (\E f : IsOnes(f, B, D))
<1>1. ASSUME NEW next, next \in [(1..D) \X Nat -> Nat], NEW first \in Nat
      PROVE  \E f : Iterate(f, Nat, first, D, next)
  BY <1>1, Iterates
<1>2. \E f : IsZeros(f, B, D)
  <2> DEFINE next == [v \in (1..D) \X Nat |-> 2 * (v[2] + B[v[1]])]
  <2>1. next \in [(1..D) \X Nat -> Nat]
    OBVIOUS
  <2>2. \A i \in 1..D, k \in Nat : next[<<i, k>>] = 2 * (k + B[i])
    OBVIOUS
  <2> HIDE DEF next
  <2>3. PICK f : Iterate(f, Nat, 0, D, next)
    BY <1>1, <2>1
  <2>4. /\ f \in [0..D -> Nat] /\ f[0] = 0
        /\ \A i \in 1..D : f[i] = next[<<i, f[i - 1]>>]
    BY <2>3 DEF Iterate
  <2>5. ASSUME NEW i \in 0..D PROVE f[i] = IF i = 0 THEN 0 ELSE 2 * (f[i - 1] + B[i])
    <3>1. CASE i = 0
      BY <2>4, <3>1
    <3>2. CASE i # 0
      <4>1. i \in 1..D /\ f[i - 1] \in Nat
        BY <2>4, <3>2
      <4>2. f[i] = 2 * (f[i - 1] + B[i])
        BY <2>2, <2>4, <4>1
      <4>3. QED
        BY <3>2, <4>2
    <3>3. QED
      BY <3>1, <3>2
  <2>6. IsZeros(f, B, D)
    BY <2>4, <2>5 DEF IsZeros
  <2>7. QED
    BY <2>6
<1>3. \E f : IsOnes(f, B, D)
  <2> DEFINE next == [v \in (1..D) \X Nat |-> v[2] + B[v[1]]]
  <2>1. next \in [(1..D) \X Nat -> Nat]
    OBVIOUS
  <2>2. \A i \in 1..D, k \in Nat : next[<<i, k>>] = k + B[i]
    OBVIOUS
  <2> HIDE DEF next
  <2>3. PICK f : Iterate(f, Nat, 1, D, next)
    BY <1>1, <2>1
  <2>4. /\ f \in [0..D -> Nat] /\ f[0] = 1
        /\ \A i \in 1..D : f[i] = next[<<i, f[i - 1]>>]
    BY <2>3 DEF Iterate
  <2>5. ASSUME NEW i \in 0..D PROVE f[i] = IF i = 0 THEN 1 ELSE f[i - 1] + B[i]
    <3>1. CASE i = 0
      BY <2>4, <3>1
    <3>2. CASE i # 0
      <4>1. i \in 1..D /\ f[i - 1] \in Nat
        BY <2>4, <3>2
      <4>2. f[i] = f[i - 1] + B[i]
        BY <2>2, <2>4, <4>1
      <4>3. QED
        BY <3>2, <4>2
    <3>3. QED
      BY <3>1, <3>2
  <2>6. IsOnes(f, B, D)
    BY <2>4, <2>5 DEF IsOnes
  <2>7. QED
    BY <2>6
<1>4. QED
  BY <1>2, <1>3

\* A table of numbers of codes, length by length.
Counts(B, L, D) == \A m \in 1..D : B[m] = Cardinality(OfLength(L, m))

\* Up to the codes of length m everything is taken but what the table says is left:
\* zeros, in units of half a share, and ones, in codes.
LEMMA TablesCount ==
  ASSUME NEW L, NEW D, Lengths(L, D), NEW B, Counts(B, L, D),
         NEW zeros, IsZeros(zeros, B, D), NEW ones, IsOnes(ones, B, D)
  PROVE  \A m \in 0..D : /\ zeros[m] \in Nat
                         /\ zeros[m] * 2 ^ (D - m) = 2 * Taken(L, D, UpTo(L, m))
                         /\ ones[m] = UpTo(L, m) + 1
<1> DEFINE Right(m) == /\ zeros[m] \in Nat
                       /\ zeros[m] * 2 ^ (D - m) = 2 * Taken(L, D, UpTo(L, m))
                       /\ ones[m] = UpTo(L, m) + 1
           S == {m \in Nat : m <= D => Right(m)}
<1>1. D \in Nat
  BY DEF Lengths
<1>2. 0 \in S
  <2>1. zeros[0] = 0 /\ ones[0] = 1
    BY <1>1 DEF IsZeros, IsOnes
  <2>2. UpTo(L, 0) = 0 /\ Taken(L, D, 0) = 0
    BY UpToEnds, TakenGrows
  <2>3. 2 ^ (D - 0) \in Nat
    BY <1>1, PowersOfTwo
  <2> DEFINE p == 2 ^ (D - 0)
  <2>4. 0 * p = 0
    <3> HIDE DEF p
    <3>1. p \in Nat => 0 * p = 0
      OBVIOUS
    <3>2. QED
      BY <2>3, <3>1 DEF p
  <2>5. Right(0)
    BY <2>1, <2>2, <2>4
  <2>6. QED
    BY <2>5
<1>3. ASSUME NEW m \in Nat, m \in S PROVE m + 1 \in S
  <2> SUFFICES ASSUME m + 1 <= D PROVE Right(m + 1)
    OBVIOUS
  <2> DEFINE k == m + 1
             a == UpTo(L, m)
             b == UpTo(L, k)
             p == 2 ^ (D - m)
             q == 2 ^ (D - k)
             z == zeros[m]
             t == Taken(L, D, a)
  <2>1. Right(m)
    BY <1>1, <1>3
  <2>2. k \in 1..D /\ k \in 0..D /\ k - 1 = m /\ k # 0 /\ m \in 0..D
    BY <1>1
  <2>3. zeros[k] = 2 * (z + B[k]) /\ ones[k] = ones[m] + B[k]
    <3>1. /\ zeros[k] = IF k = 0 THEN 0 ELSE 2 * (zeros[k - 1] + B[k])
          /\ ones[k] = IF k = 0 THEN 1 ELSE ones[k - 1] + B[k]
      BY <2>2 DEF IsZeros, IsOnes
    <3>2. QED
      BY <2>2, <3>1
  <2>4. B[k] = b - a /\ a <= b
    BY <2>2, CodesOfOneLength DEF Counts
  <2>5. a \in Nat /\ b \in Nat /\ b \in a..b /\ a \in 0..Len(L)
    <3> HIDE DEF k
    <3>1. a \in 0..Len(L) /\ b \in 0..Len(L)
      BY <2>2, UpToIsFirst
    <3>2. QED
      BY <2>4, <3>1
  <2>6. Taken(L, D, b) = t + (b - a) * q
    BY <2>2, <2>5, TakenOfLength
  <2>7. p = 2 * q /\ q \in Nat
    <3>1. D - k \in Nat /\ D - m = (D - k) + 1
      BY <1>1, <2>2
    <3> DEFINE e == D - k
    <3>2. 2 ^ (e + 1) = 2 * 2 ^ e /\ 2 ^ e \in Nat
      BY <3>1, PowersOfTwo
    <3>3. QED
      BY <3>1, <3>2
  <2>8. t \in Nat
    BY <2>5, TakenGrows
  <2>9. z \in Nat /\ z * p = 2 * t /\ ones[m] = a + 1
    BY <2>1
  <2> DEFINE d == b - a
  <2>10. d \in Nat /\ zeros[k] = 2 * (z + d) /\ ones[k] = b + 1 /\ Taken(L, D, b) = t + d * q
    BY <2>3, <2>4, <2>5, <2>6, <2>9
  <2>11. zeros[k] * q = 2 * Taken(L, D, b)
    <3> HIDE DEF d, a, b, k, p, q, z, t
    <3>1. (2 * (z + d)) * q = z * (2 * q) + 2 * (d * q)
      BY <2>7, <2>9, <2>10
    <3>2. (2 * (z + d)) * q = 2 * t + 2 * (d * q)
      BY <2>7, <2>9, <3>1
    <3> DEFINE y == d * q
    <3>3. y \in Nat /\ Taken(L, D, b) = t + y /\ (2 * (z + d)) * q = 2 * t + 2 * y
      BY <2>7, <2>10, <3>2
    <3> HIDE DEF y
    <3>4. (2 * (z + d)) * q = 2 * Taken(L, D, b)
      BY <2>8, <3>3
    <3>5. QED
      BY <2>10, <3>4
  <2>12. zeros[k] \in Nat
    BY <2>9, <2>10
  <2> HIDE DEF d, a, z, p, t
  <2>13. QED
    BY <2>10, <2>11, <2>12
<1> HIDE DEF S
<1>4. \A m \in Nat : m \in S
  BY <1>2, <1>3, Induction
<1>5. QED
  BY <1>1, <1>4 DEF S


\* The first m of the n digits of v, as a number.
Prefix(v, n, m) == v \div 2 ^ (n - m)

\* It is put together digit by digit.
LEMMA PrefixGrows ==
  ASSUME NEW v \in Nat, NEW n \in Nat, v < 2 ^ n
  PROVE  /\ Prefix(v, n, 0) = 0
         /\ Prefix(v, n, n) = v
         /\ \A m \in 0..n : Prefix(v, n, m) \in Nat
         /\ \A m \in 0..(n - 1) :
              Prefix(v, n, m + 1) = 2 * Prefix(v, n, m) + Digits(v, n)[m + 1]
<1>1. Prefix(v, n, 0) = 0
  <2> DEFINE p == 2 ^ (n - 0)
  <2>1. p = 2 ^ n /\ p \in Nat
    BY PowersOfTwo
  <2> HIDE DEF p
  <2>2. v < p
    BY <2>1
  <2>3. v \div p = 0
    BY <2>1, <2>2
  <2>4. QED
    BY <2>3 DEF p, Prefix
<1>2. Prefix(v, n, n) = v
  <2>1. n - n = 0 /\ v \div 1 = v
    OBVIOUS
  <2>2. QED
    BY <2>1, PowersOfTwo DEF Prefix
<1>3. BitsOf(Digits(v, n), v, n)
  BY DigitsAreBits
<1>4. \A m \in 0..n : Prefix(v, n, m) \in Nat
  BY <1>3, Quotients DEF Prefix
<1>5. ASSUME NEW m \in 0..(n - 1)
      PROVE  Prefix(v, n, m + 1) = 2 * Prefix(v, n, m) + Digits(v, n)[m + 1]
  <2> DEFINE k == m + 1
             b == Digits(v, n)
  <2>1. k \in 1..n /\ k - 1 = m
    OBVIOUS
  <2>2. BitsOf(b, v, n)
    BY <1>3
  <2> HIDE DEF k, b
  <2>3. v \div 2 ^ (n - k) = 2 * (v \div 2 ^ (n - (k - 1))) + b[k]
    <3>1. \A j \in 1..n : v \div 2 ^ (n - j) = 2 * (v \div 2 ^ (n - (j - 1))) + b[j]
      BY <2>2, Quotients
    <3>2. QED
      BY <2>1, <3>1
  <2>4. Prefix(v, n, k) = 2 * Prefix(v, n, m) + b[k]
    BY <2>1, <2>3 DEF Prefix
  <2>5. QED
    BY <2>4 DEF k, b
<1>6. QED
  BY <1>1, <1>2, <1>4, <1>5

\* Before the end of a code the decoder goes on, for it has passed everything that
\* the codes of the length read so far take.  At the end it stops, and the two
\* tables give the place of the code.
LEMMA TablesFollow ==
  ASSUME NEW L, NEW D, NEW N, Lengths(L, D), Canonical(L, D, N),
         NEW B, Counts(B, L, D),
         NEW zeros, IsZeros(zeros, B, D), NEW ones, IsOnes(ones, B, D),
         NEW i \in 1..Len(L), NEW m \in 1..L[i]
  PROVE  /\ m < L[i] => Prefix(N[i], L[i], m) * 2 >= zeros[m]
         /\ m = L[i] => /\ N[i] * 2 < zeros[m]
                        /\ ones[m - 1] + N[i] - zeros[m - 1] - 1 = i - 1
<1> DEFINE n == Len(L)
           l == L[i]
           x == N[i]
           q == 2 ^ (D - l)
           a == UpTo(L, m - 1)
           b == UpTo(L, m)
<1>1. /\ n \in Nat /\ D \in Nat /\ l \in 1..D /\ m \in 1..D /\ m \in 0..D /\ m - 1 \in 0..D
      /\ m - 1 \in Nat /\ (m - 1) + 1 = m /\ m # 0 /\ l \in Nat /\ m <= l /\ D - l \in Nat
      /\ l - m \in Nat /\ D - m = (l - m) + (D - l) /\ m \in Nat /\ m <= D
  <2>1. n \in Nat /\ D \in Nat /\ l \in 1..D
    BY DEF Lengths
  <2>2. QED
    BY <2>1
<1>2. x \in Nat /\ x < 2 ^ l /\ x * q = Taken(L, D, i - 1)
  BY NumbersFit, NumbersAreTaken
<1>3. q \in Nat /\ q > 0
  BY <1>1, PowersOfTwo
<1>4. /\ zeros[m] \in Nat /\ zeros[m] * 2 ^ (D - m) = 2 * Taken(L, D, b)
      /\ zeros[m - 1] \in Nat
      /\ zeros[m - 1] * 2 ^ (D - (m - 1)) = 2 * Taken(L, D, a)
      /\ ones[m - 1] = a + 1
  <2>1. \A k \in 0..D : /\ zeros[k] \in Nat
                         /\ zeros[k] * 2 ^ (D - k) = 2 * Taken(L, D, UpTo(L, k))
                         /\ ones[k] = UpTo(L, k) + 1
    BY TablesCount
  <2> DEFINE k == m - 1
  <2>2. /\ zeros[k] \in Nat
        /\ zeros[k] * 2 ^ (D - k) = 2 * Taken(L, D, UpTo(L, k))
        /\ ones[k] = UpTo(L, k) + 1
    BY <1>1, <2>1
  <2>3. /\ zeros[m] \in Nat
        /\ zeros[m] * 2 ^ (D - m) = 2 * Taken(L, D, UpTo(L, m))
    BY <1>1, <2>1
  <2>4. QED
    BY <2>2, <2>3
<1>5. /\ a \in 0..n /\ b \in 0..n /\ \A k \in 1..n : k <= b <=> L[k] <= m
  <2>1. b \in 0..n /\ \A k \in 1..n : k <= b <=> L[k] <= m
    BY <1>1, UpToIsFirst
  <2> DEFINE k == m - 1
  <2> HIDE DEF k
  <2>2. k \in Nat => UpTo(L, k) \in 0..n
    BY UpToIsFirst
  <2>3. QED
    BY <1>1, <2>1, <2>2 DEF k
<1>6. /\ Taken(L, D, a) \in Nat /\ Taken(L, D, b) \in Nat
      /\ i - 1 \in 0..n /\ i \in 0..n /\ Taken(L, D, i - 1) \in Nat
      /\ Taken(L, D, i) = Taken(L, D, i - 1) + q
  <2>1. i - 1 \in 0..n /\ i \in 0..n
    BY <1>1
  <2>2. QED
    BY <1>5, <2>1, TakenGrows
<1>7. PICK e \in Nat : zeros[m] = 2 * e
  <2>1. zeros[m] = 2 * (zeros[m - 1] + B[m])
    <3>1. zeros[m] = IF m = 0 THEN 0 ELSE 2 * (zeros[m - 1] + B[m])
      BY <1>1 DEF IsZeros
    <3>2. QED
      BY <1>1, <3>1
  <2>2. B[m] \in Nat
    <3> DEFINE k == m - 1
    <3>1. k \in Nat /\ m = k + 1
      BY <1>1
    <3> HIDE DEF k
    <3>2. IsFiniteSet(OfLength(L, k + 1))
      BY <3>1, CodesOfOneLength
    <3>3. Cardinality(OfLength(L, m)) \in Nat
      BY <3>1, <3>2, FS_CardinalityType
    <3>4. QED
      BY <1>1, <3>3 DEF Counts
  <2>3. zeros[m - 1] + B[m] \in Nat
    BY <1>4, <2>2
  <2>4. QED
    BY <2>1, <2>3
<1> DEFINE s == 2 ^ (l - m)
           tb == Taken(L, D, b)
           ti == Taken(L, D, i - 1)
<1>8. s \in Nat /\ s > 0 /\ 2 ^ (D - m) = s * q
  <2> DEFINE c == l - m
             d == D - l
  <2>1. c \in Nat /\ d \in Nat /\ D - m = c + d
    BY <1>1
  <2> HIDE DEF c, d
  <2>2. 2 ^ (c + d) = 2 ^ c * 2 ^ d /\ 2 ^ c \in Nat /\ 2 ^ c > 0
    BY <2>1, PowerOfSum, PowersOfTwo
  <2>3. QED
    BY <2>1, <2>2 DEF c, d
<1>9. (e * s) * q = tb
  <2>1. (2 * e) * (s * q) = 2 * tb /\ tb \in Nat
    BY <1>4, <1>6, <1>7, <1>8
  <2> HIDE DEF s, q, tb
  <2>2. (2 * e) * (s * q) = 2 * ((e * s) * q)
    BY <1>3, <1>8
  <2> DEFINE y == (e * s) * q
  <2>3. y \in Nat /\ 2 * y = 2 * tb
    BY <1>3, <1>8, <2>1, <2>2
  <2> HIDE DEF y
  <2>4. y = tb
    BY <2>1, <2>3
  <2>5. QED
    BY <2>4 DEF y
<1>10. ASSUME m < l PROVE Prefix(x, l, m) * 2 >= zeros[m]
  <2>1. b <= i - 1
    <3>1. ~(L[i] <= m)
      BY <1>1, <1>10
    <3>2. ~(i <= b)
      BY <1>5, <3>1
    <3>3. QED
      BY <1>5, <1>6, <3>2
  <2>2. tb <= ti
    BY <1>5, <1>6, <2>1, TakenGrows
  <2>3. (e * s) * q <= x * q
    BY <1>2, <1>9, <2>2
  <2> DEFINE y == e * s
  <2>4. y \in Nat
    BY <1>8
  <2>5. y <= x
    <3> HIDE DEF y, q, x
    <3>1. y * q <= x * q
      BY <2>3 DEF y
    <3>2. QED
      BY <1>2, <1>3, <2>4, <3>1, Cancel
  <2>6. e <= x \div s
    <3> HIDE DEF s, x
    <3>1. e * s <= x
      BY <2>5
    <3> DEFINE d == x \div s
    <3>2. d \in Nat /\ x < (d + 1) * s
      <4>1. d \in Nat /\ x = d * s + (x % s) /\ x % s < s /\ x % s \in Nat
        <5>1. x \in Nat /\ s \in Nat /\ s > 0
          BY <1>2, <1>8
        <5>2. d \in Nat /\ x = s * d + (x % s)
          BY <5>1
        <5>3. s * d = d * s
          BY <5>1, <5>2
        <5>4. x % s \in 0..(s - 1)
          BY <5>1
        <5>5. QED
          BY <5>1, <5>2, <5>3, <5>4
      <4> HIDE DEF d
      <4>2. (d + 1) * s = d * s + s /\ d * s \in Nat
        BY <1>8, <4>1
      <4> DEFINE w == d * s
                 r == x % s
      <4>3. x = w + r /\ r < s /\ r \in Nat /\ w \in Nat /\ (d + 1) * s = w + s
        BY <4>1, <4>2
      <4> HIDE DEF w, r
      <4>4. x < (d + 1) * s
        BY <1>8, <4>3
      <4>5. QED
        BY <4>1, <4>4
    <3> HIDE DEF d
    <3>3. e * s < (d + 1) * s
      <4> DEFINE f == e * s
                 g == (d + 1) * s
      <4>1. f \in Nat /\ g \in Nat /\ f <= x /\ x < g
        BY <1>8, <3>1, <3>2
      <4> HIDE DEF f, g
      <4>2. f < g
        BY <1>2, <4>1
      <4>3. QED
        BY <4>2 DEF f, g
    <3> DEFINE c == d + 1
    <3>4. c \in Nat /\ e * s < c * s
      BY <3>2, <3>3
    <3> HIDE DEF c
    <3>5. e < c
      BY <1>8, <3>4, Cancel
    <3>6. e <= d
      BY <3>2, <3>5 DEF c
    <3>7. QED
      BY <3>6 DEF d
  <2>7. x \div s \in Nat
    <3> HIDE DEF s, x
    <3>1. QED
      BY <1>2, <1>8
  <2> DEFINE c == x \div s
  <2>8. c \in Nat /\ e <= c /\ Prefix(x, l, m) = c
    BY <2>6, <2>7 DEF Prefix
  <2> HIDE DEF c
  <2>9. QED
    BY <1>7, <2>8
<1>11. ASSUME m = l PROVE x * 2 < zeros[m]
  <2>1. i <= b
    BY <1>1, <1>5, <1>11
  <2>2. ti + q <= tb
    BY <1>5, <1>6, <2>1, TakenGrows
  <2>3. s = 1
    <3>1. l - m = 0
      BY <1>1, <1>11
    <3>2. QED
      BY <3>1, PowersOfTwo
  <2>4. e * q = tb
    BY <1>9, <2>3
  <2> DEFINE y == x + 1
  <2>5. y \in Nat /\ y * q <= e * q
    <3>1. y * q = x * q + q
      BY <1>2, <1>3
    <3>2. QED
      BY <1>2, <2>2, <2>4, <3>1, SMTT(30)
  <2>6. y <= e
    <3> HIDE DEF y, q
    <3>1. QED
      BY <1>3, <2>5, Cancel
  <2>7. QED
    BY <1>2, <1>7, <2>6
<1>12. ASSUME m = l PROVE ones[m - 1] + x - zeros[m - 1] - 1 = i - 1
  <2> DEFINE z == zeros[m - 1]
             ta == Taken(L, D, a)
             r == i - 1 - a
  <2>1. a < i /\ i <= b
    <3> DEFINE k == m - 1
    <3>1. k \in Nat /\ m = k + 1 /\ L[i] = k + 1
      BY <1>1, <1>12
    <3> HIDE DEF k
    <3>2. UpTo(L, k) < i /\ i <= UpTo(L, k + 1)
      BY <3>1, CodesOfOneLength
    <3>3. QED
      BY <1>1, <3>1, <3>2 DEF k
  <2>2. r \in Nat /\ i - 1 \in a..b
    BY <1>5, <1>6, <2>1, SMTT(30)
  <2>3. ti = ta + r * q
    <3> DEFINE k == m - 1
               j == i - 1
    <3>1. k \in Nat /\ k + 1 <= D /\ j \in UpTo(L, k)..UpTo(L, k + 1) /\ k + 1 = l
      BY <1>1, <1>12, <2>2
    <3> HIDE DEF k, j
    <3>2. Taken(L, D, j)
            = Taken(L, D, UpTo(L, k)) + (j - UpTo(L, k)) * 2 ^ (D - (k + 1))
      BY <3>1, TakenOfLength
    <3>3. Taken(L, D, j) = Taken(L, D, UpTo(L, k)) + (j - UpTo(L, k)) * q
      BY <3>1, <3>2
    <3>4. QED
      BY <3>3 DEF k, j
  <2>4. z * q = ta
    <3> DEFINE k == D - m
    <3>1. k \in Nat /\ D - (m - 1) = k + 1 /\ k = D - l
      BY <1>1, <1>12
    <3>2. 2 ^ (k + 1) = 2 * q
      <4> HIDE DEF k
      <4>1. 2 ^ (k + 1) = 2 * 2 ^ k
        BY <3>1, PowersOfTwo
      <4>2. QED
        BY <3>1, <4>1
    <3>3. z * (2 * q) = 2 * ta /\ z \in Nat /\ ta \in Nat
      BY <1>4, <1>6, <3>1, <3>2
    <3> HIDE DEF z, q, ta, k
    <3>4. z * (2 * q) = 2 * (z * q)
      BY <1>3, <3>3
    <3> DEFINE w == z * q
    <3>5. w \in Nat /\ 2 * w = 2 * ta
      BY <1>3, <3>3, <3>4
    <3> HIDE DEF w
    <3>6. w = ta
      BY <3>3, <3>5
    <3>7. QED
      BY <3>6 DEF w
  <2> DEFINE y == z + r
  <2>5. y \in Nat /\ x * q = y * q
    <3>1. z \in Nat
      BY <1>4
    <3>2. y * q = z * q + r * q
      <4> HIDE DEF z, r, q
      <4>1. QED
        BY <1>3, <2>2, <3>1
    <3>3. QED
      BY <1>2, <2>2, <2>3, <2>4, <3>1, <3>2, SMTT(30)
  <2>6. x = y
    <3> HIDE DEF x, y, q
    <3>1. QED
      BY <1>2, <1>3, <2>5, Cancel
  <2>7. z \in Nat /\ a \in Nat /\ i \in Nat /\ ones[m - 1] = a + 1
    BY <1>4, <1>5
  <2> HIDE DEF z, a, x
  <2>8. ones[m - 1] + x - z - 1 = i - 1
    BY <2>6, <2>7
  <2>9. QED
    BY <2>8 DEF z
<1>13. QED
  BY <1>10, <1>11, <1>12


-----------------------------------------------------------------------------
(***************************************************************************)
(* What the lengths of at most 2 ^ V complete codes can be.                *)
(***************************************************************************)
\* The first i codes take no more than the shortest code would i times, and less
\* when one of them is longer.
LEMMA TakenAtMost ==
  ASSUME NEW L, NEW D, Lengths(L, D)
  PROVE  \A i \in 1..Len(L) : /\ Taken(L, D, i) <= i * 2 ^ (D - L[1])
                              /\ L[i] # L[1] => Taken(L, D, i) < i * 2 ^ (D - L[1])
<1> DEFINE n == Len(L)
           q == 2 ^ (D - L[1])
           P(i) == /\ Taken(L, D, i) <= i * q
                   /\ i > 0 /\ L[i] # L[1] => Taken(L, D, i) < i * q
           S == {i \in Nat : i <= n => P(i)}
<1>1. /\ n \in Nat \ {0} /\ D \in Nat /\ L[1] \in 1..D /\ D - L[1] \in Nat
      /\ \A i \in 1..n : L[i] \in 1..D /\ L[1] <= L[i]
  BY DEF Lengths
<1>2. q \in Nat /\ q > 0
  BY <1>1, PowersOfTwo
<1>3. /\ Taken(L, D, 0) = 0
      /\ \A i \in 0..n : Taken(L, D, i) \in Nat
      /\ \A i \in 1..n : Taken(L, D, i) = Taken(L, D, i - 1) + 2 ^ (D - L[i])
  BY TakenGrows
<1>4. ASSUME NEW i \in 1..n
      PROVE  /\ 2 ^ (D - L[i]) \in Nat /\ 2 ^ (D - L[i]) <= q
             /\ L[i] # L[1] => 2 ^ (D - L[i]) < q
  <2> DEFINE d == D - L[i]
             r == D - L[1]
  <2>1. d \in Nat /\ r \in Nat /\ d <= r /\ (L[i] # L[1] => d + 1 <= r)
    <3>1. L[i] \in 1..D /\ L[1] <= L[i] /\ L[1] \in 1..D
      BY <1>1
    <3>2. QED
      BY <1>1, <3>1
  <2>2. q = 2 ^ r
    OBVIOUS
  <2> HIDE DEF d, r, q
  <2>3. 2 ^ d \in Nat /\ 2 ^ d <= q /\ 2 ^ d > 0 /\ 2 ^ (d + 1) = 2 * 2 ^ d
    BY <2>1, <2>2, PowersOfTwo, PowersGrow
  <2>4. ASSUME L[i] # L[1] PROVE 2 ^ d < q
    <3> DEFINE k == d + 1
    <3>1. k \in Nat /\ k <= r
      BY <2>1, <2>4
    <3> HIDE DEF k
    <3>2. 2 ^ k <= q
      BY <2>1, <2>2, <3>1, PowersGrow
    <3> DEFINE p == 2 ^ d
    <3>3. 2 * p <= q /\ p \in Nat /\ p > 0
      BY <2>3, <3>2 DEF k
    <3> HIDE DEF p
    <3>4. p < q
      BY <1>2, <3>3
    <3>5. QED
      BY <3>4 DEF p
  <2>5. QED
    BY <2>3, <2>4 DEF d
<1> HIDE DEF q
<1>5. 0 \in S
  <2>1. 0 * q = 0
    BY <1>2
  <2>2. P(0)
    BY <1>3, <2>1
  <2>3. QED
    BY <2>2
<1>6. ASSUME NEW i \in Nat, i \in S PROVE i + 1 \in S
  <2> SUFFICES ASSUME i + 1 <= n PROVE P(i + 1)
    OBVIOUS
  <2>1. i + 1 \in 1..n /\ (i + 1) - 1 = i /\ i \in 0..n /\ i <= n
    BY <1>1
  <2>2. Taken(L, D, i) <= i * q
    BY <1>6, <2>1
  <2> DEFINE j == i + 1
             r == 2 ^ (D - L[j])
             t == Taken(L, D, i)
             u == Taken(L, D, j)
  <2>3. r \in Nat /\ r <= q /\ (L[j] # L[1] => r < q)
    BY <1>4, <2>1
  <2>4. u = t + r /\ t \in Nat
    BY <1>3, <2>1
  <2>5. j * q = i * q + q
    BY <1>2
  <2> DEFINE x == i * q
             y == j * q
  <2>6. x \in Nat /\ y = x + q /\ t <= x
    BY <1>2, <2>2, <2>5
  <2> HIDE DEF x, y, r, t, u, j
  <2>7. u <= y /\ (L[j] # L[1] => u < y)
    BY <1>2, <2>3, <2>4, <2>6
  <2>8. QED
    BY <2>7 DEF u, y, j
<1> HIDE DEF S
<1>7. \A i \in Nat : i \in S
  BY <1>5, <1>6, Induction
<1>8. QED
  BY <1>1, <1>7 DEF S, q

\* The shortest code is no longer than a value, and when it is as long, all codes
\* are and there are 2 ^ V of them; otherwise no length has so many.
LEMMA ShortestLength ==
  ASSUME NEW L, NEW D, Lengths(L, D), NEW V \in Nat, Len(L) <= 2 ^ V
  PROVE  /\ L[1] <= V
         /\ L[1] = V => /\ \A i \in 1..Len(L) : L[i] = V
                        /\ Cardinality(OfLength(L, V)) = 2 ^ V
         /\ L[1] # V => \A m \in 1..D : Cardinality(OfLength(L, m)) < 2 ^ V
<1> DEFINE n == Len(L)
           l == L[1]
           q == 2 ^ (D - l)
           W == 2 ^ V
           p == 2 ^ l
<1>1. /\ n \in Nat \ {0} /\ D \in Nat /\ l \in 1..D /\ D - l \in Nat /\ l \in Nat
      /\ D = l + (D - l) /\ n \in 1..n /\ DOMAIN L = 1..n
      /\ \A i \in 1..n : L[i] \in 1..D /\ l <= L[i] /\ L[i] <= L[n]
      /\ Taken(L, D, n) = 2 ^ D
  BY DEF Lengths
<1>2. q \in Nat /\ q > 0 /\ p \in Nat /\ p > 0 /\ W \in Nat /\ n <= W
  BY <1>1, PowersOfTwo
<1>3. p * q = 2 ^ D
  <2> DEFINE a == D - l
  <2>1. a \in Nat /\ D = l + a
    BY <1>1
  <2> HIDE DEF a, l
  <2>2. 2 ^ (l + a) = 2 ^ l * 2 ^ a
    BY <1>1, <2>1, PowerOfSum
  <2>3. QED
    BY <2>1, <2>2 DEF a
<1>4. p * q <= n * q /\ (L[n] # l => p * q < n * q)
  BY <1>1, <1>3, TakenAtMost
<1>5. p <= n /\ (L[n] # l => p < n)
  <2> HIDE DEF p, q, n, l
  <2>1. n \in Nat
    BY <1>1
  <2>2. QED
    BY <1>2, <1>4, <2>1, Cancel
<1>6. l <= V
  <2> SUFFICES ASSUME V + 1 <= l PROVE FALSE
    BY <1>1
  <2> DEFINE k == V + 1
  <2>1. 2 ^ k = 2 * W /\ W > 0
    BY PowersOfTwo
  <2>2. 2 ^ k <= p
    <3>1. k \in Nat /\ k <= l
      OBVIOUS
    <3> HIDE DEF k
    <3>2. QED
      BY <1>1, <3>1, PowersGrow
  <2>3. 2 * W <= p
    BY <2>1, <2>2
  <2> HIDE DEF W, p, n
  <2>4. QED
    BY <1>1, <1>2, <1>5, <2>1, <2>3
<1>7. ASSUME l = V
      PROVE  (\A i \in 1..n : L[i] = V) /\ Cardinality(OfLength(L, V)) = W
  <2>1. p = W
    BY <1>7
  <2>2. n = W /\ L[n] = l
    <3> HIDE DEF p, W, n
    <3>1. QED
      BY <1>1, <1>2, <1>5, <2>1
  <2>3. \A i \in 1..n : L[i] = V
    <3> HIDE DEF n, l
    <3> SUFFICES ASSUME NEW i \in 1..n PROVE L[i] = V
      OBVIOUS
    <3>1. L[i] \in 1..D /\ l <= L[i] /\ L[i] <= l
      BY <1>1, <2>2
    <3>2. QED
      BY <1>1, <1>7, <3>1
  <2>4. OfLength(L, V) = 1..n
    BY <1>1, <2>3 DEF OfLength
  <2>5. Cardinality(1..n) = n
    <3>1. 1 \in Int /\ n \in Int /\ ~(1 > n)
      BY <1>1
    <3>2. Cardinality(1..n) = IF 1 > n THEN 0 ELSE n - 1 + 1
      BY <3>1, FS_Interval
    <3>3. QED
      BY <1>1, <3>1, <3>2
  <2>6. QED
    BY <2>2, <2>3, <2>4, <2>5
<1>8. ASSUME l # V, NEW m \in 1..D PROVE Cardinality(OfLength(L, m)) < W
  <2> DEFINE R == OfLength(L, m)
             c == Cardinality(R)
  <2>1. R \subseteq 1..n
    BY <1>1 DEF OfLength
  <2>2. IsFiniteSet(1..n) /\ Cardinality(1..n) = n
    <3>1. 1 \in Int /\ n \in Int /\ ~(1 > n)
      BY <1>1
    <3>2. IsFiniteSet(1..n) /\ Cardinality(1..n) = IF 1 > n THEN 0 ELSE n - 1 + 1
      BY <3>1, FS_Interval
    <3>3. QED
      BY <1>1, <3>1, <3>2
  <2> HIDE DEF R
  <2>3. c \in Nat /\ c <= n /\ (c = n => R = 1..n)
    BY <2>1, <2>2, FS_Subset, FS_CardinalityType
  <2>4. ASSUME c >= W PROVE FALSE
    <3>1. c = n /\ n = W
      <4> HIDE DEF c, n, W
      <4>1. QED
        BY <1>1, <1>2, <2>3, <2>4
    <3>2. R = 1..n
      BY <2>3, <3>1
    <3>3. \A i \in 1..n : L[i] = m
      BY <3>2 DEF R, OfLength
    <3>4. l = m
      BY <1>1, <3>3
    <3>5. Taken(L, D, n) = n * q
      <4> DEFINE k == m - 1
      <4>1. k \in Nat /\ k + 1 = m /\ k + 1 <= D
        BY <1>1
      <4> HIDE DEF k
      <4>2. /\ UpTo(L, k) <= UpTo(L, k + 1)
            /\ \A i \in 1..n : UpTo(L, k) < i /\ i <= UpTo(L, k + 1) <=> L[i] = k + 1
        BY <4>1, CodesOfOneLength
      <4>3. UpTo(L, k) \in 0..n
        BY <4>1, UpToIsFirst
      <4>4. 1 \in 1..n /\ n \in 1..n
        BY <1>1
      <4>5. UpTo(L, k) < 1 /\ n <= UpTo(L, k + 1)
        BY <3>3, <4>1, <4>2, <4>4
      <4>6. UpTo(L, k) = 0
        BY <1>1, <4>3, <4>5
      <4>7. UpTo(L, k + 1) \in 0..n
        <5> DEFINE j == k + 1
        <5>1. j \in Nat
          BY <4>1
        <5> HIDE DEF j
        <5>2. UpTo(L, j) \in 0..n
          BY <5>1, UpToIsFirst
        <5>3. QED
          BY <5>2 DEF j
      <4>8. n \in UpTo(L, k)..UpTo(L, k + 1)
        BY <1>1, <4>5, <4>6, <4>7
      <4>9. Taken(L, D, n)
              = Taken(L, D, UpTo(L, k)) + (n - UpTo(L, k)) * 2 ^ (D - (k + 1))
        BY <4>1, <4>8, TakenOfLength
      <4>10. Taken(L, D, 0) = 0 /\ n - 0 = n
        BY <1>1, TakenGrows
      <4>11. Taken(L, D, n) = 0 + n * q
        BY <3>4, <4>1, <4>6, <4>9, <4>10
      <4> HIDE DEF q, n
      <4>12. n * q \in Nat
        BY <1>1, <1>2
      <4>13. QED
        BY <4>11, <4>12
    <3>6. p * q = W * q
      BY <1>1, <1>3, <3>1, <3>5
    <3>7. p = W
      <4> HIDE DEF p, q, W
      <4>1. QED
        BY <1>2, <3>6, Cancel
    <3>8. l + 1 <= V
      BY <1>1, <1>6, <1>8
    <3> DEFINE k == l + 1
    <3>9. 2 ^ k <= W /\ 2 ^ k = 2 * p
      <4>1. 2 ^ k = 2 * p
        BY <1>1, PowersOfTwo
      <4>2. k \in Nat /\ k <= V
        BY <1>1, <3>8
      <4> HIDE DEF k
      <4>3. 2 ^ k <= W
        BY <4>2, PowersGrow
      <4>4. QED
        BY <4>1, <4>3
    <3>10. 2 * p <= W
      BY <3>9
    <3> HIDE DEF p, W, k
    <3>11. QED
      BY <1>2, <3>7, <3>10
  <2>5. QED
    <3> HIDE DEF c, W
    <3>1. c < W
      BY <1>2, <2>3, <2>4
    <3>2. QED
      BY <3>1 DEF c, R
<1>9. QED
  BY <1>6, <1>7, <1>8


-----------------------------------------------------------------------------
(***************************************************************************)
(* The inductive invariant.                                                *)
(***************************************************************************)
\* The leaves of a tree share the sequences of D bits out between them, however
\* long these are.
LeafShares(leaves, D) == [l \in leaves |-> 2 ^ (D - Len(l.path))]

LeavesOK(leaves) ==
  /\ IsFiniteSet(leaves) /\ leaves # {}
  /\ leaves \subseteq [value : Value, path : Seq({0, 1})]
  /\ \A l \in leaves : l.path = <<>> => leaves = {l}
  /\ \A D \in Nat : (\A l \in leaves : Len(l.path) <= D)
                      => Total(LeafShares(leaves, D), leaves) = 2 ^ D

Values(t) == {l.value : l \in t.leaves}

\* Where the symbols of a tree are in the data d.
Places(d, t) == {i \in DOMAIN d : d[i] \in Values(t)}

TreeOK(d, t) ==
  /\ LeavesOK(t.leaves)
  /\ \A l, m \in t.leaves : l.value = m.value => l = m
  /\ IsFiniteSet(Places(d, t)) /\ t.weight = Cardinality(Places(d, t))

\* Fibonacci's numbers, as FewestSamples counts them.
Fib(n) == LET Fibonacci[i \in 0..n] ==
                IF i < 2 THEN i ELSE Fibonacci[i - 1] + Fibonacci[i - 2]
          IN Fibonacci[n]

\* A tree with a leaf at some depth weighs that much, and all others nearly as much.
Heavy(h) ==
  \A t \in h : \A l \in t.leaves :
    /\ t.weight >= Fib(Len(l.path) + 2)
    /\ \A u \in h \ {t} : u.weight >= Fib(Len(l.path) + 1)

\* The heap for data with at least two symbols: every symbol in one leaf of one tree.
Forest(d, h) ==
  /\ \A t \in h : TreeOK(d, t)
  /\ \A t, u \in h : t # u => Values(t) \cap Values(u) = {}
  /\ \A i \in DOMAIN d : \E t \in h : d[i] \in Values(t)
  /\ \E i, j \in DOMAIN d : d[i] # d[j]
  /\ Heavy(h)

\* The heap for data with one symbol, which has the dummy leaf for a sibling.
Lonely(v, w) == {Leaf(v, w), Leaf(0, 0)}
Married(v, w) == {[weight |-> w, leaves |-> {[value |-> 0, path |-> <<0>>],
                                             [value |-> v, path |-> <<1>>]}]}
OneSymbol(d, h) ==
  \E v \in Value, w \in Nat \ {0} :
    /\ \A i \in DOMAIN d : d[i] = v
    /\ h = Lonely(v, w) \/ h = Married(v, w)

HeapOK(d, h) == IsFiniteSet(h) /\ h # {} /\ (OneSymbol(d, h) \/ Forest(d, h))


-----------------------------------------------------------------------------
(***************************************************************************)
(* Trees.                                                                  *)
(***************************************************************************)
\* There are at least two values, and 0 is one.
LEMMA ValueFacts ==
  /\ ValueBits \in Nat /\ ValueCount \in Nat /\ ValueCount >= 2
  /\ Value = 0..(ValueCount - 1) /\ 0 \in Value
  /\ IsFiniteSet(Value) /\ Cardinality(Value) = ValueCount
<1>1. ValueBits \in Nat /\ ValueBits - 1 \in Nat /\ (ValueBits - 1) + 1 = ValueBits
  BY WidthAssumption
<1>2. ValueCount \in Nat /\ ValueCount >= 2
  <2> DEFINE k == ValueBits - 1
  <2>1. k \in Nat /\ k + 1 = ValueBits
    BY <1>1
  <2> HIDE DEF k
  <2>2. 2 ^ (k + 1) = 2 * 2 ^ k /\ 2 ^ k \in Nat /\ 2 ^ k > 0
    BY <2>1, PowersOfTwo
  <2> DEFINE p == 2 ^ k
  <2>3. ValueCount = 2 * p /\ p \in Nat /\ p > 0
    BY <2>1, <2>2 DEF ValueCount
  <2> HIDE DEF p
  <2>4. QED
    BY <2>3
<1>3. 0 \in Value
  BY <1>2 DEF Value
<1>4. IsFiniteSet(Value) /\ Cardinality(Value) = ValueCount
  <2>1. 0 \in Int /\ ValueCount - 1 \in Int /\ ~(0 > ValueCount - 1)
    BY <1>2
  <2>2. /\ IsFiniteSet(0..(ValueCount - 1))
        /\ Cardinality(0..(ValueCount - 1))
             = IF 0 > ValueCount - 1 THEN 0 ELSE ValueCount - 1 - 0 + 1
    BY <2>1, FS_Interval
  <2>3. QED
    BY <1>2, <2>1, <2>2 DEF Value
<1>5. QED
  BY <1>1, <1>2, <1>3, <1>4 DEF Value

\* A single leaf is a tree that takes everything.
LEMMA SingleLeafOK ==
  ASSUME NEW v \in Value, NEW w
  PROVE  LeavesOK(Leaf(v, w).leaves)
<1> DEFINE l == [value |-> v, path |-> <<>>]
           S == {l}
<1>1. Leaf(v, w).leaves = S
  BY DEF Leaf
<1>2. IsFiniteSet(S) /\ S # {}
  BY FS_Singleton
<1>3. l \in [value : Value, path : Seq({0, 1})] /\ l.path = <<>> /\ Len(l.path) = 0
  OBVIOUS
<1>4. ASSUME NEW D \in Nat PROVE Total(LeafShares(S, D), S) = 2 ^ D
  <2> DEFINE f == LeafShares(S, D)
  <2>1. f \in [S -> Nat] /\ f[l] = 2 ^ D
    <3>1. D - 0 = D /\ 2 ^ D \in Nat
      BY PowersOfTwo
    <3>2. \A x \in S : Len(x.path) = 0
      BY <1>3
    <3>3. QED
      BY <3>1, <3>2 DEF LeafShares
  <2> HIDE DEF f, l
  <2>2. Units(f, {}) = {}
    BY DEF Units
  <2>3. IsFiniteSet(Units(f, {})) /\ Total(f, {}) = 0
    BY <2>2, FS_EmptySet, NoUnits
  <2>4. l \in S /\ {} \subseteq S /\ l \notin {}
    OBVIOUS
  <2>5. Total(f, {} \cup {l}) = Total(f, {}) + f[l]
    BY <2>1, <2>3, <2>4, OneMoreUnit
  <2>6. {} \cup {l} = S
    OBVIOUS
  <2>7. Total(f, S) = 0 + 2 ^ D
    BY <2>1, <2>3, <2>5, <2>6
  <2>8. 2 ^ D \in Nat
    BY PowersOfTwo
  <2> DEFINE p == 2 ^ D
  <2>9. 0 + p = p
    <3> HIDE DEF p
    <3>1. p \in Nat => 0 + p = p
      OBVIOUS
    <3>2. QED
      BY <2>8, <3>1 DEF p
  <2>10. QED
    BY <2>7, <2>9 DEF f
<1>5. S \subseteq [value : Value, path : Seq({0, 1})]
  BY <1>3
<1>6. \A x \in S : x.path = <<>> => S = {x}
  OBVIOUS
<1> HIDE DEF S, l
<1>7. QED
  BY <1>1, <1>2, <1>4, <1>5, <1>6 DEF LeavesOK

\* A leaf further down.
Lower(turn, l) == [value |-> l.value, path |-> <<turn>> \o l.path]

\* Below moves every leaf one step down, and no two to one place.
LEMMA BelowFacts ==
  ASSUME NEW A, A \subseteq [value : Value, path : Seq({0, 1})], NEW turn \in {0, 1}
  PROVE  /\ Below(turn, A) = {Lower(turn, l) : l \in A}
         /\ Below(turn, A) \subseteq [value : Value, path : Seq({0, 1})]
         /\ \A l \in A : /\ Len(l.path) \in Nat
                         /\ Lower(turn, l).value = l.value
                         /\ Len(Lower(turn, l).path) = Len(l.path) + 1
                         /\ Lower(turn, l).path[1] = turn
         /\ \A l, m \in A : Lower(turn, l) = Lower(turn, m) => l = m
<1>1. ASSUME NEW l \in A
      PROVE  /\ [l EXCEPT !.path = <<turn>> \o @] = Lower(turn, l)
             /\ Lower(turn, l) \in [value : Value, path : Seq({0, 1})]
             /\ Len(l.path) \in Nat
             /\ Lower(turn, l).value = l.value
             /\ Len(Lower(turn, l).path) = Len(l.path) + 1
             /\ Lower(turn, l).path[1] = turn
             /\ \A i \in 1..Len(l.path) : Lower(turn, l).path[i + 1] = l.path[i]
  <2>1. /\ l = [value |-> l.value, path |-> l.path] /\ l.value \in Value
        /\ l.path \in Seq({0, 1})
    OBVIOUS
  <2>2. [l EXCEPT !.path = <<turn>> \o @] = Lower(turn, l)
    <3> DEFINE v == l.value
               p == l.path
               q == <<turn>> \o p
    <3>1. l = [value |-> v, path |-> p]
      BY <2>1
    <3>2. [l EXCEPT !.path = <<turn>> \o @] = [l EXCEPT !.path = q]
      BY <3>1
    <3> HIDE DEF v, p, q
    <3>3. [l EXCEPT !.path = q] = [value |-> v, path |-> q]
      BY <3>1
    <3>4. QED
      BY <3>2, <3>3 DEF Lower, v, p, q
  <2>3. /\ <<turn>> \o l.path \in Seq({0, 1})
        /\ Len(<<turn>> \o l.path) = Len(l.path) + 1 /\ Len(l.path) \in Nat
        /\ (<<turn>> \o l.path)[1] = turn
        /\ \A i \in 1..Len(l.path) : (<<turn>> \o l.path)[i + 1] = l.path[i]
    BY <2>1
  <2>4. QED
    BY <2>1, <2>2, <2>3 DEF Lower
<1>2. ASSUME NEW l \in A, NEW m \in A, Lower(turn, l) = Lower(turn, m) PROVE l = m
  <2>1. /\ l = [value |-> l.value, path |-> l.path] /\ l.path \in Seq({0, 1})
        /\ m = [value |-> m.value, path |-> m.path] /\ m.path \in Seq({0, 1})
    OBVIOUS
  <2>2. l.value = m.value
    BY <1>1, <1>2
  <2>3. Len(l.path) = Len(m.path)
    <3>1. Len(l.path) + 1 = Len(m.path) + 1 /\ Len(l.path) \in Nat /\ Len(m.path) \in Nat
      BY <1>1, <1>2
    <3>2. QED
      BY <3>1
  <2>4. \A i \in 1..Len(l.path) : l.path[i] = m.path[i]
    BY <1>1, <1>2, <2>3
  <2>5. l.path = m.path
    BY <2>1, <2>3, <2>4, SeqEqual
  <2>6. QED
    BY <2>1, <2>2, <2>5
<1>3. Below(turn, A) = {Lower(turn, l) : l \in A}
  <2>1. \A l \in A : [l EXCEPT !.path = <<turn>> \o @] = Lower(turn, l)
    BY <1>1
  <2>2. Below(turn, A) = {[l EXCEPT !.path = <<turn>> \o @] : l \in A}
    BY DEF Below
  <2>3. QED
    BY <2>1, <2>2
<1>4. QED
  BY <1>1, <1>2, <1>3

\* The leaves a tree had before it was moved down take half as much.
LEMMA BelowTakesHalf ==
  ASSUME NEW A, LeavesOK(A), NEW turn \in {0, 1}, NEW T, Below(turn, A) \subseteq T,
         T \subseteq [value : Value, path : Seq({0, 1})],
         NEW D \in Nat, \A l \in T : Len(l.path) <= D
  PROVE  /\ IsFiniteSet(Below(turn, A))
         /\ D # 0
         /\ Total(LeafShares(T, D), Below(turn, A)) = 2 ^ (D - 1)
<1> DEFINE B == Below(turn, A)
           f == LeafShares(A, D - 1)
           g == LeafShares(T, D)
           h == [l \in A |-> Lower(turn, l)]
           gB == [l \in B |-> g[l]]
<1>1. /\ IsFiniteSet(A) /\ A # {} /\ A \subseteq [value : Value, path : Seq({0, 1})]
      /\ \A E \in Nat : (\A l \in A : Len(l.path) <= E) => Total(LeafShares(A, E), A) = 2 ^ E
  BY DEF LeavesOK
<1>2. /\ B = {Lower(turn, l) : l \in A}
      /\ \A l \in A : /\ Len(l.path) \in Nat
                      /\ Len(Lower(turn, l).path) = Len(l.path) + 1
      /\ \A l, m \in A : Lower(turn, l) = Lower(turn, m) => l = m
  BY <1>1, BelowFacts
<1>3. ASSUME NEW l \in A
      PROVE  /\ Len(l.path) <= D - 1 /\ D - 1 \in Nat
             /\ D - Len(Lower(turn, l).path) = (D - 1) - Len(l.path)
             /\ (D - 1) - Len(l.path) \in Nat
  <2>1. Lower(turn, l) \in T
    BY <1>2
  <2>2. Len(l.path) + 1 <= D /\ Len(l.path) \in Nat
    BY <1>2, <2>1
  <2>3. QED
    BY <1>2, <2>2
<1>4. D - 1 \in Nat /\ D # 0
  BY <1>1, <1>3
<1>5. /\ h \in [A -> B]
      /\ \A x, y \in A : h[x] = h[y] => x = y
      /\ \A y \in B : \E x \in A : h[x] = y
  BY <1>2
<1>6. f \in [A -> Nat] /\ \A l \in A : f[l] = 2 ^ ((D - 1) - Len(l.path))
  BY <1>3, PowersOfTwo DEF LeafShares
<1>7. g \in [T -> Nat] /\ \A l \in T : g[l] = 2 ^ (D - Len(l.path))
  <2>1. \A l \in T : D - Len(l.path) \in Nat
    <3> SUFFICES ASSUME NEW l \in T PROVE D - Len(l.path) \in Nat
      OBVIOUS
    <3>1. l.path \in Seq({0, 1}) /\ Len(l.path) <= D
      OBVIOUS
    <3>2. QED
      BY <3>1
  <2>2. QED
    BY <2>1, PowersOfTwo DEF LeafShares
<1>8. gB \in [B -> Nat] /\ \A l \in B : gB[l] = g[l]
  BY <1>7
<1>9. \A l \in A : gB[h[l]] = f[l]
  <2> SUFFICES ASSUME NEW l \in A PROVE gB[h[l]] = f[l]
    OBVIOUS
  <2>1. h[l] = Lower(turn, l) /\ h[l] \in B /\ h[l] \in T
    BY <1>2
  <2>2. g[h[l]] = 2 ^ ((D - 1) - Len(l.path))
    BY <1>3, <1>7, <2>1
  <2>3. QED
    BY <1>6, <1>8, <2>1, <2>2
<1>10. Total(f, A) = 2 ^ (D - 1)
  BY <1>1, <1>3, <1>4
<1>11. IsFiniteSet(B)
  <2> HIDE DEF h, B
  <2>1. h \in Surjection(A, B)
    BY <1>5, Fun_IsSurj
  <2>2. QED
    BY <1>1, <2>1, FS_Surjection
<1> HIDE DEF f, g, gB, h, B
<1>12. Total(gB, B) = Total(f, A)
  <2>1. IsFiniteSet(A) /\ f \in [A -> Nat] /\ gB \in [B -> Nat]
    BY <1>1, <1>6, <1>8
  <2>2. QED
    BY <1>5, <1>9, <2>1, TotalRenamed
<1>13. Total(g, B) = Total(gB, B)
  BY <1>8, TotalOfEqual
<1>14. QED
  BY <1>4, <1>10, <1>11, <1>12, <1>13 DEF B, g

\* Two trees side by side take everything again.
LEMMA MergedLeavesOK ==
  ASSUME NEW A, NEW B, LeavesOK(A), LeavesOK(B)
  PROVE  LeavesOK(Below(0, A) \cup Below(1, B))
<1> DEFINE T == [value : Value, path : Seq({0, 1})]
           P == Below(0, A)
           Q == Below(1, B)
           S == P \cup Q
<1>1. A \subseteq T /\ B \subseteq T /\ A # {} /\ B # {}
  BY DEF LeavesOK
<1>2. /\ P = {Lower(0, l) : l \in A} /\ P \subseteq T
      /\ \A l \in A : /\ Len(l.path) \in Nat
                      /\ Len(Lower(0, l).path) = Len(l.path) + 1 /\ Lower(0, l).path[1] = 0
  BY <1>1, BelowFacts
<1>3. /\ Q = {Lower(1, l) : l \in B} /\ Q \subseteq T
      /\ \A l \in B : /\ Len(l.path) \in Nat
                      /\ Len(Lower(1, l).path) = Len(l.path) + 1 /\ Lower(1, l).path[1] = 1
  BY <1>1, BelowFacts
<1>4. \A l \in P : l.path[1] = 0 /\ l.path # <<>>
  <2> SUFFICES ASSUME NEW l \in A PROVE Lower(0, l).path[1] = 0 /\ Lower(0, l).path # <<>>
    BY <1>2
  <2>1. Len(Lower(0, l).path) = Len(l.path) + 1 /\ Len(l.path) \in Nat /\ Len(<<>>) = 0
    BY <1>2
  <2>2. QED
    BY <1>2, <2>1
<1>5. \A l \in Q : l.path[1] = 1 /\ l.path # <<>>
  <2> SUFFICES ASSUME NEW l \in B PROVE Lower(1, l).path[1] = 1 /\ Lower(1, l).path # <<>>
    BY <1>3
  <2>1. Len(Lower(1, l).path) = Len(l.path) + 1 /\ Len(l.path) \in Nat /\ Len(<<>>) = 0
    BY <1>3
  <2>2. QED
    BY <1>3, <2>1
<1>6. P \cap Q = {} /\ S \subseteq T /\ S # {} /\ \A l \in S : l.path # <<>>
  <2>1. S # {} /\ S \subseteq T
    BY <1>1, <1>2, <1>3
  <2> HIDE DEF P, Q
  <2>2. P \cap Q = {}
    BY <1>4, <1>5
  <2>3. \A l \in S : l.path # <<>>
    BY <1>4, <1>5
  <2>4. QED
    BY <2>1, <2>2, <2>3
<1>7. IsFiniteSet(P) /\ IsFiniteSet(Q)
  <2>1. IsFiniteSet(A) /\ IsFiniteSet(B)
    BY DEF LeavesOK
  <2> DEFINE f == [l \in A |-> Lower(0, l)]
             g == [l \in B |-> Lower(1, l)]
  <2>2. f \in [A -> P] /\ (\A y \in P : \E x \in A : f[x] = y)
    BY <1>2
  <2>3. g \in [B -> Q] /\ (\A y \in Q : \E x \in B : g[x] = y)
    BY <1>3
  <2> HIDE DEF f, g, P, Q
  <2>4. f \in Surjection(A, P) /\ g \in Surjection(B, Q)
    BY <2>2, <2>3, Fun_IsSurj
  <2>5. QED
    BY <2>1, <2>4, FS_Surjection
<1>8. IsFiniteSet(S)
  BY <1>7, FS_Union
<1>9. ASSUME NEW D \in Nat, \A l \in S : Len(l.path) <= D
      PROVE  Total(LeafShares(S, D), S) = 2 ^ D
  <2> DEFINE f == LeafShares(S, D)
  <2>1. /\ D # 0
        /\ Total(f, P) = 2 ^ (D - 1)
        /\ Total(f, Q) = 2 ^ (D - 1)
    <3>1. P \subseteq S /\ Q \subseteq S
      OBVIOUS
    <3> HIDE DEF S
    <3>2. D # 0 /\ Total(f, P) = 2 ^ (D - 1)
      BY <1>6, <1>9, <3>1, BelowTakesHalf
    <3>3. Total(f, Q) = 2 ^ (D - 1)
      BY <1>6, <1>9, <3>1, BelowTakesHalf
    <3>4. QED
      BY <3>2, <3>3
  <2>2. f \in [S -> Nat]
    <3>1. \A l \in S : D - Len(l.path) \in Nat
      <4> SUFFICES ASSUME NEW l \in S PROVE D - Len(l.path) \in Nat
        OBVIOUS
      <4>1. l.path \in Seq({0, 1}) /\ Len(l.path) <= D
        BY <1>6, <1>9
      <4>2. QED
        BY <4>1
    <3>2. QED
      BY <3>1, PowersOfTwo DEF LeafShares
  <2>3. Total(f, S) = Total(f, P) + Total(f, Q)
    <3> HIDE DEF f, P, Q
    <3>1. QED
      BY <1>6, <1>7, <2>2, TotalOfUnion
  <2>4. 2 ^ D = 2 * 2 ^ (D - 1) /\ 2 ^ (D - 1) \in Nat
    <3> DEFINE k == D - 1
    <3>1. k \in Nat /\ k + 1 = D
      BY <2>1
    <3> HIDE DEF k
    <3>2. 2 ^ (k + 1) = 2 * 2 ^ k /\ 2 ^ k \in Nat
      BY <3>1, PowersOfTwo
    <3>3. QED
      BY <3>1, <3>2 DEF k
  <2> HIDE DEF f, S
  <2>5. QED
    BY <2>1, <2>3, <2>4 DEF f
<1> HIDE DEF S
<1>10. LeavesOK(S)
  BY <1>6, <1>8, <1>9 DEF LeavesOK
<1>11. QED
  BY <1>10 DEF S


-----------------------------------------------------------------------------
(***************************************************************************)
(* Fibonacci's numbers.                                                    *)
(***************************************************************************)
IsFibonacci(f, n) ==
  f = [i \in 0..n |-> IF i < 2 THEN i ELSE f[i - 1] + f[i - 2]]

\* The recursive function exists and does not depend on how far it goes.
LEMMA FibFacts ==
  /\ Fib(0) = 0 /\ Fib(1) = 1
  /\ \A n \in Nat : Fib(n) \in Nat /\ Fib(n + 2) = Fib(n + 1) + Fib(n)
<1> DEFINE next == [v \in Nat \X (Nat \X Nat) |-> <<v[2][2], v[2][1] + v[2][2]>>]
<1>1. next \in [Nat \X (Nat \X Nat) -> Nat \X Nat]
  OBVIOUS
<1>2. \A i \in Nat, p \in Nat \X Nat : next[<<i, p>>] = <<p[2], p[1] + p[2]>>
  OBVIOUS
<1> HIDE DEF next
<1>3. <<0, 1>> \in Nat \X Nat
  OBVIOUS
<1>4. \E g : IterateForever(g, Nat \X Nat, <<0, 1>>, next)
  BY <1>1, <1>3, IteratesForever
<1>5. PICK g : IterateForever(g, Nat \X Nat, <<0, 1>>, next)
  BY <1>4
<1> DEFINE F == [i \in Nat |-> g[i][1]]
<1>6. /\ F \in [Nat -> Nat] /\ F[0] = 0 /\ F[1] = 1
      /\ \A i \in Nat : F[i + 2] = F[i + 1] + F[i]
  <2>1. /\ g \in [Nat -> Nat \X Nat] /\ g[0] = <<0, 1>>
        /\ \A i \in Nat : g[i + 1] = next[<<i + 1, g[i]>>]
    BY <1>5 DEF IterateForever
  <2>2. ASSUME NEW i \in Nat PROVE g[i + 1] = <<g[i][2], g[i][1] + g[i][2]>>
    <3>1. i + 1 \in Nat /\ g[i] \in Nat \X Nat /\ g[i + 1] = next[<<i + 1, g[i]>>]
      BY <2>1
    <3>2. QED
      BY <1>2, <3>1
  <2>3. F \in [Nat -> Nat]
    BY <2>1
  <2>4. ASSUME NEW i \in Nat PROVE F[i + 2] = F[i + 1] + F[i]
    <3>1. i + 1 \in Nat /\ i + 2 \in Nat /\ (i + 1) + 1 = i + 2
      OBVIOUS
    <3>2. g[(i + 1) + 1] = <<g[i + 1][2], g[i + 1][1] + g[i + 1][2]>>
      BY <2>2, <3>1
    <3>3. g[i + 1] = <<g[i][2], g[i][1] + g[i][2]>>
      BY <2>2
    <3>4. F[i + 2] = g[i + 1][2] /\ F[i + 1] = g[i][2] /\ F[i] = g[i][1]
      BY <3>1, <3>2, <3>3
    <3>5. g[i + 1][2] = g[i][1] + g[i][2] /\ g[i][1] \in Nat /\ g[i][2] \in Nat
      BY <2>1, <3>3
    <3>6. QED
      BY <3>4, <3>5
  <2>5. F[0] = 0
    BY <2>1
  <2>6. F[1] = 1
    <3>1. g[0 + 1] = <<g[0][2], g[0][1] + g[0][2]>>
      BY <2>2
    <3>2. QED
      BY <2>1, <3>1
  <2>7. QED
    BY <2>3, <2>4, <2>5, <2>6
<1> HIDE DEF F
<1>7. ASSUME NEW n \in Nat PROVE Fib(n) = F[n]
  <2> DEFINE h == [i \in 0..n |-> F[i]]
             f == CHOOSE x : IsFibonacci(x, n)
  <2>1. IsFibonacci(h, n)
    <3>1. ASSUME NEW i \in 0..n PROVE h[i] = IF i < 2 THEN i ELSE h[i - 1] + h[i - 2]
      <4>1. CASE i < 2
        <5>1. i = 0 \/ i = 1
          BY <4>1
        <5>2. QED
          BY <1>6, <4>1, <5>1
      <4>2. CASE ~(i < 2)
        <5>1. i - 2 \in Nat /\ (i - 2) + 2 = i /\ (i - 2) + 1 = i - 1
              /\ i - 1 \in 0..n /\ i - 2 \in 0..n
          BY <4>2
        <5>2. F[(i - 2) + 2] = F[(i - 2) + 1] + F[i - 2]
          BY <1>6, <5>1
        <5>3. QED
          BY <4>2, <5>1, <5>2
      <4>3. QED
        BY <4>1, <4>2
    <3>2. h = [i \in 0..n |-> IF i < 2 THEN i ELSE h[i - 1] + h[i - 2]]
      BY <3>1
    <3>3. QED
      BY <3>2 DEF IsFibonacci
  <2>2. IsFibonacci(f, n)
    <3> HIDE DEF h
    <3>1. \E x : IsFibonacci(x, n)
      BY <2>1
    <3>2. QED
      BY <3>1, Zenon
  <2>3. Fib(n) = f[n]
    BY DEF Fib, IsFibonacci
  <2> HIDE DEF f
  <2>4. \A i \in 0..n : f[i] = IF i < 2 THEN i ELSE f[i - 1] + f[i - 2]
    BY <2>2 DEF IsFibonacci
  <2> DEFINE S == {i \in Nat : /\ i <= n => f[i] = F[i]
                               /\ i + 1 <= n => f[i + 1] = F[i + 1]}
  <2>5. 0 \in S
    <3>1. f[0] = 0
      BY <2>4
    <3>2. ASSUME 1 <= n PROVE f[1] = 1
      <4>1. 1 \in 0..n
        BY <3>2
      <4>2. QED
        BY <2>4, <4>1
    <3>3. 0 + 1 = 1 /\ F[0] = 0 /\ F[1] = 1
      BY <1>6
    <3> HIDE DEF h
    <3>4. QED
      BY <3>1, <3>2, <3>3
  <2>6. ASSUME NEW i \in Nat, i \in S PROVE i + 1 \in S
    <3>1. i + 1 <= n => f[i + 1] = F[i + 1]
      BY <2>6
    <3>2. ASSUME (i + 1) + 1 <= n PROVE f[(i + 1) + 1] = F[(i + 1) + 1]
      <4> DEFINE j == (i + 1) + 1
      <4>1. j \in 0..n /\ ~(j < 2) /\ j - 1 = i + 1 /\ j - 2 = i /\ j = i + 2 /\ i <= n /\ i + 1 <= n
        BY <3>2
      <4>2. f[j] = f[j - 1] + f[j - 2]
        BY <2>4, <4>1
      <4>3. f[i] = F[i]
        BY <2>6, <4>1
      <4>4. F[i + 2] = F[i + 1] + F[i]
        BY <1>6
      <4>5. QED
        BY <3>1, <4>1, <4>2, <4>3, <4>4
    <3>3. QED
      BY <3>1, <3>2
  <2> HIDE DEF S
  <2>7. n \in S
    BY <2>5, <2>6, Induction
  <2>8. QED
    BY <2>3, <2>7 DEF S
<1>8. Fib(0) = 0 /\ Fib(1) = 1
  <2>1. Fib(0) = F[0] /\ Fib(1) = F[1]
    BY <1>7
  <2>2. QED
    BY <1>6, <2>1
<1>9. ASSUME NEW n \in Nat PROVE Fib(n) \in Nat /\ Fib(n + 2) = Fib(n + 1) + Fib(n)
  <2>1. n + 1 \in Nat /\ n + 2 \in Nat
    OBVIOUS
  <2>2. Fib(n) = F[n] /\ Fib(n + 1) = F[n + 1] /\ Fib(n + 2) = F[n + 2]
    BY <1>7, <2>1
  <2>3. F[n] \in Nat /\ F[n + 2] = F[n + 1] + F[n]
    BY <1>6
  <2>4. QED
    BY <2>2, <2>3
<1>10. QED
  BY <1>8, <1>9

\* They grow.
LEMMA FibGrows ==
  ASSUME NEW m \in Nat, NEW n \in Nat, m <= n
  PROVE  Fib(m) <= Fib(n)
<1> DEFINE S == {i \in Nat : Fib(m) <= Fib(m + i)}
<1>1. 0 \in S
  <2>1. m + 0 = m
    OBVIOUS
  <2>2. Fib(m) \in Nat
    BY FibFacts
  <2>3. Fib(m) <= Fib(m)
    BY <2>2
  <2>4. QED
    BY <2>1, <2>3
<1>2. ASSUME NEW k \in Nat PROVE Fib(k) <= Fib(k + 1)
  <2>1. CASE k = 0
    BY <2>1, FibFacts
  <2>2. CASE k # 0
    <3> DEFINE j == k - 1
    <3>1. j \in Nat /\ j + 1 = k /\ j + 2 = k + 1
      BY <2>2
    <3> HIDE DEF j
    <3>2. Fib(j + 2) = Fib(j + 1) + Fib(j) /\ Fib(j) \in Nat /\ Fib(j + 1) \in Nat
      BY <3>1, FibFacts
    <3>3. QED
      BY <3>1, <3>2
  <2>3. QED
    BY <2>1, <2>2
<1>3. ASSUME NEW i \in Nat, i \in S PROVE i + 1 \in S
  <2>1. Fib(m) <= Fib(m + i) /\ Fib(m) \in Nat /\ Fib(m + i) \in Nat
        /\ m + i \in Nat /\ (m + i) + 1 = m + (i + 1)
    BY <1>3, FibFacts
  <2>2. Fib(m + i) <= Fib((m + i) + 1)
    BY <1>2, <2>1
  <2>3. Fib(m + (i + 1)) \in Nat
    <3>1. m + (i + 1) \in Nat
      OBVIOUS
    <3>2. QED
      BY <3>1, FibFacts
  <2>4. QED
    BY <2>1, <2>2, <2>3
<1> HIDE DEF S
<1>4. n - m \in Nat /\ m + (n - m) = n
  OBVIOUS
<1>5. n - m \in S
  BY <1>1, <1>3, <1>4, Induction
<1>6. QED
  BY <1>4, <1>5 DEF S


-----------------------------------------------------------------------------
(***************************************************************************)
(* The heap.                                                               *)
(***************************************************************************)
\* How often d has the value v.
TimesIn(d, v) == Cardinality({i \in DOMAIN d : d[i] = v})

\* FirstHeap as a function of the data.
SeenLeaves(d) == {Leaf(v, TimesIn(d, v)) : v \in ToSet(d)}
FirstOf(d) == IF Cardinality(SeenLeaves(d)) = 1 THEN SeenLeaves(d) \cup {Leaf(0, 0)} ELSE SeenLeaves(d)

\* A leaf of its own has the places of its value.
LEMMA LeafFacts ==
  ASSUME NEW d, d \in Seq(Value), NEW v \in Value, NEW w
  PROVE  /\ Leaf(v, w).weight = w
         /\ \A l \in Leaf(v, w).leaves : l.value = v /\ l.path = <<>>
         /\ Values(Leaf(v, w)) = {v}
         /\ Places(d, Leaf(v, w)) = {i \in DOMAIN d : d[i] = v}
         /\ IsFiniteSet(Places(d, Leaf(v, w)))
         /\ TimesIn(d, v) \in Nat
         /\ v \in ToSet(d) => TimesIn(d, v) >= 1
<1>1. /\ Leaf(v, w).weight = w
      /\ Leaf(v, w).leaves = {[value |-> v, path |-> <<>>]}
  BY DEF Leaf
<1>2. \A l \in Leaf(v, w).leaves : l.value = v /\ l.path = <<>>
  BY <1>1
<1>3. Values(Leaf(v, w)) = {v}
  BY <1>1 DEF Values
<1>4. Places(d, Leaf(v, w)) = {i \in DOMAIN d : d[i] = v}
  BY <1>3 DEF Places
<1>5. IsFiniteSet({i \in DOMAIN d : d[i] = v})
  <2>1. IsFiniteSet(1..Len(d)) /\ DOMAIN d = 1..Len(d)
    BY FS_Interval
  <2> QED BY <2>1, FS_Subset
<1>6. TimesIn(d, v) \in Nat
  BY <1>5, FS_CardinalityType DEF TimesIn
<1>7. ASSUME v \in ToSet(d) PROVE TimesIn(d, v) >= 1
  <2>1. PICK i \in DOMAIN d : d[i] = v
    BY <1>7 DEF ToSet
  <2>2. {j \in DOMAIN d : d[j] = v} # {}
    BY <2>1
  <2>3. TimesIn(d, v) # 0
    BY <2>2, <1>5, FS_EmptySet DEF TimesIn
  <2> QED BY <2>3, <1>6
<1> QED BY <1>1, <1>2, <1>3, <1>4, <1>5, <1>6, <1>7

\* Two leaves are the same tree only if they hold the same value.
LEMMA LeavesDiffer ==
  ASSUME NEW v, NEW w, NEW x, NEW y, Leaf(v, x) = Leaf(w, y)
  PROVE  v = w
<1>1. Leaf(v, x).leaves = Leaf(w, y).leaves
  OBVIOUS
<1>2. {[value |-> v, path |-> <<>>]} = {[value |-> w, path |-> <<>>]}
  BY <1>1 DEF Leaf
<1>3. [value |-> v, path |-> <<>>] = [value |-> w, path |-> <<>>]
  BY <1>2
<1> QED BY <1>3

\* The values that occur are finitely many, and so are their leaves.
LEMMA SeenIsFinite ==
  ASSUME NEW d, d \in Seq(Value)
  PROVE  /\ ToSet(d) \subseteq Value
         /\ IsFiniteSet(SeenLeaves(d))
<1>1. ToSet(d) \subseteq Value
  BY DEF ToSet
<1>2. IsFiniteSet(ToSet(d))
  BY <1>1, ValueFacts, FS_Subset
<1> DEFINE h == [v \in ToSet(d) |-> Leaf(v, TimesIn(d, v))]
<1>3. h \in Surjection(ToSet(d), SeenLeaves(d))
  <2>1. h \in [ToSet(d) -> SeenLeaves(d)]
    BY DEF SeenLeaves
  <2>2. \A t \in SeenLeaves(d) : \E v \in ToSet(d) : h[v] = t
    BY DEF SeenLeaves
  <2> QED BY <2>1, <2>2, Fun_IsSurj
<1>4. IsFiniteSet(SeenLeaves(d))
  BY <1>2, <1>3, FS_Surjection
<1> QED BY <1>1, <1>4

\* The leaves of at least two symbols are a forest.
LEMMA FirstForest ==
  ASSUME NEW d, d \in Seq(Value), d # <<>>, Cardinality(SeenLeaves(d)) # 1
  PROVE  Forest(d, SeenLeaves(d))
<1> DEFINE h == SeenLeaves(d)
<1>0. ToSet(d) \subseteq Value
  BY SeenIsFinite
<1>1. \A t \in h : \E v \in ToSet(d) : t = Leaf(v, TimesIn(d, v))
  BY DEF SeenLeaves
<1>2. \A t \in h : TreeOK(d, t)
  <2> SUFFICES ASSUME NEW t \in h PROVE TreeOK(d, t)
    OBVIOUS
  <2>1. PICK v \in ToSet(d) : t = Leaf(v, TimesIn(d, v))
    BY <1>1
  <2>2. v \in Value
    BY <2>1, <1>0
  <2>3. LeavesOK(t.leaves)
    BY <2>1, <2>2, SingleLeafOK
  <2>4. t.weight = TimesIn(d, v) /\ IsFiniteSet(Places(d, t))
        /\ Places(d, t) = {i \in DOMAIN d : d[i] = v}
    BY <2>1, <2>2, LeafFacts
  <2>5. \A l, m \in t.leaves : l = m
    BY <2>1 DEF Leaf
  <2> QED BY <2>3, <2>4, <2>5 DEF TreeOK, TimesIn
<1>3. \A t, u \in h : t # u => Values(t) \cap Values(u) = {}
  <2> SUFFICES ASSUME NEW t \in h, NEW u \in h, t # u PROVE Values(t) \cap Values(u) = {}
    OBVIOUS
  <2>1. PICK v \in ToSet(d) : t = Leaf(v, TimesIn(d, v))
    BY <1>1
  <2>2. PICK w \in ToSet(d) : u = Leaf(w, TimesIn(d, w))
    BY <1>1
  <2>3. Values(t) = {v} /\ Values(u) = {w}
    <3>1. v \in Value /\ w \in Value
      BY <2>1, <2>2, <1>0
    <3> QED BY <3>1, <2>1, <2>2, LeafFacts
  <2>4. v # w
    BY <2>1, <2>2
  <2> QED BY <2>3, <2>4
<1>4. \A i \in DOMAIN d : \E t \in h : d[i] \in Values(t)
  <2> SUFFICES ASSUME NEW i \in DOMAIN d PROVE \E t \in h : d[i] \in Values(t)
    OBVIOUS
  <2> DEFINE t == Leaf(d[i], TimesIn(d, d[i]))
  <2>1. d[i] \in ToSet(d)
    BY DEF ToSet
  <2>2. t \in h
    BY <2>1 DEF SeenLeaves
  <2>3. Values(t) = {d[i]}
    BY <2>1, <1>0, LeafFacts
  <2> QED BY <2>2, <2>3
<1>5. \E i, j \in DOMAIN d : d[i] # d[j]
  <2> SUFFICES ASSUME \A i, j \in DOMAIN d : d[i] = d[j] PROVE FALSE
    OBVIOUS
  <2>1. 1 \in DOMAIN d
    BY EmptySeq
  <2>2. ToSet(d) = {d[1]}
    BY <2>1 DEF ToSet
  <2>3. h = {Leaf(d[1], TimesIn(d, d[1]))}
    BY <2>2 DEF SeenLeaves
  <2> QED BY <2>3, FS_Singleton
<1>6. Heavy(h)
  <2> SUFFICES ASSUME NEW t \in h, NEW l \in t.leaves
               PROVE  /\ t.weight >= Fib(Len(l.path) + 2)
                      /\ \A u \in h \ {t} : u.weight >= Fib(Len(l.path) + 1)
    BY DEF Heavy
  <2>1. \A u \in h : u.weight \in Nat /\ u.weight >= 1
    <3> SUFFICES ASSUME NEW u \in h PROVE u.weight \in Nat /\ u.weight >= 1
      OBVIOUS
    <3>1. PICK v \in ToSet(d) : u = Leaf(v, TimesIn(d, v))
      BY <1>1
    <3> QED BY <3>1, <1>0, LeafFacts
  <2>2. l.path = <<>>
    BY <1>1, <1>0, LeafFacts
  <2>3. Len(l.path) + 2 = 2 /\ Len(l.path) + 1 = 1
    BY <2>2
  <2>4. Fib(2) = 1 /\ Fib(1) = 1
    <3>1. Fib(0 + 2) = Fib(0 + 1) + Fib(0) /\ Fib(0) = 0 /\ Fib(1) = 1
      BY FibFacts
    <3>2. 0 + 2 = 2 /\ 0 + 1 = 1
      OBVIOUS
    <3> QED BY <3>1, <3>2
  <2> QED BY <2>1, <2>3, <2>4
<1> QED BY <1>2, <1>3, <1>4, <1>5, <1>6 DEF Forest

\* A single symbol has its own leaf and the dummy one.
LEMMA FirstLonely ==
  ASSUME NEW d, d \in Seq(Value), d # <<>>, Cardinality(SeenLeaves(d)) = 1
  PROVE  OneSymbol(d, SeenLeaves(d) \cup {Leaf(0, 0)})
<1> DEFINE v == d[1]
           w == TimesIn(d, v)
<1>1. 1 \in DOMAIN d
  BY EmptySeq
<1>2. v \in ToSet(d) /\ v \in Value
  BY <1>1 DEF ToSet
<1>3. Leaf(v, w) \in SeenLeaves(d)
  BY <1>2 DEF SeenLeaves
<1>4. IsFiniteSet(SeenLeaves(d))
  BY SeenIsFinite
<1>5. SeenLeaves(d) = {Leaf(v, w)}
  <2>1. \E x : SeenLeaves(d) = {x}
    BY <1>4, FS_Singleton
  <2> QED BY <2>1, <1>3
<1>6. \A i \in DOMAIN d : d[i] = v
  <2> SUFFICES ASSUME NEW i \in DOMAIN d PROVE d[i] = v
    OBVIOUS
  <2>1. d[i] \in ToSet(d)
    BY DEF ToSet
  <2>2. Leaf(d[i], TimesIn(d, d[i])) \in SeenLeaves(d)
    BY <2>1 DEF SeenLeaves
  <2>3. Leaf(d[i], TimesIn(d, d[i])) = Leaf(v, w)
    BY <2>2, <1>5
  <2> HIDE DEF v, w
  <2> QED BY <2>3, LeavesDiffer
<1>7. w \in Nat \ {0}
  <2>1. w \in Nat /\ w >= 1
    BY <1>2, LeafFacts
  <2> HIDE DEF w
  <2> QED BY <2>1
<1>8. SeenLeaves(d) \cup {Leaf(0, 0)} = Lonely(v, w)
  BY <1>5 DEF Lonely
<1> QED BY <1>2, <1>6, <1>7, <1>8 DEF OneSymbol

\* The first heap of any data is in order.
LEMMA FirstHeapOK ==
  ASSUME NEW d, d \in Seq(Value), d # <<>>
  PROVE  HeapOK(d, FirstOf(d)) /\ FirstOf(d) # {}
<1>1. IsFiniteSet(SeenLeaves(d))
  BY SeenIsFinite
<1>2. CASE Cardinality(SeenLeaves(d)) = 1
  <2>1. FirstOf(d) = SeenLeaves(d) \cup {Leaf(0, 0)}
    BY <1>2 DEF FirstOf
  <2>2. IsFiniteSet(FirstOf(d))
    BY <2>1, <1>1, FS_AddElement
  <2>3. OneSymbol(d, FirstOf(d))
    BY <2>1, <1>2, FirstLonely
  <2>4. FirstOf(d) # {}
    BY <2>1
  <2> QED BY <2>2, <2>3, <2>4 DEF HeapOK
<1>3. CASE Cardinality(SeenLeaves(d)) # 1
  <2>1. FirstOf(d) = SeenLeaves(d)
    BY <1>3 DEF FirstOf
  <2>2. Forest(d, FirstOf(d))
    BY <2>1, <1>3, FirstForest
  <2>3. FirstOf(d) # {}
    <3>1. 1 \in DOMAIN d
      BY EmptySeq
    <3> QED BY <3>1, <2>2 DEF Forest
  <2> QED BY <2>1, <2>2, <2>3, <1>1 DEF HeapOK
<1> QED BY <1>2, <1>3

\* Merge: the tree of two trees.
Parent(left, right) ==
  [weight |-> left.weight + right.weight,
   leaves |-> Below(0, left.leaves) \cup Below(1, right.leaves)]

\* The heap after the two lightest trees have been merged.
MergedHeap(h, left, right) == (h \ {left, right}) \cup {Parent(left, right)}

\* What the leaves of a parent are.
LEMMA ParentFacts ==
  ASSUME NEW left, NEW right,
         left.leaves \subseteq [value : Value, path : Seq({0, 1})],
         right.leaves \subseteq [value : Value, path : Seq({0, 1})]
  PROVE  /\ Values(Parent(left, right)) = Values(left) \cup Values(right)
         /\ \A k \in Parent(left, right).leaves :
              \/ \E l \in left.leaves : /\ Len(l.path) \in Nat /\ Len(k.path) = Len(l.path) + 1
                                        /\ k = Lower(0, l) /\ k.value = l.value
              \/ \E l \in right.leaves : /\ Len(l.path) \in Nat /\ Len(k.path) = Len(l.path) + 1
                                         /\ k = Lower(1, l) /\ k.value = l.value
<1> DEFINE p == Parent(left, right)
           A == left.leaves
           B == right.leaves
<1>1. p.leaves = Below(0, A) \cup Below(1, B)
  BY DEF Parent
<1>2. /\ Below(0, A) = {Lower(0, l) : l \in A}
      /\ \A l \in A : /\ Len(l.path) \in Nat /\ Lower(0, l).value = l.value
                      /\ Len(Lower(0, l).path) = Len(l.path) + 1
  <2>1. 0 \in {0, 1}
    OBVIOUS
  <2> QED BY <2>1, BelowFacts, ZenonT(60)
<1>3. /\ Below(1, B) = {Lower(1, l) : l \in B}
      /\ \A l \in B : /\ Len(l.path) \in Nat /\ Lower(1, l).value = l.value
                      /\ Len(Lower(1, l).path) = Len(l.path) + 1
  <2>1. 1 \in {0, 1}
    OBVIOUS
  <2> QED BY <2>1, BelowFacts
<1> HIDE DEF A, B, p
<1>4. p.leaves = {Lower(0, l) : l \in A} \cup {Lower(1, l) : l \in B}
  BY <1>1, <1>2, <1>3
<1>5. Values(p) = {l.value : l \in A} \cup {l.value : l \in B}
  <2>1. ASSUME NEW x, x \in Values(p) PROVE x \in {l.value : l \in A} \cup {l.value : l \in B}
    BY <2>1, <1>2, <1>3, <1>4 DEF Values
  <2>2. ASSUME NEW l \in A PROVE l.value \in Values(p)
    BY <1>2, <1>4 DEF Values
  <2>3. ASSUME NEW l \in B PROVE l.value \in Values(p)
    BY <1>3, <1>4 DEF Values
  <2> QED BY <2>1, <2>2, <2>3
<1>6. \A k \in p.leaves :
        \/ \E l \in A : /\ Len(l.path) \in Nat /\ Len(k.path) = Len(l.path) + 1
                        /\ k = Lower(0, l) /\ k.value = l.value
        \/ \E l \in B : /\ Len(l.path) \in Nat /\ Len(k.path) = Len(l.path) + 1
                        /\ k = Lower(1, l) /\ k.value = l.value
  <2> SUFFICES ASSUME NEW k \in p.leaves
               PROVE  \/ \E l \in A : /\ Len(l.path) \in Nat /\ Len(k.path) = Len(l.path) + 1
                                      /\ k = Lower(0, l) /\ k.value = l.value
                      \/ \E l \in B : /\ Len(l.path) \in Nat /\ Len(k.path) = Len(l.path) + 1
                                      /\ k = Lower(1, l) /\ k.value = l.value
    OBVIOUS
  <2>1. CASE \E l \in A : k = Lower(0, l)
    BY <2>1, <1>2
  <2>2. CASE \E l \in B : k = Lower(1, l)
    BY <2>2, <1>3
  <2> QED BY <2>1, <2>2, <1>4
<1>7. Values(p) = Values(left) \cup Values(right)
  BY <1>5 DEF Values, A, B
<1> QED BY <1>6, <1>7 DEF A, B, p

\* The tree of two trees that share no symbol is in order.
LEMMA ParentOK ==
  ASSUME NEW d, NEW left, NEW right, TreeOK(d, left), TreeOK(d, right),
         Values(left) \cap Values(right) = {}
  PROVE  TreeOK(d, Parent(left, right))
<1> DEFINE p == Parent(left, right)
           A == left.leaves
           B == right.leaves
<1>1. LeavesOK(A) /\ LeavesOK(B)
  BY DEF TreeOK
<1>2. /\ A \subseteq [value : Value, path : Seq({0, 1})]
      /\ B \subseteq [value : Value, path : Seq({0, 1})]
  BY <1>1 DEF LeavesOK
<1>3. LeavesOK(p.leaves)
  BY <1>1, MergedLeavesOK DEF Parent
<1>4. /\ Values(p) = Values(left) \cup Values(right)
      /\ \A k \in p.leaves : \/ \E l \in A : k = Lower(0, l) /\ k.value = l.value
                             \/ \E l \in B : k = Lower(1, l) /\ k.value = l.value
  BY <1>2, ParentFacts
<1>5. /\ \A l, m \in A : l.value = m.value => l = m
      /\ \A l, m \in B : l.value = m.value => l = m
  BY DEF TreeOK
<1>6. \A l \in A : \A m \in B : l.value # m.value
  BY DEF Values
<1>7. p.weight = left.weight + right.weight
  BY DEF Parent
<1> HIDE DEF p, A, B
<1>8. \A k, m \in p.leaves : k.value = m.value => k = m
  BY <1>4, <1>5, <1>6
<1>9. Places(d, p) = Places(d, left) \cup Places(d, right)
  BY <1>4 DEF Places
<1>10. Places(d, left) \cap Places(d, right) = {}
  BY DEF Places
<1>11. /\ IsFiniteSet(Places(d, left)) /\ left.weight = Cardinality(Places(d, left))
       /\ IsFiniteSet(Places(d, right)) /\ right.weight = Cardinality(Places(d, right))
  BY DEF TreeOK
<1>12. IsFiniteSet(Places(d, p)) /\ p.weight = Cardinality(Places(d, p))
  <2> DEFINE P == Places(d, left)
             Q == Places(d, right)
  <2>1. /\ IsFiniteSet(P \cup Q)
        /\ Cardinality(P \cup Q) = Cardinality(P) + Cardinality(Q) - Cardinality(P \cap Q)
    BY <1>11, FS_Union
  <2>2. Cardinality(P \cap Q) = 0
    BY <1>10, FS_EmptySet
  <2>3. Cardinality(P) \in Nat /\ Cardinality(Q) \in Nat
    BY <1>11, FS_CardinalityType
  <2>4. Cardinality(P \cup Q) = Cardinality(P) + Cardinality(Q)
    <3> DEFINE c == Cardinality(P \cap Q)
    <3>1. c = 0
      BY <2>2
    <3> HIDE DEF c
    <3>2. Cardinality(P \cup Q) = Cardinality(P) + Cardinality(Q) - c
      BY <2>1 DEF c
    <3> HIDE DEF P, Q
    <3> QED BY <3>1, <3>2, <2>3
  <2> QED BY <2>1, <2>4, <1>7, <1>9, <1>11
<1> QED BY <1>3, <1>8, <1>12 DEF TreeOK, p

\* A parent is as heavy as its deepest leaf asks for, and leaves no tree lighter
\* than the heavier of its children behind.
LEMMA MergedIsHeavy ==
  ASSUME NEW d, NEW h, Forest(d, h), NEW left, left \in Lightest(h),
         NEW right, right \in Lightest(h \ {left})
  PROVE  Heavy(MergedHeap(h, left, right))
<1> DEFINE p == Parent(left, right)
           h2 == MergedHeap(h, left, right)
<1>1. /\ left \in h /\ right \in h /\ left # right
      /\ \A u \in h : left.weight <= u.weight
      /\ \A u \in h : u # left => right.weight <= u.weight
  BY DEF Lightest
<1>2. \A t \in h : TreeOK(d, t)
  BY DEF Forest
<1>3. \A t \in h : t.weight \in Nat
  BY <1>2, FS_CardinalityType DEF TreeOK
<1>4. \A t \in h : t.leaves \subseteq [value : Value, path : Seq({0, 1})]
  BY <1>2 DEF TreeOK, LeavesOK
<1>5. \A t \in h : \A l \in t.leaves :
        /\ Len(l.path) \in Nat
        /\ t.weight >= Fib(Len(l.path) + 2)
        /\ \A u \in h : u # t => u.weight >= Fib(Len(l.path) + 1)
  <2> SUFFICES ASSUME NEW t \in h, NEW l \in t.leaves
               PROVE  /\ Len(l.path) \in Nat
                      /\ t.weight >= Fib(Len(l.path) + 2)
                      /\ \A u \in h : u # t => u.weight >= Fib(Len(l.path) + 1)
    OBVIOUS
  <2>1. l.path \in Seq({0, 1})
    BY <1>4
  <2> QED BY <2>1, LenProperties DEF Forest, Heavy
<1>6. p.weight = left.weight + right.weight
  BY DEF Parent
<1>7. \A k \in p.leaves :
        \E t \in {left, right} : \E l \in t.leaves :
          Len(l.path) \in Nat /\ Len(k.path) = Len(l.path) + 1
  BY <1>1, <1>4, ParentFacts
<1>8. h2 = (h \ {left, right}) \cup {p}
  BY DEF MergedHeap
<1> HIDE DEF p, h2
<1>9. ASSUME NEW t \in h2, NEW k \in t.leaves
      PROVE  /\ t.weight >= Fib(Len(k.path) + 2)
             /\ \A u \in h2 \ {t} : u.weight >= Fib(Len(k.path) + 1)
  <2>1. CASE t = p
    <3>1. PICK s \in {left, right} : \E l \in s.leaves :
                 Len(l.path) \in Nat /\ Len(k.path) = Len(l.path) + 1
      BY <2>1, <1>7
    <3>2. PICK l \in s.leaves : Len(l.path) \in Nat /\ Len(k.path) = Len(l.path) + 1
      BY <3>1
    <3> DEFINE n == Len(l.path)
               m == n + 1
    <3>3. n \in Nat /\ m \in Nat /\ Len(k.path) = m
      BY <3>2
    <3>4. Fib(n + 2) \in Nat /\ Fib(m) \in Nat /\ Fib(m + 2) = Fib(n + 2) + Fib(m)
      <4>1. Fib(m + 2) = Fib(m + 1) + Fib(m) /\ Fib(m) \in Nat
        <5> HIDE DEF m
        <5> QED BY <3>3, FibFacts
      <4>2. n + 2 \in Nat /\ m + 1 = n + 2
        <5> HIDE DEF n
        <5> QED BY <3>3
      <4>3. Fib(n + 2) \in Nat
        <5> DEFINE a == n + 2
        <5>1. a \in Nat
          BY <4>2
        <5> HIDE DEF a
        <5>2. Fib(a) \in Nat
          BY <5>1, FibFacts
        <5> QED BY <5>2 DEF a
      <4> QED BY <4>1, <4>2, <4>3
    <3>5. s \in h /\ s.weight >= Fib(n + 2)
          /\ \A u \in h : u # s => u.weight >= Fib(m)
      BY <1>1, <1>5, <3>1
    <3>6. Fib(m + 1) = Fib(n + 2)
      BY <3>3
    <3> HIDE DEF n, m
    <3>7. left.weight + right.weight >= Fib(n + 2) + Fib(m)
      <4>1. CASE s = left
        <5>1. left.weight >= Fib(n + 2) /\ right.weight >= Fib(m)
          BY <4>1, <3>5, <1>1
        <5> QED BY <5>1, <1>1, <1>3, <3>4
      <4>2. CASE s = right
        <5>1. right.weight >= Fib(n + 2) /\ left.weight >= Fib(m)
          BY <4>2, <3>5, <1>1
        <5> QED BY <5>1, <1>1, <1>3, <3>4
      <4> QED BY <4>1, <4>2, <3>1
    <3>8. t.weight >= Fib(Len(k.path) + 2)
      BY <3>7, <3>4, <3>3, <2>1, <1>6
    <3>9. ASSUME NEW u \in h2 \ {t} PROVE u.weight >= Fib(Len(k.path) + 1)
      <4>1. u \in h /\ u # left
        BY <3>9, <2>1, <1>8
      <4>2. left.weight <= u.weight /\ right.weight <= u.weight
        BY <4>1, <1>1
      <4>3. s.weight <= u.weight
        BY <4>2, <3>1
      <4>4. u.weight >= Fib(n + 2)
        BY <4>3, <3>5, <3>4, <4>1, <1>3
      <4> QED BY <4>4, <3>6, <3>3
    <3> QED BY <3>8, <3>9
  <2>2. CASE t # p
    <3>1. t \in h /\ t # left /\ t # right
      BY <2>2, <1>8
    <3>2. t.weight >= Fib(Len(k.path) + 2)
      BY <3>1, <1>5
    <3>3. ASSUME NEW u \in h2 \ {t} PROVE u.weight >= Fib(Len(k.path) + 1)
      <4>1. CASE u = p
        <5>1. left.weight >= Fib(Len(k.path) + 1) /\ Len(k.path) \in Nat
          BY <3>1, <1>1, <1>5
        <5> DEFINE a == Len(k.path) + 1
        <5>2. a \in Nat
          BY <5>1
        <5> HIDE DEF a
        <5>3. Fib(a) \in Nat
          BY <5>2, FibFacts
        <5>4. left.weight >= Fib(a)
          BY <5>1 DEF a
        <5>5. u.weight = left.weight + right.weight /\ left.weight \in Nat /\ right.weight \in Nat
          BY <4>1, <1>6, <1>1, <1>3
        <5>6. u.weight >= Fib(a)
          BY <5>3, <5>4, <5>5
        <5> QED BY <5>6 DEF a
      <4>2. CASE u # p
        <5>1. u \in h /\ u # t
          BY <4>2, <1>8, <3>3
        <5> QED BY <5>1, <3>1, <1>5
      <4> QED BY <4>1, <4>2
    <3> QED BY <3>2, <3>3
  <2> QED BY <2>1, <2>2
<1> QED BY <1>9 DEF Heavy, h2

\* Merging the two lightest trees of a forest leaves a forest.
LEMMA MergedForest ==
  ASSUME NEW d, NEW h, Forest(d, h), NEW left, left \in Lightest(h),
         NEW right, right \in Lightest(h \ {left})
  PROVE  Forest(d, MergedHeap(h, left, right))
<1> DEFINE p == Parent(left, right)
           h2 == MergedHeap(h, left, right)
<1>1. left \in h /\ right \in h /\ left # right
  BY DEF Lightest
<1>2. /\ \A t \in h : TreeOK(d, t)
      /\ \A t, u \in h : t # u => Values(t) \cap Values(u) = {}
      /\ \A i \in DOMAIN d : \E t \in h : d[i] \in Values(t)
      /\ \E i, j \in DOMAIN d : d[i] # d[j]
  BY DEF Forest
<1>3. Heavy(h2)
  BY MergedIsHeavy
<1>4. TreeOK(d, p)
  BY <1>1, <1>2, ParentOK
<1>5. Values(p) = Values(left) \cup Values(right)
  <2>1. /\ left.leaves \subseteq [value : Value, path : Seq({0, 1})]
        /\ right.leaves \subseteq [value : Value, path : Seq({0, 1})]
    BY <1>1, <1>2 DEF TreeOK, LeavesOK
  <2> QED BY <2>1, ParentFacts
<1>6. h2 = (h \ {left, right}) \cup {p}
  BY DEF MergedHeap
<1> HIDE DEF p, h2
<1>7. \A t \in h2 : TreeOK(d, t)
  BY <1>2, <1>4, <1>6
<1>8. \A t, u \in h2 : t # u => Values(t) \cap Values(u) = {}
  BY <1>1, <1>2, <1>5, <1>6
<1>9. \A i \in DOMAIN d : \E t \in h2 : d[i] \in Values(t)
  BY <1>2, <1>5, <1>6
<1> QED BY <1>2, <1>3, <1>7, <1>8, <1>9 DEF Forest, h2

\* A lonely symbol and the dummy leaf make the tree of both.
LEMMA MergedLonely ==
  ASSUME NEW v \in Value, NEW w \in Nat \ {0}, NEW left, left \in Lightest(Lonely(v, w)),
         NEW right, right \in Lightest(Lonely(v, w) \ {left})
  PROVE  MergedHeap(Lonely(v, w), left, right) = Married(v, w)
<1> DEFINE a == Leaf(0, 0)
           b == Leaf(v, w)
           h == Lonely(v, w)
<1>1. a.weight = 0 /\ b.weight = w
  BY DEF Leaf
<1>2. h = {b, a}
  BY DEF Lonely
<1>3. /\ a.leaves = {[value |-> 0, path |-> <<>>]}
      /\ b.leaves = {[value |-> v, path |-> <<>>]}
  BY DEF Leaf
<1>4. left \in h /\ right \in h /\ left # right /\ \A u \in h : left.weight <= u.weight
  BY DEF Lightest
<1> HIDE DEF a, b, h
<1>5. left = a /\ right = b
  BY <1>1, <1>2, <1>4
<1>6. MergedHeap(h, left, right) = {Parent(a, b)}
  BY <1>2, <1>5 DEF MergedHeap
<1>7. /\ Below(0, a.leaves) = {[value |-> 0, path |-> <<0>>]}
      /\ Below(1, b.leaves) = {[value |-> v, path |-> <<1>>]}
  <2>1. <<0>> \o <<>> = <<0>> /\ <<1>> \o <<>> = <<1>>
    <3>1. <<0>> \in Seq({0, 1}) /\ <<1>> \in Seq({0, 1})
      OBVIOUS
    <3> QED BY <3>1, ConcatEmptySeq
  <2>2. ASSUME NEW x \in Value, NEW turn \in {0, 1}
        PROVE  Below(turn, {[value |-> x, path |-> <<>>]})
                 = {Lower(turn, [value |-> x, path |-> <<>>])}
    <3> DEFINE l == [value |-> x, path |-> <<>>]
               A == {l}
    <3>1. l \in [value : Value, path : Seq({0, 1})]
      <4>1. <<>> \in Seq({0, 1})
        BY EmptySeq
      <4> QED BY <4>1
    <3>2. A \subseteq [value : Value, path : Seq({0, 1})]
      BY <3>1
    <3> HIDE DEF l
    <3>3. Below(turn, A) = {Lower(turn, k) : k \in A}
      BY <3>2, BelowFacts
    <3>4. Below(turn, A) = {Lower(turn, l)}
      BY <3>3
    <3> QED BY <3>4 DEF l
  <2>3. 0 \in Value /\ 0 \in {0, 1} /\ 1 \in {0, 1}
    BY ValueFacts
  <2>4. Below(0, a.leaves) = {Lower(0, [value |-> 0, path |-> <<>>])}
    BY <2>2, <2>3, <1>3
  <2>5. Below(1, b.leaves) = {Lower(1, [value |-> v, path |-> <<>>])}
    BY <2>2, <2>3, <1>3
  <2> QED BY <2>1, <2>4, <2>5 DEF Lower
<1>8. Parent(a, b) = [weight |-> w, leaves |-> {[value |-> 0, path |-> <<0>>],
                                                [value |-> v, path |-> <<1>>]}]
  <2>1. a.weight + b.weight = w
    BY <1>1
  <2>2. Below(0, a.leaves) \cup Below(1, b.leaves)
          = {[value |-> 0, path |-> <<0>>], [value |-> v, path |-> <<1>>]}
    BY <1>7
  <2> QED BY <2>1, <2>2 DEF Parent
<1> QED BY <1>6, <1>8 DEF Married, h

\* Merge keeps the heap in order.
LEMMA MergedHeapOK ==
  ASSUME NEW d, NEW h, HeapOK(d, h), Cardinality(h) > 1, NEW left, left \in Lightest(h),
         NEW right, right \in Lightest(h \ {left})
  PROVE  HeapOK(d, MergedHeap(h, left, right))
<1>1. IsFiniteSet(h)
  BY DEF HeapOK
<1>2. /\ IsFiniteSet(MergedHeap(h, left, right))
      /\ MergedHeap(h, left, right) # {}
  <2>1. IsFiniteSet(h \ {left, right})
    BY <1>1, FS_Subset
  <2> QED BY <2>1, FS_AddElement DEF MergedHeap
<1>3. CASE OneSymbol(d, h)
  <2>1. PICK v \in Value, w \in Nat \ {0} :
             /\ \A i \in DOMAIN d : d[i] = v
             /\ h = Lonely(v, w) \/ h = Married(v, w)
    BY <1>3 DEF OneSymbol
  <2>2. h # Married(v, w)
    <3>1. Cardinality(Married(v, w)) = 1
      BY FS_Singleton DEF Married
    <3> QED BY <3>1
  <2>3. h = Lonely(v, w)
    BY <2>1, <2>2
  <2>4. MergedHeap(h, left, right) = Married(v, w)
    BY <2>3, MergedLonely
  <2>5. OneSymbol(d, MergedHeap(h, left, right))
    BY <2>1, <2>4 DEF OneSymbol
  <2> QED BY <2>5, <1>2 DEF HeapOK
<1>4. CASE Forest(d, h)
  BY <1>4, <1>2, MergedForest DEF HeapOK
<1> QED BY <1>3, <1>4 DEF HeapOK

-----------------------------------------------------------------------------
(***************************************************************************)
(* The codes.                                                              *)
(***************************************************************************)
\* A tree that holds all of the data d, none of its leaves at the root or deeper
\* than the data allow.
GoodLeaves(d, S) ==
  /\ LeavesOK(S)
  /\ Cardinality(S) <= ValueCount
  /\ \A i \in DOMAIN d : \E l \in S : l.value = d[i]
  /\ \A l \in S : /\ Len(l.path) \in Nat \ {0}
                  /\ Len(l.path) > 1 => Len(d) >= Fib(Len(l.path) + 2)

\* The last tree of a forest is a good one.
LEMMA LastOfForest ==
  ASSUME NEW d, d \in Seq(Value), NEW t, Forest(d, {t})
  PROVE  GoodLeaves(d, t.leaves)
<1> DEFINE S == t.leaves
<1>1. /\ LeavesOK(S) /\ \A l, m \in S : l.value = m.value => l = m
      /\ IsFiniteSet(Places(d, t)) /\ t.weight = Cardinality(Places(d, t))
      /\ \A i \in DOMAIN d : d[i] \in Values(t)
      /\ \E i, j \in DOMAIN d : d[i] # d[j]
      /\ Heavy({t})
  BY DEF Forest, TreeOK
<1>2. IsFiniteSet(S) /\ S \subseteq [value : Value, path : Seq({0, 1})]
  BY <1>1 DEF LeavesOK
<1>3. Cardinality(S) <= ValueCount
  <2> DEFINE h == [l \in S |-> l.value]
  <2>1. h \in [S -> Value]
    BY <1>2
  <2>2. \A l, m \in S : h[l] = h[m] => l = m
    BY <1>1
  <2>3. h \in Injection(S, Value)
    BY <2>1, <2>2, Fun_IsInj
  <2>4. IsFiniteSet(Value) /\ Cardinality(Value) = ValueCount
    BY ValueFacts
  <2>5. Cardinality(S) <= Cardinality(Value)
    BY <2>3, <2>4, FS_Injection
  <2> QED BY <2>4, <2>5
<1>4. \A i \in DOMAIN d : \E l \in S : l.value = d[i]
  BY <1>1 DEF Values
<1>5. ASSUME NEW l \in S PROVE Len(l.path) \in Nat \ {0}
  <2>1. l.path \in Seq({0, 1})
    BY <1>2
  <2>2. l.path # <<>>
    <3> SUFFICES ASSUME l.path = <<>> PROVE FALSE
      OBVIOUS
    <3>1. S = {l}
      BY <1>1 DEF LeavesOK
    <3> QED BY <3>1, <1>1, <1>4
  <2> QED BY <2>1, <2>2, EmptySeq
<1>6. ASSUME NEW l \in S PROVE Len(d) >= Fib(Len(l.path) + 2)
  <2>1. t.weight >= Fib(Len(l.path) + 2)
    BY <1>1 DEF Heavy
  <2>2. Cardinality(Places(d, t)) <= Len(d)
    <3>1. Places(d, t) \subseteq 1..Len(d) /\ Len(d) \in Nat
      <4>1. DOMAIN d = 1..Len(d) /\ Len(d) \in Nat
        BY LenProperties
      <4>2. Places(d, t) \subseteq DOMAIN d
        BY DEF Places
      <4> QED BY <4>1, <4>2, Zenon
    <3>2. IsFiniteSet(1..Len(d)) /\ Cardinality(1..Len(d)) = Len(d)
      <4> DEFINE n == Len(d)
      <4>1. n \in Nat
        BY <3>1
      <4> HIDE DEF n
      <4>2. IsFiniteSet(1..n) /\ Cardinality(1..n) = IF 1 > n THEN 0 ELSE n - 1 + 1
        BY <4>1, FS_Interval
      <4>3. Cardinality(1..n) = n
        BY <4>1, <4>2
      <4> QED BY <4>2, <4>3 DEF n
    <3> QED BY <3>1, <3>2, FS_Subset
  <2>3. Cardinality(Places(d, t)) \in Nat /\ Len(d) \in Nat
    BY <1>1, FS_CardinalityType
  <2> DEFINE n == Len(l.path) + 2
  <2>4. n \in Nat
    BY <1>5
  <2> HIDE DEF n
  <2>5. Fib(n) \in Nat
    BY <2>4, FibFacts
  <2>6. Len(d) >= Fib(n)
    BY <2>1, <2>2, <2>3, <2>5, <1>1 DEF n
  <2> QED BY <2>6 DEF n
<1> QED BY <1>1, <1>3, <1>4, <1>5, <1>6 DEF GoodLeaves

\* So is the tree of a single symbol and the dummy one.
LEMMA LastOfMarried ==
  ASSUME NEW d, NEW v \in Value, NEW w, \A i \in DOMAIN d : d[i] = v,
         NEW t, Married(v, w) = {t}
  PROVE  GoodLeaves(d, t.leaves)
<1> DEFINE l == [value |-> 0, path |-> <<0>>]
           m == [value |-> v, path |-> <<1>>]
           S == {l, m}
<1>1. t.leaves = S
  BY DEF Married
<1>2. ASSUME NEW x \in Value, NEW y \in {0, 1}, NEW u
      PROVE  Below(y, Leaf(x, u).leaves) = {[value |-> x, path |-> <<y>>]}
  <2>1. Leaf(x, u).leaves \subseteq [value : Value, path : Seq({0, 1})]
        /\ Leaf(x, u).leaves = {[value |-> x, path |-> <<>>]}
    <3>1. LeavesOK(Leaf(x, u).leaves)
      BY SingleLeafOK
    <3>2. Leaf(x, u).leaves \subseteq [value : Value, path : Seq({0, 1})]
      BY <3>1 DEF LeavesOK
    <3>3. Leaf(x, u).leaves = {[value |-> x, path |-> <<>>]}
      BY DEF Leaf
    <3> QED BY <3>2, <3>3
  <2>2. Below(y, Leaf(x, u).leaves) = {Lower(y, k) : k \in Leaf(x, u).leaves}
    <3> DEFINE A == Leaf(x, u).leaves
    <3>1. A \subseteq [value : Value, path : Seq({0, 1})]
      BY <2>1
    <3> HIDE DEF A
    <3>2. Below(y, A) = {Lower(y, k) : k \in A}
      BY <3>1, BelowFacts
    <3> QED BY <3>2 DEF A
  <2>3. <<y>> \o <<>> = <<y>>
    <3>1. <<y>> \in Seq({0, 1})
      OBVIOUS
    <3> QED BY <3>1, ConcatEmptySeq
  <2>4. Below(y, Leaf(x, u).leaves) = {Lower(y, [value |-> x, path |-> <<>>])}
    <3> DEFINE k == [value |-> x, path |-> <<>>]
    <3>1. Leaf(x, u).leaves = {k}
      BY <2>1
    <3> HIDE DEF k
    <3>2. Below(y, Leaf(x, u).leaves) = {Lower(y, k)}
      BY <3>1, <2>2
    <3> QED BY <3>2 DEF k
  <2> QED BY <2>3, <2>4 DEF Lower
<1>3. LeavesOK(S)
  <2>1. 0 \in Value /\ 0 \in {0, 1} /\ 1 \in {0, 1}
    BY ValueFacts
  <2>2. LeavesOK(Leaf(0, 0).leaves) /\ LeavesOK(Leaf(v, 0).leaves)
    BY <2>1, SingleLeafOK
  <2>3. LeavesOK(Below(0, Leaf(0, 0).leaves) \cup Below(1, Leaf(v, 0).leaves))
    BY <2>2, MergedLeavesOK
  <2>4. Below(0, Leaf(0, 0).leaves) = {l} /\ Below(1, Leaf(v, 0).leaves) = {m}
    BY <2>1, <1>2
  <2> HIDE DEF l, m
  <2>5. S = {l} \cup {m}
    OBVIOUS
  <2> QED BY <2>3, <2>4, <2>5
<1>4. Cardinality(S) <= ValueCount
  <2>1. l # m
    <3>1. l.path # m.path
      OBVIOUS
    <3> QED BY <3>1
  <2> HIDE DEF l, m
  <2>2. IsFiniteSet({l}) /\ Cardinality({l}) = 1
    BY FS_Singleton
  <2>3. Cardinality({l} \cup {m}) = 1 + 1
    BY <2>1, <2>2, FS_AddElement
  <2>4. S = {l} \cup {m}
    OBVIOUS
  <2> QED BY <2>3, <2>4, ValueFacts
<1>5. \A i \in DOMAIN d : \E k \in S : k.value = d[i]
  OBVIOUS
<1>6. \A k \in S : Len(k.path) = 1
  OBVIOUS
<1> QED BY <1>1, <1>3, <1>4, <1>5, <1>6 DEF GoodLeaves

\* The tree that is left at the end of buildTree.
LEMMA LastTree ==
  ASSUME NEW d, d \in Seq(Value), NEW h, HeapOK(d, h), Cardinality(h) = 1
  PROVE  GoodLeaves(d, (CHOOSE t \in h : TRUE).leaves)
<1>1. IsFiniteSet(h)
  BY DEF HeapOK
<1>2. PICK t : h = {t}
  BY <1>1, FS_Singleton
<1>3. (CHOOSE x \in h : TRUE) = t
  BY <1>2
<1>4. CASE OneSymbol(d, h)
  <2>1. PICK v \in Value, w \in Nat \ {0} :
             /\ \A i \in DOMAIN d : d[i] = v
             /\ h = Lonely(v, w) \/ h = Married(v, w)
    BY <1>4 DEF OneSymbol
  <2>2. h # Lonely(v, w)
    <3>1. Leaf(v, w) # Leaf(0, 0)
      <4>1. Leaf(v, w).weight = w /\ Leaf(0, 0).weight = 0
        BY DEF Leaf
      <4> QED BY <4>1
    <3> QED BY <3>1, <1>2 DEF Lonely
  <2> QED BY <2>1, <2>2, <1>2, <1>3, LastOfMarried
<1>5. CASE Forest(d, h)
  BY <1>5, <1>2, <1>3, LastOfForest
<1> QED BY <1>4, <1>5 DEF HeapOK

\* The leaves of a tree in the order SortCodes may give them.
Ordered(f, S) ==
  /\ f \in SetToSeqs(S)
  /\ \A i, j \in DOMAIN f : i < j => Len(f[i].path) <= Len(f[j].path)

PathLengths(f) == [i \in DOMAIN f |-> Len(f[i].path)]

\* Every leaf is in its place, and the lengths share out all sequences of bits.
LEMMA OrderedLengths ==
  ASSUME NEW d, NEW S, GoodLeaves(d, S), NEW f, Ordered(f, S)
  PROVE  /\ Cardinality(S) \in Nat \ {0}
         /\ DOMAIN f = 1..Cardinality(S)
         /\ \A i \in DOMAIN f : f[i] \in S
         /\ \A l \in S : \E i \in DOMAIN f : f[i] = l
         /\ Len(PathLengths(f)) = Cardinality(S)
         /\ Lengths(PathLengths(f), PathLengths(f)[Cardinality(S)])
<1> DEFINE n == Cardinality(S)
           L == PathLengths(f)
           D == L[n]
<1>1. /\ LeavesOK(S) /\ IsFiniteSet(S) /\ S # {}
      /\ \A l \in S : Len(l.path) \in Nat \ {0}
  BY DEF GoodLeaves, LeavesOK
<1>2. n \in Nat \ {0}
  <2>1. n \in Nat
    BY <1>1, FS_CardinalityType
  <2>2. n # 0
    BY <1>1, FS_EmptySet
  <2> QED BY <2>1, <2>2
<1>3. /\ f \in [1..n -> S]
      /\ \A i, j \in 1..n : i # j => f[i] # f[j]
      /\ \A i, j \in DOMAIN f : i < j => Len(f[i].path) <= Len(f[j].path)
  BY DEF Ordered, SetToSeqs
<1>4. \A l \in S : \E i \in 1..n : f[i] = l
  <2>1. f \in Injection(1..n, S)
    <3>1. \A i, j \in 1..n : f[i] = f[j] => i = j
      BY <1>3
    <3> HIDE DEF n
    <3> QED BY <1>3, <3>1, Fun_IsInj
  <2>2. IsFiniteSet(1..n) /\ Cardinality(1..n) = n
    <3> HIDE DEF n
    <3>1. IsFiniteSet(1..n) /\ Cardinality(1..n) = IF 1 > n THEN 0 ELSE n - 1 + 1
      BY <1>2, FS_Interval
    <3> QED BY <3>1, <1>2
  <2>3. Cardinality(1..n) = Cardinality(S)
    BY <2>2
  <2>4. f \in Surjection(1..n, S)
    <3> HIDE DEF n
    <3> QED BY <2>1, <2>3, <1>1, FS_Injection
  <2> HIDE DEF n
  <2> QED BY <2>4 DEF Surjection
<1> HIDE DEF n
<1>5. DOMAIN L = 1..n /\ \A i \in 1..n : L[i] = Len(f[i].path)
  BY <1>3 DEF PathLengths
<1>6. \A i \in 1..n : L[i] \in Nat \ {0}
  BY <1>1, <1>3, <1>5
<1>7. Len(L) = n
  <2>1. L = [i \in 1..n |-> Len(f[i].path)]
    BY <1>3 DEF PathLengths
  <2> HIDE DEF L
  <2>2. L \in [1..n -> Nat]
    BY <2>1, <1>5, <1>6
  <2>3. L \in Seq(Nat)
    BY <2>2, <1>2
  <2> QED BY <2>3, <1>5, <1>2, LenProperties
<1>8. \A i, j \in 1..n : i <= j => L[i] <= L[j]
  <2> SUFFICES ASSUME NEW i \in 1..n, NEW j \in 1..n, i <= j PROVE L[i] <= L[j]
    OBVIOUS
  <2>1. CASE i = j
    BY <2>1, <1>6
  <2>2. CASE i # j
    <3>1. i < j
      BY <2>2
    <3>2. Len(f[i].path) <= Len(f[j].path)
      BY <3>1, <1>3
    <3> QED BY <3>2, <1>5
  <2> QED BY <2>1, <2>2
<1> HIDE DEF L
<1>9. n \in 1..n
  BY <1>2
<1>10. D \in Nat /\ \A i \in 1..n : L[i] \in 1..D
  <2>1. D \in Nat
    BY <1>6, <1>9
  <2>2. ASSUME NEW i \in 1..n PROVE L[i] \in 1..D
    <3>1. i <= n
      BY <1>2
    <3>2. L[i] <= D
      BY <3>1, <1>8, <1>9
    <3> QED BY <3>2, <1>6, <2>1
  <2> QED BY <2>1, <2>2
<1> HIDE DEF D
<1>11. Total(LeafShares(S, D), S) = 2 ^ D
  <2>1. \A l \in S : Len(l.path) <= D
    <3> SUFFICES ASSUME NEW l \in S PROVE Len(l.path) <= D
      OBVIOUS
    <3>1. PICK i \in 1..n : f[i] = l
      BY <1>4
    <3> QED BY <3>1, <1>5, <1>10
  <2> QED BY <2>1, <1>1, <1>10 DEF LeavesOK
<1>12. Taken(L, D, n) = 2 ^ D
  <2> DEFINE g == Shares(L, D)
             h == LeafShares(S, D)
  <2>1. g = [i \in 1..n |-> 2 ^ (D - L[i])]
    BY <1>5 DEF Shares
  <2>2. h = [l \in S |-> 2 ^ (D - Len(l.path))]
    BY DEF LeafShares
  <2>3. \A i \in 1..n : 2 ^ (D - L[i]) \in Nat
    <3> SUFFICES ASSUME NEW i \in 1..n PROVE 2 ^ (D - L[i]) \in Nat
      OBVIOUS
    <3> DEFINE e == D - L[i]
    <3>1. e \in Nat
      BY <1>10
    <3> HIDE DEF e
    <3>2. 2 ^ e \in Nat
      BY <3>1, PowersOfTwo
    <3> QED BY <3>2 DEF e
  <2>4. g \in [1..n -> Nat]
    BY <2>1, <2>3
  <2>5. \A l \in S : 2 ^ (D - Len(l.path)) \in Nat
    <3> SUFFICES ASSUME NEW l \in S PROVE 2 ^ (D - Len(l.path)) \in Nat
      OBVIOUS
    <3>1. PICK i \in 1..n : f[i] = l
      BY <1>4
    <3> QED BY <3>1, <2>3, <1>5
  <2>6. h \in [S -> Nat]
    BY <2>2, <2>5
  <2>7. \A i \in 1..n : h[f[i]] = g[i]
    BY <2>1, <2>2, <1>3, <1>5
  <2>8. \A i, j \in 1..n : f[i] = f[j] => i = j
    BY <1>3
  <2>9. IsFiniteSet(1..n)
    BY <1>2, FS_Interval
  <2> HIDE DEF g, h
  <2>10. Total(h, S) = Total(g, 1..n)
    <3> DEFINE K == 1..n
    <3>1. /\ IsFiniteSet(K) /\ g \in [K -> Nat] /\ f \in [K -> S]
          /\ \A i \in K : h[f[i]] = g[i]
          /\ \A i, j \in K : f[i] = f[j] => i = j
          /\ \A l \in S : \E i \in K : f[i] = l
      BY <2>4, <2>7, <2>8, <2>9, <1>3, <1>4
    <3> HIDE DEF K
    <3>2. Total(h, S) = Total(g, K)
      BY <3>1, <2>6, TotalRenamed
    <3> QED BY <3>2 DEF K
  <2> QED BY <2>10, <1>11 DEF Taken, g, h
<1>13. Lengths(L, D)
  BY <1>2, <1>5, <1>7, <1>8, <1>10, <1>12 DEF Lengths
<1>14. DOMAIN f = 1..n /\ \A i \in 1..n : f[i] \in S
  BY <1>3
<1> QED BY <1>2, <1>4, <1>7, <1>13, <1>14 DEF n, L, D

\* CodeNumbers as an equation.
IsNumbering(N, f) ==
  N = [i \in DOMAIN f |-> IF i = 1 THEN 0
                          ELSE NextCode(N[i - 1], Len(f[i].path) - Len(f[i - 1].path))]

\* The numbers of the codes exist and are canonical.
LEMMA NumbersExist ==
  ASSUME NEW f, NEW D, Lengths(PathLengths(f), D)
  PROVE  Canonical(PathLengths(f), D, CodeNumbers(f))
<1> DEFINE L == PathLengths(f)
           n == Len(L)
<1>1. n \in Nat \ {0} /\ DOMAIN L = 1..n /\ D \in Nat
      /\ (\A i \in 1..n : L[i] \in 1..D) /\ \A i, j \in 1..n : i <= j => L[i] <= L[j]
  BY DEF Lengths
<1>2. DOMAIN f = 1..n /\ \A i \in 1..n : Len(f[i].path) = L[i]
  <2>1. DOMAIN f = DOMAIN L
    BY DEF PathLengths
  <2>2. \A i \in DOMAIN f : L[i] = Len(f[i].path)
    BY DEF PathLengths
  <2> QED BY <2>1, <2>2, <1>1
<1> HIDE DEF L, n
<1>3. \A i \in 2..n : /\ i \in 1..n /\ i - 1 \in 1..n /\ L[i] - L[i - 1] \in Nat
                      /\ 2 ^ (L[i] - L[i - 1]) \in Nat
  <2> SUFFICES ASSUME NEW i \in 2..n
               PROVE  /\ i \in 1..n /\ i - 1 \in 1..n /\ L[i] - L[i - 1] \in Nat
                      /\ 2 ^ (L[i] - L[i - 1]) \in Nat
    OBVIOUS
  <2>1. i \in 1..n /\ i - 1 \in 1..n /\ i - 1 <= i
    BY <1>1
  <2>2. L[i - 1] <= L[i] /\ L[i - 1] \in Nat /\ L[i] \in Nat
    BY <1>1, <2>1
  <2> DEFINE e == L[i] - L[i - 1]
  <2>3. e \in Nat
    BY <2>2
  <2> HIDE DEF e
  <2>4. 2 ^ e \in Nat
    BY <2>3, PowersOfTwo
  <2> QED BY <2>1, <2>3, <2>4 DEF e
<1> DEFINE s == [i \in 1..n |-> IF i = 1 THEN 0 ELSE 2 ^ (L[i] - L[i - 1])]
<1>4. s \in [1..n -> Nat] /\ \A i \in 2..n : s[i] = 2 ^ (L[i] - L[i - 1])
  <2>1. ASSUME NEW i \in 1..n PROVE s[i] \in Nat
    <3>1. CASE i = 1
      BY <3>1
    <3>2. CASE i # 1
      <4>1. i \in 2..n
        BY <3>2, <1>1
      <4> QED BY <4>1, <1>3
    <3> QED BY <3>1, <3>2
  <2>2. ASSUME NEW i \in 2..n PROVE s[i] = 2 ^ (L[i] - L[i - 1])
    <3>1. i \in 1..n /\ i # 1
      BY <1>3
    <3> QED BY <3>1
  <2> QED BY <2>1, <2>2
<1> HIDE DEF s
<1> DEFINE next == [v \in (1..n) \X Nat |-> IF v[1] = 1 THEN 0 ELSE (v[2] + 1) * s[v[1]]]
<1>5. next \in [(1..n) \X Nat -> Nat]
      /\ \A i \in 1..n, k \in Nat : next[<<i, k>>] = IF i = 1 THEN 0 ELSE (k + 1) * s[i]
  <2>1. ASSUME NEW i \in 1..n, NEW k \in Nat PROVE (k + 1) * s[i] \in Nat
    <3> DEFINE y == s[i]
    <3>1. y \in Nat
      BY <1>4
    <3> HIDE DEF y
    <3>2. (k + 1) * y \in Nat
      BY <3>1
    <3> QED BY <3>2 DEF y
  <2>2. ASSUME NEW v \in (1..n) \X Nat PROVE next[v] \in Nat
    <3>1. v[1] \in 1..n /\ v[2] \in Nat
      OBVIOUS
    <3>2. (v[2] + 1) * s[v[1]] \in Nat
      BY <3>1, <2>1
    <3> QED BY <3>2
  <2> QED BY <2>2
<1> HIDE DEF next
<1>6. \E g : Iterate(g, Nat, 0, n, next)
  BY <1>1, <1>5, Iterates
<1>7. PICK g : Iterate(g, Nat, 0, n, next)
  BY <1>6
<1>8. g \in [0..n -> Nat] /\ \A i \in 1..n : g[i] = next[<<i, g[i - 1]>>]
  BY <1>7 DEF Iterate
<1> DEFINE M == [i \in 1..n |-> g[i]]
<1>9. IsNumbering(M, f)
  <2>1. ASSUME NEW i \in 1..n
        PROVE  M[i] = IF i = 1 THEN 0
                      ELSE NextCode(M[i - 1], Len(f[i].path) - Len(f[i - 1].path))
    <3>1. M[i] = next[<<i, g[i - 1]>>] /\ g[i - 1] \in Nat
      <4>1. i - 1 \in 0..n
        BY <1>1
      <4> QED BY <4>1, <1>8
    <3>2. CASE i = 1
      BY <3>1, <3>2, <1>5
    <3>3. CASE i # 1
      <4>1. i \in 2..n /\ i - 1 \in 1..n
        BY <3>3, <1>1
      <4>2. M[i] = (g[i - 1] + 1) * s[i]
        BY <3>1, <3>3, <1>5
      <4>3. M[i - 1] = g[i - 1]
        BY <4>1
      <4>4. M[i] = (M[i - 1] + 1) * 2 ^ (L[i] - L[i - 1])
        BY <4>1, <4>2, <4>3, <1>4
      <4>5. Len(f[i].path) = L[i] /\ Len(f[i - 1].path) = L[i - 1]
        BY <4>1, <1>2
      <4> HIDE DEF M
      <4>6. M[i] = NextCode(M[i - 1], Len(f[i].path) - Len(f[i - 1].path))
        BY <4>4, <4>5 DEF NextCode
      <4> QED BY <4>6, <3>3
    <3> QED BY <3>2, <3>3
  <2>2. M = [i \in 1..n |-> IF i = 1 THEN 0
                      ELSE NextCode(M[i - 1], Len(f[i].path) - Len(f[i - 1].path))]
    BY <2>1
  <2> QED BY <2>2, <1>2 DEF IsNumbering
<1> DEFINE N == CodeNumbers(f)
<1>10. IsNumbering(N, f)
  <2> HIDE DEF M
  <2>1. \E x : IsNumbering(x, f)
    BY <1>9
  <2>2. IsNumbering(CHOOSE x : IsNumbering(x, f), f)
    BY <2>1, Zenon
  <2>3. N = CHOOSE x : IsNumbering(x, f)
    BY DEF CodeNumbers, IsNumbering
  <2> QED BY <2>2, <2>3
<1> HIDE DEF N, M
<1>11. \A i \in 1..n : N[i] = IF i = 1 THEN 0
                      ELSE NextCode(N[i - 1], Len(f[i].path) - Len(f[i - 1].path))
  <2>1. \A i \in DOMAIN f : N[i] = IF i = 1 THEN 0
                      ELSE NextCode(N[i - 1], Len(f[i].path) - Len(f[i - 1].path))
    <3>1. N = [i \in DOMAIN f |-> IF i = 1 THEN 0
                      ELSE NextCode(N[i - 1], Len(f[i].path) - Len(f[i - 1].path))]
      BY <1>10 DEF IsNumbering
    <3> QED BY <3>1, Zenon
  <2> QED BY <2>1, <1>2
<1>12. N[1] = 0
  <2>1. 1 \in 1..n
    BY <1>1
  <2>2. \A i \in 1..n : i = 1 => N[i] = 0
    BY <1>11, Zenon
  <2> QED BY <2>1, <2>2
<1>13. \A i \in 2..n : N[i] = (N[i - 1] + 1) * 2 ^ (L[i] - L[i - 1])
  <2> SUFFICES ASSUME NEW i \in 2..n PROVE N[i] = (N[i - 1] + 1) * 2 ^ (L[i] - L[i - 1])
    OBVIOUS
  <2>1. i \in 1..n /\ i # 1 /\ i - 1 \in 1..n
    BY <1>3
  <2>2. N[i] = NextCode(N[i - 1], Len(f[i].path) - Len(f[i - 1].path))
    BY <1>11, <2>1
  <2>3. Len(f[i].path) = L[i] /\ Len(f[i - 1].path) = L[i - 1]
    BY <2>1, <1>2
  <2> QED BY <2>2, <2>3 DEF NextCode
<1>14. \A i \in 1..n : N[i] \in Nat
  <2> DEFINE R == {k \in Nat : k + 1 <= n => N[k + 1] \in Nat}
  <2>1. 0 \in R
    BY <1>12
  <2>2. ASSUME NEW k \in Nat, k \in R PROVE k + 1 \in R
    <3> SUFFICES ASSUME k + 2 <= n PROVE N[k + 2] \in Nat
      <4>1. (k + 1) + 1 = k + 2 /\ k + 1 \in Nat
        OBVIOUS
      <4> QED BY <4>1
    <3> DEFINE i == k + 2
    <3>1. i \in 2..n /\ i - 1 = k + 1 /\ k + 1 <= n
      BY <1>1
    <3>2. N[i - 1] \in Nat
      BY <3>1, <2>2
    <3> HIDE DEF i
    <3> DEFINE e == 2 ^ (L[i] - L[i - 1])
               y == N[i - 1]
    <3>3. e \in Nat
      BY <3>1, <1>3
    <3>4. N[i] = (y + 1) * e
      BY <3>1, <1>13
    <3>5. y \in Nat
      BY <3>2
    <3> HIDE DEF e, y
    <3>6. N[i] \in Nat
      BY <3>3, <3>4, <3>5
    <3> QED BY <3>6 DEF i
  <2> HIDE DEF R
  <2>3. \A k \in Nat : k \in R
    BY <2>1, <2>2, Induction
  <2> SUFFICES ASSUME NEW i \in 1..n PROVE N[i] \in Nat
    OBVIOUS
  <2>4. i - 1 \in Nat /\ (i - 1) + 1 = i
    BY <1>1
  <2>5. i - 1 \in R
    BY <2>3, <2>4
  <2> QED BY <2>4, <2>5, <1>1 DEF R
<1>15. Canonical(L, D, N)
  BY <1>12, <1>13, <1>14 DEF Canonical, n
<1> QED BY <1>15 DEF L, N

LengthsOf(c) == [i \in DOMAIN c |-> Len(c[i].bits)]

\* Canonical codes for the data d, the numbers of which are N.
CodeTable(d, c, N) ==
  /\ c \in Seq([symbol : Value, bits : Seq({0, 1})])
  /\ Len(c) \in 1..ValueCount
  /\ Len(LengthsOf(c)) = Len(c)
  /\ Lengths(LengthsOf(c), LengthsOf(c)[Len(c)])
  /\ Canonical(LengthsOf(c), LengthsOf(c)[Len(c)], N)
  /\ \A i \in DOMAIN c : c[i].bits = Digits(N[i], LengthsOf(c)[i])
  /\ \A i \in DOMAIN d : \E j \in DOMAIN c : c[j].symbol = d[i]

CodesOK(d, c) == \E N : CodeTable(d, c, N)

\* The codes SortCodes makes of the leaves f.
CodesFrom(f) == [i \in DOMAIN f |-> [symbol |-> f[i].value,
                                     bits |-> Digits(CodeNumbers(f)[i], Len(f[i].path))]]

\* They are canonical, and an int is too narrow for them only if there is much data.
LEMMA CodesFromLeaves ==
  ASSUME NEW d, Len(d) \in Nat, NEW S, GoodLeaves(d, S), NEW f, Ordered(f, S)
  PROVE  /\ CodesOK(d, CodesFrom(f))
         /\ CodesFrom(f) \in Seq([symbol : Value, bits : Seq({0, 1})])
         /\ (\E i \in DOMAIN f : CodeNumbers(f)[i] >= 2 ^ (IntBits - 1))
              => Len(d) >= Fib(IntBits + 2)
<1> DEFINE n == Cardinality(S)
           L == PathLengths(f)
           D == L[n]
           N == CodeNumbers(f)
           c == CodesFrom(f)
<1>1. /\ n \in Nat \ {0} /\ DOMAIN f = 1..n
      /\ \A i \in DOMAIN f : f[i] \in S
      /\ \A l \in S : \E i \in DOMAIN f : f[i] = l
      /\ Len(L) = n /\ Lengths(L, D)
  BY OrderedLengths
<1>2. Canonical(L, D, N)
  BY <1>1, NumbersExist
<1>3. \A i \in 1..n : N[i] \in Nat /\ N[i] < 2 ^ L[i]
  <2> HIDE DEF n, L, D, N
  <2>1. \A i \in 1..Len(L) : N[i] \in Nat /\ N[i] < 2 ^ L[i]
    BY <1>1, <1>2, NumbersFit
  <2> QED BY <2>1, <1>1
<1>4. /\ S \subseteq [value : Value, path : Seq({0, 1})] /\ n <= ValueCount
      /\ \A i \in DOMAIN d : \E l \in S : l.value = d[i]
      /\ \A l \in S : Len(l.path) \in Nat
  BY DEF GoodLeaves, LeavesOK
<1>5. \A i \in 1..n : L[i] = Len(f[i].path) /\ L[i] \in Nat /\ f[i].value \in Value
  <2>1. \A i \in DOMAIN f : L[i] = Len(f[i].path)
    BY DEF PathLengths
  <2> QED BY <2>1, <1>1, <1>4
<1>6. c = [i \in 1..n |-> [symbol |-> f[i].value, bits |-> Digits(N[i], Len(f[i].path))]]
  BY <1>1 DEF CodesFrom
<1> HIDE DEF n, L, D, N, c
<1>7. \A i \in 1..n : /\ c[i].symbol = f[i].value
                      /\ c[i].bits = Digits(N[i], L[i])
                      /\ c[i] \in [symbol : Value, bits : Seq({0, 1})]
                      /\ Len(c[i].bits) = L[i]
  <2> SUFFICES ASSUME NEW i \in 1..n
               PROVE  /\ c[i].symbol = f[i].value
                      /\ c[i].bits = Digits(N[i], L[i])
                      /\ c[i] \in [symbol : Value, bits : Seq({0, 1})]
                      /\ Len(c[i].bits) = L[i]
    OBVIOUS
  <2>1. c[i] = [symbol |-> f[i].value, bits |-> Digits(N[i], L[i])]
    BY <1>5, <1>6
  <2> DEFINE l == L[i]
             x == N[i]
  <2>2. l \in Nat /\ x \in Nat
    BY <1>3, <1>5
  <2> HIDE DEF l, x
  <2>3. Digits(x, l) \in Seq({0, 1}) /\ Len(Digits(x, l)) = l
    BY <2>2, DigitsAreBits
  <2> DEFINE b == Digits(x, l)
  <2>4. c[i] = [symbol |-> f[i].value, bits |-> b]
    BY <2>1 DEF l, x
  <2> HIDE DEF b
  <2>5. b \in Seq({0, 1}) /\ Len(b) = l
    BY <2>3 DEF b
  <2>6. c[i].symbol = f[i].value /\ c[i].bits = b
    BY <2>4
  <2>7. c[i] \in [symbol : Value, bits : Seq({0, 1})]
    BY <2>4, <2>5, <1>5
  <2> QED BY <2>5, <2>6, <2>7 DEF b, l, x
<1>8. /\ c \in Seq([symbol : Value, bits : Seq({0, 1})]) /\ Len(c) = n /\ DOMAIN c = 1..n
  <2> DEFINE X == [symbol : Value, bits : Seq({0, 1})]
  <2>1. DOMAIN c = 1..n /\ c = [i \in 1..n |-> c[i]]
    BY <1>6
  <2>2. \A i \in 1..n : c[i] \in X
    BY <1>7
  <2> HIDE DEF X
  <2>3. c \in [1..n -> X]
    BY <2>1, <2>2
  <2>4. c \in Seq(X)
    BY <2>3, <1>1
  <2>5. Len(c) = n
    BY <2>1, <2>4, <1>1, LenProperties
  <2> QED BY <2>1, <2>4, <2>5 DEF X
<1>9. LengthsOf(c) = L
  <2>1. LengthsOf(c) = [i \in 1..n |-> Len(c[i].bits)]
    BY <1>8 DEF LengthsOf
  <2>2. LengthsOf(c) = [i \in 1..n |-> L[i]]
    BY <2>1, <1>7
  <2>3. L = [i \in 1..n |-> Len(f[i].path)]
    BY <1>1 DEF PathLengths, L
  <2>4. L = [i \in 1..n |-> L[i]]
    BY <2>3
  <2> QED BY <2>2, <2>4
<1>10. \A i \in DOMAIN d : \E j \in DOMAIN c : c[j].symbol = d[i]
  <2> SUFFICES ASSUME NEW i \in DOMAIN d PROVE \E j \in DOMAIN c : c[j].symbol = d[i]
    OBVIOUS
  <2>1. PICK l \in S : l.value = d[i]
    BY <1>4
  <2>2. PICK j \in DOMAIN f : f[j] = l
    BY <1>1
  <2> QED BY <2>1, <2>2, <1>1, <1>7, <1>8
<1>11. CodeTable(d, c, N)
  <2>1. Len(c) \in 1..ValueCount
    BY <1>1, <1>4, <1>8, ValueFacts
  <2>2. \A i \in DOMAIN c : c[i].bits = Digits(N[i], LengthsOf(c)[i])
    BY <1>7, <1>8, <1>9
  <2>3. LengthsOf(c)[Len(c)] = D /\ Len(LengthsOf(c)) = Len(c)
    BY <1>1, <1>8, <1>9 DEF D
  <2>4. Lengths(LengthsOf(c), LengthsOf(c)[Len(c)])
    BY <2>3, <1>1, <1>9
  <2>5. Canonical(LengthsOf(c), LengthsOf(c)[Len(c)], N)
    BY <2>3, <1>2, <1>9
  <2> QED BY <2>1, <2>2, <2>3, <2>4, <2>5, <1>8, <1>10 DEF CodeTable
<1>12. ASSUME NEW i \in 1..n, N[i] >= 2 ^ (IntBits - 1)
       PROVE  Len(d) >= Fib(IntBits + 2)
  <2> DEFINE l == L[i]
             b == IntBits - 1
  <2>1. b \in Nat \ {0} /\ IntBits \in Nat /\ IntBits = b + 1
    BY WidthAssumption
  <2>2. l \in Nat /\ N[i] \in Nat /\ N[i] < 2 ^ l
    BY <1>3, <1>5
  <2>3. l > b
    <3> SUFFICES ASSUME ~(l > b) PROVE FALSE
      OBVIOUS
    <3> HIDE DEF l, b
    <3>1. l <= b
      BY <2>1, <2>2
    <3>2. 2 ^ l <= 2 ^ b
      BY <3>1, <2>1, <2>2, PowersGrow
    <3>3. 2 ^ l \in Nat /\ 2 ^ b \in Nat
      BY <2>1, <2>2, PowersOfTwo
    <3>4. N[i] >= 2 ^ b
      BY <1>12 DEF b
    <3> DEFINE p == 2 ^ l
               q == 2 ^ b
    <3>5. p <= q /\ p \in Nat /\ q \in Nat /\ N[i] >= q /\ N[i] < p /\ N[i] \in Nat
      BY <3>2, <3>3, <3>4, <2>2
    <3> HIDE DEF p, q
    <3> QED BY <3>5
  <2>4. l = Len(f[i].path) /\ f[i] \in S
    BY <1>1, <1>5
  <2> HIDE DEF l, b
  <2>5. l > 1 /\ IntBits + 2 <= l + 2 /\ IntBits + 2 \in Nat /\ l + 2 \in Nat
    BY <2>1, <2>2, <2>3
  <2>6. Len(d) >= Fib(l + 2)
    BY <2>4, <2>5 DEF GoodLeaves
  <2> DEFINE p == IntBits + 2
             q == l + 2
  <2>7. p \in Nat /\ q \in Nat /\ p <= q
    BY <2>5
  <2> HIDE DEF p, q
  <2>8. Fib(p) <= Fib(q) /\ Fib(p) \in Nat /\ Fib(q) \in Nat
    BY <2>7, FibGrows, FibFacts
  <2>9. Len(d) >= Fib(p)
    BY <2>6, <2>8, <1>12 DEF q
  <2> QED BY <2>9 DEF p
<1> QED BY <1>1, <1>8, <1>11, <1>12 DEF CodesOK, c, N

\* The first code is the shortest and the last one the longest.
LEMMA EndsOfCodes ==
  ASSUME NEW d, NEW N, CodeTable(d, codes, N)
  PROVE  /\ Len(codes) \in Nat \ {0} /\ DOMAIN codes = 1..Len(codes)
         /\ \A i \in 1..Len(codes) : Len(codes[i].bits) = LengthsOf(codes)[i]
         /\ MaxCodeLength = LengthsOf(codes)[Len(codes)]
         /\ MinCodeLength = LengthsOf(codes)[1]
<1> DEFINE n == Len(codes)
           L == LengthsOf(codes)
<1>1. /\ codes \in Seq([symbol : Value, bits : Seq({0, 1})])
      /\ n \in 1..ValueCount /\ Len(L) = n /\ Lengths(L, L[n])
  BY DEF CodeTable
<1>2. n \in Nat \ {0} /\ DOMAIN codes = 1..n
  BY <1>1, LenProperties, ValueFacts
<1>3. \A i \in 1..n : Len(codes[i].bits) = L[i]
  BY <1>2 DEF LengthsOf
<1>4. \A i, j \in 1..n : i <= j => L[i] <= L[j]
  BY <1>1 DEF Lengths
<1>5. \A i \in 1..n : L[i] \in Nat
  BY <1>1, <1>2 DEF Lengths
<1> HIDE DEF n, L
<1>6. CodeLengths = {L[i] : i \in 1..n}
  BY <1>2, <1>3 DEF CodeLengths
<1>7. 1 \in 1..n /\ n \in 1..n /\ \A i \in 1..n : 1 <= i /\ i <= n
  BY <1>2
<1>8. MaxCodeLength = L[n]
  <2>1. L[n] \in CodeLengths /\ \A y \in CodeLengths : L[n] >= y
    BY <1>4, <1>5, <1>6, <1>7
  <2>2. \A x, y \in CodeLengths : x >= y /\ y >= x => x = y
    BY <1>5, <1>6
  <2>3. MaxCodeLength \in CodeLengths /\ \A y \in CodeLengths : MaxCodeLength >= y
    BY <2>1 DEF MaxCodeLength, Max
  <2> QED BY <2>1, <2>2, <2>3
<1>9. MinCodeLength = L[1]
  <2>1. L[1] \in CodeLengths /\ \A y \in CodeLengths : L[1] <= y
    BY <1>4, <1>5, <1>6, <1>7
  <2>2. \A x, y \in CodeLengths : x <= y /\ y <= x => x = y
    BY <1>5, <1>6
  <2>3. MinCodeLength \in CodeLengths /\ \A y \in CodeLengths : MinCodeLength <= y
    BY <2>1 DEF MinCodeLength, Min
  <2> QED BY <2>1, <2>2, <2>3
<1> QED BY <1>2, <1>3, <1>8, <1>9 DEF n, L

\* Canonical codes are a complete prefix code.
LEMMA CodeIsComplete ==
  ASSUME NEW d, CodesOK(d, codes)
  PROVE  /\ \A i, j \in DOMAIN codes :
              IsPrefix(codes[i].bits, codes[j].bits) => i = j
         /\ SumFunction([i \in DOMAIN codes |-> 2 ^ (MaxCodeLength - Len(codes[i].bits))])
              = 2 ^ MaxCodeLength
<1>1. PICK N : CodeTable(d, codes, N)
  BY DEF CodesOK
<1> DEFINE n == Len(codes)
           L == LengthsOf(codes)
           D == L[n]
<1>2. /\ n \in Nat \ {0} /\ DOMAIN codes = 1..n /\ MaxCodeLength = D
      /\ \A i \in 1..n : Len(codes[i].bits) = L[i]
  BY <1>1, EndsOfCodes
<1>3. /\ Len(L) = n /\ Lengths(L, D) /\ Canonical(L, D, N)
      /\ \A i \in DOMAIN codes : codes[i].bits = Digits(N[i], L[i])
      /\ codes \in Seq([symbol : Value, bits : Seq({0, 1})])
  BY <1>1 DEF CodeTable
<1>4. /\ DOMAIN L = 1..n /\ D \in Nat /\ Taken(L, D, n) = 2 ^ D
      /\ \A i \in 1..n : L[i] \in 1..D
  <2> HIDE DEF n, L, D
  <2>1. /\ DOMAIN L = 1..Len(L) /\ D \in Nat /\ Taken(L, D, Len(L)) = 2 ^ D
        /\ \A i \in 1..Len(L) : L[i] \in 1..D
    BY <1>3 DEF Lengths
  <2> QED BY <2>1, <1>3
<1>5. \A i \in 1..n : codes[i].bits \in Seq({0, 1})
  <2>1. \A i \in 1..n : codes[i] \in [symbol : Value, bits : Seq({0, 1})]
    BY <1>3, ElementOfSeq
  <2> HIDE DEF n
  <2> QED BY <2>1
<1> HIDE DEF n, L, D
<1>6. ASSUME NEW i \in 1..n, NEW j \in 1..n, IsPrefix(codes[i].bits, codes[j].bits)
      PROVE  i = j
  <2> DEFINE s == codes[i].bits
             t == codes[j].bits
  <2>1. /\ s \in Seq({0, 1}) /\ t \in Seq({0, 1}) /\ Len(s) <= Len(t)
        /\ SubSeq(s, 1, Len(s)) = SubSeq(t, 1, Len(s))
    BY <1>5, <1>6 DEF IsPrefix
  <2>2. Len(s) = L[i] /\ Len(t) = L[j] /\ L[i] \in Nat
    BY <1>2, <1>4
  <2> HIDE DEF s, t
  <2>3. \A k \in 1..Len(s) : s[k] = t[k]
    <3> SUFFICES ASSUME NEW k \in 1..Len(s) PROVE s[k] = t[k]
      OBVIOUS
    <3>1. SubSeq(s, 1, Len(s))[k] = s[k] /\ SubSeq(t, 1, Len(s))[k] = t[k]
      BY <2>1, <2>2
    <3> QED BY <3>1, <2>1
  <2>4. s = Digits(N[i], L[i]) /\ t = Digits(N[j], L[j])
    BY <1>2, <1>3 DEF s, t
  <2>5. L[i] <= L[j] /\ \A k \in 1..L[i] : Digits(N[i], L[i])[k] = Digits(N[j], L[j])[k]
    BY <2>1, <2>2, <2>3, <2>4
  <2> QED BY <2>5, <1>3, CanonicalPrefixFree
<1>7. SumFunction([i \in DOMAIN codes |-> 2 ^ (MaxCodeLength - Len(codes[i].bits))])
        = 2 ^ MaxCodeLength
  <2> DEFINE g == Shares(L, D)
  <2>1. [i \in DOMAIN codes |-> 2 ^ (MaxCodeLength - Len(codes[i].bits))] = g
    BY <1>2, <1>4 DEF Shares
  <2>2. g \in [1..n -> Nat]
    <3>1. \A i \in 1..n : 2 ^ (D - L[i]) \in Nat
      BY <1>3, TakenGrows
    <3> QED BY <3>1, <1>4 DEF Shares
  <2>3. IsFiniteSet(1..n)
    BY <1>2, FS_Interval
  <2> DEFINE K == 1..n
  <2> HIDE DEF g, K
  <2>4. SumFunction(g) = Total(g, K)
    BY <2>2, <2>3, SumCounts DEF K
  <2> QED BY <2>1, <2>4, <1>2, <1>4 DEF Taken, g, K
<1> QED BY <1>2, <1>6, <1>7

-----------------------------------------------------------------------------
(***************************************************************************)
(* Bytes and concatenations.                                               *)
(***************************************************************************)
\* One more bit behind a number.
LEMMA OneMoreBit ==
  ASSUME NEW v \in Nat, NEW q \in Nat, q > 0, NEW b \in {0, 1}
  PROVE  (2 * v + b) \div (2 * q) = v \div q
<1> DEFINE w == 2 * v + b
<1>1. w \in Nat /\ w \div 2 = v
  OBVIOUS
<1> HIDE DEF w
<1>2. (w \div 2) \div q = w \div (2 * q)
  BY <1>1
<1> QED BY <1>1, <1>2 DEF w

\* Every sequence of bits is a number's.
LEMMA NumberOfBits ==
  ASSUME NEW n \in Nat, NEW b, \A i \in 1..n : b[i] \in {0, 1}
  PROVE  \E v \in Nat : v < 2 ^ n /\ BitsOf(b, v, n)
<1> DEFINE S == {k \in Nat : k <= n => \E v \in Nat : v < 2 ^ k /\ BitsOf(b, v, k)}
<1>1. 0 \in S
  <2>1. 0 < 2 ^ 0 /\ BitsOf(b, 0, 0)
    BY PowersOfTwo DEF BitsOf
  <2> QED BY <2>1
<1>2. ASSUME NEW k \in Nat, k \in S PROVE k + 1 \in S
  <2> SUFFICES ASSUME k + 1 <= n PROVE \E v \in Nat : v < 2 ^ (k + 1) /\ BitsOf(b, v, k + 1)
    OBVIOUS
  <2>1. PICK v \in Nat : v < 2 ^ k /\ BitsOf(b, v, k)
    BY <1>2
  <2> DEFINE m == k + 1
             c == b[m]
             w == 2 * v + c
  <2>2. c \in {0, 1} /\ m \in Nat /\ m - 1 = k
    OBVIOUS
  <2>3. 2 ^ m = 2 * 2 ^ k /\ 2 ^ k \in Nat
    BY PowersOfTwo
  <2>4. w \in Nat /\ w < 2 ^ m
    <3> DEFINE p == 2 ^ k
               r == 2 ^ m
    <3>1. p \in Nat /\ r = 2 * p /\ v < p
      BY <2>1, <2>3
    <3> HIDE DEF p, r, c
    <3>2. w \in Nat /\ w < r
      BY <2>2, <3>1
    <3> QED BY <3>2 DEF r
  <2> HIDE DEF c
  <2>5. ASSUME NEW i \in 1..m PROVE b[i] = (w \div 2 ^ (m - i)) % 2
    <3>1. CASE i = m
      <4>1. m - i = 0 /\ 2 ^ 0 = 1
        BY <3>1, <2>2, PowersOfTwo
      <4>2. (w \div 1) % 2 = c
        BY <2>2
      <4> QED BY <4>1, <4>2, <3>1 DEF c
    <3>2. CASE i # m
      <4> DEFINE e == k - i
                 q == 2 ^ e
      <4>1. i \in 1..k /\ e \in Nat /\ m - i = e + 1
        BY <3>2, <2>2
      <4> HIDE DEF e
      <4>2. q \in Nat /\ q > 0 /\ 2 ^ (m - i) = 2 * q
        BY <4>1, PowersOfTwo
      <4>3. b[i] = (v \div q) % 2
        BY <4>1, <2>1 DEF BitsOf, e
      <4> HIDE DEF q
      <4>4. w \div (2 * q) = v \div q
        BY <4>2, <2>2, OneMoreBit
      <4> QED BY <4>2, <4>3, <4>4
    <3> QED BY <3>1, <3>2
  <2> HIDE DEF w
  <2>6. BitsOf(b, w, m)
    BY <2>5 DEF BitsOf
  <2> QED BY <2>4, <2>6
<1> HIDE DEF S
<1>3. n \in S
  BY <1>1, <1>2, Induction
<1> QED BY <1>3 DEF S

\* A byte of a file is the number its bits spell.
LEMMA SumOfBits ==
  ASSUME NEW n \in Nat, NEW b, \A i \in 1..n : b[i] \in {0, 1}
  PROVE  /\ SumFunction([j \in 1..n |-> b[j] * 2 ^ (n - j)]) \in Nat
         /\ \A i \in 1..n : Digits(SumFunction([j \in 1..n |-> b[j] * 2 ^ (n - j)]), n)[i] = b[i]
<1>1. PICK v \in Nat : v < 2 ^ n /\ BitsOf(b, v, n)
  BY NumberOfBits
<1> DEFINE g == [j \in 1..n |-> b[j] * 2 ^ (n - j)]
           Q(i) == v \div 2 ^ (n - i)
           P(i) == 2 ^ (n - i)
           S == {i \in Nat : i <= n => Total(g, 1..i) = Q(i) * P(i)}
<1>2. /\ \A i \in 0..n : P(i) \in Nat /\ P(i) > 0 /\ Q(i) \in Nat
      /\ \A i \in 1..n : P(i - 1) = 2 * P(i) /\ Q(i) = 2 * Q(i - 1) + b[i]
  <2>1. v \in Nat /\ BitsOf(b, v, n)
    BY <1>1
  <2>2. ASSUME NEW i \in 0..n PROVE P(i) \in Nat /\ P(i) > 0 /\ Q(i) \in Nat
    BY <2>1, Quotients
  <2>3. ASSUME NEW i \in 1..n PROVE P(i - 1) = 2 * P(i) /\ Q(i) = 2 * Q(i - 1) + b[i]
    <3> DEFINE p == P(i)
               r == P(i - 1)
               x == v \div p
               y == v \div r
    <3>1. r = 2 * p /\ x = 2 * y + b[i]
      BY <2>1, Quotients
    <3>2. Q(i) = x /\ Q(i - 1) = y
      OBVIOUS
    <3> QED BY <3>1, <3>2
  <2> HIDE DEF P, Q
  <2> QED BY <2>2, <2>3
<1>3. \A i \in 1..n : b[i] * P(i) \in Nat /\ g[i] = b[i] * P(i)
  <2> SUFFICES ASSUME NEW i \in 1..n PROVE b[i] * P(i) \in Nat /\ g[i] = b[i] * P(i)
    OBVIOUS
  <2> DEFINE p == P(i)
  <2>1. p \in Nat
    BY <1>2
  <2>2. g[i] = b[i] * p
    OBVIOUS
  <2> HIDE DEF p
  <2>3. b[i] * p \in Nat
    BY <2>1
  <2> QED BY <2>2, <2>3 DEF p
<1>4. g \in [1..n -> Nat]
  <2> HIDE DEF P
  <2>1. g = [j \in 1..n |-> g[j]]
    OBVIOUS
  <2> HIDE DEF g
  <2>2. \A j \in 1..n : g[j] \in Nat
    BY <1>3
  <2> QED BY <2>1, <2>2
<1> HIDE DEF g, P, Q
<1>5. /\ Total(g, 1..0) = 0
      /\ \A i \in 1..n : Total(g, 1..i) = Total(g, 1..(i - 1)) + g[i]
  BY <1>4, TotalOfFirst, ZenonT(60)
<1>6. 0 \in S
  <2>1. Q(0) = 0
    <3>1. n - 0 = n
      OBVIOUS
    <3>2. v \div 2 ^ n = 0
      <4> DEFINE p == 2 ^ n
      <4>1. p \in Nat /\ v < p
        BY <1>1, PowersOfTwo
      <4> HIDE DEF p
      <4>2. v \div p = 0
        BY <4>1
      <4> QED BY <4>2 DEF p
    <3> QED BY <3>1, <3>2 DEF Q
  <2>2. P(0) \in Nat
    BY <1>2
  <2>3. 0 * P(0) = 0
    BY <2>2
  <2> QED BY <2>1, <2>3, <1>5
<1>7. ASSUME NEW i \in Nat, i \in S PROVE i + 1 \in S
  <2> SUFFICES ASSUME i + 1 <= n PROVE Total(g, 1..(i + 1)) = Q(i + 1) * P(i + 1)
    OBVIOUS
  <2> DEFINE k == i + 1
  <2>1. k \in 1..n /\ k - 1 = i /\ i \in 0..n
    OBVIOUS
  <2> HIDE DEF k
  <2>2. Total(g, 1..i) = Q(i) * P(i)
    BY <1>7, <2>1
  <2>3. Total(g, 1..k) = Total(g, 1..i) + b[k] * P(k)
    BY <1>3, <1>5, <2>1
  <2>4. P(i) = 2 * P(k) /\ Q(k) = 2 * Q(i) + b[k] /\ P(k) \in Nat /\ Q(i) \in Nat /\ Q(k) \in Nat
    BY <1>2, <2>1
  <2> DEFINE x == Q(i)
             y == Q(k)
             p == P(k)
             r == P(i)
             c == b[k]
  <2>5. c \in {0, 1} /\ p \in Nat /\ x \in Nat /\ r = 2 * p /\ y = 2 * x + c
        /\ Total(g, 1..k) = x * r + c * p
    BY <2>1, <2>2, <2>3, <2>4
  <2> HIDE DEF x, y, p, r, c
  <2>6. Total(g, 1..k) = y * p
    BY <2>5
  <2> QED BY <2>6 DEF y, p, k
<1>8. Total(g, 1..n) = v
  <2> HIDE DEF S
  <2>1. n \in S
    BY <1>6, <1>7, Induction
  <2>2. Total(g, 1..n) = Q(n) * P(n)
    BY <2>1 DEF S
  <2>3. n - n = 0 /\ 2 ^ 0 = 1
    BY PowersOfTwo
  <2>4. P(n) = 1 /\ Q(n) = v \div 1
    BY <2>3 DEF P, Q
  <2>5. v \div 1 = v /\ v * 1 = v
    OBVIOUS
  <2> QED BY <2>2, <2>4, <2>5
<1>9. SumFunction(g) = v
  <2>1. IsFiniteSet(1..n)
    BY FS_Interval
  <2> DEFINE K == 1..n
  <2> HIDE DEF K
  <2>2. SumFunction(g) = Total(g, K)
    BY <1>4, <2>1, SumCounts DEF K
  <2> QED BY <2>2, <1>8 DEF K
<1>10. \A i \in 1..n : Digits(v, n)[i] = b[i]
  BY <1>1 DEF Digits, BitsOf
<1> QED BY <1>9, <1>10 DEF g, P

\* Where the parts of a concatenation end.
PartLengths(p) == [i \in DOMAIN p |-> Len(p[i])]
EndOfPart(p, k) == Total(PartLengths(p), 1..k)

IsFlatten(f, p) == f = [i \in 1..Len(p) |-> IF i = 1 THEN p[i] ELSE f[i - 1] \o p[i]]

\* s is all the parts p, one behind the other.
IsConcatenation(s, X, p) ==
  /\ s \in Seq(X)
  /\ EndOfPart(p, 0) = 0
  /\ \A k \in 0..Len(p) : EndOfPart(p, k) \in Nat
  /\ \A k \in 1..Len(p) : EndOfPart(p, k) = EndOfPart(p, k - 1) + Len(p[k])
  /\ Len(s) = EndOfPart(p, Len(p))
  /\ \A k \in 1..Len(p) : \A j \in 1..Len(p[k]) :
       s[EndOfPart(p, k - 1) + j] = p[k][j]

\* What FlattenSeq computes.
LEMMA Flattened ==
  ASSUME NEW X, NEW p, p \in Seq(Seq(X)), p # <<>>
  PROVE  IsConcatenation(FlattenSeq(p), X, p)
<1> DEFINE n == Len(p)
           E(k) == EndOfPart(p, k)
<1>1. n \in Nat /\ n # 0 /\ DOMAIN p = 1..n /\ \A i \in 1..n : p[i] \in Seq(X)
  BY EmptySeq, LenProperties, ElementOfSeq
<1>2. /\ E(0) = 0
      /\ \A k \in 0..n : E(k) \in Nat
      /\ \A k \in 1..n : E(k) = E(k - 1) + Len(p[k])
  <2> DEFINE g == PartLengths(p)
  <2>1. g = [i \in 1..n |-> Len(p[i])]
    BY <1>1 DEF PartLengths
  <2>2. \A i \in 1..n : Len(p[i]) \in Nat
    BY <1>1, LenProperties
  <2>3. g \in [1..n -> Nat] /\ \A i \in 1..n : g[i] = Len(p[i])
    BY <2>1, <2>2
  <2> HIDE DEF g, n
  <2>4. /\ Total(g, 1..0) = 0
        /\ \A i \in 0..n : Total(g, 1..i) \in Nat
        /\ \A i \in 1..n : Total(g, 1..i) = Total(g, 1..(i - 1)) + g[i]
    BY <2>3, <1>1, TotalOfFirst
  <2> QED BY <2>3, <2>4 DEF EndOfPart, g
<1> HIDE DEF E, n
<1> DEFINE next == [v \in (1..n) \X Seq(X) |-> v[2] \o p[v[1]]]
<1>3. next \in [(1..n) \X Seq(X) -> Seq(X)]
      /\ \A i \in 1..n : \A s \in Seq(X) : next[<<i, s>>] = s \o p[i]
  <2>1. ASSUME NEW v \in (1..n) \X Seq(X) PROVE next[v] \in Seq(X)
    <3>1. v[1] \in 1..n /\ v[2] \in Seq(X) /\ p[v[1]] \in Seq(X)
      BY <1>1
    <3>2. v[2] \o p[v[1]] \in Seq(X)
      BY <3>1, ConcatProperties
    <3> QED BY <3>2
  <2>2. ASSUME NEW i \in 1..n, NEW s \in Seq(X) PROVE next[<<i, s>>] = s \o p[i]
    OBVIOUS
  <2>3. next = [v \in (1..n) \X Seq(X) |-> next[v]]
    OBVIOUS
  <2> HIDE DEF next
  <2> QED BY <2>1, <2>2, <2>3
<1> HIDE DEF next
<1>4. \E g : Iterate(g, Seq(X), <<>>, n, next)
  <2>1. <<>> \in Seq(X)
    BY EmptySeq
  <2> QED BY <2>1, <1>1, <1>3, Iterates
<1>5. PICK g : Iterate(g, Seq(X), <<>>, n, next)
  BY <1>4
<1>6. /\ g \in [0..n -> Seq(X)] /\ g[0] = <<>>
      /\ \A i \in 1..n : g[i] = next[<<i, g[i - 1]>>]
  BY <1>5 DEF Iterate
<1>7. \A i \in 1..n : g[i - 1] \in Seq(X) /\ g[i] = g[i - 1] \o p[i]
  <2> SUFFICES ASSUME NEW i \in 1..n PROVE g[i - 1] \in Seq(X) /\ g[i] = g[i - 1] \o p[i]
    OBVIOUS
  <2>1. i - 1 \in 0..n
    BY <1>1
  <2>2. g[i - 1] \in Seq(X)
    BY <2>1, <1>6
  <2> QED BY <2>2, <1>3, <1>6
<1> DEFINE M == [i \in 1..n |-> g[i]]
<1>8. IsFlatten(M, p)
  <2>1. ASSUME NEW i \in 1..n PROVE M[i] = IF i = 1 THEN p[i] ELSE M[i - 1] \o p[i]
    <3>1. M[i] = g[i - 1] \o p[i]
      BY <1>7
    <3>2. CASE i = 1
      <4>1. g[i - 1] = <<>>
        BY <3>2, <1>6
      <4>2. <<>> \o p[i] = p[i]
        BY <1>1, ConcatEmptySeq
      <4> QED BY <3>1, <3>2, <4>1, <4>2
    <3>3. CASE i # 1
      <4>1. i - 1 \in 1..n
        BY <3>3, <1>1
      <4>2. M[i - 1] = g[i - 1]
        BY <4>1
      <4> QED BY <3>1, <3>3, <4>2
    <3> QED BY <3>2, <3>3
  <2>2. M = [i \in 1..n |-> IF i = 1 THEN p[i] ELSE M[i - 1] \o p[i]]
    BY <2>1
  <2> QED BY <2>2 DEF IsFlatten, n
<1> DEFINE F == CHOOSE f : IsFlatten(f, p)
<1>9. IsFlatten(F, p)
  <2> HIDE DEF M
  <2>1. \E f : IsFlatten(f, p)
    BY <1>8
  <2> QED BY <2>1, Zenon
<1>10. FlattenSeq(p) = F[n]
  <2>1. FlattenSeq(p) = IF Len(p) = 0 THEN p ELSE F[Len(p)]
    BY DEF FlattenSeq, IsFlatten
  <2> QED BY <2>1, <1>1 DEF n
<1> HIDE DEF F, M
<1>11. /\ F[1] = p[1]
       /\ \A i \in 1..n : i # 1 => F[i] = F[i - 1] \o p[i]
  <2>1. \A i \in 1..n : F[i] = IF i = 1 THEN p[i] ELSE F[i - 1] \o p[i]
    <3>1. F = [i \in 1..n |-> IF i = 1 THEN p[i] ELSE F[i - 1] \o p[i]]
      BY <1>9 DEF IsFlatten, n
    <3> QED BY <3>1, Zenon
  <2>2. 1 \in 1..n
    BY <1>1
  <2>3. \A i \in 1..n : i = 1 => F[i] = p[i]
    BY <2>1, Zenon
  <2>4. \A i \in 1..n : i # 1 => F[i] = F[i - 1] \o p[i]
    BY <2>1, Zenon
  <2> QED BY <2>2, <2>3, <2>4
<1> DEFINE OK(i) == /\ F[i] \in Seq(X) /\ Len(F[i]) = E(i)
                    /\ \A k \in 1..i : \A j \in 1..Len(p[k]) : F[i][E(k - 1) + j] = p[k][j]
           S == {i \in Nat : i + 1 <= n => OK(i + 1)}
<1>12. 0 \in S
  <2>1. OK(1)
    <3>1. F[1] \in Seq(X) /\ 1 \in 1..n
      BY <1>1, <1>11
    <3>2. E(1) = E(0) + Len(p[1]) /\ Len(p[1]) \in Nat
      BY <1>1, <1>2, <3>1, LenProperties
    <3>3. Len(F[1]) = E(1)
      BY <3>2, <1>2, <1>11
    <3>4. ASSUME NEW k \in 1..1, NEW j \in 1..Len(p[k]) PROVE F[1][E(k - 1) + j] = p[k][j]
      <4>1. k = 1 /\ k - 1 = 0 /\ j \in Nat
        BY <3>2
      <4>2. E(0) + j = j
        BY <4>1, <1>2
      <4> QED BY <4>1, <4>2, <1>11
    <3> QED BY <3>1, <3>3, <3>4
  <2> HIDE DEF OK
  <2> QED BY <2>1
<1>13. ASSUME NEW i \in Nat, i \in S PROVE i + 1 \in S
  <2> SUFFICES ASSUME (i + 1) + 1 <= n PROVE OK((i + 1) + 1)
    BY DEF S
  <2> DEFINE a == i + 1
             b == a + 1
  <2>1. a \in 1..n /\ b \in 1..n /\ b # 1 /\ b - 1 = a /\ a \in Nat
    BY <1>1
  <2>2. OK(a)
    <3> HIDE DEF OK
    <3> QED BY <1>13, <2>1
  <2> HIDE DEF a, b
  <2> DEFINE s == F[a]
             t == p[b]
  <2>3. s \in Seq(X) /\ t \in Seq(X) /\ Len(s) = E(a) /\ F[b] = s \o t
    BY <2>1, <2>2, <1>1, <1>11
  <2>4. E(b) = E(a) + Len(t) /\ E(a) \in Nat
    BY <2>1, <1>2
  <2>5. \A k \in 1..a : \A j \in 1..Len(p[k]) : s[E(k - 1) + j] = p[k][j]
    BY <2>2
  <2> HIDE DEF s
  <2>6. /\ s \o t \in Seq(X) /\ Len(s \o t) = Len(s) + Len(t)
        /\ Len(s) \in Nat /\ Len(t) \in Nat
        /\ \A j \in 1..Len(s) : (s \o t)[j] = s[j]
        /\ \A j \in 1..Len(t) : (s \o t)[Len(s) + j] = t[j]
    <3> HIDE DEF t
    <3> QED BY <2>3, SMTT(30)
  <2>7. ASSUME NEW k \in 1..b, NEW j \in 1..Len(p[k]) PROVE F[b][E(k - 1) + j] = p[k][j]
    <3>1. CASE k = b
      <4>1. E(k - 1) = Len(s) /\ p[k] = t
        BY <3>1, <2>1, <2>3
      <4> HIDE DEF t
      <4> QED BY <4>1, <2>3, <2>6
    <3>2. CASE k # b
      <4>1. k \in 1..a /\ k \in 1..n /\ k - 1 \in 0..n
        BY <3>2, <2>1, <1>1
      <4>2. s[E(k - 1) + j] = p[k][j]
        BY <4>1, <2>5
      <4>3. E(k - 1) + j \in 1..Len(s)
        <5>1. E(k) <= E(a)
          <6> DEFINE g2 == PartLengths(p)
          <6>1. g2 \in [1..n -> Nat]
            <7>1. \A y \in 1..n : Len(p[y]) \in Nat
              BY <1>1, LenProperties
            <7> QED BY <7>1, <1>1 DEF PartLengths
          <6>2. 1..k \subseteq 1..a /\ 1..a \subseteq 1..n /\ IsFiniteSet(1..a)
            <7>1. IsFiniteSet(1..a)
              BY <2>1, FS_Interval
            <7>2. 1..k \subseteq 1..a
              BY <4>1, <2>1
            <7>3. 1..a \subseteq 1..n
              BY <1>1, <2>1
            <7> QED BY <7>1, <7>2, <7>3
          <6> HIDE DEF g2
          <6>3. Total(g2, 1..k) <= Total(g2, 1..a)
            BY <6>1, <6>2, TotalOfPart
          <6> QED BY <6>3 DEF g2, E, EndOfPart
        <5>2. E(k) = E(k - 1) + Len(p[k]) /\ E(k - 1) \in Nat /\ E(k) \in Nat
          <6>1. k \in 0..n
            BY <4>1
          <6> QED BY <6>1, <4>1, <1>2
        <5>3. Len(p[k]) \in Nat
          BY <4>1, <1>1, LenProperties
        <5> QED BY <5>1, <5>2, <5>3, <2>3, <2>4, SMTT(30)
      <4> QED BY <4>2, <4>3, <2>3, <2>6
    <3> QED BY <3>1, <3>2
  <2>8. F[b] \in Seq(X) /\ Len(F[b]) = E(b)
    BY <2>3, <2>4, <2>6
  <2>9. OK(b)
    BY <2>7, <2>8
  <2> HIDE DEF OK
  <2> QED BY <2>9 DEF a, b
<1>14. OK(n)
  <2> HIDE DEF S, OK
  <2>1. n - 1 \in Nat /\ (n - 1) + 1 = n
    BY <1>1
  <2>2. \A i \in Nat : i \in S
    BY <1>12, <1>13, Induction
  <2>3. n - 1 \in S
    BY <2>1, <2>2
  <2> QED BY <2>1, <2>3, <1>1 DEF S
<1> QED BY <1>1, <1>2, <1>10, <1>14 DEF E, n, IsConcatenation

\* A set of positions has a last one.
LEMMA LastPosition ==
  ASSUME NEW n \in Nat, NEW S, S \subseteq 1..n, S # {}
  PROVE  Max(S) \in S
<1> DEFINE P == {k \in Nat : \A T \in SUBSET (1..k) :
                               T # {} => \E x \in T : \A y \in T : x >= y}
<1>1. 0 \in P
  <2>1. 1..0 = {}
    OBVIOUS
  <2> QED BY <2>1
<1>2. ASSUME NEW k \in Nat, k \in P PROVE k + 1 \in P
  <2> SUFFICES ASSUME NEW T \in SUBSET (1..(k + 1)), T # {}
               PROVE  \E x \in T : \A y \in T : x >= y
    OBVIOUS
  <2>1. CASE k + 1 \in T
    BY <2>1
  <2>2. CASE k + 1 \notin T
    <3>1. T \in SUBSET (1..k)
      BY <2>2
    <3> QED BY <3>1, <1>2
  <2> QED BY <2>1, <2>2
<1> HIDE DEF P
<1>3. n \in P
  BY <1>1, <1>2, Induction
<1>4. \E x \in S : \A y \in S : x >= y
  BY <1>3 DEF P
<1> QED BY <1>4 DEF Max

-----------------------------------------------------------------------------
(***************************************************************************)
(* The file.                                                               *)
(***************************************************************************)
\* The code byteTable holds for a symbol.
CodeIndex(s) == Max({i \in DOMAIN codes : codes[i].symbol = s})

\* The codes of the data, one behind the other, and where the kth ends.
Parts == [i \in DOMAIN data |-> ByteTable(data[i])]
Start(k) == EndOfPart(Parts, k)

\* The code of every sample is one of the codes.
LEMMA CodeOfSample ==
  ASSUME data \in Seq(Value), NEW N, CodeTable(data, codes, N), NEW k \in 1..Len(data)
  PROVE  /\ CodeIndex(data[k]) \in 1..Len(codes)
         /\ codes[CodeIndex(data[k])].symbol = data[k]
         /\ ByteTable(data[k]) = Digits(N[CodeIndex(data[k])], LengthsOf(codes)[CodeIndex(data[k])])
         /\ Len(ByteTable(data[k])) = LengthsOf(codes)[CodeIndex(data[k])]
         /\ ByteTable(data[k]) \in Seq({0, 1})
         /\ Len(ByteTable(data[k])) \in Nat \ {0}
<1> DEFINE s == data[k]
           mine == {i \in DOMAIN codes : codes[i].symbol = s}
           c == CodeIndex(s)
           L == LengthsOf(codes)
           n == Len(codes)
<1>1. /\ n \in Nat \ {0} /\ DOMAIN codes = 1..n
      /\ \A i \in 1..n : Len(codes[i].bits) = L[i]
  BY EndsOfCodes
<1>2. /\ codes \in Seq([symbol : Value, bits : Seq({0, 1})])
      /\ \A i \in DOMAIN codes : codes[i].bits = Digits(N[i], L[i])
      /\ \A i \in DOMAIN data : \E j \in DOMAIN codes : codes[j].symbol = data[i]
      /\ Len(L) = n /\ Lengths(L, L[n])
  BY DEF CodeTable
<1>3. k \in DOMAIN data
  BY LenProperties
<1>4. mine # {}
  BY <1>2, <1>3
<1>5. mine \subseteq 1..n
  <2>1. mine \subseteq DOMAIN codes
    OBVIOUS
  <2> QED BY <2>1, <1>1
<1>6. c \in mine
  <2>1. c = Max(mine)
    BY DEF CodeIndex
  <2> HIDE DEF mine, n, c
  <2>2. Max(mine) \in mine
    BY <1>1, <1>4, <1>5, LastPosition
  <2> QED BY <2>1, <2>2
<1>7. ByteTable(s) = codes[c].bits
  <2>1. ByteTable(s) = IF mine = {} THEN <<>> ELSE codes[Max(mine)].bits
    BY DEF ByteTable
  <2>2. c = Max(mine)
    BY DEF CodeIndex
  <2> HIDE DEF mine, c
  <2> QED BY <2>1, <2>2, <1>4
<1>8. c \in 1..n /\ codes[c].symbol = s
  <2>1. c \in DOMAIN codes /\ codes[c].symbol = s
    BY <1>6
  <2> QED BY <2>1, <1>1
<1> HIDE DEF c, mine, L, n
<1>9. ByteTable(s) = Digits(N[c], L[c]) /\ Len(ByteTable(s)) = L[c]
  BY <1>1, <1>2, <1>7, <1>8
<1>10. codes[c].bits \in Seq({0, 1})
  <2>1. codes[c] \in [symbol : Value, bits : Seq({0, 1})]
    BY <1>2, <1>8, ElementOfSeq DEF n
  <2> QED BY <2>1
<1>11. L[c] \in Nat \ {0}
  <2>1. \A i \in 1..Len(L) : L[i] \in 1..L[n]
    BY <1>2 DEF Lengths
  <2>2. L[n] \in Nat
    BY <1>2 DEF Lengths
  <2>3. L[c] \in 1..L[n]
    BY <2>1, <1>2, <1>8
  <2> QED BY <2>2, <2>3
<1> QED BY <1>7, <1>8, <1>9, <1>10, <1>11 DEF c, L, n

\* The body is the codes of the samples, none of which is empty.
LEMMA BodyFacts ==
  ASSUME data \in Seq(Value), data # <<>>, NEW N, CodeTable(data, codes, N)
  PROVE  /\ Len(data) \in Nat \ {0}
         /\ Body \in Seq({0, 1}) /\ Len(Body) \in Nat \ {0} /\ Len(Body) = Start(Len(data))
         /\ Start(0) = 0
         /\ \A k \in 0..Len(data) : Start(k) \in Nat
         /\ \A k \in 1..Len(data) : Start(k) = Start(k - 1) + Len(ByteTable(data[k]))
         /\ \A k \in 1..Len(data) : \A j \in 1..Len(ByteTable(data[k])) :
              Body[Start(k - 1) + j] = ByteTable(data[k])[j]
         /\ \A k, m \in 0..Len(data) : k <= m => Start(k) <= Start(m)
<1> DEFINE n == Len(data)
           p == Parts
<1>1. n \in Nat \ {0} /\ DOMAIN data = 1..n
  BY EmptySeq, LenProperties
<1>2. \A k \in 1..n : /\ ByteTable(data[k]) \in Seq({0, 1})
                      /\ Len(ByteTable(data[k])) \in Nat \ {0}
  BY CodeOfSample
<1>3. p = [k \in 1..n |-> ByteTable(data[k])]
  BY <1>1 DEF Parts
<1>4. Body = FlattenSeq(p)
  BY DEF Body, Parts
<1> HIDE DEF n, p
<1>5. \A k \in 1..n : p[k] = ByteTable(data[k])
  BY <1>3
<1>6. p \in Seq(Seq({0, 1})) /\ p # <<>> /\ Len(p) = n
  <2>1. p \in [1..n -> Seq({0, 1})]
    BY <1>2, <1>3
  <2>2. p \in Seq(Seq({0, 1}))
    BY <2>1, <1>1
  <2>3. Len(p) = n
    BY <2>1, <2>2, <1>1, LenProperties
  <2> QED BY <2>2, <2>3, <1>1, EmptySeq
<1>7. /\ FlattenSeq(p) \in Seq({0, 1})
      /\ EndOfPart(p, 0) = 0
      /\ \A k \in 0..n : EndOfPart(p, k) \in Nat
      /\ \A k \in 1..n : EndOfPart(p, k) = EndOfPart(p, k - 1) + Len(p[k])
      /\ Len(FlattenSeq(p)) = EndOfPart(p, n)
      /\ \A k \in 1..n : \A j \in 1..Len(p[k]) :
           FlattenSeq(p)[EndOfPart(p, k - 1) + j] = p[k][j]
  <2> DEFINE X == {0, 1}
  <2>1. p \in Seq(Seq(X)) /\ p # <<>>
    BY <1>6
  <2> HIDE DEF X
  <2>2. IsConcatenation(FlattenSeq(p), X, p)
    BY <2>1, Flattened
  <2> QED BY <2>2, <1>6 DEF X, IsConcatenation
<1>8. /\ Start(0) = 0
      /\ \A k \in 0..n : Start(k) \in Nat
      /\ \A k \in 1..n : Start(k) = Start(k - 1) + Len(ByteTable(data[k]))
      /\ Len(Body) = Start(n)
  BY <1>4, <1>5, <1>7 DEF Start, p
<1>9. \A k \in 1..n : \A j \in 1..Len(ByteTable(data[k])) :
        Body[Start(k - 1) + j] = ByteTable(data[k])[j]
  BY <1>4, <1>5, <1>7 DEF Start, p
<1>10. \A k, m \in 0..n : k <= m => Start(k) <= Start(m)
  <2> DEFINE S == {i \in Nat : i <= n => \A k \in 0..i : Start(k) <= Start(i)}
  <2>1. 0 \in S
    <3>1. \A k \in 0..0 : k = 0
      OBVIOUS
    <3> QED BY <3>1, <1>8
  <2>2. ASSUME NEW i \in Nat, i \in S PROVE i + 1 \in S
    <3> SUFFICES ASSUME i + 1 <= n, NEW k \in 0..(i + 1) PROVE Start(k) <= Start(i + 1)
      OBVIOUS
    <3> DEFINE m == i + 1
    <3>1. m \in 1..n /\ m \in 0..n /\ i \in 0..n /\ k \in 0..n /\ m - 1 = i
      BY <1>1
    <3> HIDE DEF m
    <3>2. Start(m) = Start(i) + Len(ByteTable(data[m])) /\ Len(ByteTable(data[m])) \in Nat
          /\ Start(i) \in Nat /\ Start(m) \in Nat /\ Start(k) \in Nat
      BY <3>1, <1>2, <1>8
    <3>3. CASE k = m
      BY <3>2, <3>3 DEF m
    <3>4. CASE k # m
      <4>1. k \in 0..i
        BY <3>4 DEF m
      <4>2. Start(k) <= Start(i)
        BY <4>1, <2>2, <3>1
      <4> QED BY <4>2, <3>2 DEF m
    <3> QED BY <3>3, <3>4
  <2> HIDE DEF S
  <2>3. \A i \in Nat : i \in S
    BY <2>1, <2>2, Induction
  <2> SUFFICES ASSUME NEW k \in 0..n, NEW m \in 0..n, k <= m PROVE Start(k) <= Start(m)
    OBVIOUS
  <2>4. m \in Nat /\ m <= n /\ k \in 0..m
    BY <1>1
  <2>5. m \in S
    BY <2>3, <2>4
  <2> QED BY <2>4, <2>5 DEF S
<1>11. Len(Body) \in Nat \ {0}
  <2>1. 1 \in 1..n /\ 1 \in 0..n /\ n \in 0..n /\ 1 <= n /\ 1 - 1 = 0
    BY <1>1
  <2>2. Start(1) = Start(1 - 1) + Len(ByteTable(data[1]))
    BY <2>1, <1>8
  <2>3. Start(1) = Len(ByteTable(data[1])) /\ Len(ByteTable(data[1])) \in Nat \ {0}
    BY <2>1, <2>2, <1>2, <1>8
  <2>4. Start(1) <= Start(n) /\ Start(n) \in Nat
    BY <2>1, <1>8, <1>10
  <2> QED BY <2>3, <2>4, <1>8
<1> QED BY <1>1, <1>4, <1>7, <1>8, <1>9, <1>10, <1>11 DEF n

\* Cells of V bits: those B bits fill, and the bits of the last one that are not used.
CellsOf(B, V) == (B + V - 1) \div V
UnusedOf(B, V) == (V - (B % V)) % V

\* What is divided is the quotient times the divisor, and the remainder.
LEMMA DivMod ==
  ASSUME NEW a \in Nat, NEW q \in Nat, q > 0
  PROVE  /\ a \div q \in Nat /\ a % q \in Nat /\ a % q < q
         /\ a = (a \div q) * q + (a % q)
<1>1. a \div q \in Nat /\ a % q \in 0..(q - 1)
  OBVIOUS
<1>2. a = (a \div q) * q + (a % q)
  <2>1. a = q * (a \div q) + (a % q)
    OBVIOUS
  <2> DEFINE d == a \div q
             r == a % q
  <2>2. a = q * d + r /\ d \in Nat
    BY <2>1, <1>1
  <2> HIDE DEF d, r
  <2>3. q * d = d * q
    BY <2>2
  <2> QED BY <2>2, <2>3 DEF d, r
<1> QED BY <1>1, <1>2

\* The quotient is the one number that leaves a remainder.
LEMMA QuotientIs ==
  ASSUME NEW a \in Nat, NEW q \in Nat, NEW e \in Nat, NEW r \in Nat, r < q, a = e * q + r
  PROVE  a \div q = e /\ a % q = r
<1> DEFINE d == a \div q
           s == a % q
           y == d * q
           z == e * q
<1>1. d \in Nat /\ s \in Nat /\ s < q /\ a = y + s /\ q > 0 /\ a = z + r
  BY DivMod
<1>2. y \in Nat /\ z \in Nat
  <2> HIDE DEF d
  <2> QED BY <1>1
<1>3. \A j, k \in Nat : j < k => \E x \in Nat : k * q = j * q + x + q
  <2> SUFFICES ASSUME NEW j \in Nat, NEW k \in Nat, j < k
               PROVE  \E x \in Nat : k * q = j * q + x + q
    OBVIOUS
  <2> DEFINE m == k - j - 1
             x == m * q
  <2>1. m \in Nat /\ k = j + m + 1
    OBVIOUS
  <2> HIDE DEF m
  <2>2. x \in Nat
    BY <2>1
  <2>3. (j + m + 1) * q = j * q + x + q
    BY <2>1
  <2> QED BY <2>1, <2>2, <2>3
<1>4. d = e
  <2>1. ASSUME d < e PROVE FALSE
    <3>1. PICK x \in Nat : z = y + x + q
      BY <1>1, <1>3, <2>1
    <3> HIDE DEF d, s, y, z
    <3> QED BY <1>1, <1>2, <3>1
  <2>2. ASSUME e < d PROVE FALSE
    <3>1. PICK x \in Nat : y = z + x + q
      BY <1>1, <1>3, <2>2
    <3> HIDE DEF d, s, y, z
    <3> QED BY <1>1, <1>2, <3>1
  <2> HIDE DEF d
  <2> QED BY <1>1, <2>1, <2>2
<1>5. s = r
  <2>1. y = z
    BY <1>4
  <2> HIDE DEF d, s, y, z
  <2> QED BY <1>1, <1>2, <2>1
<1> QED BY <1>4, <1>5

\* The cells the bits fill, less the bits not used, are the bits; a part of the
\* cells has no more than a part of them.
LEMMA CellsFit ==
  ASSUME NEW V \in Nat, V > 0, NEW B \in Nat, B > 0
  PROVE  /\ CellsOf(B, V) \in Nat \ {0}
         /\ UnusedOf(B, V) \in 0..(V - 1)
         /\ CellsOf(B, V) * V - UnusedOf(B, V) = B
         /\ \A k \in 1..CellsOf(B, V) : /\ k * V - UnusedOf(B, V) \in Nat \ {0}
                                        /\ k * V - UnusedOf(B, V) <= B
         /\ \A i \in 1..B : ((i - 1) \div V) + 1 \in 1..CellsOf(B, V)
<1> DEFINE q == B \div V
           r == B % V
           z == q * V
           C == CellsOf(B, V)
           u == UnusedOf(B, V)
<1>1. q \in Nat /\ r \in Nat /\ r < V /\ B = z + r
  BY DivMod
<1>2. z \in Nat
  <2> HIDE DEF q
  <2> QED BY <1>1
<1>3. ASSUME r = 0 PROVE C = q /\ u = 0 /\ C * V = B /\ C # 0
  <2>1. C = q
    <3> DEFINE a == B + V - 1
               e == V - 1
    <3>1. a \in Nat /\ e \in Nat /\ e < V
      OBVIOUS
    <3>2. a = z + e
      <4> HIDE DEF z, r
      <4> QED BY <1>1, <1>2, <1>3
    <3> HIDE DEF a, e, q
    <3>3. a \div V = q
      BY <1>1, <3>1, <3>2, QuotientIs
    <3> QED BY <3>3 DEF a, CellsOf
  <2>2. u = 0
    <3>1. u = (V - r) % V
      BY DEF UnusedOf
    <3> HIDE DEF r, u
    <3>2. V - r = V /\ V % V = 0
      BY <1>3
    <3> QED BY <3>1, <3>2
  <2>3. C * V = B /\ C # 0
    <3>1. C * V = z
      BY <2>1
    <3>2. q # 0
      <4>1. q = 0 => z = 0
        <5> HIDE DEF q
        <5> QED OBVIOUS
      <4> HIDE DEF q, z
      <4> QED BY <4>1, <1>1, <1>3
    <3> HIDE DEF C, r, z, q
    <3> QED BY <3>1, <3>2, <2>1, <1>1, <1>2, <1>3
  <2> QED BY <2>1, <2>2, <2>3
<1>4. ASSUME r # 0 PROVE C = q + 1 /\ u = V - r /\ C * V = z + V
  <2>1. C = q + 1
    <3> DEFINE a == B + V - 1
               e == r - 1
               x == (q + 1) * V
    <3>1. a \in Nat /\ e \in Nat /\ e < V
      <4> HIDE DEF r
      <4> QED BY <1>1, <1>4
    <3>2. x = z + V
      <4> HIDE DEF q
      <4> QED BY <1>1
    <3>3. a = x + e
      <4> HIDE DEF z, r, x
      <4> QED BY <1>1, <1>2, <3>2
    <3> HIDE DEF a, e
    <3>4. a \div V = q + 1
      <4> DEFINE f == q + 1
      <4>1. f \in Nat /\ a = f * V + e
        BY <1>1, <3>3
      <4> HIDE DEF f
      <4>2. a \div V = f
        BY <3>1, <4>1, QuotientIs
      <4> QED BY <4>2 DEF f
    <3> QED BY <3>4 DEF a, CellsOf
  <2>2. u = V - r
    <3>1. u = (V - r) % V
      BY DEF UnusedOf
    <3> HIDE DEF r, u
    <3>2. V - r \in Nat /\ V - r < V
      BY <1>1, <1>4
    <3> DEFINE e == V - r
    <3> HIDE DEF e
    <3>3. e % V = e
      BY <3>2 DEF e
    <3> QED BY <3>1, <3>3 DEF e
  <2>3. C * V = z + V
    <3> HIDE DEF C, q
    <3>1. C * V = (q + 1) * V
      BY <2>1
    <3> QED BY <3>1, <1>1 DEF z
  <2> QED BY <2>1, <2>2, <2>3
<1>5. C \in Nat \ {0} /\ u \in 0..(V - 1) /\ C * V - u = B
  <2>1. CASE r = 0
    <3>1. /\ C = q /\ u = 0 /\ C * V = B /\ C # 0
      BY <1>3, <2>1
    <3> HIDE DEF C, u, q
    <3> QED BY <3>1, <1>1
  <2>2. CASE r # 0
    <3>1. /\ C = q + 1 /\ u = V - r /\ C * V = z + V
      BY <1>4, <2>2
    <3> HIDE DEF C, u, q, r, z
    <3> QED BY <3>1, <1>1, <1>2, <2>2
  <2> QED BY <2>1, <2>2
<1> HIDE DEF q, r, z, C, u
<1>6. ASSUME NEW k \in 1..C PROVE k * V - u \in Nat \ {0} /\ k * V - u <= B
  <2> DEFINE a == k - 1
             b == C - k
             x == a * V
             y == b * V
             w == k * V
             c == C * V
  <2>1. a \in Nat /\ b \in Nat /\ k = a + 1 /\ C = k + b
    BY <1>5
  <2> HIDE DEF a, b
  <2>2. x \in Nat /\ y \in Nat /\ w = x + V /\ c = w + y
    <3>1. x \in Nat /\ y \in Nat
      BY <2>1
    <3>2. (a + 1) * V = x + V /\ (k + b) * V = w + y
      BY <2>1
    <3> QED BY <3>1, <3>2, <2>1
  <2>3. c - u = B
    BY <1>5
  <2> HIDE DEF x, y, w, c
  <2>4. w - u \in Nat \ {0} /\ w - u <= B
    BY <2>2, <2>3, <1>5
  <2> QED BY <2>4 DEF w
<1>7. ASSUME NEW i \in 1..B PROVE ((i - 1) \div V) + 1 \in 1..C
  <2> DEFINE j == i - 1
             e == j \div V
             s == j % V
             x == e * V
             c == C * V
  <2>1. j \in Nat /\ j < B
    OBVIOUS
  <2> HIDE DEF j
  <2>2. e \in Nat /\ s \in Nat /\ j = x + s
    BY <2>1, DivMod
  <2>3. c - u = B /\ x \in Nat
    <3> HIDE DEF e
    <3> QED BY <1>5, <2>2
  <2>4. x < c
    <3> HIDE DEF x, c, e, s
    <3>1. c = B + u
      <4>1. c \in Int
        <5>1. C \in Int
          BY <1>5
        <5> QED BY <5>1 DEF c
      <4> QED BY <2>3, <1>5, <4>1
    <3> QED BY <2>1, <2>2, <2>3, <1>5, <3>1
  <2> HIDE DEF e, s
  <2>5. e < C
    BY <2>2, <2>4, <1>5, Cancel
  <2>6. e + 1 \in 1..C
    BY <2>2, <2>5, <1>5
  <2> QED BY <2>6 DEF e, j
<1> QED BY <1>5, <1>6, <1>7 DEF C, u

\* The bytes of a sequence of bits hold these bits.
LEMMA BytesFacts ==
  ASSUME NEW b, b \in Seq({0, 1}), Len(b) > 0
  PROVE  /\ Bytes(b) \in Seq(Nat)
         /\ Len(Bytes(b)) = CellsOf(Len(b), ValueBits)
         /\ \A i \in 1..Len(b) :
              Digits(Bytes(b)[1 + ((i - 1) \div ValueBits)], ValueBits)
                    [1 + ((i - 1) % ValueBits)] = b[i]
<1> DEFINE V == ValueBits
           B == Len(b)
           C == CellsOf(B, V)
           BitOf(k) == IF k <= B THEN b[k] ELSE 0
           row(i) == [j \in 1..V |-> BitOf((i - 1) * V + j)]
           sum(i) == SumFunction([j \in 1..V |-> row(i)[j] * 2 ^ (V - j)])
<1>1. V \in Nat /\ V > 0 /\ B \in Nat /\ \A k \in 1..B : b[k] \in {0, 1}
  BY WidthAssumption, LenProperties, ElementOfSeq
<1>2. C \in Nat \ {0} /\ \A i \in 1..B : ((i - 1) \div V) + 1 \in 1..C
  BY <1>1, CellsFit
<1>3. ASSUME NEW i \in 1..C, NEW j \in 1..V
      PROVE  (i - 1) * V + j \in Nat \ {0} /\ row(i)[j] = BitOf((i - 1) * V + j)
             /\ row(i)[j] \in {0, 1}
  <2> DEFINE k == (i - 1) * V + j
  <2>1. k \in Nat \ {0}
    <3> DEFINE a == i - 1
               x == a * V
    <3>1. a \in Nat
      BY <1>2
    <3> HIDE DEF a
    <3>2. x \in Nat
      BY <3>1, <1>1
    <3> HIDE DEF x
    <3>3. x + j \in Nat \ {0}
      BY <3>2, <1>1
    <3> QED BY <3>3 DEF x, a
  <2>2. row(i)[j] = BitOf(k)
    OBVIOUS
  <2> HIDE DEF k, row
  <2>3. BitOf(k) \in {0, 1}
    BY <1>1, <2>1
  <2> QED BY <2>1, <2>2, <2>3 DEF k
<1>4. Bytes(b) = [i \in 1..C |-> sum(i)]
  <2>1. Bytes(b) = [i \in 1..C |-> SumFunction([j \in 1..V |->
                                      BitOf((i - 1) * V + j) * 2 ^ (V - j)])]
    BY DEF Bytes, CellsOf
  <2>2. ASSUME NEW i \in 1..C
        PROVE  SumFunction([j \in 1..V |-> BitOf((i - 1) * V + j) * 2 ^ (V - j)]) = sum(i)
    <3>1. \A j \in 1..V : row(i)[j] = BitOf((i - 1) * V + j)
      BY <1>3
    <3> HIDE DEF row, BitOf
    <3>2. [j \in 1..V |-> BitOf((i - 1) * V + j) * 2 ^ (V - j)]
            = [j \in 1..V |-> row(i)[j] * 2 ^ (V - j)]
      BY <3>1
    <3> QED BY <3>2
  <2> HIDE DEF sum, BitOf
  <2> QED BY <2>1, <2>2
<1>5. ASSUME NEW i \in 1..C
      PROVE  sum(i) \in Nat /\ \A j \in 1..V : Digits(sum(i), V)[j] = row(i)[j]
  <2> DEFINE c == row(i)
  <2>1. \A j \in 1..V : c[j] \in {0, 1}
    BY <1>3
  <2> HIDE DEF c
  <2>2. /\ SumFunction([j \in 1..V |-> c[j] * 2 ^ (V - j)]) \in Nat
        /\ \A j \in 1..V :
             Digits(SumFunction([j2 \in 1..V |-> c[j2] * 2 ^ (V - j2)]), V)[j] = c[j]
    BY <2>1, <1>1, SumOfBits
  <2> QED BY <2>2 DEF c
<1> HIDE DEF sum, row
<1>6. \A i \in 1..C : Bytes(b)[i] = sum(i) /\ sum(i) \in Nat
  BY <1>4, <1>5
<1>7. Bytes(b) \in Seq(Nat) /\ Len(Bytes(b)) = C
  <2> HIDE DEF C
  <2>1. Bytes(b) \in [1..C -> Nat]
    BY <1>4, <1>6
  <2>2. Bytes(b) \in Seq(Nat)
    BY <2>1, <1>2
  <2> QED BY <2>1, <2>2, <1>2, LenProperties
<1>8. ASSUME NEW i \in 1..B
      PROVE  Digits(Bytes(b)[1 + ((i - 1) \div V)], V)[1 + ((i - 1) % V)] = b[i]
  <2> DEFINE a == i - 1
             q == a \div V
             r == a % V
             c == 1 + q
             j == 1 + r
  <2>1. a \in Nat
    BY <1>1
  <2>2. q \in Nat /\ r \in Nat /\ r < V /\ a = q * V + r
    <3> HIDE DEF a
    <3> QED BY <2>1, <1>1, DivMod
  <2>3. c \in 1..C
    <3>1. q + 1 \in 1..C
      BY <1>2
    <3> HIDE DEF q
    <3> QED BY <3>1, <2>2
  <2>4. j \in 1..V
    <3> HIDE DEF r
    <3> QED BY <2>2, <1>1
  <2>5. (c - 1) * V + j = i
    <3>1. c - 1 = q
      <4> HIDE DEF q
      <4> QED BY <2>2
    <3> DEFINE x == q * V
    <3>2. x \in Int
      <4> HIDE DEF q
      <4> QED BY <2>2, <1>1
    <3>3. (c - 1) * V = x
      BY <3>1
    <3>4. a = x + r /\ a = i - 1 /\ j = 1 + r
      BY <2>2
    <3> HIDE DEF x, a, j, r
    <3> QED BY <3>2, <3>3, <3>4, <2>2
  <2> HIDE DEF c, j
  <2>6. Digits(Bytes(b)[c], V)[j] = row(c)[j]
    BY <2>3, <2>4, <1>5, <1>6
  <2>7. row(c)[j] = BitOf((c - 1) * V + j)
    BY <2>3, <2>4, <1>3
  <2>8. BitOf(i) = b[i]
    BY <1>1
  <2>9. Digits(Bytes(b)[c], V)[j] = b[i]
    <3> HIDE DEF BitOf
    <3> QED BY <2>5, <2>6, <2>7, <2>8
  <2> QED BY <2>9 DEF c, j
<1> QED BY <1>7, <1>8

\* w is four sequences, one behind the other.
IsFourParts(w, X, a, b, c, e) ==
  /\ w \in Seq(X)
  /\ Len(w) = Len(a) + Len(b) + Len(c) + Len(e)
  /\ \A i \in 1..Len(a) : w[i] = a[i]
  /\ \A i \in 1..Len(b) : w[Len(a) + i] = b[i]
  /\ \A i \in 1..Len(c) : w[Len(a) + Len(b) + i] = c[i]
  /\ \A i \in 1..Len(e) : w[Len(a) + Len(b) + Len(c) + i] = e[i]

\* Where the parts of a concatenation of four are.
LEMMA FourParts ==
  ASSUME NEW X, NEW a, NEW b, NEW c, NEW e,
         a \in Seq(X), b \in Seq(X), c \in Seq(X), e \in Seq(X)
  PROVE  IsFourParts(a \o b \o c \o e, X, a, b, c, e)
<1> DEFINE Joined(u, s, t) ==
             /\ u \in Seq(X) /\ Len(u) = Len(s) + Len(t)
             /\ Len(s) \in Nat /\ Len(t) \in Nat
             /\ \A i \in 1..Len(s) : u[i] = s[i]
             /\ \A i \in 1..Len(t) : u[Len(s) + i] = t[i]
<1>1. ASSUME NEW s, NEW t, s \in Seq(X), t \in Seq(X)
      PROVE  Joined(s \o t, s, t)
  BY <1>1
<1> DEFINE ab == a \o b
           abc == ab \o c
           all == abc \o e
<1>2. Joined(ab, a, b)
  BY <1>1
<1> HIDE DEF ab
<1>3. Joined(abc, ab, c)
  <2>1. ab \in Seq(X)
    BY <1>2
  <2> HIDE DEF Joined
  <2> QED BY <1>1, <2>1
<1> HIDE DEF abc
<1>4. Joined(all, abc, e)
  <2>1. abc \in Seq(X)
    BY <1>3
  <2> HIDE DEF Joined
  <2> QED BY <1>1, <2>1
<1> HIDE DEF all
<1>5. \A i \in 1..Len(a) : all[i] = a[i]
  BY <1>2, <1>3, <1>4
<1>6. \A i \in 1..Len(b) : all[Len(a) + i] = b[i]
  <2> SUFFICES ASSUME NEW i \in 1..Len(b) PROVE all[Len(a) + i] = b[i]
    OBVIOUS
  <2>1. Len(a) + i \in 1..Len(ab) /\ Len(a) + i \in 1..Len(abc)
    BY <1>2, <1>3
  <2> QED BY <2>1, <1>2, <1>3, <1>4
<1>7. \A i \in 1..Len(c) : all[Len(a) + Len(b) + i] = c[i]
  <2> SUFFICES ASSUME NEW i \in 1..Len(c) PROVE all[Len(a) + Len(b) + i] = c[i]
    OBVIOUS
  <2>1. Len(ab) + i \in 1..Len(abc) /\ Len(ab) + i = Len(a) + Len(b) + i
    BY <1>2, <1>3
  <2> QED BY <2>1, <1>3, <1>4
<1>8. \A i \in 1..Len(e) : all[Len(a) + Len(b) + Len(c) + i] = e[i]
  <2> SUFFICES ASSUME NEW i \in 1..Len(e) PROVE all[Len(a) + Len(b) + Len(c) + i] = e[i]
    OBVIOUS
  <2>1. Len(abc) + i = Len(a) + Len(b) + Len(c) + i
    BY <1>2, <1>3
  <2> QED BY <2>1, <1>4
<1>9. Len(all) = Len(a) + Len(b) + Len(c) + Len(e)
  BY <1>2, <1>3, <1>4
<1> QED BY <1>4, <1>5, <1>6, <1>7, <1>8, <1>9 DEF all, abc, ab, IsFourParts

\* The second byte of the header: a whole cell of padding is narrowed to none, and
\* the shortest length fits into what is left of the byte.
LEMMA PaddingByte ==
  ASSUME NEW u \in 1..ValueBits, NEW m \in 0..(ValueBits - 1),
         NEW x, x = m + ((u * 2 ^ PaddingShift) % ValueCount)
  PROVE  /\ x \in Nat
         /\ x \div 2 ^ PaddingShift = u % ValueBits
         /\ x % 2 ^ PaddingShift = m
<1> DEFINE V == ValueBits
           P == 2 ^ PaddingShift
           W == ValueCount
           c == u % V
           y == c * P
           z == u * P
<1>1. V \in Nat /\ V > 0 /\ V <= P /\ P \in Nat /\ P > 0
  BY WidthAssumption, PowersOfTwo
<1>2. W = V * P /\ W \in Nat
  <2> DEFINE a == PaddingShift
             b == ValueBits - PaddingShift
  <2>1. a \in Nat /\ b \in Nat /\ V = a + b
    BY WidthAssumption
  <2> HIDE DEF a, b
  <2>2. 2 ^ (b + a) = 2 ^ b * 2 ^ a
    BY <2>1, PowerOfSum
  <2>3. b + a = V
    BY <2>1
  <2>4. W = 2 ^ b * 2 ^ a
    BY <2>2, <2>3 DEF ValueCount
  <2>5. 2 ^ b = V
    BY WidthAssumption DEF b
  <2> QED BY <2>4, <2>5, ValueFacts DEF a
<1> HIDE DEF P, W
<1>3. c \in Nat /\ c < V
  BY <1>1
<1>4. z % W = y
  <2>1. CASE u < V
    <3>1. c = u
      BY <2>1, <1>1
    <3>2. z \in Nat /\ z < W
      <4> DEFINE d == V - u - 1
                 e == d * P
                 v == V * P
      <4>1. d \in Nat /\ V = u + d + 1
        BY <2>1, <1>1
      <4> HIDE DEF d
      <4>2. z \in Nat /\ e \in Nat /\ (u + d + 1) * P = z + e + P
        BY <4>1, <1>1
      <4>3. v = z + e + P
        BY <4>1, <4>2
      <4> HIDE DEF z, e, v
      <4>4. z < v
        BY <4>2, <4>3, <1>1
      <4> QED BY <4>2, <4>4, <1>2 DEF v
    <3>3. z % W = z
      <4> HIDE DEF z
      <4> QED BY <3>2, <1>2
    <3> QED BY <3>1, <3>3
  <2>2. CASE u = V
    <3>1. c = 0
      BY <2>2, <1>1
    <3>2. z = W
      BY <2>2, <1>2
    <3>3. W > 0
      BY ValueFacts DEF W
    <3>4. W % W = 0
      BY <3>3, <1>2
    <3>5. y = 0
      <4> HIDE DEF c
      <4> QED BY <3>1, <1>1
    <3> HIDE DEF z, y
    <3> QED BY <3>2, <3>4, <3>5
  <2> QED BY <2>1, <2>2, <1>1
<1>5. x = y + m /\ y \in Nat
  <2>1. x = m + (z % W)
    BY DEF P, W
  <2>2. y \in Nat
    <3> HIDE DEF c
    <3> QED BY <1>1, <1>3
  <2> HIDE DEF z, y
  <2> QED BY <2>1, <2>2, <1>1, <1>4
<1>6. m \in Nat /\ m < P
  BY <1>1
<1>7. x \in Nat
  <2> HIDE DEF y
  <2> QED BY <1>5, <1>6
<1> HIDE DEF c
<1>8. x \div P = c /\ x % P = m
  BY <1>1, <1>3, <1>5, <1>6, <1>7, QuotientIs
<1> QED BY <1>7, <1>8 DEF P, c

\* What WriteFile writes: the header and, behind it, the bytes of the body.
Written ==
  <<MaxCodeLength + 1,
    MinCodeLength - 1 + ((UnusedBitsInCell(Body) * 2 ^ PaddingShift) % ValueCount)>>
  \o [i \in 1..(MaxCodeLength - MinCodeLength + 1) |->
        CodesOfLength(MinCodeLength + i - 1) % ValueCount]
  \o [i \in DOMAIN codes |-> codes[i].symbol]
  \o Bytes(Body)

HeaderSize == MaxCodeLength - MinCodeLength + 3 + Len(codes)
BodySize == CellsOf(Len(Body), ValueBits)

\* The file, some of whose end may be lost.
FileOK ==
  \E k \in 1..Len(Written) : /\ file = SubSeq(Written, 1, k)
                             /\ ~lost => k = Len(Written)

\* The fields of the header.
LEMMA WrittenFields ==
  ASSUME data \in Seq(Value), data # <<>>, NEW N, CodeTable(data, codes, N)
  PROVE  /\ Written \in Seq(Nat)
         /\ MinCodeLength \in 1..ValueBits /\ MaxCodeLength \in Nat
         /\ MinCodeLength <= MaxCodeLength /\ MinCodeLength <= Len(codes)
         /\ Len(Written) = HeaderSize + BodySize
         /\ Written[1] = MaxCodeLength + 1
         /\ Written[2] \in Nat
         /\ Written[2] \div 2 ^ PaddingShift = UnusedOf(Len(Body), ValueBits)
         /\ Written[2] % 2 ^ PaddingShift = MinCodeLength - 1
         /\ \A i \in 1..(MaxCodeLength - MinCodeLength + 1) :
              Written[2 + i] = CodesOfLength(MinCodeLength + i - 1) % ValueCount
         /\ \A i \in 1..Len(codes) :
              Written[MaxCodeLength - MinCodeLength + 3 + i] = codes[i].symbol
         /\ \A i \in 1..BodySize : Written[HeaderSize + i] = Bytes(Body)[i]
<1> DEFINE D == MaxCodeLength
           m == MinCodeLength
           n == Len(codes)
           L == LengthsOf(codes)
           u == UnusedBitsInCell(Body)
           y == m - 1 + ((u * 2 ^ PaddingShift) % ValueCount)
           a == <<D + 1, y>>
           b == [i \in 1..(D - m + 1) |-> CodesOfLength(m + i - 1) % ValueCount]
           c == [i \in DOMAIN codes |-> codes[i].symbol]
           e == Bytes(Body)
<1>1. /\ n \in Nat \ {0} /\ DOMAIN codes = 1..n
      /\ \A i \in 1..n : Len(codes[i].bits) = L[i]
      /\ D = L[n] /\ m = L[1]
  BY EndsOfCodes
<1>2. /\ codes \in Seq([symbol : Value, bits : Seq({0, 1})])
      /\ n \in 1..ValueCount /\ Len(L) = n /\ Lengths(L, D)
  BY <1>1 DEF CodeTable
<1>3. Body \in Seq({0, 1}) /\ Len(Body) \in Nat \ {0}
  BY BodyFacts
<1> HIDE DEF n, L, m, D
<1>4. D \in Nat /\ m \in 1..D /\ \A i \in 1..n : L[i] \in 1..D
  <2>1. D \in Nat /\ \A i \in 1..Len(L) : L[i] \in 1..D
    BY <1>2 DEF Lengths
  <2>2. 1 \in 1..n
    BY <1>1
  <2> QED BY <2>1, <2>2, <1>1, <1>2
<1>5. m \in 1..ValueBits /\ m <= n
  <2>1. ValueBits \in Nat /\ Len(L) <= 2 ^ ValueBits
    BY <1>2, ValueFacts DEF ValueCount
  <2>2. L[1] <= ValueBits
    BY <2>1, <1>2, ShortestLength
  <2>3. m <= n
    <3> DEFINE p == 2 ^ (D - m)
               q == 2 ^ m
               t == Taken(L, D, n)
               w == n * p
    <3>1. t <= w
      <4>1. n \in 1..Len(L)
        BY <1>1, <1>2
      <4>2. Taken(L, D, n) <= n * 2 ^ (D - L[1])
        BY <4>1, <1>2, TakenAtMost
      <4> QED BY <4>2, <1>1
    <3>2. t = q * p /\ p \in Nat /\ p > 0 /\ q \in Nat
      <4> DEFINE x == D - m
      <4>1. x \in Nat /\ m \in Nat /\ m + x = D
        BY <1>4
      <4> HIDE DEF x
      <4>2. 2 ^ (m + x) = 2 ^ m * 2 ^ x
        BY <4>1, PowerOfSum
      <4>3. Taken(L, D, n) = 2 ^ D
        BY <1>2 DEF Lengths
      <4>4. 2 ^ x \in Nat /\ 2 ^ x > 0 /\ 2 ^ m \in Nat
        BY <4>1, PowersOfTwo
      <4> QED BY <4>1, <4>2, <4>3, <4>4 DEF x
    <3> HIDE DEF p, q, t
    <3>3. q <= n
      <4>1. q * p <= n * p
        BY <3>1, <3>2
      <4> QED BY <4>1, <3>2, <1>1, Cancel
    <3>4. m <= q
      <4> DEFINE S == {k \in Nat : k <= 2 ^ k}
      <4>1. 0 \in S
        BY PowersOfTwo
      <4>2. ASSUME NEW k \in Nat, k \in S PROVE k + 1 \in S
        <5> DEFINE r == 2 ^ k
                   s == 2 ^ (k + 1)
        <5>1. r \in Nat /\ r > 0 /\ s = 2 * r /\ k <= r
          BY <4>2, PowersOfTwo
        <5> HIDE DEF r, s
        <5>2. k + 1 <= s
          BY <5>1
        <5> QED BY <5>2 DEF s
      <4> HIDE DEF S
      <4>3. \A k \in Nat : k \in S
        BY <4>1, <4>2, Induction
      <4>4. m \in S
        BY <4>3, <1>4
      <4> QED BY <4>4 DEF S, q
    <3> QED BY <3>2, <3>3, <3>4, <1>1, <1>4
  <2> QED BY <2>1, <2>2, <2>3, <1>1, <1>4
<1>6. e \in Seq(Nat) /\ Len(e) = BodySize
  <2>1. Len(Body) > 0
    BY <1>3
  <2> QED BY <2>1, <1>3, BytesFacts DEF BodySize
<1>7. /\ y \in Nat
      /\ y \div 2 ^ PaddingShift = UnusedOf(Len(Body), ValueBits)
      /\ y % 2 ^ PaddingShift = m - 1
  <2>1. u \in 1..ValueBits /\ u % ValueBits = UnusedOf(Len(Body), ValueBits)
    <3> DEFINE V == ValueBits
               B == Len(Body)
               r == B % V
    <3>1. V \in Nat /\ V > 0 /\ B \in Nat
      BY <1>3, WidthAssumption
    <3> HIDE DEF B, V
    <3>2. r \in Nat /\ r < V
      BY <3>1, DivMod
    <3>3. u = V - r
      BY DEF UnusedBitsInCell, V, B
    <3>4. UnusedOf(B, V) = (V - r) % V
      BY DEF UnusedOf
    <3> HIDE DEF r, u
    <3>5. u \in 1..V
      BY <3>1, <3>2, <3>3
    <3> QED BY <3>3, <3>4, <3>5 DEF V, B
  <2>2. m - 1 \in 0..(ValueBits - 1)
    BY <1>5, WidthAssumption
  <2> DEFINE k == m - 1
  <2>3. y = k + ((u * 2 ^ PaddingShift) % ValueCount)
    OBVIOUS
  <2>4. k \in 0..(ValueBits - 1)
    BY <2>2
  <2> HIDE DEF u, y, k
  <2>5. y \in Nat /\ y \div 2 ^ PaddingShift = u % ValueBits /\ y % 2 ^ PaddingShift = k
    BY <2>1, <2>3, <2>4, PaddingByte
  <2> QED BY <2>1, <2>5 DEF k
<1> HIDE DEF u, y
<1>8. a \in Seq(Nat) /\ Len(a) = 2 /\ a[1] = D + 1 /\ a[2] = y
  BY <1>4, <1>7
<1>9. /\ b \in Seq(Nat) /\ Len(b) = D - m + 1
      /\ \A i \in 1..(D - m + 1) : b[i] = CodesOfLength(m + i - 1) % ValueCount
  <2> DEFINE k == D - m + 1
  <2>1. k \in Nat
    BY <1>4
  <2>2. ASSUME NEW i PROVE CodesOfLength(m + i - 1) % ValueCount \in Nat
    <3> DEFINE S == {j \in DOMAIN codes : Len(codes[j].bits) = m + i - 1}
    <3>1. S \subseteq 1..n /\ IsFiniteSet(1..n)
      <4>1. S \subseteq DOMAIN codes
        OBVIOUS
      <4>2. IsFiniteSet(1..n)
        BY <1>1, FS_Interval
      <4> QED BY <4>1, <4>2, <1>1
    <3>2. Cardinality(S) \in Nat
      BY <3>1, FS_Subset, FS_CardinalityType
    <3>3. CodesOfLength(m + i - 1) = Cardinality(S)
      BY DEF CodesOfLength
    <3> HIDE DEF S
    <3> QED BY <3>2, <3>3, ValueFacts
  <2>3. b = [i \in 1..k |-> CodesOfLength(m + i - 1) % ValueCount]
    OBVIOUS
  <2> HIDE DEF k, b
  <2>4. b \in [1..k -> Nat]
    BY <2>2, <2>3
  <2>5. b \in Seq(Nat)
    BY <2>1, <2>4
  <2>6. Len(b) = k
    BY <2>1, <2>4, <2>5, LenProperties
  <2> QED BY <2>3, <2>5, <2>6 DEF k
<1>10. c \in Seq(Nat) /\ Len(c) = n /\ \A i \in 1..n : c[i] = codes[i].symbol
  <2>1. c = [i \in 1..n |-> codes[i].symbol]
    BY <1>1
  <2>2. \A i \in 1..n : codes[i] \in [symbol : Value, bits : Seq({0, 1})]
    BY <1>2, ElementOfSeq DEF n
  <2>3. Value \subseteq Nat
    BY ValueFacts
  <2>4. \A i \in 1..n : codes[i].symbol \in Nat
    BY <2>2, <2>3
  <2> HIDE DEF c
  <2>5. c \in [1..n -> Nat]
    BY <2>1, <2>4
  <2>6. c \in Seq(Nat)
    BY <2>5, <1>1
  <2>7. Len(c) = n
    BY <2>5, <2>6, <1>1, LenProperties
  <2> QED BY <2>1, <2>6, <2>7
<1>11. Written = a \o b \o c \o e
  BY DEF Written, a, b, c, e, u, y, m, D
<1> HIDE DEF a, b, c, e
<1> DEFINE w == a \o b \o c \o e
<1>12. /\ w \in Seq(Nat)
       /\ Len(w) = Len(a) + Len(b) + Len(c) + Len(e)
       /\ \A i \in 1..Len(a) : w[i] = a[i]
       /\ \A i \in 1..Len(b) : w[Len(a) + i] = b[i]
       /\ \A i \in 1..Len(c) : w[Len(a) + Len(b) + i] = c[i]
       /\ \A i \in 1..Len(e) : w[Len(a) + Len(b) + Len(c) + i] = e[i]
  <2>1. IsFourParts(w, Nat, a, b, c, e)
    BY <1>6, <1>8, <1>9, <1>10, FourParts
  <2> HIDE DEF w
  <2> QED BY <2>1 DEF IsFourParts
<1> HIDE DEF w
<1>13. /\ Len(a) = 2 /\ Len(b) = D - m + 1 /\ Len(c) = n /\ Len(e) = BodySize
       /\ Len(a) + Len(b) = D - m + 3
       /\ Len(a) + Len(b) + Len(c) = HeaderSize
  <2>1. 2 + (D - m + 1) = D - m + 3
    BY <1>4
  <2> QED BY <2>1, <1>6, <1>8, <1>9, <1>10 DEF HeaderSize, D, m, n
<1>14. /\ w[1] = D + 1 /\ w[2] = y
  BY <1>8, <1>12
<1>15. /\ \A i \in 1..(D - m + 1) : w[2 + i] = CodesOfLength(m + i - 1) % ValueCount
       /\ \A i \in 1..n : w[D - m + 3 + i] = codes[i].symbol
       /\ \A i \in 1..BodySize : w[HeaderSize + i] = Bytes(Body)[i]
       /\ Len(w) = HeaderSize + BodySize
  <2>1. \A i \in 1..(D - m + 1) : w[2 + i] = b[i]
    BY <1>12, <1>13
  <2>2. \A i \in 1..n : w[D - m + 3 + i] = c[i]
    BY <1>12, <1>13
  <2>3. \A i \in 1..BodySize : w[HeaderSize + i] = e[i]
    BY <1>12, <1>13
  <2> QED BY <2>1, <2>2, <2>3, <1>9, <1>10, <1>12, <1>13 DEF e
<1>16. Written = w
  BY <1>11 DEF w
<1>17. m <= D
  BY <1>4
<1> QED BY <1>4, <1>5, <1>7, <1>12, <1>14, <1>15, <1>16, <1>17 DEF D, m, n

\* The counts of the header add up to the number of codes.
LEMMA CountsAddUp ==
  ASSUME NEW L, NEW D, Lengths(L, D), NEW B, Counts(B, L, D), B \in [1..D -> Nat]
  PROVE  SumFunction(B) = Len(L)
<1>1. D \in Nat
  BY DEF Lengths
<1>2. /\ Total(B, 1..0) = 0
      /\ \A i \in 1..D : Total(B, 1..i) = Total(B, 1..(i - 1)) + B[i]
  BY <1>1, TotalOfFirst
<1> DEFINE S == {m \in Nat : m <= D => Total(B, 1..m) = UpTo(L, m)}
<1>3. 0 \in S
  BY <1>2, UpToEnds
<1>4. ASSUME NEW m \in Nat, m \in S PROVE m + 1 \in S
  <2> SUFFICES ASSUME m + 1 <= D PROVE Total(B, 1..(m + 1)) = UpTo(L, m + 1)
    OBVIOUS
  <2> DEFINE k == m + 1
  <2>1. k \in 1..D /\ k - 1 = m /\ k \in Nat /\ m <= D
    BY <1>1
  <2>2. Cardinality(OfLength(L, k)) = UpTo(L, k) - UpTo(L, m)
    BY CodesOfOneLength
  <2>3. UpTo(L, k) \in Nat /\ UpTo(L, m) \in Nat
    <3> HIDE DEF k
    <3>1. Len(L) \in Nat
      BY DEF Lengths
    <3> QED BY <2>1, <3>1, UpToIsFirst
  <2> HIDE DEF k
  <2>4. B[k] = Cardinality(OfLength(L, k))
    BY <2>1 DEF Counts
  <2>5. Total(B, 1..k) = Total(B, 1..m) + B[k]
    BY <2>1, <1>2
  <2>6. Total(B, 1..m) = UpTo(L, m)
    BY <1>4, <2>1
  <2>7. Total(B, 1..k) = UpTo(L, k)
    BY <2>2, <2>3, <2>4, <2>5, <2>6
  <2> QED BY <2>7 DEF k
<1> HIDE DEF S
<1>5. D \in S
  <2>1. \A m \in Nat : m \in S
    BY <1>3, <1>4, Induction
  <2> QED BY <2>1, <1>1
<1>6. Total(B, 1..D) = Len(L)
  <2>1. Total(B, 1..D) = UpTo(L, D)
    BY <1>1, <1>5 DEF S
  <2> QED BY <2>1, UpToEnds
<1>7. SumFunction(B) = Total(B, 1..D)
  <2>1. IsFiniteSet(1..D)
    BY <1>1, FS_Interval
  <2> DEFINE K == 1..D
  <2> HIDE DEF K
  <2>2. SumFunction(B) = Total(B, K)
    BY <2>1, SumCounts DEF K
  <2> QED BY <2>2 DEF K
<1> QED BY <1>6, <1>7

\* What there is of the file is what has been written.
LEMMA FileFacts ==
  ASSUME data \in Seq(Value), data # <<>>, NEW N, CodeTable(data, codes, N), FileOK
  PROVE  /\ file \in Seq(Nat)
         /\ Len(file) \in 1..(HeaderSize + BodySize)
         /\ ~lost => Len(file) = HeaderSize + BodySize
         /\ \A i \in 1..Len(file) : file[i] = Written[i]
<1> DEFINE W == Written
           n == Len(W)
<1>1. W \in Seq(Nat) /\ n = HeaderSize + BodySize
  BY WrittenFields
<1>2. PICK k \in 1..n : file = SubSeq(W, 1, k) /\ (~lost => k = n)
  BY DEF FileOK
<1> HIDE DEF W
<1>3. n \in Nat /\ \A i \in 1..n : W[i] \in Nat
  BY <1>1
<1>4. \A i \in 1..k : W[i] \in Nat
  <2> HIDE DEF n
  <2> QED BY <1>2, <1>3
<1>5. /\ file \in Seq(Nat) /\ Len(file) = k
      /\ \A i \in 1..k : file[i] = W[i]
  <2>1. k \in Int /\ 1 \in Int /\ 1 <= k
    <3> HIDE DEF n
    <3> QED BY <1>2, <1>3
  <2> DEFINE s == SubSeq(W, 1, k)
  <2>2. s \in Seq(Nat) /\ Len(s) = IF 1 <= k THEN k - 1 + 1 ELSE 0
    BY <1>4, <2>1, SubSeqProperties
  <2>3. \A i \in 1..(k - 1 + 1) : s[i] = W[1 + i - 1]
    BY <1>4, <2>1, SubSeqProperties
  <2> HIDE DEF s
  <2>4. k - 1 + 1 = k /\ \A i \in 1..k : 1 + i - 1 = i
    BY <2>1
  <2>5. \A i \in 1..k : s[i] = W[i]
    BY <2>3, <2>4
  <2>6. file = s
    BY <1>2 DEF s
  <2> QED BY <2>1, <2>2, <2>4, <2>5, <2>6
<1> HIDE DEF n
<1> QED BY <1>1, <1>2, <1>5 DEF W

\* The number of codes of a length, from a count that has lost its ninth bit.
LEMMA CountRead ==
  ASSUME NEW d, NEW N, CodeTable(d, codes, N), MinLengthInfo = MinCodeLength - 1,
         NEW l \in MinCodeLength..MaxCodeLength
  PROVE  IndexLength(CodesOfLength(l) % ValueCount) = Cardinality(OfLength(LengthsOf(codes), l))
<1> DEFINE D == MaxCodeLength
           m == MinCodeLength
           n == Len(codes)
           L == LengthsOf(codes)
           W == ValueCount
           c == Cardinality(OfLength(L, l))
<1>1. /\ n \in Nat \ {0} /\ DOMAIN codes = 1..n
      /\ \A i \in 1..n : Len(codes[i].bits) = L[i]
      /\ D = L[n] /\ m = L[1]
  BY EndsOfCodes
<1>2. n \in 1..W /\ Len(L) = n /\ Lengths(L, D)
  BY <1>1 DEF CodeTable
<1> HIDE DEF D, m, n
<1>3. /\ ValueBits \in Nat /\ W \in Nat /\ W > 0 /\ W = 2 ^ ValueBits
      /\ Len(L) <= 2 ^ ValueBits
  BY <1>2, ValueFacts DEF ValueCount
<1>4. CodesOfLength(l) = c
  <2>1. DOMAIN L = DOMAIN codes /\ \A i \in DOMAIN codes : L[i] = Len(codes[i].bits)
    BY DEF LengthsOf
  <2> HIDE DEF L
  <2>2. {i \in DOMAIN codes : Len(codes[i].bits) = l} = {i \in DOMAIN L : L[i] = l}
    BY <2>1
  <2>3. OfLength(L, l) = {i \in DOMAIN L : L[i] = l}
    BY DEF OfLength
  <2>4. CodesOfLength(l) = Cardinality({i \in DOMAIN codes : Len(codes[i].bits) = l})
    BY DEF CodesOfLength
  <2> QED BY <2>2, <2>3, <2>4
<1>5. m \in Nat /\ D \in Nat /\ m \in 1..D
  <2>1. D \in Nat /\ \A i \in 1..Len(L) : L[i] \in 1..D
    BY <1>2 DEF Lengths
  <2>2. 1 \in 1..Len(L)
    BY <1>1, <1>2
  <2> QED BY <1>1, <2>1, <2>2
<1>6. l \in 1..D /\ l \in m..D
  BY <1>5 DEF m, D
<1> HIDE DEF W
<1>7. CASE m = ValueBits
  <2>1. L[1] = ValueBits
    BY <1>1, <1>7
  <2>2. (\A i \in 1..Len(L) : L[i] = ValueBits) /\ Cardinality(OfLength(L, ValueBits)) = 2 ^ ValueBits
    BY <2>1, <1>2, <1>3, ShortestLength
  <2>3. D = ValueBits
    <3>1. n \in 1..Len(L)
      BY <1>1, <1>2
    <3> QED BY <3>1, <2>2, <1>1
  <2>4. l = ValueBits
    BY <1>6, <1>7, <1>3, <2>3
  <2>5. c = W
    BY <2>2, <2>4, <1>3
  <2>6. c % W = 0
    <3> HIDE DEF c
    <3> QED BY <2>5, <1>3
  <2>7. MinLengthInfo = ValueBits - 1
    BY <1>7 DEF m
  <2>8. IndexLength(0) = W
    BY <2>7 DEF IndexLength, W
  <2> HIDE DEF c
  <2> QED BY <2>5, <2>6, <2>8, <1>4 DEF c, W
<1>8. CASE m # ValueBits
  <2>1. L[1] # ValueBits
    BY <1>1, <1>8
  <2>2. c < W /\ c \in Nat
    <3>1. Cardinality(OfLength(L, l)) < 2 ^ ValueBits
      BY <2>1, <1>2, <1>3, <1>6, ShortestLength
    <3>2. IsFiniteSet(OfLength(L, l))
      <4>1. OfLength(L, l) \subseteq 1..n /\ IsFiniteSet(1..n)
        <5>1. OfLength(L, l) \subseteq DOMAIN L /\ DOMAIN L = 1..n
          BY <1>2 DEF OfLength, Lengths
        <5> QED BY <5>1, <1>1, FS_Interval
      <4> QED BY <4>1, FS_Subset
    <3>3. c \in Nat
      BY <3>2, FS_CardinalityType
    <3> QED BY <3>1, <3>3, <1>3
  <2> HIDE DEF c
  <2>3. c % W = c
    BY <2>2, <1>3
  <2>4. MinLengthInfo # ValueBits - 1
    <3>1. MinLengthInfo = m - 1
      BY DEF m
    <3> QED BY <3>1, <1>3, <1>5, <1>8
  <2>5. IndexLength(c) = c
    BY <2>4 DEF IndexLength
  <2> QED BY <2>3, <2>5, <1>4 DEF c, W
<1> QED BY <1>7, <1>8

\* The counts of all lengths, as the decoder reads them.
LEMMA LengthsRead ==
  ASSUME data \in Seq(Value), data # <<>>, NEW N, CodeTable(data, codes, N), FileOK,
         Len(file) >= MaxCodeLength + 2
  PROVE  /\ MaxLengthInfo = MaxCodeLength + 1
         /\ Padding = UnusedOf(Len(Body), ValueBits)
         /\ LengthDifference = MaxCodeLength - MinCodeLength + 2
         /\ Len(ByteLengths) = MaxCodeLength /\ ByteLengths \in [1..MaxCodeLength -> Nat]
         /\ Counts(ByteLengths, LengthsOf(codes), MaxCodeLength)
         /\ SymbolsLength = Len(codes)
         /\ ByteCount = HeaderSize
<1> DEFINE D == MaxCodeLength
           m == MinCodeLength
           n == Len(codes)
           L == LengthsOf(codes)
<1>1. /\ n \in Nat \ {0} /\ DOMAIN codes = 1..n
      /\ D = L[n] /\ m = L[1]
  BY EndsOfCodes
<1>2. /\ m \in 1..ValueBits /\ D \in Nat /\ m <= D
      /\ Written[1] = D + 1
      /\ Written[2] \div 2 ^ PaddingShift = UnusedOf(Len(Body), ValueBits)
      /\ Written[2] % 2 ^ PaddingShift = m - 1
      /\ \A i \in 1..(D - m + 1) : Written[2 + i] = CodesOfLength(m + i - 1) % ValueCount
  BY WrittenFields
<1>3. /\ file \in Seq(Nat) /\ Len(file) \in Nat
      /\ \A i \in 1..Len(file) : file[i] = Written[i]
  BY FileFacts
<1>4. Len(L) = n /\ Lengths(L, D)
  BY <1>1 DEF CodeTable
<1>5. m \in Nat /\ m > 0
  BY <1>2, WidthAssumption
<1> HIDE DEF D, m, n, L
<1>6. Len(file) >= D + 2
  BY DEF D
<1>7. \A i \in 1..(D + 2) : file[i] = Written[i]
  BY <1>2, <1>3, <1>6
<1>8. file[1] = D + 1 /\ file[2] = Written[2]
  <2>1. 1 \in 1..(D + 2) /\ 2 \in 1..(D + 2)
    BY <1>2
  <2> QED BY <2>1, <1>2, <1>7
<1>9. MaxLengthInfo = D + 1 /\ MinLengthInfo = m - 1 /\ Padding = UnusedOf(Len(Body), ValueBits)
  BY <1>2, <1>8 DEF MaxLengthInfo, MinLengthInfo, Padding
<1>10. LengthDifference = D - m + 2 /\ LengthDifference - 1 = D - m + 1
  <2>1. LengthDifference = (D + 1) - (m - 1)
    BY <1>9 DEF LengthDifference
  <2> QED BY <2>1, <1>2, <1>5
<1> DEFINE p == m - 1
           q == D - m + 1
           a == [i \in 1..p |-> 0]
           b == [i \in 1..q |-> IndexLength(file[i + 2])]
           B == ByteLengths
<1>11. p \in Nat /\ q \in Nat /\ p + q = D
  BY <1>2, <1>5
<1>12. B = a \o b
  BY <1>9, <1>10 DEF ByteLengths
<1>13. \A i \in 1..q : b[i] = Cardinality(OfLength(L, p + i)) /\ b[i] \in Nat
  <2> SUFFICES ASSUME NEW i \in 1..q
               PROVE  b[i] = Cardinality(OfLength(L, p + i)) /\ b[i] \in Nat
    OBVIOUS
  <2> DEFINE l == m + i - 1
  <2>1. l = p + i /\ l \in m..D /\ 2 + i \in 1..(D + 2) /\ i + 2 = 2 + i /\ l \in 1..D
        /\ i \in 1..(D - m + 1)
    BY <1>2, <1>5, <1>11
  <2>2. file[i + 2] = CodesOfLength(m + i - 1) % ValueCount
    BY <2>1, <1>2, <1>7
  <2> HIDE DEF l
  <2>3. IndexLength(CodesOfLength(l) % ValueCount) = Cardinality(OfLength(L, l))
    <3>1. l \in MinCodeLength..MaxCodeLength
      BY <2>1 DEF m, D
    <3>2. MinLengthInfo = MinCodeLength - 1
      BY <1>9 DEF m
    <3> QED BY <3>1, <3>2, CountRead DEF L
  <2>4. b[i] = Cardinality(OfLength(L, l))
    <3>1. b[i] = IndexLength(file[i + 2])
      OBVIOUS
    <3> QED BY <3>1, <2>2, <2>3 DEF l
  <2>5. Cardinality(OfLength(L, l)) \in Nat
    <3>1. OfLength(L, l) \subseteq 1..n
      <4>1. DOMAIN L = 1..n
        BY <1>4 DEF Lengths
      <4> QED BY <4>1 DEF OfLength
    <3>2. IsFiniteSet(1..n)
      BY <1>1, FS_Interval
    <3> QED BY <3>1, <3>2, FS_Subset, FS_CardinalityType
  <2> HIDE DEF b, p
  <2> QED BY <2>1, <2>4, <2>5
<1> HIDE DEF p, q, B
<1>14. a \in Seq(Nat) /\ Len(a) = p /\ \A i \in 1..p : a[i] = 0
  <2>1. a \in [1..p -> Nat] /\ \A i \in 1..p : a[i] = 0
    OBVIOUS
  <2> HIDE DEF a
  <2>2. a \in Seq(Nat)
    BY <2>1, <1>11
  <2> QED BY <2>1, <2>2, <1>11, LenProperties
<1>15. b \in Seq(Nat) /\ Len(b) = q
  <2>1. b = [i \in 1..q |-> b[i]]
    OBVIOUS
  <2> HIDE DEF b
  <2>2. b \in [1..q -> Nat]
    BY <2>1, <1>13
  <2>3. b \in Seq(Nat)
    BY <2>2, <1>11
  <2> QED BY <2>2, <2>3, <1>11, LenProperties
<1> HIDE DEF a, b
<1>16. /\ B \in Seq(Nat) /\ Len(B) = D
       /\ \A i \in 1..D : B[i] = IF i <= p THEN a[i] ELSE b[i - p]
  <2>1. /\ a \o b \in Seq(Nat) /\ Len(a \o b) = Len(a) + Len(b)
        /\ \A i \in 1..(Len(a) + Len(b)) :
             (a \o b)[i] = IF i <= Len(a) THEN a[i] ELSE b[i - Len(a)]
    BY <1>14, <1>15, ConcatProperties
  <2> QED BY <2>1, <1>11, <1>12, <1>14, <1>15
<1>17. B \in [1..D -> Nat]
  <2>1. B \in [1..Len(B) -> Nat]
    BY <1>16, LenProperties, ElementOfSeq
  <2> QED BY <2>1, <1>16
<1>18. Counts(B, L, D)
  <2> SUFFICES ASSUME NEW l \in 1..D PROVE B[l] = Cardinality(OfLength(L, l))
    BY DEF Counts
  <2>1. CASE l <= p
    <3>1. B[l] = 0
      BY <2>1, <1>11, <1>14, <1>16
    <3>2. OfLength(L, l) = {}
      <4> SUFFICES ASSUME NEW i \in 1..n, L[i] = l PROVE FALSE
        BY <1>4 DEF OfLength, Lengths
      <4>1. 1 \in 1..Len(L) /\ i \in 1..Len(L) /\ 1 <= i
        BY <1>1, <1>4
      <4>2. L[1] <= L[i]
        BY <4>1, <1>4 DEF Lengths
      <4> QED BY <4>2, <2>1, <1>1, <1>5 DEF p
    <3> QED BY <3>1, <3>2, FS_EmptySet
  <2>2. CASE ~(l <= p)
    <3> DEFINE i == l - p
    <3>1. i \in 1..q /\ p + i = l
      BY <2>2, <1>11
    <3>2. B[l] = b[i]
      BY <2>2, <1>16
    <3> HIDE DEF i
    <3> QED BY <3>1, <3>2, <1>13
  <2> QED BY <2>1, <2>2
<1>19. SymbolsLength = n
  <2>1. SumFunction(B) = Len(L)
    BY <1>4, <1>17, <1>18, CountsAddUp
  <2> QED BY <2>1, <1>4 DEF SymbolsLength, B
<1>20. ByteCount = HeaderSize
  <2>1. ByteCount = (D - m + 2) + 1 + n
    BY <1>10, <1>19 DEF ByteCount
  <2>2. HeaderSize = D - m + 3 + n
    BY DEF HeaderSize, D, m, n
  <2> QED BY <2>1, <2>2, <1>1, <1>2, <1>5
<1> QED BY <1>9, <1>10, <1>16, <1>17, <1>18, <1>19, <1>20 DEF B, D, m, n, L

\* What the decoder knows when the header is complete.
HeaderOK ==
  /\ Len(ByteLengths) = MaxCodeLength /\ ByteLengths \in [1..MaxCodeLength -> Nat]
  /\ Counts(ByteLengths, LengthsOf(codes), MaxCodeLength)
  /\ SymbolsLength = Len(codes)
  /\ \A i \in 1..Len(codes) : Symbols[i] = codes[i].symbol
  /\ UsedBits \in Nat /\ UsedBits <= Len(Body)
  /\ ~lost => UsedBits = Len(Body)
  /\ \A i \in 1..UsedBits : BitAt(i) = Body[i]

\* Behind the header are the bits of the body, without the padding.
LEMMA BitsRead ==
  ASSUME data \in Seq(Value), data # <<>>, NEW N, CodeTable(data, codes, N), FileOK,
         ByteCount = HeaderSize, Len(file) >= HeaderSize,
         Padding = UnusedOf(Len(Body), ValueBits)
  PROVE  /\ UsedBits \in Nat /\ UsedBits <= Len(Body)
         /\ ~lost => UsedBits = Len(Body)
         /\ \A i \in 1..UsedBits : BitAt(i) = Body[i]
<1> DEFINE H == HeaderSize
           V == ValueBits
           U == UsedBits
           n == Len(Body)
           C == BodySize
           u == UnusedOf(n, V)
           k == Len(file) - H
<1>1. V \in Nat /\ V > 0 /\ n \in Nat /\ n > 0 /\ Body \in Seq({0, 1})
  BY BodyFacts, WidthAssumption
<1>2. /\ C \in Nat \ {0} /\ u \in 0..(V - 1)
      /\ C * V - u = n
      /\ \A j \in 1..C : j * V - u \in Nat \ {0} /\ j * V - u <= n
  <2> HIDE DEF n, V
  <2> QED BY <1>1, CellsFit DEF BodySize, n, V
<1>3. H \in Nat
  <2>1. MinCodeLength \in 1..V /\ MaxCodeLength \in Nat /\ MinCodeLength <= MaxCodeLength
    BY WrittenFields
  <2>2. Len(codes) \in Nat
    BY EndsOfCodes
  <2> HIDE DEF V
  <2>3. MaxCodeLength - MinCodeLength \in Nat
    BY <2>1, <1>1
  <2> DEFINE w == MaxCodeLength - MinCodeLength
  <2> HIDE DEF w
  <2>4. HeaderSize = w + 3 + Len(codes)
    BY DEF HeaderSize, w
  <2> QED BY <2>2, <2>3, <2>4 DEF w
<1>4. /\ Len(file) \in 1..(H + C) /\ (~lost => Len(file) = H + C)
      /\ \A i \in 1..Len(file) : file[i] = Written[i]
  BY FileFacts
<1>5. \A i \in 1..C : Written[H + i] = Bytes(Body)[i]
  BY WrittenFields
<1> HIDE DEF H, C, n, V, u
<1>6. k \in 0..C /\ (~lost => k = C) /\ Len(file) = H + k
  BY <1>2, <1>3, <1>4 DEF H
<1>7. UsedBits = IF k = 0 THEN 0 ELSE k * V - u
  <2>1. ByteCount = H /\ Padding = u
    BY DEF H, u, n, V
  <2>2. UsedBits = IF Len(file) = H THEN 0 ELSE k * V - u
    BY <2>1 DEF UsedBits, V
  <2>3. Len(file) = H <=> k = 0
    BY <1>3, <1>6
  <2> QED BY <2>2, <2>3
<1> HIDE DEF k, U
<1>8. U \in Nat /\ U <= n /\ (~lost => U = n)
  <2>1. CASE k = 0
    BY <2>1, <1>1, <1>2, <1>6, <1>7 DEF U
  <2>2. CASE k # 0
    <3>1. k \in 1..C
      BY <2>2, <1>2, <1>6
    <3> DEFINE x == k * V - u
               y == C * V - u
    <3>2. x \in Nat /\ x <= n /\ y = n /\ (k = C => x = y)
      BY <3>1, <1>2
    <3> HIDE DEF x, y
    <3> QED BY <3>2, <2>2, <1>6, <1>7 DEF U, x
  <2> QED BY <2>1, <2>2
<1>9. ASSUME NEW i \in 1..U PROVE BitAt(i) = Body[i]
  <2> DEFINE j == (i - 1) \div V
             r == (i - 1) % V
             x == k * V
             y == j * V
  <2>1. k # 0 /\ U = x - u
    <3>1. U # 0
      BY <1>8
    <3> QED BY <3>1, <1>7 DEF U
  <2>2. i - 1 \in Nat
    BY <1>8
  <2>3. j \in Nat /\ r \in Nat /\ i - 1 = y + r
    <3> DEFINE z == i - 1
    <3>1. z \in Nat
      BY <2>2
    <3> HIDE DEF z
    <3>2. z \div V \in Nat /\ z % V \in Nat /\ z = (z \div V) * V + (z % V)
      BY <3>1, <1>1, DivMod
    <3> QED BY <3>2 DEF z
  <2> HIDE DEF j, r
  <2>4. y \in Nat /\ x \in Nat /\ k \in Nat
    <3>1. k \in Nat
      BY <1>2, <1>6
    <3> QED BY <3>1, <2>3, <1>1
  <2> HIDE DEF x, y
  <2>5. y < x
    BY <2>1, <2>3, <2>4, <1>2, <1>8
  <2>6. j < k
    BY <2>3, <2>4, <2>5, <1>1, Cancel DEF x, y
  <2>7. H + 1 + j = H + (1 + j) /\ 1 + j \in 1..C /\ H + (1 + j) \in 1..Len(file)
    BY <2>3, <2>4, <2>6, <1>2, <1>3, <1>6
  <2>8. file[H + 1 + j] = Bytes(Body)[1 + j]
    BY <2>7, <1>4, <1>5
  <2>9. i \in 1..n
    BY <1>1, <1>8
  <2>10. Digits(Bytes(Body)[1 + j], V)[1 + r] = Body[i]
    BY <2>9, <1>1, BytesFacts DEF j, r, n, V
  <2>11. BitAt(i) = Digits(file[H + 1 + j], V)[1 + r]
    BY DEF BitAt, H, j, r, V
  <2> QED BY <2>8, <2>10, <2>11
<1> QED BY <1>8, <1>9 DEF U, n

\* A header that is complete is right, and only a file that is cut has none.
LEMMA HeaderRead ==
  ASSUME data \in Seq(Value), data # <<>>, NEW N, CodeTable(data, codes, N), FileOK
  PROVE  /\ ~HeaderMissing => HeaderOK
         /\ ~lost => ~HeaderMissing
<1> DEFINE D == MaxCodeLength
           m == MinCodeLength
           n == Len(codes)
           H == HeaderSize
           C == BodySize
<1>1. n \in Nat /\ DOMAIN codes = 1..n
  BY EndsOfCodes
<1>2. /\ m \in 1..ValueBits /\ D \in Nat /\ m <= D /\ m <= n
      /\ Written[1] = D + 1
      /\ \A i \in 1..n : Written[D - m + 3 + i] = codes[i].symbol
  BY WrittenFields
<1>3. /\ file \in Seq(Nat) /\ Len(file) \in Nat /\ Len(file) >= 1
      /\ ~lost => Len(file) = H + C
      /\ \A i \in 1..Len(file) : file[i] = Written[i]
  BY FileFacts
<1>4. C \in Nat /\ C > 0
  <2> DEFINE B == Len(Body)
             V == ValueBits
  <2>1. V \in Nat /\ V > 0 /\ B \in Nat /\ B > 0
    BY BodyFacts, WidthAssumption
  <2> HIDE DEF B, V
  <2>2. CellsOf(B, V) \in Nat \ {0}
    BY <2>1, CellsFit
  <2> QED BY <2>2 DEF BodySize, B, V
<1>5. m \in Nat /\ m > 0
  BY <1>2, WidthAssumption
<1>6. H = D - m + 3 + n
  BY DEF HeaderSize
<1> HIDE DEF D, m, n, H, C
<1>7. MaxLengthInfo = D + 1
  <2>1. 1 \in 1..Len(file)
    BY <1>3
  <2> QED BY <2>1, <1>2, <1>3 DEF MaxLengthInfo
<1>8. ASSUME Len(file) >= D + 2
      PROVE  /\ Padding = UnusedOf(Len(Body), ValueBits)
             /\ LengthDifference = D - m + 2
             /\ Len(ByteLengths) = D /\ ByteLengths \in [1..D -> Nat]
             /\ Counts(ByteLengths, LengthsOf(codes), D)
             /\ SymbolsLength = n
             /\ ByteCount = H
  BY <1>8, LengthsRead DEF D, m, n, H
<1>9. ASSUME ~HeaderMissing PROVE HeaderOK
  <2>1. Len(file) >= D + 2
    <3>1. ~(Len(file) < MaxLengthInfo + 1)
      BY <1>9 DEF HeaderMissing
    <3> QED BY <3>1, <1>2, <1>3, <1>7
  <2>2. /\ Padding = UnusedOf(Len(Body), ValueBits)
        /\ LengthDifference = D - m + 2
        /\ Len(ByteLengths) = D /\ ByteLengths \in [1..D -> Nat]
        /\ Counts(ByteLengths, LengthsOf(codes), D)
        /\ SymbolsLength = n
        /\ ByteCount = H
    BY <2>1, <1>8
  <2>3. Len(file) >= H
    <3>1. ~(Len(file) < LengthDifference + SymbolsLength + 1)
      BY <1>9 DEF HeaderMissing
    <3>2. ~(Len(file) < (D - m + 2) + n + 1)
      BY <3>1, <2>2
    <3> QED BY <3>2, <1>1, <1>2, <1>3, <1>5, <1>6
  <2>4. /\ UsedBits \in Nat /\ UsedBits <= Len(Body)
        /\ ~lost => UsedBits = Len(Body)
        /\ \A i \in 1..UsedBits : BitAt(i) = Body[i]
    BY <2>2, <2>3, BitsRead DEF H
  <2>5. ASSUME NEW i \in 1..n PROVE Symbols[i] = codes[i].symbol
    <3> DEFINE a == D - m + 4
               e == D - m + 3 + n
    <3>1. a \in Int /\ e \in Int /\ a >= 1 /\ e <= Len(file) /\ a + i - 1 = D - m + 3 + i
          /\ a + i - 1 \in 1..Len(file) /\ i \in 1..(e - a + 1) /\ a <= e
      BY <2>3, <1>1, <1>2, <1>3, <1>5, <1>6
    <3>2. Symbols = SubSeq(file, a, e)
      <4>1. LengthDifference + 2 = a /\ ByteCount = e
        BY <2>2, <1>2, <1>5, <1>6
      <4> QED BY <4>1 DEF Symbols
    <3>3. \A j \in a..e : file[j] \in Nat
      <4> SUFFICES ASSUME NEW j \in a..e PROVE file[j] \in Nat
        OBVIOUS
      <4>1. j \in 1..Len(file)
        BY <3>1, <1>3
      <4> QED BY <4>1, <1>3, ElementOfSeq
    <3> HIDE DEF a, e
    <3>4. SubSeq(file, a, e)[i] = file[a + i - 1]
      BY <3>1, <3>3, SubSeqProperties
    <3> QED BY <3>1, <3>2, <3>4, <1>2, <1>3
  <2> QED BY <2>2, <2>4, <2>5 DEF HeaderOK, D, n
<1>10. ASSUME ~lost PROVE ~HeaderMissing
  <2>1. Len(file) = H + C
    BY <1>3, <1>10
  <2>2. Len(file) >= D + 2
    BY <2>1, <1>1, <1>2, <1>4, <1>5, <1>6
  <2>3. LengthDifference = D - m + 2 /\ SymbolsLength = n
    BY <2>2, <1>8
  <2>4. ~(Len(file) < MaxLengthInfo + 1)
    BY <2>2, <1>2, <1>3, <1>7
  <2>5. ~(Len(file) < LengthDifference + SymbolsLength + 1)
    <3>1. (D - m + 2) + n + 1 = H /\ H \in Int
      BY <1>1, <1>2, <1>5, <1>6
    <3>2. LengthDifference + SymbolsLength + 1 = H
      BY <3>1, <2>3
    <3> QED BY <3>1, <3>2, <2>1, <1>4
  <2> QED BY <2>4, <2>5 DEF HeaderMissing
<1> QED BY <1>9, <1>10

-----------------------------------------------------------------------------
(***************************************************************************)
(* The decoder.                                                            *)
(***************************************************************************)
\* The tables ReadTables makes are those of the counts.
TablesOf(t, B, D) ==
  \E zeros, ones : /\ IsZeros(zeros, B, D) /\ IsOnes(ones, B, D)
                   /\ t = [zeros |-> [i \in 1..(D + 1) |-> zeros[i - 1]],
                           ones |-> [i \in 1..(D + 1) |-> ones[i - 1]]]

\* ReadTables makes them of the lengths in the header.
LEMMA TablesRead ==
  ASSUME NEW D \in Nat, ByteLengths \in [1..D -> Nat], Len(ByteLengths) = D
  PROVE  TablesOf(ReadTables, ByteLengths, D)
<1> DEFINE B == ByteLengths
           Zeros == CHOOSE f : f = [i \in 0..Len(B) |->
                      IF i = 0 THEN 0 ELSE 2 * (f[i - 1] + B[i])]
           Ones == CHOOSE f : f = [i \in 0..Len(B) |->
                     IF i = 0 THEN 1 ELSE f[i - 1] + B[i]]
           t == [zeros |-> [i \in 1..(Len(B) + 1) |-> Zeros[i - 1]],
                 ones |-> [i \in 1..(Len(B) + 1) |-> Ones[i - 1]]]
<1>1. ReadTables = t
  BY DEF ReadTables
<1>2. Len(B) = D /\ \A i \in 1..D : B[i] \in Nat
  OBVIOUS
<1> HIDE DEF B
<1>3. (\E f : IsZeros(f, B, D)) /\ (\E f : IsOnes(f, B, D))
  BY <1>2, TablesExist
<1>4. IsZeros(Zeros, B, D)
  <2>1. Zeros = CHOOSE f : IsZeros(f, B, D)
    BY <1>2 DEF IsZeros
  <2> HIDE DEF Zeros
  <2>2. IsZeros(CHOOSE f : IsZeros(f, B, D), B, D)
    BY <1>3, Zenon
  <2> QED BY <2>1, <2>2
<1>5. IsOnes(Ones, B, D)
  <2>1. Ones = CHOOSE f : IsOnes(f, B, D)
    BY <1>2 DEF IsOnes
  <2> HIDE DEF Ones
  <2>2. IsOnes(CHOOSE f : IsOnes(f, B, D), B, D)
    BY <1>3, Zenon
  <2> QED BY <2>1, <2>2
<1> HIDE DEF Zeros, Ones
<1>6. t = [zeros |-> [i \in 1..(D + 1) |-> Zeros[i - 1]],
           ones |-> [i \in 1..(D + 1) |-> Ones[i - 1]]]
  BY <1>2
<1> HIDE DEF t
<1>7. TablesOf(t, B, D)
  BY <1>4, <1>5, <1>6 DEF TablesOf
<1> QED BY <1>1, <1>7 DEF B

\* The decoder has read the codes of the first samples, and the first n bits of the
\* next one's code, which number c.
DecoderAt(N, r, i, n, c) ==
  /\ r \in Seq(Value) /\ Len(r) \in 0..Len(data)
  /\ \A j \in 1..Len(r) : r[j] = data[j]
  /\ i = Start(Len(r)) + n + 1
  /\ \/ n = 0 /\ c = 0
     \/ /\ Len(r) < Len(data)
        /\ n \in 1..(Len(ByteTable(data[Len(r) + 1])) - 1)
        /\ c = Prefix(N[CodeIndex(data[Len(r) + 1])], Len(ByteTable(data[Len(r) + 1])), n)

\* What one more bit comes to.
Bits(n, c, b) == 2 * c + b
SymbolAt(t, n, c) == t.ones[n] + c - t.zeros[n] - 1

\* As long as there are bits, there is a next sample, and its code is not complete.
LEMMA NextSample ==
  ASSUME data \in Seq(Value), data # <<>>, NEW N, CodeTable(data, codes, N), HeaderOK,
         NEW r, NEW i, NEW n, NEW c, DecoderAt(N, r, i, n, c), i <= UsedBits,
         NEW s, s = data[Len(r) + 1], NEW l, l = Len(ByteTable(s))
  PROVE  /\ Len(r) + 1 \in 1..Len(data)
         /\ l \in Nat \ {0} /\ n \in 0..(l - 1)
         /\ c = Prefix(N[CodeIndex(s)], l, n)
         /\ BitAt(i) = Digits(N[CodeIndex(s)], l)[n + 1]
<1> DEFINE k == Len(r)
           m == Len(data)
<1>1. /\ m \in Nat \ {0} /\ k \in 0..m
      /\ i = Start(k) + n + 1
      /\ (n = 0 /\ c = 0) \/ (k < m /\ n \in 1..(l - 1) /\ c = Prefix(N[CodeIndex(s)], l, n))
  BY BodyFacts DEF DecoderAt
<1>2. /\ Body \in Seq({0, 1}) /\ Len(Body) = Start(m)
      /\ \A j \in 0..m : Start(j) \in Nat
      /\ \A j \in 1..m : Start(j) = Start(j - 1) + Len(ByteTable(data[j]))
      /\ \A j \in 1..m : \A x \in 1..Len(ByteTable(data[j])) :
              Body[Start(j - 1) + x] = ByteTable(data[j])[x]
  BY BodyFacts
<1>3. UsedBits \in Nat /\ UsedBits <= Len(Body) /\ \A j \in 1..UsedBits : BitAt(j) = Body[j]
  BY DEF HeaderOK
<1>4. s = data[k + 1]
  OBVIOUS
<1> HIDE DEF m, k
<1>5. k < m
  <2> SUFFICES ASSUME ~(k < m) PROVE FALSE
    OBVIOUS
  <2>1. k = m /\ n = 0
    BY <1>1
  <2>2. m \in 0..m
    BY <1>1
  <2> QED BY <2>1, <2>2, <1>1, <1>2, <1>3
<1> DEFINE q == k + 1
<1>6. q \in 1..m /\ q - 1 = k /\ k \in Nat
  BY <1>1, <1>5
<1> HIDE DEF q
<1>7. /\ CodeIndex(s) \in 1..Len(codes)
      /\ ByteTable(s) = Digits(N[CodeIndex(s)], LengthsOf(codes)[CodeIndex(s)])
      /\ l = LengthsOf(codes)[CodeIndex(s)]
      /\ l \in Nat \ {0}
  <2>1. s = data[q]
    BY <1>4 DEF q
  <2> QED BY <2>1, <1>6, CodeOfSample DEF m
<1>8. n \in 0..(l - 1)
  BY <1>1, <1>7
<1>9. c = Prefix(N[CodeIndex(s)], l, n)
  <2>1. CASE n = 0 /\ c = 0
    <3> DEFINE v == N[CodeIndex(s)]
    <3>1. v \in Nat /\ v < 2 ^ l
      <4>1. \A j \in 1..Len(LengthsOf(codes)) : N[j] \in Nat /\ N[j] < 2 ^ LengthsOf(codes)[j]
        <5> DEFINE L == LengthsOf(codes)
                   D == L[Len(codes)]
        <5>1. Lengths(L, D) /\ Canonical(L, D, N)
          BY DEF CodeTable
        <5> HIDE DEF L, D
        <5>2. \A j \in 1..Len(L) : N[j] \in Nat /\ N[j] < 2 ^ L[j]
          BY <5>1, NumbersFit
        <5> QED BY <5>2 DEF L
      <4>2. Len(LengthsOf(codes)) = Len(codes)
        BY DEF CodeTable
      <4> QED BY <4>1, <4>2, <1>7
    <3> HIDE DEF v
    <3>2. l \in Nat
      BY <1>7
    <3>3. Prefix(v, l, 0) = 0
      BY <3>1, <3>2, PrefixGrows
    <3> QED BY <2>1, <3>3 DEF v
  <2>2. CASE ~(n = 0 /\ c = 0)
    BY <2>2, <1>1
  <2> QED BY <2>1, <2>2
<1>10. BitAt(i) = Digits(N[CodeIndex(s)], l)[n + 1]
  <2> DEFINE x == n + 1
  <2>1. x \in 1..l /\ i = Start(k) + x
    <3>1. Start(k) \in Nat
      BY <1>1, <1>2
    <3> QED BY <3>1, <1>1, <1>7, <1>8
  <2> HIDE DEF x
  <2>2. i \in 1..UsedBits
    <3>1. Start(k) \in Nat
      BY <1>1, <1>2
    <3> QED BY <3>1, <2>1, <1>3, <1>7
  <2>3. BitAt(i) = Body[Start(k) + x]
    BY <2>1, <2>2, <1>3
  <2>4. Body[Start(k) + x] = ByteTable(s)[x]
    <3>1. s = data[q] /\ Start(q - 1) = Start(k)
      BY <1>4, <1>6 DEF q
    <3> QED BY <3>1, <2>1, <1>2, <1>6
  <2> QED BY <2>3, <2>4, <1>7 DEF x
<1> QED BY <1>6, <1>7, <1>8, <1>9, <1>10 DEF k, m, q

\* The bit that is next leads on in the code of the next sample, or completes it.
LEMMA OneBitRead ==
  ASSUME data \in Seq(Value), data # <<>>, NEW N, CodeTable(data, codes, N), HeaderOK,
         TablesOf(tables, ByteLengths, MaxCodeLength),
         NEW r, NEW i, NEW n, NEW c, DecoderAt(N, r, i, n, c), i <= UsedBits
  PROVE  /\ n \in Nat /\ c \in Nat /\ Bits(n, c, BitAt(i)) \in Nat
         /\ Bits(n, c, BitAt(i)) * 2 >= tables.zeros[n + 1 + 1]
              => DecoderAt(N, r, i + 1, n + 1, Bits(n, c, BitAt(i)))
         /\ ~(Bits(n, c, BitAt(i)) * 2 >= tables.zeros[n + 1 + 1])
              => /\ ~(SymbolAt(tables, n + 1, Bits(n, c, BitAt(i))) >= SymbolsLength)
                 /\ DecoderAt(N, Append(r, Symbols[SymbolAt(tables, n + 1, Bits(n, c, BitAt(i))) + 1]),
                              i + 1, 0, 0)
<1> DEFINE k == Len(r)
           q == k + 1
           s == data[q]
           l == Len(ByteTable(s))
           x == CodeIndex(s)
           v == N[x]
           m == n + 1
           b == Bits(n, c, BitAt(i))
           D == MaxCodeLength
           L == LengthsOf(codes)
           C == Len(codes)
<1>1. /\ q \in 1..Len(data)
      /\ l \in Nat \ {0} /\ n \in 0..(l - 1)
      /\ c = Prefix(v, l, n)
      /\ BitAt(i) = Digits(v, l)[m]
  BY NextSample, SMTT(30)
<1>2. /\ r \in Seq(Value) /\ k \in 0..Len(data)
      /\ \A j \in 1..k : r[j] = data[j]
      /\ i = Start(k) + n + 1
  BY DEF DecoderAt
<1>3. /\ x \in 1..C /\ codes[x].symbol = s /\ l = L[x]
  BY <1>1, CodeOfSample
<1>4. /\ C \in Nat \ {0} /\ DOMAIN codes = 1..C /\ D = L[C]
  BY EndsOfCodes
<1>5. Len(L) = C /\ Lengths(L, D) /\ Canonical(L, D, N)
  BY <1>4 DEF CodeTable
<1>6. /\ Counts(ByteLengths, L, D) /\ SymbolsLength = C
      /\ \A j \in 1..C : Symbols[j] = codes[j].symbol
  BY DEF HeaderOK
<1>7. /\ Len(data) \in Nat /\ Start(k) \in Nat /\ Start(q) = Start(k) + l /\ k \in Nat
      /\ s \in Value
  <2>1. /\ Len(data) \in Nat
        /\ \A j \in 0..Len(data) : Start(j) \in Nat
        /\ \A j \in 1..Len(data) : Start(j) = Start(j - 1) + Len(ByteTable(data[j]))
    BY BodyFacts
  <2>2. q - 1 = k /\ k \in 0..Len(data) /\ k \in Nat
    BY <1>2, <2>1
  <2>3. Start(q) = Start(q - 1) + l
    BY <1>1, <2>1
  <2>4. s \in Value
    BY <1>1, ElementOfSeq
  <2> QED BY <2>1, <2>2, <2>3, <2>4
<1>8. PICK zeros, ones : /\ IsZeros(zeros, ByteLengths, D) /\ IsOnes(ones, ByteLengths, D)
                         /\ tables = [zeros |-> [j \in 1..(D + 1) |-> zeros[j - 1]],
                                      ones |-> [j \in 1..(D + 1) |-> ones[j - 1]]]
  BY DEF TablesOf
<1>9. q = k + 1 /\ m = n + 1
  OBVIOUS
<1>10. b = Prefix(v, l, m) /\ v \in Nat /\ b \in Nat /\ c \in Nat
  <2>1. v \in Nat /\ v < 2 ^ l
    <3> HIDE DEF L, D, x
    <3>1. \A j \in 1..Len(L) : N[j] \in Nat /\ N[j] < 2 ^ L[j]
      BY <1>5, NumbersFit
    <3> QED BY <3>1, <1>3, <1>5
  <2> HIDE DEF v, l
  <2>2. Prefix(v, l, n + 1) = 2 * Prefix(v, l, n) + Digits(v, l)[n + 1]
    BY <1>1, <2>1, PrefixGrows
  <2>3. b = 2 * c + Digits(v, l)[m]
    BY <1>1 DEF Bits
  <2>4. m \in 0..l /\ n \in 0..l
    BY <1>1
  <2>5. Prefix(v, l, m) \in Nat /\ Prefix(v, l, n) \in Nat
    <3> HIDE DEF m
    <3> QED BY <1>1, <2>1, <2>4, PrefixGrows
  <2> QED BY <2>1, <2>2, <2>3, <2>5, <1>1
<1> HIDE DEF k, q, s, l, x, v, m, b, D, L, C
<1>11. m \in 1..l /\ l \in 1..D /\ m - 1 = n /\ m + 1 \in 1..(D + 1) /\ m \in 1..(D + 1)
       /\ D \in Nat /\ n \in Nat
  <2>1. l \in 1..D /\ D \in Nat
    BY <1>3, <1>5 DEF Lengths
  <2> QED BY <2>1, <1>1, <1>9
<1>12. /\ tables.zeros[m + 1] = zeros[m] /\ tables.zeros[m] = zeros[n]
       /\ tables.ones[m] = ones[n]
  <2> DEFINE z == [j \in 1..(D + 1) |-> zeros[j - 1]]
             o == [j \in 1..(D + 1) |-> ones[j - 1]]
  <2>1. z[m + 1] = zeros[(m + 1) - 1] /\ z[m] = zeros[m - 1] /\ o[m] = ones[m - 1]
    BY <1>11
  <2>2. (m + 1) - 1 = m
    BY <1>11
  <2>3. tables.zeros = z /\ tables.ones = o
    BY <1>8
  <2> HIDE DEF z, o
  <2> QED BY <2>1, <2>2, <2>3, <1>11
<1>13. /\ m < l => b * 2 >= zeros[m]
       /\ m = l => /\ b * 2 < zeros[m]
                   /\ ones[n] + b - zeros[n] - 1 = x - 1
  <2>1. L[x] = l /\ N[x] = v /\ x \in 1..Len(L)
    BY <1>3, <1>5 DEF v
  <2>2. m \in 1..L[x]
    BY <1>11, <2>1
  <2>3. /\ m < L[x] => Prefix(N[x], L[x], m) * 2 >= zeros[m]
        /\ m = L[x] => /\ N[x] * 2 < zeros[m]
                       /\ ones[m - 1] + N[x] - zeros[m - 1] - 1 = x - 1
    BY <2>1, <2>2, <1>5, <1>6, <1>8, TablesFollow
  <2>4. m = l => b = v
    <3>1. v < 2 ^ l /\ l \in Nat
      <4>1. \A j \in 1..Len(L) : N[j] \in Nat /\ N[j] < 2 ^ L[j]
        BY <1>5, NumbersFit
      <4> QED BY <4>1, <2>1, <1>11
    <3>2. Prefix(v, l, l) = v
      BY <3>1, <1>10, PrefixGrows
    <3> QED BY <3>2, <1>10
  <2> QED BY <2>1, <2>3, <2>4, <1>10, <1>11
<1>14. zeros[m] \in Nat /\ x \in Nat
  <2>1. m \in 0..D
    BY <1>11
  <2>2. zeros[m] \in Nat
    BY <2>1, <1>5, <1>6, <1>8, TablesCount
  <2> QED BY <2>2, <1>3, <1>4
<1>15. ASSUME b * 2 >= zeros[m] PROVE DecoderAt(N, r, i + 1, m, b)
  <2>1. m < l
    <3> SUFFICES ASSUME ~(m < l) PROVE FALSE
      OBVIOUS
    <3>1. m = l
      BY <1>11
    <3>2. b * 2 < zeros[m]
      BY <3>1, <1>13
    <3> QED BY <3>2, <1>10, <1>14, <1>15
  <2>2. m \in 1..(l - 1) /\ k < Len(data)
    BY <2>1, <1>1, <1>7, <1>9, <1>11
  <2>3. i + 1 = Start(k) + m + 1
    BY <1>2, <1>7, <1>9, <1>11
  <2>4. /\ Len(r) < Len(data)
        /\ m \in 1..(Len(ByteTable(data[Len(r) + 1])) - 1)
        /\ b = Prefix(N[CodeIndex(data[Len(r) + 1])], Len(ByteTable(data[Len(r) + 1])), m)
    BY <2>2, <1>10 DEF k, l, s, q, v, x
  <2>5. /\ r \in Seq(Value) /\ Len(r) \in 0..Len(data)
        /\ \A j \in 1..Len(r) : r[j] = data[j]
        /\ i + 1 = Start(Len(r)) + m + 1
    BY <2>3, <1>2 DEF k
  <2> QED BY <2>4, <2>5 DEF DecoderAt
<1>16. ASSUME ~(b * 2 >= zeros[m])
       PROVE  /\ SymbolAt(tables, m, b) = x - 1
              /\ DecoderAt(N, Append(r, Symbols[x]), i + 1, 0, 0)
  <2>1. m = l
    <3>1. ~(m < l)
      BY <1>13, <1>16
    <3> QED BY <3>1, <1>11
  <2>2. SymbolAt(tables, m, b) = x - 1
    BY <2>1, <1>12, <1>13 DEF SymbolAt
  <2>3. Symbols[x] = s
    BY <1>3, <1>6
  <2> DEFINE t == Append(r, s)
  <2>4. t \in Seq(Value) /\ Len(t) = q /\ (\A j \in 1..k : t[j] = r[j]) /\ t[q] = s
    BY <1>2, <1>7, AppendProperties DEF k, q
  <2> HIDE DEF t
  <2>5. \A j \in 1..Len(t) : t[j] = data[j]
    <3> SUFFICES ASSUME NEW j \in 1..q PROVE t[j] = data[j]
      BY <2>4
    <3>1. CASE j = q
      BY <3>1, <2>4 DEF s
    <3>2. CASE j # q
      <4>1. j \in 1..k
        BY <3>2, <1>7, <1>9
      <4> QED BY <4>1, <2>4, <1>2
    <3> QED BY <3>1, <3>2
  <2>6. i + 1 = Start(q) + 0 + 1
    BY <2>1, <1>1, <1>2, <1>7, <1>9
  <2>7. Len(t) \in 0..Len(data)
    BY <2>4, <1>1, <1>7
  <2>8. DecoderAt(N, t, i + 1, 0, 0)
    BY <2>4, <2>5, <2>6, <2>7 DEF DecoderAt
  <2> QED BY <2>2, <2>3, <2>8 DEF t
<1>17. ASSUME ~(b * 2 >= zeros[m])
       PROVE  /\ ~(SymbolAt(tables, m, b) >= SymbolsLength)
              /\ DecoderAt(N, Append(r, Symbols[SymbolAt(tables, m, b) + 1]), i + 1, 0, 0)
  <2>1. SymbolAt(tables, m, b) = x - 1 /\ DecoderAt(N, Append(r, Symbols[x]), i + 1, 0, 0)
    BY <1>16, <1>17
  <2>2. x - 1 + 1 = x /\ ~(x - 1 >= SymbolsLength)
    BY <1>3, <1>4, <1>6, <1>14
  <2> QED BY <2>1, <2>2
<1> QED BY <1>10, <1>11, <1>12, <1>15, <1>17 DEF m, b

\* The tables have an entry for the length after the bits read.
LEMMA TablesHold ==
  ASSUME data \in Seq(Value), data # <<>>, NEW N, CodeTable(data, codes, N),
         TablesOf(tables, ByteLengths, MaxCodeLength),
         NEW r, NEW i, NEW n, NEW c, DecoderAt(N, r, i, n, c)
  PROVE  n < Len(tables.zeros) - 1
<1> DEFINE k == Len(r)
           q == k + 1
           l == Len(ByteTable(data[q]))
           D == MaxCodeLength
           L == LengthsOf(codes)
           C == Len(codes)
<1>1. /\ C \in Nat \ {0} /\ D = L[C]
  BY EndsOfCodes
<1>2. Len(L) = C /\ Lengths(L, D)
  BY <1>1 DEF CodeTable
<1>3. D \in Nat /\ \A j \in 1..C : L[j] \in 1..D
  BY <1>2 DEF Lengths
<1>4. D > 0
  <2>1. C \in 1..C
    BY <1>1
  <2> QED BY <2>1, <1>1, <1>3
<1>5. PICK zeros, ones : tables = [zeros |-> [j \in 1..(D + 1) |-> zeros[j - 1]],
                                   ones |-> [j \in 1..(D + 1) |-> ones[j - 1]]]
  BY DEF TablesOf
<1>6. Len(tables.zeros) = D + 1
  <2> DEFINE d == D + 1
             X == {zeros[j - 1] : j \in 1..d}
             z == [j \in 1..d |-> zeros[j - 1]]
  <2>1. d \in Nat
    BY <1>3
  <2>2. z \in [1..d -> X]
    OBVIOUS
  <2>3. tables.zeros = z
    BY <1>5
  <2> HIDE DEF d, X, z
  <2>4. z \in Seq(X)
    BY <2>1, <2>2
  <2>5. Len(z) = d
    BY <2>1, <2>2, <2>4, LenProperties
  <2> QED BY <2>3, <2>5 DEF d
<1>7. n = 0 \/ (q \in 1..Len(data) /\ n \in 1..(l - 1))
  <2>1. /\ Len(r) \in 0..Len(data)
        /\ n = 0 \/ (Len(r) < Len(data) /\ n \in 1..(Len(ByteTable(data[Len(r) + 1])) - 1))
    BY DEF DecoderAt
  <2>2. Len(data) \in Nat
    BY LenProperties
  <2> QED BY <2>1, <2>2
<1>8. ASSUME q \in 1..Len(data) PROVE l \in 1..D
  <2>1. CodeIndex(data[q]) \in 1..C /\ l = L[CodeIndex(data[q])]
    BY <1>8, CodeOfSample
  <2> HIDE DEF l, L, D, C
  <2> QED BY <2>1, <1>3
<1> HIDE DEF q, l, D, L, C
<1> QED BY <1>3, <1>4, <1>6, <1>7, <1>8

\* When there are no bits left, all samples are there unless the end of the file is lost.
LEMMA AllBitsRead ==
  ASSUME data \in Seq(Value), data # <<>>, NEW N, CodeTable(data, codes, N), HeaderOK,
         NEW r, NEW i, NEW n, NEW c, DecoderAt(N, r, i, n, c), ~(i <= UsedBits), ~lost
  PROVE  n = 0 /\ Len(r) = Len(data)
<1> DEFINE k == Len(r)
           m == Len(data)
<1>1. /\ k \in 0..m /\ i = Start(k) + n + 1
      /\ (n = 0 /\ c = 0) \/ (k < m /\ n \in 1..(Len(ByteTable(data[k + 1])) - 1))
  BY DEF DecoderAt
<1>2. /\ m \in Nat \ {0} /\ Len(Body) = Start(m)
      /\ \A j \in 0..m : Start(j) \in Nat
      /\ \A j \in 1..m : Start(j) = Start(j - 1) + Len(ByteTable(data[j]))
      /\ \A x, y \in 0..m : x <= y => Start(x) <= Start(y)
  BY BodyFacts
<1>3. UsedBits = Len(Body)
  BY DEF HeaderOK
<1>4. \A j \in 1..m : Len(ByteTable(data[j])) \in Nat \ {0}
  BY CodeOfSample
<1> HIDE DEF k, m
<1>5. k = m
  <2> SUFFICES ASSUME k < m PROVE FALSE
    BY <1>1, <1>2
  <2> DEFINE q == k + 1
             l == Len(ByteTable(data[q]))
  <2>1. q \in 1..m /\ q - 1 = k /\ q \in 0..m /\ m \in 0..m /\ q <= m /\ k \in 0..m
    BY <1>1, <1>2
  <2>2. l \in Nat \ {0}
    BY <2>1, <1>4
  <2>3. n \in 0..(l - 1)
    BY <1>1, <2>2
  <2>4. Start(q) = Start(q - 1) + l
    BY <2>1, <1>2
  <2> HIDE DEF q, l
  <2>5. Start(q) <= Start(m) /\ Start(q) = Start(k) + l
    BY <2>1, <2>4, <1>2
  <2>6. Start(k) \in Nat /\ Start(m) \in Nat /\ Start(q) \in Nat
    BY <2>1, <1>2
  <2> QED BY <2>2, <2>3, <2>5, <2>6, <1>1, <1>2, <1>3, SMTT(30)
<1>6. n = 0
  BY <1>1, <1>2, <1>5
<1> QED BY <1>5, <1>6 DEF k, m

-----------------------------------------------------------------------------
(***************************************************************************)
(* The models.                                                             *)
(***************************************************************************)
\* The model turns values into values.
LEMMA AppliedType ==
  ASSUME NEW d, d \in Seq(Value)
  PROVE  Applied(d, UseModel) \in Seq(Value) /\ Len(Applied(d, UseModel)) = Len(d)
<1>1. UseModel \in BOOLEAN
  BY WidthAssumption
<1>2. ASSUME UseModel
      PROVE  Differences(d) \in Seq(Value) /\ Len(Differences(d)) = Len(d)
  <2> DEFINE last(i) == IF i = 1 THEN InitialVal ELSE d[i - 1]
  <2>1. Len(d) \in Nat /\ DOMAIN d = 1..Len(d) /\ \A i \in 1..Len(d) : d[i] \in Value
    OBVIOUS
  <2>2. \A i \in 1..Len(d) : last(i) \in Value
    BY <2>1, ValueFacts DEF InitialVal
  <2>3. \A i \in 1..Len(d) : (d[i] - last(i)) % ValueCount \in Value
    <3> HIDE DEF last
    <3>1. \A x, y \in Value : (x - y) % ValueCount \in Value
      BY ValueFacts
    <3>2. QED
      BY <2>1, <2>2, <3>1
  <2>4. Differences(d) = [i \in 1..Len(d) |-> (d[i] - last(i)) % ValueCount]
    BY <2>1 DEF Differences
  <2> HIDE DEF last
  <2>5. QED
    BY <2>1, <2>3, <2>4
<1>3. QED
  BY <1>1, <1>2 DEF Applied

\* What the model takes apart is put together again, of the part that there is.
LEMMA ModelReverted ==
  ASSUME NEW d, NEW r, d \in Seq(Value), r \in Seq(Value),
         Begins(r, Applied(d, UseModel))
  PROVE  /\ Reverted(r, UseModel) \in Seq(Value)
         /\ Len(Reverted(r, UseModel)) = Len(r)
         /\ Begins(Reverted(r, UseModel), d)
<1>1. UseModel \in BOOLEAN
  BY WidthAssumption
<1>2. CASE ~UseModel
  BY <1>2 DEF Applied, Reverted, Begins
<1>3. CASE UseModel
  <2> DEFINE n == Len(r)
             x(i) == IF i = 0 THEN InitialVal ELSE d[i]
             Rest(f) == [i \in 0..Len(r) |->
                           IF i = 0 THEN InitialVal ELSE (r[i] + f[i - 1]) % ValueCount]
             Whole == [i \in 0..n |-> x(i)]
             Sum == CHOOSE f : f = Rest(f)
  <2>1. /\ n \in Nat /\ n <= Len(d) /\ Len(d) \in Nat
        /\ DOMAIN d = 1..Len(d) /\ DOMAIN r = 1..n
        /\ \A i \in 1..Len(d) : d[i] \in Value
    <3>1. Len(Applied(d, UseModel)) = Len(d)
      BY AppliedType
    <3>2. Len(r) <= Len(d)
      BY <3>1 DEF Begins
    <3>3. QED
      BY <3>2
  <2>2. \A i \in 0..n : x(i) \in Value
    BY <2>1, ValueFacts DEF InitialVal
  <2>3. ASSUME NEW i \in 1..n PROVE (r[i] + x(i - 1)) % ValueCount = x(i)
    <3>1. i \in DOMAIN d /\ i # 0
      BY <2>1
    <3>2. r[i] = (x(i) - x(i - 1)) % ValueCount
      <4>1. r[i] = Applied(d, UseModel)[i]
        BY <2>1 DEF Begins
      <4>2. Applied(d, UseModel)[i]
              = (d[i] - (IF i = 1 THEN InitialVal ELSE d[i - 1])) % ValueCount
        BY <1>3, <3>1 DEF Applied, Differences
      <4>3. x(i - 1) = (IF i = 1 THEN InitialVal ELSE d[i - 1]) /\ x(i) = d[i]
        BY <2>1
      <4> HIDE DEF x
      <4>4. QED
        BY <4>1, <4>2, <4>3
    <3>3. x(i) \in Value /\ x(i - 1) \in Value
      BY <2>1, <2>2
    <3> HIDE DEF x
    <3>4. ASSUME NEW a \in Value, NEW b \in Value
          PROVE  (((a - b) % ValueCount) + b) % ValueCount = a
      <4> DEFINE M == ValueCount
      <4>1. M \in Nat /\ a \in 0..(M - 1) /\ b \in 0..(M - 1)
        BY ValueFacts
      <4> HIDE DEF M
      <4>2. (((a - b) % M) + b) % M = a
        BY <4>1
      <4>3. QED
        BY <4>2 DEF M
    <3>5. QED
      BY <3>2, <3>3, <3>4
  <2>4. Whole = Rest(Whole)
    <3>1. \A i \in 1..n : Whole[i - 1] = x(i - 1)
      BY <2>1
    <3>2. ASSUME NEW i \in 0..n
          PROVE  x(i) = IF i = 0 THEN InitialVal ELSE (r[i] + Whole[i - 1]) % ValueCount
      <4>1. i # 0 => i \in 1..n
        BY <2>1
      <4>2. x(0) = InitialVal
        OBVIOUS
      <4> HIDE DEF x, Whole
      <4>3. QED
        BY <2>3, <3>1, <4>1, <4>2
    <3> HIDE DEF x
    <3>3. QED
      BY <3>2
  <2>5. Sum = Rest(Sum)
    <3> HIDE DEF Whole, Rest
    <3>1. \E f : f = Rest(f)
      BY <2>4
    <3>2. QED
      BY <3>1, Zenon
  <2>6. Reverted(r, UseModel) = [i \in 1..n |-> Sum[i]]
    <3>1. Reverted(r, UseModel) = Sums(r)
      BY <1>3 DEF Reverted
    <3>2. Sums(r) = [i \in DOMAIN r |-> Sum[i]]
      BY DEF Sums
    <3> HIDE DEF Sum
    <3>3. QED
      BY <2>1, <3>1, <3>2
  <2> HIDE DEF Sum
  <2>7. /\ Sum[0] = x(0)
        /\ \A i \in 1..n : Sum[i] = (r[i] + Sum[i - 1]) % ValueCount
    <3>1. \A i \in 0..n :
            Sum[i] = IF i = 0 THEN InitialVal ELSE (r[i] + Sum[i - 1]) % ValueCount
      BY <2>5
    <3>2. QED
      BY <2>1, <3>1
  <2> DEFINE S == {i \in Nat : i <= n => Sum[i] = x(i)}
  <2>8. 0 \in S
    BY <2>7
  <2>9. ASSUME NEW i \in Nat, i \in S PROVE i + 1 \in S
    <3> SUFFICES ASSUME i + 1 <= n PROVE Sum[i + 1] = x(i + 1)
      OBVIOUS
    <3>1. i + 1 \in 1..n /\ (i + 1) - 1 = i
      BY <2>1
    <3>2. Sum[i] = x(i)
      BY <2>1, <2>9
    <3> HIDE DEF x
    <3>3. QED
      BY <2>3, <2>7, <3>1, <3>2
  <2>10. \A i \in 1..n : Sum[i] = x(i)
    <3> HIDE DEF S
    <3>1. \A i \in Nat : i \in S
      BY <2>8, <2>9, Induction
    <3>2. QED
      BY <2>1, <3>1 DEF S
  <2>11. \A i \in 1..n : Sum[i] = d[i] /\ d[i] \in Value
    BY <2>1, <2>10
  <2>12. QED
    BY <2>1, <2>6, <2>11 DEF Begins
<1>4. QED
  BY <1>1, <1>2, <1>3

-----------------------------------------------------------------------------
(***************************************************************************)
(* The inductive invariant, in the order of the phases.                    *)
(***************************************************************************)
\* The model has been applied to the data, and there is some from then on.
DataInv ==
  /\ input \in Inputs
  /\ phase = "apply" => data = input
  /\ phase # "apply" => data = Applied(input, UseModel)
  /\ phase \notin {"apply", "undefined"} => data # <<>>

\* While the tree is built its leaves share out all sequences of bits.
HeapInv == phase = "build" => HeapOK(data, heap)

\* The codes are canonical.
CodesInv == phase \in {"write", "read", "decode"} => CodesOK(data, codes)

\* The file is what has been written, or the beginning of it; only before it is read
\* may nothing be left of it.
FileInv ==
  /\ phase \in {"apply", "build", "write"} => ~lost
  /\ phase = "read" => FileOK \/ (lost /\ file = <<>>)
  /\ phase = "decode" => FileOK

\* The decoder waits for the file, and then knows where it is in it.
DecoderInv ==
  /\ phase \in {"apply", "build", "write", "read"} =>
       index = 1 /\ length = 0 /\ code = 0 /\ result = <<>>
  /\ phase = "decode" =>
       /\ ~HeaderMissing /\ tables = ReadTables
       /\ \E N : CodeTable(data, codes, N) /\ DecoderAt(N, result, index, length, code)

\* What the calls come to.
AnswerInv ==
  /\ phase = "undefined" => \/ Len(input) \notin 1..(FewestSamples(IntBits) - 1)
                            \/ lost /\ file = <<>>
  /\ phase = "error" => lost
  /\ phase = "done" => /\ Begins(result, input)
                       /\ ~lost => length = 0 /\ result = input

IInv == TypeOK /\ DataInv /\ HeapInv /\ CodesInv /\ FileInv /\ DecoderInv /\ AnswerInv

\* What is written depends on the data and its codes only.
LEMMA SameWritten ==
  ASSUME data' = data, codes' = codes
  PROVE  Written' = Written
BY DEF Written, MaxCodeLength, MinCodeLength, CodeLengths, CodesOfLength, UnusedBitsInCell,
       Body, ByteTable, Bytes

\* So does where the codes are in it.
LEMMA SameDecoder ==
  ASSUME data' = data, codes' = codes, NEW N,
         DecoderAt(N, result', index', length', code')
  PROVE  DecoderAt(N, result, index, length, code)'
BY DEF DecoderAt, Start, Parts, ByteTable, CodeIndex

\* The header depends on the file only.
LEMMA SameHeader ==
  ASSUME file' = file
  PROVE  (HeaderMissing <=> HeaderMissing') /\ ReadTables' = ReadTables
<1>1. /\ MaxLengthInfo' = MaxLengthInfo /\ MinLengthInfo' = MinLengthInfo
      /\ LengthDifference' = LengthDifference
  BY DEF MaxLengthInfo, MinLengthInfo, LengthDifference
<1>2. ByteLengths' = ByteLengths
  BY <1>1 DEF ByteLengths, IndexLength
<1>3. SymbolsLength' = SymbolsLength
  BY <1>2 DEF SymbolsLength
<1>4. ReadTables' = ReadTables
  BY <1>2 DEF ReadTables
<1> QED BY <1>1, <1>3, <1>4 DEF HeaderMissing

\* Fibonacci's numbers, as the specification names them.
LEMMA FewestIsFib == FewestSamples(IntBits) = Fib(IntBits + 2)
BY DEF FewestSamples, Fib

\* The invariant holds initially.
LEMMA InitInv == Init => IInv
<1> SUFFICES ASSUME Init PROVE IInv
  OBVIOUS
<1>1. input \in Seq(Value)
  BY WidthAssumption DEF Init, Inputs
<1>2. TypeOK
  <2>1. /\ input \in Seq(Value) /\ data = input /\ phase = "apply" /\ codes = <<>>
        /\ file = <<>> /\ lost = FALSE /\ index = 1 /\ length = 0 /\ code = 0
        /\ result = <<>>
    BY <1>1 DEF Init
  <2> DEFINE X == [symbol : Value, bits : Seq({0, 1})]
  <2> HIDE DEF X
  <2>2. <<>> \in Seq(X) /\ <<>> \in Seq(Nat) /\ <<>> \in Seq(Value)
    BY EmptySeq
  <2>3. codes \in Seq(X) /\ file \in Seq(Nat) /\ result \in Seq(Value)
    BY <2>1, <2>2
  <2> QED BY <2>1, <2>3 DEF TypeOK, X
<1>3. DataInv /\ HeapInv /\ CodesInv /\ FileInv /\ DecoderInv /\ AnswerInv
  BY DEF Init, DataInv, HeapInv, CodesInv, FileInv, DecoderInv, AnswerInv
<1> QED BY <1>2, <1>3 DEF IInv

\* Of no samples there are no leaves.
LEMMA NothingSeen == FirstOf(<<>>) = {}
<1>1. ToSet(<<>>) = {}
  BY DEF ToSet
<1>2. SeenLeaves(<<>>) = {}
  BY <1>1 DEF SeenLeaves
<1> QED BY <1>2, FS_EmptySet DEF FirstOf

\* Applying the model starts the tree, unless there are no samples.
LEMMA ApplyModelInv == IInv /\ ApplyModel => IInv'
<1> SUFFICES ASSUME IInv, ApplyModel PROVE IInv'
  OBVIOUS
<1>1. /\ phase = "apply" /\ data' = Applied(data, UseModel) /\ heap' = FirstHeap
      /\ phase' = IF heap' = {} THEN "undefined" ELSE "build"
      /\ input' = input /\ codes' = codes /\ file' = file /\ lost' = lost
      /\ tables' = tables /\ index' = index /\ length' = length /\ code' = code
      /\ result' = result
  BY DEF ApplyModel, decoding
<1>2. data = input /\ input \in Seq(Value) /\ input \in Inputs
  BY <1>1 DEF IInv, DataInv, TypeOK
<1>3. data' \in Seq(Value) /\ Len(data') = Len(input) /\ data' = Applied(input, UseModel)
  BY <1>1, <1>2, AppliedType
<1>4. heap' = FirstOf(data')
  <2>1. \A v : Occurrences(v) = TimesIn(data', v)
    BY DEF Occurrences, TimesIn
  <2>2. {Leaf(v, Occurrences(v)) : v \in ToSet(data')} = SeenLeaves(data')
    BY <2>1 DEF SeenLeaves
  <2> QED BY <1>1, <2>2 DEF FirstHeap, FirstOf
<1>5. heap' = {} <=> data' = <<>>
  BY <1>3, <1>4, FirstHeapOK, NothingSeen
<1>6. phase' \in {"build", "undefined"}
  BY <1>1
<1>7. TypeOK'
  BY <1>1, <1>3, <1>6 DEF IInv, TypeOK
<1>8. DataInv'
  BY <1>1, <1>2, <1>3, <1>5, <1>6 DEF DataInv
<1>9. HeapInv'
  <2> SUFFICES ASSUME phase' = "build" PROVE HeapOK(data', heap')
    BY DEF HeapInv
  <2>1. data' # <<>>
    BY <1>1, <1>5
  <2> QED BY <2>1, <1>3, <1>4, FirstHeapOK
<1>10. CodesInv' /\ FileInv' /\ DecoderInv'
  <2>1. ~lost /\ index = 1 /\ length = 0 /\ code = 0 /\ result = <<>>
    BY <1>1 DEF IInv, FileInv, DecoderInv
  <2> QED BY <2>1, <1>1, <1>6 DEF CodesInv, FileInv, DecoderInv
<1>11. AnswerInv'
  <2> SUFFICES ASSUME phase' = "undefined"
               PROVE  Len(input) \notin 1..(FewestSamples(IntBits) - 1)
    BY <1>1, <1>6 DEF AnswerInv
  <2>1. data' = <<>>
    BY <1>1, <1>5
  <2>2. Len(input) = 0
    BY <2>1, <1>3
  <2> QED BY <2>2
<1> QED BY <1>7, <1>8, <1>9, <1>10, <1>11 DEF IInv

\* Merging two trees leaves a forest.
LEMMA MergeInv == IInv /\ Merge => IInv'
<1> SUFFICES ASSUME IInv, Merge PROVE IInv'
  OBVIOUS
<1>1. /\ phase = "build" /\ Cardinality(heap) > 1
      /\ input' = input /\ data' = data /\ phase' = phase
      /\ codes' = codes /\ file' = file /\ lost' = lost
      /\ tables' = tables /\ index' = index /\ length' = length /\ code' = code
      /\ result' = result
  <2>1. /\ phase = "build" /\ Cardinality(heap) > 1
        /\ UNCHANGED <<input, data, phase, codes, file, lost, decoding>>
    BY Zenon DEF Merge
  <2> QED BY <2>1 DEF decoding
<1>2. PICK left \in Lightest(heap) : \E right \in Lightest(heap \ {left}) :
        heap' = MergedHeap(heap, left, right)
  BY DEF Merge, MergedHeap, Parent
<1>3. PICK right \in Lightest(heap \ {left}) : heap' = MergedHeap(heap, left, right)
  BY <1>2
<1>4. HeapOK(data, heap)
  BY <1>1 DEF IInv, HeapInv
<1>5. HeapOK(data, heap')
  BY <1>1, <1>3, <1>4, MergedHeapOK
<1>6. TypeOK' /\ DataInv'
  BY <1>1 DEF IInv, TypeOK, DataInv
<1>7. HeapInv'
  BY <1>1, <1>5 DEF HeapInv
<1>8. CodesInv' /\ FileInv' /\ DecoderInv' /\ AnswerInv'
  <2>1. ~lost /\ index = 1 /\ length = 0 /\ code = 0 /\ result = <<>>
    BY <1>1 DEF IInv, FileInv, DecoderInv
  <2> QED BY <2>1, <1>1 DEF CodesInv, FileInv, DecoderInv, AnswerInv
<1> QED BY <1>6, <1>7, <1>8 DEF IInv

\* The codes made of the last tree are canonical, and fit an int unless there is
\* as much data as Fibonacci says.
LEMMA SortCodesInv == IInv /\ SortCodes => IInv'
<1> SUFFICES ASSUME IInv, SortCodes PROVE IInv'
  OBVIOUS
<1> DEFINE S == (CHOOSE t \in heap : TRUE).leaves
<1>1. /\ phase = "build" /\ Cardinality(heap) = 1
      /\ input' = input /\ data' = data /\ file' = file /\ lost' = lost
      /\ tables' = tables /\ index' = index /\ length' = length /\ code' = code
      /\ result' = result
  BY DEF SortCodes, decoding
<1>2. PICK leaves \in SetToSeqs(S) :
        /\ \A i, j \in DOMAIN leaves : i < j => Len(leaves[i].path) <= Len(leaves[j].path)
        /\ codes' = [i \in DOMAIN leaves |->
                      [symbol |-> leaves[i].value,
                       bits |-> Digits(CodeNumbers(leaves)[i], Len(leaves[i].path))]]
        /\ phase' = IF \E i \in DOMAIN leaves : CodeNumbers(leaves)[i] >= 2 ^ (IntBits - 1)
                    THEN "undefined" ELSE "write"
  BY DEF SortCodes
<1>3. data \in Seq(Value) /\ HeapOK(data, heap) /\ input \in Seq(Value)
      /\ data = Applied(input, UseModel) /\ data # <<>>
  BY <1>1 DEF IInv, HeapInv, TypeOK, DataInv
<1>4. GoodLeaves(data, S)
  BY <1>1, <1>3, LastTree
<1> HIDE DEF S
<1>5. Ordered(leaves, S) /\ codes' = CodesFrom(leaves)
  BY <1>2 DEF Ordered, CodesFrom
<1>6. Len(data) \in Nat /\ Len(data) = Len(input)
  <2>1. Len(Applied(input, UseModel)) = Len(input)
    BY <1>3, AppliedType
  <2>2. Len(data) \in Nat
    BY <1>3, LenProperties
  <2> QED BY <2>1, <2>2, <1>3
<1>7. /\ CodesOK(data, codes') /\ codes' \in Seq([symbol : Value, bits : Seq({0, 1})])
      /\ (\E i \in DOMAIN leaves : CodeNumbers(leaves)[i] >= 2 ^ (IntBits - 1))
           => Len(data) >= Fib(IntBits + 2)
  BY <1>4, <1>5, <1>6, CodesFromLeaves
<1>8. phase' \in {"write", "undefined"}
  BY <1>2
<1>9. TypeOK'
  BY <1>1, <1>7, <1>8 DEF IInv, TypeOK
<1>10. DataInv' /\ HeapInv' /\ CodesInv'
  BY <1>1, <1>3, <1>7, <1>8 DEF IInv, DataInv, HeapInv, CodesInv
<1>11. FileInv' /\ DecoderInv'
  <2>1. ~lost /\ index = 1 /\ length = 0 /\ code = 0 /\ result = <<>>
    BY <1>1 DEF IInv, FileInv, DecoderInv
  <2> QED BY <2>1, <1>1, <1>8 DEF FileInv, DecoderInv
<1>12. AnswerInv'
  <2> SUFFICES ASSUME phase' = "undefined"
               PROVE  Len(input) \notin 1..(FewestSamples(IntBits) - 1)
    BY <1>1, <1>8 DEF AnswerInv
  <2>1. \E i \in DOMAIN leaves : CodeNumbers(leaves)[i] >= 2 ^ (IntBits - 1)
    BY <1>2
  <2>2. Len(input) >= FewestSamples(IntBits)
    BY <2>1, <1>6, <1>7, FewestIsFib
  <2>3. FewestSamples(IntBits) \in Nat
    <3> DEFINE p == IntBits + 2
    <3>1. p \in Nat
      BY WidthAssumption
    <3> HIDE DEF p
    <3>2. Fib(p) \in Nat
      BY <3>1, FibFacts
    <3> QED BY <3>2, FewestIsFib DEF p
  <2> DEFINE f == FewestSamples(IntBits)
             n == Len(input)
  <2> HIDE DEF f, n
  <2>4. n >= f /\ f \in Nat /\ n \in Nat
    BY <2>2, <2>3, <1>6 DEF f, n
  <2>5. n \notin 1..(f - 1)
    BY <2>4
  <2> QED BY <2>5 DEF f, n
<1> QED BY <1>9, <1>10, <1>11, <1>12 DEF IInv

\* The file is what WriteFile writes.
LEMMA WriteFileInv == IInv /\ WriteFile => IInv'
<1> SUFFICES ASSUME IInv, WriteFile PROVE IInv'
  OBVIOUS
<1>1. /\ phase = "write" /\ phase' = "read"
      /\ input' = input /\ data' = data /\ codes' = codes /\ lost' = lost
      /\ tables' = tables /\ index' = index /\ length' = length /\ code' = code
      /\ result' = result
  BY DEF WriteFile, decoding
<1>2. file' = Written
  BY DEF WriteFile, Written
<1>3. data \in Seq(Value) /\ data # <<>> /\ CodesOK(data, codes)
  BY <1>1 DEF IInv, TypeOK, DataInv, CodesInv
<1>4. PICK N : CodeTable(data, codes, N)
  BY <1>3 DEF CodesOK
<1>5. Written \in Seq(Nat) /\ Len(Written) \in Nat /\ Len(Written) >= 1
  <2>1. Written \in Seq(Nat) /\ Written[1] = MaxCodeLength + 1 /\ Len(Written) = HeaderSize + BodySize
        /\ MinCodeLength \in 1..ValueBits /\ MaxCodeLength \in Nat
        /\ MinCodeLength <= MaxCodeLength /\ MinCodeLength <= Len(codes)
    BY <1>3, <1>4, WrittenFields
  <2>2. Len(Written) \in Nat
    BY <2>1, LenProperties
  <2>3. BodySize \in Nat /\ Len(codes) \in Nat /\ ValueBits \in Nat
    <3> DEFINE B == Len(Body)
               V == ValueBits
    <3>1. V \in Nat /\ V > 0 /\ B \in Nat /\ B > 0
      BY <1>3, <1>4, BodyFacts, WidthAssumption
    <3> HIDE DEF B, V
    <3>2. CellsOf(B, V) \in Nat \ {0}
      BY <3>1, CellsFit
    <3>3. Len(codes) \in Nat
      BY <1>4, EndsOfCodes
    <3> QED BY <3>1, <3>2, <3>3 DEF BodySize, B, V
  <2> DEFINE m == MinCodeLength
             D == MaxCodeLength
             n == Len(codes)
             b == BodySize
  <2> HIDE DEF m, D, n, b
  <2>4. HeaderSize + BodySize = D - m + 3 + n + b
    BY DEF HeaderSize, m, D, n, b
  <2>5. m \in Nat /\ D \in Nat /\ m <= D /\ n \in Nat /\ b \in Nat
    BY <2>1, <2>3 DEF m, D, n, b
  <2> QED BY <2>1, <2>2, <2>4, <2>5
<1>6. Written' = Written
  BY <1>1, SameWritten
<1>7. FileOK'
  <2> DEFINE W == Written
             k == Len(W)
  <2>1. SubSeq(W, 1, k) = W
    BY <1>5, SubSeqFull
  <2>2. k \in 1..k
    BY <1>5
  <2> HIDE DEF W
  <2>3. \E x \in 1..Len(W) : file' = SubSeq(W, 1, x) /\ (~lost' => x = Len(W))
    BY <2>1, <2>2, <1>2 DEF W
  <2> QED BY <2>3, <1>6 DEF FileOK, W
<1>8. TypeOK'
  BY <1>1, <1>2, <1>5 DEF IInv, TypeOK
<1>9. DataInv' /\ HeapInv' /\ CodesInv' /\ DecoderInv' /\ AnswerInv'
  BY <1>1, <1>3 DEF IInv, DataInv, HeapInv, CodesInv, DecoderInv, AnswerInv
<1>10. FileInv'
  BY <1>1, <1>7 DEF FileInv
<1> QED BY <1>8, <1>9, <1>10 DEF IInv

\* The beginning of a beginning is one.
LEMMA CutAgain ==
  ASSUME NEW W \in Seq(Nat), NEW k \in 1..Len(W), NEW f, f = SubSeq(W, 1, k),
         NEW n \in 1..(Len(f) - 1)
  PROVE  n \in 1..Len(W) /\ SubSeq(f, 1, n) = SubSeq(W, 1, n)
<1> DEFINE w == Len(W)
<1>1. w \in Nat
  BY LenProperties
<1> HIDE DEF w
<1>2. k \in 1..w
  BY DEF w
<1>3. Len(f) = k /\ \A i \in 1..k : f[i] = W[i]
  <2>1. \A i \in 1..k : W[i] \in Nat
    BY <1>1, <1>2, ElementOfSeq DEF w
  <2>2. k \in Int /\ 1 \in Int /\ 1 <= k /\ k - 1 + 1 = k
    BY <1>1, <1>2
  <2>3. /\ Len(SubSeq(W, 1, k)) = IF 1 <= k THEN k - 1 + 1 ELSE 0
        /\ \A i \in 1..(k - 1 + 1) : SubSeq(W, 1, k)[i] = W[1 + i - 1]
    BY <2>1, <2>2, SubSeqProperties
  <2>4. \A i \in 1..k : 1 + i - 1 = i
    BY <2>2
  <2> QED BY <2>2, <2>3, <2>4
<1>4. n \in 1..(k - 1)
  BY <1>3
<1>5. n \in 1..k /\ n \in 1..w
  BY <1>1, <1>2, <1>4
<1> DEFINE a == SubSeq(f, 1, n)
           b == SubSeq(W, 1, n)
<1>6. n \in Int /\ 1 \in Int /\ 1 <= n /\ n - 1 + 1 = n /\ \A i \in 1..n : 1 + i - 1 = i
  BY <1>4
<1>7. \A i \in 1..n : W[i] \in Nat /\ f[i] = W[i] /\ f[i] \in Nat
  <2> SUFFICES ASSUME NEW i \in 1..n PROVE W[i] \in Nat /\ f[i] = W[i]
    OBVIOUS
  <2>1. i \in 1..w /\ i \in 1..k
    BY <1>1, <1>2, <1>5
  <2> QED BY <2>1, <1>3, ElementOfSeq DEF w
<1>8. /\ a \in Seq(Nat) /\ Len(a) = n
      /\ \A i \in 1..(n - 1 + 1) : a[i] = f[1 + i - 1]
  BY <1>6, <1>7, SubSeqProperties
<1>9. /\ b \in Seq(Nat) /\ Len(b) = n
      /\ \A i \in 1..(n - 1 + 1) : b[i] = W[1 + i - 1]
  BY <1>6, <1>7, SubSeqProperties
<1> HIDE DEF a, b
<1>10. \A i \in 1..n : a[i] = b[i]
  BY <1>6, <1>7, <1>8, <1>9
<1>11. a = b
  BY <1>8, <1>9, <1>10, SeqEqual
<1> QED BY <1>5, <1>11 DEF a, b, w

\* A beginning of a file is a sequence of bytes.
LEMMA CutType ==
  ASSUME NEW f \in Seq(Nat), NEW n \in 1..(Len(f) - 1)
  PROVE  SubSeq(f, 1, n) \in Seq(Nat)
<1> DEFINE l == Len(f)
<1>1. l \in Nat
  BY LenProperties
<1> HIDE DEF l
<1>2. n \in 1..(l - 1)
  BY DEF l
<1>3. \A i \in 1..n : f[i] \in Nat
  <2> SUFFICES ASSUME NEW i \in 1..n PROVE f[i] \in Nat
    OBVIOUS
  <2>1. i \in 1..l
    BY <1>1, <1>2
  <2> QED BY <2>1, ElementOfSeq DEF l
<1>4. n \in Int /\ 1 \in Int
  BY <1>2
<1> QED BY <1>3, <1>4, SubSeqProperties

\* What is left of the file is still the beginning of what was written, if anything is.
LEMMA LoseEndInv == IInv /\ LoseEnd => IInv'
<1> SUFFICES ASSUME IInv, LoseEnd PROVE IInv'
  OBVIOUS
<1>1. /\ phase = "read" /\ phase' = phase /\ ~lost /\ lost' = TRUE
      /\ input' = input /\ data' = data /\ codes' = codes /\ heap' = heap
      /\ tables' = tables /\ index' = index /\ length' = length /\ code' = code
      /\ result' = result
  BY DEF LoseEnd, decoding
<1>2. PICK n \in 0..(Len(file) - 1) : file' = SubSeq(file, 1, n)
  BY DEF LoseEnd
<1>3. file \in Seq(Nat) /\ FileOK
  BY <1>1 DEF IInv, TypeOK, FileInv
<1>4. Written' = Written
  BY <1>1, SameWritten
<1>5. file' \in Seq(Nat) /\ (FileOK' \/ file' = <<>>)
  <2>1. CASE n = 0
    <3>1. SubSeq(file, 1, 0) = <<>>
      BY SubSeqEmpty
    <3>2. <<>> \in Seq(Nat)
      BY EmptySeq
    <3> QED BY <2>1, <3>1, <3>2, <1>2
  <2>2. CASE n # 0
    <3> DEFINE W == Written
               l == Len(file)
    <3>1. l \in Nat
      BY <1>3, LenProperties
    <3> HIDE DEF l
    <3>2. n \in 1..(l - 1)
      BY <3>1, <2>2, <1>2 DEF l
    <3>3. n \in 1..(Len(file) - 1)
      BY <3>2 DEF l
    <3>4. PICK k \in 1..Len(W) : file = SubSeq(W, 1, k)
      BY <1>3 DEF FileOK
    <3>5. W \in Seq(Nat)
      <4>1. data \in Seq(Value) /\ data # <<>> /\ CodesOK(data, codes)
        BY <1>1 DEF IInv, TypeOK, DataInv, CodesInv
      <4>2. PICK N : CodeTable(data, codes, N)
        BY <4>1 DEF CodesOK
      <4> QED BY <4>1, <4>2, WrittenFields
    <3> HIDE DEF W
    <3>6. n \in 1..Len(W) /\ SubSeq(file, 1, n) = SubSeq(W, 1, n)
      BY <3>3, <3>4, <3>5, CutAgain
    <3>7. \E x \in 1..Len(W) : file' = SubSeq(W, 1, x) /\ (~lost' => x = Len(W))
      BY <3>6, <1>1, <1>2
    <3>8. FileOK'
      BY <3>7, <1>4 DEF FileOK, W
    <3> QED BY <3>3, <3>8, <1>2, <1>3, CutType
  <2> QED BY <2>1, <2>2
<1>6. TypeOK'
  BY <1>1, <1>5 DEF IInv, TypeOK
<1>7. DataInv' /\ HeapInv' /\ CodesInv' /\ DecoderInv' /\ AnswerInv'
  BY <1>1 DEF IInv, DataInv, HeapInv, CodesInv, DecoderInv, AnswerInv
<1>8. FileInv'
  BY <1>1, <1>5 DEF FileInv
<1> QED BY <1>6, <1>7, <1>8 DEF IInv

\* A file of which there is nothing has lost its end.
LEMMA ReadNothingLost == IInv /\ ReadNothing => lost
<1> SUFFICES ASSUME IInv, ReadNothing PROVE lost
  OBVIOUS
<1>1. phase = "read" /\ file = <<>>
  BY DEF ReadNothing, Unreadable
<1>2. ASSUME FileOK PROVE file # <<>>
  <2> DEFINE W == Written
  <2>1. data \in Seq(Value) /\ data # <<>> /\ CodesOK(data, codes)
    BY <1>1 DEF IInv, TypeOK, DataInv, CodesInv
  <2>2. PICK N : CodeTable(data, codes, N)
    BY <2>1 DEF CodesOK
  <2>3. W \in Seq(Nat)
    BY <2>1, <2>2, WrittenFields
  <2>4. PICK k \in 1..Len(W) : file = SubSeq(W, 1, k)
    BY <1>2 DEF FileOK
  <2> HIDE DEF W
  <2> DEFINE w == Len(W)
  <2>5. w \in Nat
    BY <2>3, LenProperties
  <2> HIDE DEF w
  <2>6. k \in 1..w
    BY <2>4 DEF w
  <2>7. k \in Int /\ 1 \in Int /\ 1 <= k /\ k - 1 + 1 = k
    BY <2>5, <2>6
  <2>8. \A i \in 1..k : W[i] \in Nat
    <3> SUFFICES ASSUME NEW i \in 1..k PROVE W[i] \in Nat
      OBVIOUS
    <3>1. i \in 1..w
      BY <2>5, <2>6
    <3> QED BY <3>1, <2>3, ElementOfSeq DEF w
  <2>9. Len(SubSeq(W, 1, k)) = IF 1 <= k THEN k - 1 + 1 ELSE 0
    BY <2>7, <2>8, SubSeqProperties
  <2>10. Len(file) = k
    BY <2>4, <2>7, <2>9
  <2>11. Len(file) # 0
    BY <2>7, <2>10
  <2> QED BY <2>11
<1>3. FileOK \/ lost
  BY <1>1 DEF IInv, FileInv
<1> QED BY <1>2, <1>3, <1>1

\* A decoder that reads behind the end of its file has lost all of it.
LEMMA ReadNothingInv == IInv /\ ReadNothing => IInv'
<1> SUFFICES ASSUME IInv, ReadNothing PROVE IInv'
  OBVIOUS
<1>1. /\ phase = "read" /\ phase' = "undefined" /\ file = <<>>
      /\ input' = input /\ data' = data /\ heap' = heap /\ codes' = codes /\ file' = file
      /\ lost' = lost
      /\ index' = index /\ length' = length /\ code' = code /\ result' = result
  BY DEF ReadNothing, Unreadable, encoding, decoding
<1>2. lost
  BY ReadNothingLost
<1>3. TypeOK'
  BY <1>1 DEF IInv, TypeOK
<1>4. DataInv' /\ HeapInv' /\ CodesInv' /\ FileInv' /\ DecoderInv'
  BY <1>1 DEF IInv, DataInv, HeapInv, CodesInv, FileInv, DecoderInv
<1>5. AnswerInv'
  BY <1>1, <1>2 DEF AnswerInv
<1> QED BY <1>3, <1>4, <1>5 DEF IInv

\* The decoder starts at the first bit of the body, if the header is there.
LEMMA ReadHeaderInv == IInv /\ ReadHeader => IInv'
<1> SUFFICES ASSUME IInv, ReadHeader PROVE IInv'
  OBVIOUS
<1>1. /\ phase = "read"
      /\ input' = input /\ data' = data /\ heap' = heap /\ codes' = codes /\ file' = file
      /\ lost' = lost
      /\ index' = index /\ length' = length /\ code' = code /\ result' = result
      /\ phase' \in {"error", "decode"}
  BY DEF ReadHeader, encoding
<1>2. /\ phase' = "error" => HeaderMissing
      /\ phase' = "decode" => ~HeaderMissing /\ tables' = ReadTables
  BY DEF ReadHeader
<1>3. data \in Seq(Value) /\ data # <<>> /\ CodesOK(data, codes) /\ FileOK
  BY <1>1 DEF IInv, TypeOK, DataInv, CodesInv, FileInv, ReadHeader, Unreadable
<1>4. PICK N : CodeTable(data, codes, N)
  BY <1>3 DEF CodesOK
<1>5. ~lost => ~HeaderMissing
  BY <1>3, <1>4, HeaderRead
<1>6. DecoderAt(N, <<>>, 1, 0, 0)
  <2>1. Start(0) = 0 /\ Len(data) \in Nat
    BY <1>3, <1>4, BodyFacts
  <2>2. <<>> \in Seq(Value) /\ Len(<<>>) = 0
    OBVIOUS
  <2>3. 1 = Start(Len(<<>>)) + 0 + 1 /\ 0 \in 0..Len(data)
    BY <2>1, <2>2
  <2>4. \A j \in 1..0 : <<>>[j] = data[j]
    OBVIOUS
  <2> QED BY <2>1, <2>2, <2>3, <2>4 DEF DecoderAt
<1>7. index = 1 /\ length = 0 /\ code = 0 /\ result = <<>>
  BY <1>1 DEF IInv, DecoderInv
<1>8. (HeaderMissing <=> HeaderMissing') /\ ReadTables' = ReadTables
  BY <1>1, SameHeader
<1>9. DecoderAt(N, result, index, length, code)'
  <2>1. DecoderAt(N, result', index', length', code')
    BY <1>1, <1>6, <1>7
  <2> QED BY <2>1, <1>1, SameDecoder
<1>10. Written' = Written
  BY <1>1, SameWritten
<1>11. FileOK'
  BY <1>1, <1>3, <1>10 DEF FileOK
<1>12. TypeOK'
  BY <1>1 DEF IInv, TypeOK
<1>13. DataInv' /\ HeapInv' /\ CodesInv'
  BY <1>1, <1>3 DEF IInv, DataInv, HeapInv, CodesInv
<1>14. FileInv'
  BY <1>1, <1>11 DEF FileInv
<1>15. DecoderInv'
  <2>1. ASSUME phase' = "decode"
        PROVE  /\ ~HeaderMissing' /\ tables' = ReadTables'
               /\ \E M : CodeTable(data', codes', M) /\ DecoderAt(M, result, index, length, code)'
    BY <2>1, <1>1, <1>2, <1>4, <1>8, <1>9
  <2>2. phase' \notin {"apply", "build", "write", "read"}
    BY <1>1
  <2> QED BY <2>1, <2>2 DEF DecoderInv
<1>16. AnswerInv'
  BY <1>1, <1>2, <1>5 DEF AnswerInv
<1> QED BY <1>12, <1>13, <1>14, <1>15, <1>16 DEF IInv

\* The tables the decoder uses are those of the codes.
LEMMA TablesRight ==
  ASSUME data \in Seq(Value), data # <<>>, NEW N, CodeTable(data, codes, N), HeaderOK,
         tables = ReadTables
  PROVE  TablesOf(tables, ByteLengths, MaxCodeLength)
<1> DEFINE D == MaxCodeLength
<1>1. Len(ByteLengths) = D /\ ByteLengths \in [1..D -> Nat] /\ D \in Nat
  BY WrittenFields DEF HeaderOK
<1> HIDE DEF D
<1>2. TablesOf(ReadTables, ByteLengths, D)
  BY <1>1, TablesRead
<1> QED BY <1>2 DEF D

\* Every bit takes the decoder on, and never to a symbol that is not there.
LEMMA DecodeBitInv == IInv /\ DecodeBit => IInv' /\ phase' = "decode"
<1> SUFFICES ASSUME IInv, DecodeBit PROVE IInv' /\ phase' = "decode"
  OBVIOUS
<1> DEFINE n == length + 1
           c == Bits(length, code, BitAt(index))
           s == SymbolAt(tables, n, c)
<1>1. /\ phase = "decode" /\ index <= UsedBits /\ index' = index + 1
      /\ input' = input /\ data' = data /\ heap' = heap /\ codes' = codes /\ file' = file
      /\ lost' = lost /\ tables' = tables
  BY DEF DecodeBit, encoding
<1>2. IF c * 2 >= tables.zeros[n + 1]
      THEN length' = n /\ code' = c /\ phase' = phase /\ result' = result
      ELSE IF s >= SymbolsLength
      THEN phase' = "error"
      ELSE /\ result' = Append(result, Symbols[s + 1])
           /\ length' = 0 /\ code' = 0 /\ phase' = phase
  BY DEF DecodeBit, Bits, SymbolAt
<1>3. /\ data \in Seq(Value) /\ data # <<>> /\ CodesOK(data, codes) /\ FileOK
      /\ ~HeaderMissing /\ tables = ReadTables /\ index \in Nat
  BY <1>1 DEF IInv, TypeOK, DataInv, CodesInv, FileInv, DecoderInv
<1>4. PICK N : CodeTable(data, codes, N) /\ DecoderAt(N, result, index, length, code)
  BY <1>1 DEF IInv, DecoderInv
<1>5. HeaderOK
  BY <1>3, <1>4, HeaderRead
<1>6. TablesOf(tables, ByteLengths, MaxCodeLength)
  BY <1>3, <1>4, <1>5, TablesRight
<1>7. /\ length \in Nat /\ code \in Nat /\ c \in Nat
      /\ c * 2 >= tables.zeros[n + 1] => DecoderAt(N, result, index + 1, n, c)
      /\ ~(c * 2 >= tables.zeros[n + 1])
           => /\ ~(s >= SymbolsLength)
              /\ DecoderAt(N, Append(result, Symbols[s + 1]), index + 1, 0, 0)
  BY <1>1, <1>3, <1>4, <1>5, <1>6, OneBitRead
<1>8. n \in Nat /\ 0 \in Nat /\ index + 1 \in Nat
  BY <1>3, <1>7
<1> HIDE DEF n, c, s
<1>10. /\ phase' = "decode" /\ length' \in Nat /\ code' \in Nat
       /\ DecoderAt(N, result', index', length', code')
  <2>1. CASE c * 2 >= tables.zeros[n + 1]
    BY <2>1, <1>1, <1>2, <1>7, <1>8
  <2>2. CASE ~(c * 2 >= tables.zeros[n + 1])
    BY <2>2, <1>1, <1>2, <1>7, <1>8
  <2> QED BY <2>1, <2>2
<1>11. DecoderAt(N, result, index, length, code)'
  BY <1>1, <1>10, SameDecoder
<1>12. result' \in Seq(Value)
  BY <1>10 DEF DecoderAt
<1>13. (HeaderMissing <=> HeaderMissing') /\ ReadTables' = ReadTables
  BY <1>1, SameHeader
<1>14. Written' = Written
  BY <1>1, SameWritten
<1>15. FileOK'
  BY <1>1, <1>3, <1>14 DEF FileOK
<1>16. TypeOK'
  BY <1>1, <1>8, <1>10, <1>12 DEF IInv, TypeOK
<1>17. DataInv' /\ HeapInv' /\ CodesInv'
  BY <1>1, <1>3, <1>10 DEF IInv, DataInv, HeapInv, CodesInv
<1>18. FileInv'
  BY <1>10, <1>15 DEF FileInv
<1>19. DecoderInv'
  <2>1. /\ ~HeaderMissing' /\ tables' = ReadTables'
        /\ \E M : CodeTable(data', codes', M) /\ DecoderAt(M, result, index, length, code)'
    BY <1>1, <1>3, <1>4, <1>11, <1>13
  <2> QED BY <2>1, <1>10 DEF DecoderInv
<1>20. AnswerInv'
  BY <1>10 DEF AnswerInv
<1> QED BY <1>10, <1>16, <1>17, <1>18, <1>19, <1>20 DEF IInv

\* What is returned is the data, or the beginning of it.
LEMMA RevertModelInv == IInv /\ RevertModel => IInv'
<1> SUFFICES ASSUME IInv, RevertModel PROVE IInv'
  OBVIOUS
<1>1. /\ phase = "decode" /\ ~(index <= UsedBits) /\ phase' = "done"
      /\ result' = Reverted(result, UseModel)
      /\ input' = input /\ data' = data /\ heap' = heap /\ codes' = codes /\ file' = file
      /\ lost' = lost /\ index' = index /\ length' = length /\ code' = code
  <2>1. /\ phase = "decode" /\ index > UsedBits /\ phase' = "done"
        /\ result' = Reverted(result, UseModel)
        /\ input' = input /\ data' = data /\ heap' = heap /\ codes' = codes /\ file' = file
        /\ lost' = lost /\ index' = index /\ length' = length /\ code' = code
    BY DEF RevertModel, encoding
  <2>2. index \in Nat /\ UsedBits \in Nat
    <3>1. /\ data \in Seq(Value) /\ data # <<>> /\ FileOK
          /\ ~HeaderMissing /\ index \in Nat
      BY <2>1 DEF IInv, TypeOK, DataInv, FileInv, DecoderInv
    <3>2. PICK N : CodeTable(data, codes, N)
      BY <2>1 DEF IInv, DecoderInv
    <3>3. HeaderOK
      BY <3>1, <3>2, HeaderRead
    <3> QED BY <3>1, <3>3 DEF HeaderOK
  <2>3. ~(index <= UsedBits)
    <3> DEFINE u == UsedBits
    <3> HIDE DEF u
    <3>1. index > u /\ index \in Nat /\ u \in Nat
      BY <2>1, <2>2 DEF u
    <3>2. ~(index <= u)
      BY <3>1
    <3> QED BY <3>2 DEF u
  <2> QED BY <2>1, <2>3
<1>2. /\ data \in Seq(Value) /\ data # <<>> /\ FileOK /\ ~HeaderMissing
      /\ input \in Seq(Value) /\ data = Applied(input, UseModel)
  BY <1>1 DEF IInv, TypeOK, DataInv, FileInv, DecoderInv
<1>3. PICK N : CodeTable(data, codes, N) /\ DecoderAt(N, result, index, length, code)
  BY <1>1 DEF IInv, DecoderInv
<1>4. HeaderOK
  BY <1>2, <1>3, HeaderRead
<1>5. result \in Seq(Value) /\ Begins(result, data)
  <2>1. /\ result \in Seq(Value) /\ Len(result) \in 0..Len(data)
        /\ \A j \in 1..Len(result) : result[j] = data[j]
    BY <1>3 DEF DecoderAt
  <2>2. Len(data) \in Nat
    BY <1>2, LenProperties
  <2>3. Len(result) <= Len(data)
    BY <2>1, <2>2
  <2> QED BY <2>1, <2>3 DEF Begins
<1>6. /\ result' \in Seq(Value) /\ Len(result') = Len(result) /\ Begins(result', input)
  <2>1. Begins(result, Applied(input, UseModel))
    BY <1>2, <1>5
  <2> QED BY <2>1, <1>1, <1>2, <1>5, ModelReverted
<1>7. ~lost => length = 0 /\ result' = input
  <2> SUFFICES ASSUME ~lost PROVE length = 0 /\ result' = input
    OBVIOUS
  <2>1. length = 0 /\ Len(result) = Len(data)
    BY <1>1, <1>2, <1>3, <1>4, AllBitsRead
  <2>2. Len(data) = Len(input)
    BY <1>2, AppliedType
  <2>3. Len(result') = Len(input) /\ \A i \in 1..Len(result') : result'[i] = input[i]
    BY <2>1, <2>2, <1>6 DEF Begins
  <2>4. result' = input
    BY <2>3, <1>2, <1>6, SeqEqual
  <2> QED BY <2>1, <2>4
<1>8. TypeOK'
  BY <1>1, <1>6 DEF IInv, TypeOK
<1>9. DataInv' /\ HeapInv' /\ CodesInv' /\ FileInv' /\ DecoderInv'
  BY <1>1, <1>2 DEF IInv, DataInv, HeapInv, CodesInv, FileInv, DecoderInv
<1>10. AnswerInv'
  BY <1>1, <1>6, <1>7 DEF AnswerInv
<1> QED BY <1>8, <1>9, <1>10 DEF IInv

\* Nothing changes when nothing happens.
LEMMA StutterInv == IInv /\ UNCHANGED vars => IInv'
<1> SUFFICES ASSUME IInv, UNCHANGED vars PROVE IInv'
  OBVIOUS
<1>1. /\ input' = input /\ data' = data /\ phase' = phase /\ heap' = heap /\ codes' = codes
      /\ file' = file /\ lost' = lost /\ tables' = tables /\ index' = index
      /\ length' = length /\ code' = code /\ result' = result
  BY DEF vars
<1>2. TypeOK' /\ DataInv' /\ HeapInv' /\ CodesInv' /\ AnswerInv'
  BY <1>1 DEF IInv, TypeOK, DataInv, HeapInv, CodesInv, AnswerInv
<1>3. FileInv'
  <2>1. Written' = Written
    BY <1>1, SameWritten
  <2>2. FileOK => FileOK'
    BY <2>1, <1>1 DEF FileOK
  <2> QED BY <2>2, <1>1 DEF IInv, FileInv
<1>4. DecoderInv'
  <2>1. (HeaderMissing <=> HeaderMissing') /\ ReadTables' = ReadTables
    BY <1>1, SameHeader
  <2>2. ASSUME NEW N, CodeTable(data, codes, N), DecoderAt(N, result, index, length, code)
        PROVE  CodeTable(data', codes', N) /\ DecoderAt(N, result, index, length, code)'
    <3>1. DecoderAt(N, result', index', length', code')
      BY <2>2, <1>1
    <3> QED BY <3>1, <2>2, <1>1, SameDecoder
  <2> QED BY <2>1, <2>2, <1>1 DEF IInv, DecoderInv
<1> QED BY <1>2, <1>3, <1>4 DEF IInv

\* Every step keeps the invariant.
LEMMA NextInv == IInv /\ [Next]_vars => IInv'
<1> SUFFICES ASSUME IInv, [Next]_vars PROVE IInv'
  OBVIOUS
<1>1. CASE ApplyModel
  BY <1>1, ApplyModelInv
<1>2. CASE Merge
  BY <1>2, MergeInv
<1>3. CASE SortCodes
  BY <1>3, SortCodesInv
<1>4. CASE WriteFile
  BY <1>4, WriteFileInv
<1>5. CASE ReadHeader
  BY <1>5, ReadHeaderInv
<1>6. CASE DecodeBit
  BY <1>6, DecodeBitInv
<1>7. CASE RevertModel
  BY <1>7, RevertModelInv
<1>8. CASE LoseEnd
  BY <1>8, LoseEndInv
<1>9. CASE UNCHANGED vars
  BY <1>9, StutterInv
<1>10. CASE ReadNothing
  BY <1>10, ReadNothingInv
<1> QED BY <1>1, <1>2, <1>3, <1>4, <1>5, <1>6, <1>7, <1>8, <1>9, <1>10 DEF Next, Step, Done

-----------------------------------------------------------------------------
(***************************************************************************)
(* The theorems.                                                           *)
(***************************************************************************)
\* The invariant holds of encodeStatic and decodeStatic for every width of the values
\* and of int, whichever way heap and sort break ties, and for data of every length.
THEOREM SpecInvariant == Spec => []IInv
<1>1. Init => IInv
  BY InitInv
<1>2. IInv /\ [Next]_vars => IInv'
  BY NextInv
<1>3. QED
  BY <1>1, <1>2, PTL DEF Spec

\* Every variable keeps its type: what is written are bytes and what is decoded are
\* values of T.
THEOREM TypeCorrect == Spec => []TypeOK
<1>1. IInv => TypeOK
  BY DEF IInv
<1>2. QED
  BY <1>1, SpecInvariant, PTL

\* The codes transformCodes leaves are a complete prefix code, whatever the tree.
THEOREM PrefixCodeComplete == Spec => []CompletePrefixCode
<1>1. IInv => CompletePrefixCode
  BY CodeIsComplete DEF IInv, CodesInv, CompletePrefixCode
<1>2. QED
  BY <1>1, SpecInvariant, PTL

\* decodeStatic never indexes its tables behind their end, and ends between two codes
\* unless the end of the file is lost.
THEOREM TablesSuffice == Spec => []TablesCoverCodes
<1>1. IInv => TablesCoverCodes
  <2> SUFFICES ASSUME IInv PROVE TablesCoverCodes
    OBVIOUS
  <2>1. phase = "done" /\ ~lost => length = 0
    BY DEF IInv, AnswerInv
  <2>2. ASSUME phase = "decode" PROVE length < Len(tables.zeros) - 1
    <3>1. /\ data \in Seq(Value) /\ data # <<>> /\ FileOK
          /\ ~HeaderMissing /\ tables = ReadTables
      BY <2>2 DEF IInv, TypeOK, DataInv, FileInv, DecoderInv
    <3>2. PICK N : CodeTable(data, codes, N) /\ DecoderAt(N, result, index, length, code)
      BY <2>2 DEF IInv, DecoderInv
    <3>3. HeaderOK
      BY <3>1, <3>2, HeaderRead
    <3>4. TablesOf(tables, ByteLengths, MaxCodeLength)
      BY <3>1, <3>2, <3>3, TablesRight
    <3> QED BY <3>1, <3>2, <3>4, TablesHold
  <2> QED BY <2>1, <2>2 DEF TablesCoverCodes
<1>2. QED
  BY <1>1, SpecInvariant, PTL

\* decodeStatic returns an error only of a file whose end is lost: the comparison
\* with symbolsLength (src/static_decoding.h) never fails.
THEOREM ErrorsAreReal == Spec => [](phase = "error" => lost)
<1>1. IInv => (phase = "error" => lost)
  BY DEF IInv, AnswerInv
<1>2. QED
  BY <1>1, SpecInvariant, PTL

\* The static codec is lossless: every step is one of LosslessCodec or none.  What
\* decodeStatic returns is what encodeStatic was given, or of a file that was cut
\* short a beginning of it, or an error; and only for no data, for so much that a
\* code may be as long as an int, and for a file of which nothing is left, is the code
\* without a meaning.
THEOREM Lossless == Spec => Codec!Init /\ [][Codec!Next]_(Codec!vars)
<1>1. Init => Codec!Init
  BY DEF Init, Codec!Init
<1>2. IInv /\ IInv' /\ [Next]_vars => [Codec!Next]_(Codec!vars)
  <2> SUFFICES ASSUME IInv, IInv', [Next]_vars PROVE [Codec!Next]_(Codec!vars)
    OBVIOUS
  <2>1. CASE RevertModel
    <3>1. /\ phase = "decode" /\ phase' = "done" /\ input' = input /\ lost' = lost
          /\ file' = file
      BY <2>1 DEF RevertModel, encoding
    <3>2. Begins(result', input) /\ (~lost => result' = input)
      BY <3>1 DEF IInv, AnswerInv
    <3>3. input \in Seq(Value) /\ result' \in Seq(Value)
      BY <3>1 DEF IInv, TypeOK
    <3>4. IsPrefix(result', input)
      BY <3>2, <3>3 DEF Begins, IsPrefix
    <3>5. QED
      BY <3>1, <3>2, <3>4 DEF Codec!Next, Codec!Return
  <2>2. CASE LoseEnd
    <3>1. ~lost /\ lost' = TRUE /\ phase = "read" /\ phase' = phase /\ input' = input
      BY <2>2 DEF LoseEnd
    <3>2. QED
      BY <3>1 DEF Codec!Next, Codec!LoseEnd
  <2>3. CASE ApplyModel \/ SortCodes
    <3>1. /\ phase \in {"apply", "build"} /\ input' = input /\ lost' = lost
          /\ phase' \in {"build", "write", "undefined"} /\ file' = file /\ ~lost
      BY <2>3 DEF ApplyModel, SortCodes, IInv, FileInv
    <3>2. CASE phase' = "undefined"
      <4>1. Len(input) \notin 1..(FewestSamples(IntBits) - 1)
        BY <3>1, <3>2 DEF IInv, AnswerInv
      <4>2. QED
        BY <3>1, <3>2, <4>1 DEF Codec!Next, Codec!Fail
    <3>3. CASE phase' # "undefined"
      BY <3>1, <3>3 DEF Codec!vars
    <3>4. QED
      BY <3>2, <3>3
  <2>4. CASE Merge \/ WriteFile \/ DecodeBit
    <3>1. /\ phase \in {"build", "write", "decode"} /\ phase' \in {"build", "read", "decode"}
          /\ input' = input /\ lost' = lost /\ (file' = file \/ ~lost)
      <4>1. CASE Merge
        BY <4>1, Zenon DEF Merge
      <4>2. CASE WriteFile
        BY <4>2 DEF WriteFile, IInv, FileInv
      <4>3. CASE DecodeBit
        BY <4>3, DecodeBitInv DEF DecodeBit, encoding
      <4>4. QED
        BY <2>4, <4>1, <4>2, <4>3
    <3>2. QED
      BY <3>1 DEF Codec!vars
  <2>5. CASE ReadHeader
    <3>1. /\ phase = "read" /\ phase' \in {"error", "decode"} /\ input' = input
          /\ lost' = lost /\ file' = file
      BY <2>5 DEF ReadHeader, encoding
    <3>2. CASE phase' = "error"
      <4>1. lost'
        BY <3>2 DEF IInv, AnswerInv
      <4>2. QED
        BY <3>1, <3>2, <4>1 DEF Codec!Next, Codec!Reject
    <3>3. CASE phase' # "error"
      BY <3>1, <3>3 DEF Codec!vars
    <3>4. QED
      BY <3>2, <3>3
  <2>6. CASE UNCHANGED vars
    BY <2>6 DEF vars, Codec!vars
  <2>7. CASE ReadNothing
    <3>1. /\ phase = "read" /\ phase' = "undefined" /\ input' = input
          /\ lost' = lost /\ file' = file /\ file = <<>>
      BY <2>7 DEF ReadNothing, Unreadable, encoding
    <3>2. lost
      BY <2>7, ReadNothingLost
    <3>3. QED
      BY <3>1, <3>2 DEF Codec!Next, Codec!Fail
  <2>8. QED
    BY <2>1, <2>2, <2>3, <2>4, <2>5, <2>6, <2>7 DEF Next, Step, Done
<1>3. QED
  BY <1>1, <1>2, SpecInvariant, PTL DEF Spec

-----------------------------------------------------------------------------
(***************************************************************************)
(* No prefix code is shorter.  While the tree is built, lengths for all    *)
(* symbols are lengths for the trees of the heap and the paths in them, of *)
(* no greater cost; a merge keeps that, because it takes the lightest.     *)
(***************************************************************************)
Weights(h) == [t \in h |-> t.weight]
CountsOf(d) == [s \in ToSet(d) |-> Cardinality({i \in DOMAIN d : d[i] = s})]

\* p is how deep the symbols are.
Shallow(d, h, p) ==
  /\ p \in [ToSet(d) -> Nat]
  /\ \A t \in h : \A l \in t.leaves : /\ l.value \in ToSet(d) /\ p[l.value] = Len(l.path)
                                      /\ Len(l.path) < Cardinality(Values(t))
  /\ \A D \in Nat : \A f :
       Kraft(f, ToSet(d), D) =>
         \E g : /\ Kraft(g, h, D)
                /\ CostOf(g, Weights(h), h) + CostOf(p, CountsOf(d), ToSet(d))
                     <= CostOf(f, CountsOf(d), ToSet(d))

\* Lengths of codes for the data d of which none are shorter.
Best(d, p) ==
  LET S == ToSet(d)
  IN /\ p \in [S -> 1..Cardinality(S)] /\ Kraft(p, S, Cardinality(S))
     /\ \A s \in S : Cardinality(S) = 1 \/ p[s] < Cardinality(S)
     /\ \A D \in Nat : \A f :
          Kraft(f, S, D) /\ (\A s \in S : f[s] >= 1)
            => CostOf(p, CountsOf(d), S) <= CostOf(f, CountsOf(d), S)

\* The symbols and where they are.
LEMMA CountFacts ==
  ASSUME NEW d, d \in Seq(Value)
  PROVE  /\ IsFiniteSet(ToSet(d)) /\ ToSet(d) \subseteq Value
         /\ IsFiniteSet(DOMAIN d) /\ \A i \in DOMAIN d : d[i] \in ToSet(d)
         /\ CountsOf(d) \in [ToSet(d) -> Nat]
         /\ \A s \in ToSet(d) : CountsOf(d)[s] = TimesIn(d, s)
<1>1. ToSet(d) \subseteq Value
  BY SeenIsFinite
<1>2. IsFiniteSet(ToSet(d))
  BY <1>1, ValueFacts, FS_Subset
<1>3. IsFiniteSet(1..Len(d)) /\ DOMAIN d = 1..Len(d)
  BY FS_Interval
<1>4. \A i \in DOMAIN d : d[i] \in ToSet(d)
  BY DEF ToSet
<1>5. \A s \in ToSet(d) : TimesIn(d, s) \in Nat
  BY <1>1, LeafFacts
<1>6. /\ CountsOf(d) \in [ToSet(d) -> Nat]
      /\ \A s \in ToSet(d) : CountsOf(d)[s] = TimesIn(d, s)
  BY <1>5 DEF CountsOf, TimesIn
<1> QED BY <1>1, <1>2, <1>3, <1>4, <1>6

\* The cost of lengths p is the sum over the samples.
LEMMA CostBySample ==
  ASSUME NEW d, d \in Seq(Value), NEW p, p \in [ToSet(d) -> Nat]
  PROVE  /\ [i \in DOMAIN d |-> p[d[i]]] \in [DOMAIN d -> Nat]
         /\ CostOf(p, CountsOf(d), ToSet(d)) = Total([i \in DOMAIN d |-> p[d[i]]], DOMAIN d)
         /\ CostOf(p, CountsOf(d), ToSet(d)) \in Nat
<1> DEFINE I == DOMAIN d
           S == ToSet(d)
           g == [i \in I |-> p[d[i]]]
           w == CountsOf(d)
<1>1. IsFiniteSet(S) /\ IsFiniteSet(I) /\ \A i \in I : d[i] \in S
  BY CountFacts
<1>2. w \in [S -> Nat] /\ \A s \in S : w[s] = Cardinality(Having(d, I, s))
  BY CountFacts DEF TimesIn, Having
<1>3. p \in [S -> Nat] /\ g \in [I -> Nat] /\ \A i \in I : g[i] = p[d[i]]
  BY <1>1
<1> HIDE DEF I, S, w, g
<1>4. CostOf(p, w, S) = Total(g, I)
  BY <1>1, <1>2, <1>3, TotalByValue
<1>5. Total(g, I) \in Nat
  BY <1>1, <1>3, UnitsFinite
<1> QED BY <1>3, <1>4, <1>5 DEF I, S, w, g

\* At first every symbol is a tree, and no path is long.
LEMMA FirstShallow ==
  ASSUME NEW d, d \in Seq(Value)
  PROVE  \E p : Shallow(d, SeenLeaves(d), p)
<1> DEFINE S == ToSet(d)
           h == SeenLeaves(d)
           w == CountsOf(d)
           v == Weights(h)
           p == [s \in S |-> 0]
           b == [s \in S |-> Leaf(s, TimesIn(d, s))]
<1>1. /\ IsFiniteSet(S) /\ S \subseteq Value /\ w \in [S -> Nat]
      /\ \A s \in S : w[s] = TimesIn(d, s)
  BY CountFacts
<1>2. b \in [S -> h] /\ \A t \in h : \E s \in S : b[s] = t
  BY DEF SeenLeaves
<1>3. \A r, s \in S : b[r] = b[s] => r = s
  BY LeavesDiffer
<1>4. \A s \in S : v[b[s]] = w[s] /\ b[s].weight \in Nat
  <2> SUFFICES ASSUME NEW s \in S PROVE v[b[s]] = w[s] /\ b[s].weight \in Nat
    OBVIOUS
  <2>1. b[s] \in h /\ b[s].weight = TimesIn(d, s) /\ TimesIn(d, s) \in Nat
    BY <1>1, <1>2, LeafFacts
  <2> QED BY <1>1, <2>1 DEF Weights
<1>5. v \in [h -> Nat]
  BY <1>2, <1>4 DEF Weights
<1>6. IsFiniteSet(h)
  BY SeenIsFinite
<1>7. \A t \in h : \A l \in t.leaves : /\ l.value \in S /\ p[l.value] = Len(l.path)
                                       /\ Len(l.path) < Cardinality(Values(t))
  <2> SUFFICES ASSUME NEW t \in h, NEW l \in t.leaves
               PROVE  /\ l.value \in S /\ p[l.value] = Len(l.path)
                      /\ Len(l.path) < Cardinality(Values(t))
    OBVIOUS
  <2>1. PICK s \in S : t = Leaf(s, TimesIn(d, s))
    BY DEF SeenLeaves
  <2>2. l.value = s /\ l.path = <<>> /\ Values(t) = {s}
    BY <1>1, <2>1, LeafFacts
  <2>3. Len(l.path) = 0 /\ Cardinality(Values(t)) = 1
    BY <2>2, FS_Singleton
  <2> QED BY <2>2, <2>3
<1>8. CostOf(p, w, S) = 0
  <2>1. p \in [S -> 0..0]
    OBVIOUS
  <2>2. Costs(p, w, S) \in [S -> Nat]
    BY <1>1, <2>1, FitFacts
  <2>3. Costs(p, w, S) = Scaled(0, w, S)
    <3>1. \A s \in S : w[s] * p[s] = 0 * w[s]
      <4> SUFFICES ASSUME NEW s \in S PROVE w[s] * p[s] = 0 * w[s]
        OBVIOUS
      <4>1. w[s] \in Nat /\ p[s] = 0
        BY <1>1
      <4> QED BY <4>1
    <3> QED BY <3>1 DEF Costs, Scaled
  <2> HIDE DEF S, w, p
  <2>4. CostOf(p, w, S) = 0 * Total(w, S)
    BY <1>1, <2>2, <2>3, TotalScaled DEF CostOf
  <2>5. Total(w, S) \in Nat
    BY <1>1, UnitsFinite
  <2> QED BY <2>4, <2>5
<1>9. ASSUME NEW D \in Nat, NEW f, Kraft(f, S, D)
      PROVE  \E g : Kraft(g, h, D) /\ CostOf(g, v, h) + CostOf(p, w, S) <= CostOf(f, w, S)
  <2>1. f \in [S -> 0..D] /\ Total(Room(f, S, D), S) <= 2 ^ D
    BY <1>9 DEF Kraft
  <2> DEFINE g == [t \in h |-> f[CHOOSE s \in S : b[s] = t]]
  <2>2. \A s \in S : g[b[s]] = f[s]
    <3> SUFFICES ASSUME NEW s \in S PROVE g[b[s]] = f[s]
      OBVIOUS
    <3>1. b[s] \in h
      BY <1>2
    <3> DEFINE r == CHOOSE r \in S : b[r] = b[s]
    <3>2. r \in S /\ b[r] = b[s]
      OBVIOUS
    <3>3. r = s
      <4> HIDE DEF r, b
      <4> QED BY <1>3, <3>2
    <3> QED BY <3>1, <3>3
  <2> HIDE DEF g, b
  <2>3. g \in [h -> 0..D]
    <3>1. g = [t \in h |-> g[t]]
      BY DEF g
    <3>2. \A t \in h : g[t] \in 0..D
      BY <1>2, <2>1, <2>2
    <3> QED BY <3>1, <3>2
  <2> HIDE DEF S, h, v, w
  <2>4. /\ Room(f, S, D) \in [S -> Nat] /\ Costs(f, w, S) \in [S -> Nat]
        /\ CostOf(f, w, S) \in Nat
    BY <1>1, <2>1, FitFacts
  <2>5. Room(g, h, D) \in [h -> Nat] /\ Costs(g, v, h) \in [h -> Nat]
    BY <1>5, <1>6, <2>3, FitFacts
  <2>6. \A s \in S : /\ Room(g, h, D)[b[s]] = Room(f, S, D)[s]
                     /\ Costs(g, v, h)[b[s]] = Costs(f, w, S)[s]
    BY <1>2, <1>4, <2>2 DEF Room, Costs
  <2>7. Total(Room(g, h, D), h) = Total(Room(f, S, D), S)
    <3> DEFINE F == Room(f, S, D)
               G == Room(g, h, D)
    <3>1. F \in [S -> Nat] /\ G \in [h -> Nat] /\ \A s \in S : G[b[s]] = F[s]
      BY <2>4, <2>5, <2>6
    <3> HIDE DEF F, G, p
    <3>2. /\ IsFiniteSet(S) /\ b \in [S -> h]
          /\ \A r, s \in S : b[r] = b[s] => r = s
          /\ \A t \in h : \E s \in S : b[s] = t
      BY <1>1, <1>2, <1>3
    <3>3. Total(G, h) = Total(F, S)
      BY <3>1, <3>2, TotalRenamed, SMTT(30)
    <3> QED BY <3>3 DEF F, G
  <2>8. Total(Costs(g, v, h), h) = Total(Costs(f, w, S), S)
    <3> DEFINE F == Costs(f, w, S)
               G == Costs(g, v, h)
    <3>1. F \in [S -> Nat] /\ G \in [h -> Nat] /\ \A s \in S : G[b[s]] = F[s]
      BY <2>4, <2>5, <2>6
    <3> HIDE DEF F, G, p
    <3>2. /\ IsFiniteSet(S) /\ b \in [S -> h]
          /\ \A r, s \in S : b[r] = b[s] => r = s
          /\ \A t \in h : \E s \in S : b[s] = t
      BY <1>1, <1>2, <1>3
    <3>3. Total(G, h) = Total(F, S)
      BY <3>1, <3>2, TotalRenamed, SMTT(30)
    <3> QED BY <3>3 DEF F, G
  <2>9. Kraft(g, h, D)
    BY <2>1, <2>3, <2>7 DEF Kraft
  <2>10. CostOf(g, v, h) + CostOf(p, w, S) <= CostOf(f, w, S)
    BY <1>8, <2>4, <2>8 DEF CostOf
  <2> QED BY <2>9, <2>10
<1>10. p \in [S -> Nat]
  OBVIOUS
<1> HIDE DEF p, S, h, v, w
<1>11. Shallow(d, h, p)
  BY <1>7, <1>9, <1>10 DEF Shallow, S, v, w
<1> QED BY <1>11 DEF h

\* One bit more for the symbols of V costs a bit for each sample that has one.
Raised(p, V) == [s \in DOMAIN p |-> IF s \in V THEN p[s] + 1 ELSE p[s]]
Located(d, V) == {i \in DOMAIN d : d[i] \in V}

LEMMA RaisedCost ==
  ASSUME NEW d, d \in Seq(Value), NEW p, p \in [ToSet(d) -> Nat], NEW V
  PROVE  /\ Raised(p, V) \in [ToSet(d) -> Nat]
         /\ CostOf(Raised(p, V), CountsOf(d), ToSet(d))
              = CostOf(p, CountsOf(d), ToSet(d)) + Cardinality(Located(d, V))
         /\ CostOf(p, CountsOf(d), ToSet(d)) \in Nat
<1> DEFINE I == DOMAIN d
           A == Located(d, V)
           S == ToSet(d)
           r == Raised(p, V)
           g == [i \in I |-> p[d[i]]]
           h == [i \in I |-> r[d[i]]]
           w == CountsOf(d)
<1>1. IsFiniteSet(I) /\ A \subseteq I /\ \A i \in I : d[i] \in S
  BY CountFacts DEF Located
<1>2. r \in [S -> Nat] /\ \A s \in S : r[s] = IF s \in V THEN p[s] + 1 ELSE p[s]
  BY DEF Raised
<1>3. g \in [I -> Nat] /\ CostOf(p, w, S) = Total(g, I) /\ CostOf(p, w, S) \in Nat
  BY CostBySample
<1>4. CostOf(r, w, S) = Total(h, I)
  <2> HIDE DEF r
  <2>1. r \in [ToSet(d) -> Nat]
    BY <1>2
  <2> QED BY <2>1, CostBySample
<1>5. Marks(A, I) \in [I -> Nat] /\ Total(Marks(A, I), I) = Cardinality(A)
  <2> HIDE DEF I
  <2> QED BY <1>1, TotalOfOnes
<1>6. \A i \in I : h[i] = g[i] + Marks(A, I)[i]
  <2> SUFFICES ASSUME NEW i \in I PROVE h[i] = g[i] + Marks(A, I)[i]
    OBVIOUS
  <2>1. h[i] = r[d[i]] /\ g[i] = p[d[i]] /\ d[i] \in S
    BY <1>1
  <2>2. Marks(A, I)[i] = IF d[i] \in V THEN 1 ELSE 0
    BY DEF Marks, Located
  <2>3. p[d[i]] \in Nat
    BY <2>1
  <2> QED BY <2>1, <2>2, <2>3, <1>2
<1>7. h = Both(g, Marks(A, I), I)
  BY <1>6 DEF Both
<1> HIDE DEF I, A, S, r, g, h, w
<1>8. Total(h, I) = Total(g, I) + Total(Marks(A, I), I)
  <2> DEFINE o == Marks(A, I)
  <2>1. o \in [I -> Nat] /\ h = Both(g, o, I)
    BY <1>5, <1>7
  <2> HIDE DEF o
  <2>2. Total(Both(g, o, I), I) = Total(g, I) + Total(o, I)
    BY <1>1, <1>3, <2>1, TotalOfSum
  <2> QED BY <2>1, <2>2 DEF o
<1>9. CostOf(r, w, S) = CostOf(p, w, S) + Cardinality(A)
  BY <1>3, <1>4, <1>5, <1>8
<1> QED BY <1>2, <1>3, <1>9 DEF r, S, w, A

\* Merging the two lightest trees keeps what is best.
LEMMA MergedShallow ==
  ASSUME NEW d, d \in Seq(Value), NEW h, IsFiniteSet(h), Forest(d, h),
         NEW left, left \in Lightest(h), NEW right, right \in Lightest(h \ {left}),
         NEW p, Shallow(d, h, p)
  PROVE  \E q : Shallow(d, MergedHeap(h, left, right), q)
<1> DEFINE t == Parent(left, right)
           h2 == MergedHeap(h, left, right)
           S == ToSet(d)
           w == CountsOf(d)
           V == Values(t)
           q == Raised(p, V)
<1>1. /\ left \in h /\ right \in h /\ left # right
      /\ \A u \in h : left.weight <= u.weight
      /\ \A u \in h \ {left} : right.weight <= u.weight
  BY DEF Lightest
<1>2. /\ \A u \in h : TreeOK(d, u)
      /\ \A u, v \in h : u # v => Values(u) \cap Values(v) = {}
  BY DEF Forest
<1>3. TreeOK(d, t)
  BY <1>1, <1>2, ParentOK
<1>4. \A u \in h : /\ u.leaves \subseteq [value : Value, path : Seq({0, 1})]
                   /\ IsFiniteSet(u.leaves) /\ u.leaves # {} /\ u.weight \in Nat
  BY <1>2, FS_CardinalityType DEF TreeOK, LeavesOK
<1>5. /\ V = Values(left) \cup Values(right)
      /\ \A k \in t.leaves :
              \/ \E l \in left.leaves : /\ Len(l.path) \in Nat /\ Len(k.path) = Len(l.path) + 1
                                        /\ k.value = l.value
              \/ \E l \in right.leaves : /\ Len(l.path) \in Nat /\ Len(k.path) = Len(l.path) + 1
                                         /\ k.value = l.value
  BY <1>1, <1>4, ParentFacts
<1>6. t.weight = left.weight + right.weight
  BY DEF Parent
<1>7. /\ IsFiniteSet(Places(d, t)) /\ t.weight = Cardinality(Places(d, t))
      /\ Places(d, t) = {i \in DOMAIN d : d[i] \in V}
  BY <1>3 DEF TreeOK, Places
<1>8. h2 = (h \ {left, right}) \cup {t}
  BY DEF MergedHeap
<1>9. /\ p \in [S -> Nat]
      /\ \A u \in h : \A l \in u.leaves : /\ l.value \in S /\ p[l.value] = Len(l.path)
                                          /\ Len(l.path) < Cardinality(Values(u))
  BY DEF Shallow
<1> HIDE DEF t, V, q
<1>10. \A u \in h : IsFiniteSet(Values(u)) /\ Cardinality(Values(u)) \in Nat \ {0}
  <2> SUFFICES ASSUME NEW u \in h
               PROVE  IsFiniteSet(Values(u)) /\ Cardinality(Values(u)) \in Nat \ {0}
    OBVIOUS
  <2> DEFINE f == [l \in u.leaves |-> l.value]
  <2>1. Values(u) = {f[l] : l \in u.leaves}
    BY DEF Values
  <2>2. IsFiniteSet(u.leaves)
    BY <1>4
  <2> HIDE DEF f
  <2>3. Values(u) \subseteq Value
    BY <1>4 DEF Values
  <2>4. IsFiniteSet(Values(u))
    BY <2>3, ValueFacts, FS_Subset
  <2>5. Values(u) # {}
    BY <1>4 DEF Values
  <2> QED BY <2>4, <2>5, FS_CardinalityType, FS_EmptySet
<1>11. IsFiniteSet(V) /\ Cardinality(V) = Cardinality(Values(left)) + Cardinality(Values(right))
  <2> DEFINE A == Values(left)
             B == Values(right)
  <2>1. IsFiniteSet(A) /\ IsFiniteSet(B) /\ A \cap B = {}
    BY <1>1, <1>2, <1>10
  <2>2. Cardinality(A) \in Nat /\ Cardinality(B) \in Nat
    BY <1>1, <1>10
  <2> HIDE DEF A, B
  <2>3. /\ IsFiniteSet(A \cup B)
        /\ Cardinality(A \cup B) = Cardinality(A) + Cardinality(B) - Cardinality(A \cap B)
    BY <2>1, FS_Union
  <2>4. Cardinality(A \cap B) = 0
    BY <2>1, FS_EmptySet
  <2> DEFINE a == Cardinality(A)
             b == Cardinality(B)
             c == Cardinality(A \cap B)
             e == Cardinality(A \cup B)
  <2>5. e = a + b - c /\ c = 0 /\ a \in Nat /\ b \in Nat
    BY <2>2, <2>3, <2>4
  <2> HIDE DEF a, b, c, e
  <2>6. e = a + b
    BY <2>5
  <2> QED BY <1>5, <2>3, <2>6 DEF a, b, e, A, B
<1>12. /\ q \in [S -> Nat] /\ CostOf(p, w, S) \in Nat
       /\ CostOf(q, w, S) = CostOf(p, w, S) + t.weight
  <2>1. Located(d, V) = Places(d, t)
    BY <1>7 DEF Located
  <2>2. p \in [ToSet(d) -> Nat]
    BY <1>9
  <2> HIDE DEF S, w
  <2>3. /\ Raised(p, V) \in [ToSet(d) -> Nat]
        /\ CostOf(Raised(p, V), CountsOf(d), ToSet(d))
             = CostOf(p, CountsOf(d), ToSet(d)) + Cardinality(Located(d, V))
        /\ CostOf(p, CountsOf(d), ToSet(d)) \in Nat
    BY <2>2, RaisedCost
  <2> QED BY <2>1, <2>3, <1>7 DEF q, S, w
<1>13. \A s \in S : q[s] = IF s \in V THEN p[s] + 1 ELSE p[s]
  BY <1>9 DEF q, Raised
<1>14. ASSUME NEW u \in h2, NEW k \in u.leaves
       PROVE  /\ k.value \in S /\ q[k.value] = Len(k.path)
              /\ Len(k.path) < Cardinality(Values(u))
  <2>1. CASE u = t
    <3>1. PICK s \in {left, right} : \E l \in s.leaves :
                 Len(l.path) \in Nat /\ Len(k.path) = Len(l.path) + 1 /\ k.value = l.value
      BY <2>1, <1>5
    <3>2. PICK l \in s.leaves :
                 Len(l.path) \in Nat /\ Len(k.path) = Len(l.path) + 1 /\ k.value = l.value
      BY <3>1
    <3>3. l.value \in S /\ p[l.value] = Len(l.path) /\ Len(l.path) < Cardinality(Values(s))
      BY <1>1, <1>9, <3>1
    <3>4. k.value \in V
      BY <1>5, <3>1, <3>2 DEF Values
    <3>5. q[k.value] = Len(k.path)
      BY <3>2, <3>3, <3>4, <1>13
    <3>6. Cardinality(Values(left)) \in Nat \ {0} /\ Cardinality(Values(right)) \in Nat \ {0}
      BY <1>1, <1>10
    <3>7. Cardinality(Values(s)) + 1 <= Cardinality(V)
      BY <3>1, <3>6, <1>11
    <3>8. Cardinality(Values(s)) \in Nat /\ Cardinality(V) \in Nat
      BY <3>1, <3>6, <1>11
    <3>9. Len(k.path) < Cardinality(V)
      BY <3>2, <3>3, <3>7, <3>8
    <3> QED BY <2>1, <3>2, <3>3, <3>5, <3>9 DEF V
  <2>2. CASE u # t
    <3>1. u \in h /\ u # left /\ u # right
      BY <2>2, <1>8
    <3>2. /\ k.value \in S /\ p[k.value] = Len(k.path)
          /\ Len(k.path) < Cardinality(Values(u))
      BY <3>1, <1>9
    <3>3. k.value \in Values(u)
      BY DEF Values
    <3>4. k.value \notin V
      BY <3>1, <3>3, <1>1, <1>2, <1>5
    <3> QED BY <3>2, <3>4, <1>13
  <2> QED BY <2>1, <2>2
<1> DEFINE v == Weights(h)
           v2 == Weights(h2)
<1>15. t \notin h \ {left, right}
  <2>1. Values(left) # {}
    BY <1>1, <1>4 DEF Values
  <2> SUFFICES ASSUME t \in h, t # left PROVE FALSE
    OBVIOUS
  <2>2. Values(t) \cap Values(left) = {}
    BY <1>1, <1>2
  <2> QED BY <2>1, <2>2, <1>5 DEF V
<1>16. Merges(h, v, left, right, h2, v2, t)
  <2>1. v \in [h -> Nat] /\ \A u \in h : v[u] = u.weight
    BY <1>4 DEF Weights
  <2>2. \A u \in h2 : u.weight \in Nat
    <3>1. t.weight \in Nat
      BY <1>1, <1>4, <1>6
    <3> QED BY <3>1, <1>4, <1>8
  <2>3. v2 \in [h2 -> Nat] /\ \A u \in h2 : v2[u] = u.weight
    BY <2>2 DEF Weights
  <2> HIDE DEF v, v2, h2
  <2>4. v2[t] = v[left] + v[right]
    BY <2>1, <2>3, <1>1, <1>6, <1>8
  <2>5. \A s \in h \ {left, right} : v2[s] = v[s]
    BY <2>1, <2>3, <1>8
  <2> QED BY <2>1, <2>3, <2>4, <2>5, <1>1, <1>8, <1>15 DEF Merges
<1>17. ASSUME NEW D \in Nat, NEW f, Kraft(f, S, D)
       PROVE  \E g : Kraft(g, h2, D) /\ CostOf(g, v2, h2) + CostOf(q, w, S) <= CostOf(f, w, S)
  <2>1. PICK g : Kraft(g, h, D) /\ CostOf(g, v, h) + CostOf(p, w, S) <= CostOf(f, w, S)
    BY <1>17 DEF Shallow
  <2>2. v \in [h -> Nat] /\ \A u \in h : v[u] = u.weight
    BY <1>4 DEF Weights
  <2>3. (\A s \in h : v[left] <= v[s]) /\ (\A s \in h \ {left} : v[right] <= v[s])
    BY <2>2, <1>1
  <2>4. v2 \in [h2 -> Nat]
    BY <1>16 DEF Merges
  <2> HIDE DEF v, v2, h2, w, S
  <2>5. /\ IsFiniteSet(h2)
        /\ \E e : /\ Kraft(e, h2, D)
                  /\ CostOf(e, v2, h2) + v[left] + v[right] <= CostOf(g, v, h)
    BY <1>16, <2>1, <2>3, MergeLowers
  <2>6. PICK e : Kraft(e, h2, D) /\ CostOf(e, v2, h2) + v[left] + v[right] <= CostOf(g, v, h)
    BY <2>5
  <2>7. CostOf(g, v, h) \in Nat
    <3>1. g \in [h -> 0..D]
      BY <2>1 DEF Kraft
    <3> QED BY <3>1, <2>2, FitFacts
  <2>8. CostOf(e, v2, h2) \in Nat
    <3>1. e \in [h2 -> 0..D]
      BY <2>6 DEF Kraft
    <3> QED BY <3>1, <2>4, <2>5, FitFacts
  <2>9. CostOf(f, w, S) \in Nat
    <3>1. f \in [S -> 0..D]
      BY <1>17 DEF Kraft
    <3>2. IsFiniteSet(S) /\ w \in [S -> Nat]
      BY CountFacts DEF S, w
    <3> QED BY <3>1, <3>2, FitFacts
  <2>10. v[left] + v[right] = t.weight /\ v[left] \in Nat /\ v[right] \in Nat
    BY <1>1, <1>4, <1>6, <2>2
  <2> DEFINE a == CostOf(e, v2, h2)
             b == CostOf(g, v, h)
             c == CostOf(f, w, S)
             k == CostOf(p, w, S)
             m == CostOf(q, w, S)
  <2>11. /\ a \in Nat /\ b \in Nat /\ c \in Nat /\ k \in Nat /\ m = k + t.weight
         /\ a + v[left] + v[right] <= b /\ b + k <= c
    BY <1>12, <2>1, <2>6, <2>7, <2>8, <2>9
  <2> HIDE DEF a, b, c, k, m
  <2>12. a + m <= c
    BY <2>10, <2>11
  <2> QED BY <2>6, <2>12 DEF a, m, c
<1> HIDE DEF S, w, h2, v2
<1>18. Shallow(d, h2, q)
  BY <1>12, <1>14, <1>17 DEF Shallow, S, w, v2
<1> QED BY <1>18 DEF h2

\* p is how deep the leaves are, and every symbol has one.
Depths(d, T, p) ==
  /\ \A s \in ToSet(d) : \E l \in T : l.value = s
  /\ \A l \in T : p[l.value] = Len(l.path)

\* The last tree has the best lengths.
LEMMA LastShallow ==
  ASSUME NEW d, d \in Seq(Value), NEW h, NEW t, h = {t}, Forest(d, h),
         NEW p, Shallow(d, h, p)
  PROVE  Best(d, p) /\ Depths(d, t.leaves, p)
<1> DEFINE S == ToSet(d)
           T == t.leaves
           n == Cardinality(S)
           w == CountsOf(d)
<1>1. /\ LeavesOK(T) /\ \A l, m \in T : l.value = m.value => l = m
      /\ \A i \in DOMAIN d : d[i] \in Values(t)
  BY DEF Forest, TreeOK
<1>2. \A s \in S : \E l \in T : l.value = s
  BY <1>1 DEF ToSet, Values
<1>3. \A l \in T : Len(l.path) \in Nat \ {0}
  BY LastOfForest DEF GoodLeaves
<1>4. /\ p \in [S -> Nat]
      /\ \A l \in T : /\ l.value \in S /\ p[l.value] = Len(l.path)
                      /\ Len(l.path) < Cardinality(Values(t))
  BY DEF Shallow
<1>5. Values(t) = S
  BY <1>2, <1>4 DEF Values
<1>6. IsFiniteSet(S) /\ n \in Nat /\ w \in [S -> Nat]
  BY CountFacts, FS_CardinalityType
<1>7. \A s \in S : p[s] \in 1..n /\ p[s] < n
  <2> SUFFICES ASSUME NEW s \in S PROVE p[s] \in 1..n /\ p[s] < n
    OBVIOUS
  <2>1. PICK l \in T : l.value = s
    BY <1>2
  <2>2. p[s] = Len(l.path) /\ Len(l.path) < n /\ Len(l.path) \in Nat \ {0}
    BY <2>1, <1>3, <1>4, <1>5
  <2> HIDE DEF n
  <2> QED BY <2>2, <1>6
<1> HIDE DEF S, T, n, w
<1>8. p \in [S -> 1..n] /\ p \in [S -> 0..n]
  <2>1. p = [s \in S |-> p[s]]
    BY <1>4
  <2>2. \A s \in S : p[s] \in 0..n
    BY <1>6, <1>7
  <2> QED BY <2>1, <2>2, <1>7
<1>9. Room(p, S, n) \in [S -> Nat] /\ CostOf(p, w, S) \in Nat
  BY <1>6, <1>8, FitFacts
<1>10. Total(LeafShares(T, n), T) = 2 ^ n
  <2>1. \A l \in T : Len(l.path) <= n
    <3> SUFFICES ASSUME NEW l \in T PROVE Len(l.path) <= n
      OBVIOUS
    <3>1. l.value \in S /\ p[l.value] = Len(l.path)
      BY <1>4
    <3> QED BY <3>1, <1>6, <1>7
  <2> QED BY <2>1, <1>1, <1>6 DEF LeavesOK
<1>11. Total(Room(p, S, n), S) = Total(LeafShares(T, n), T)
  <2> DEFINE b == [l \in T |-> l.value]
             F == LeafShares(T, n)
             G == Room(p, S, n)
  <2>1. IsFiniteSet(T)
    BY <1>1 DEF LeavesOK
  <2>2. b \in [T -> S]
    BY <1>4
  <2>3. \A l, m \in T : b[l] = b[m] => l = m
    BY <1>1
  <2>4. \A s \in S : \E l \in T : b[l] = s
    BY <1>2
  <2>5. \A l \in T : G[b[l]] = F[l]
    BY <1>4 DEF Room, LeafShares
  <2>6. G \in [S -> Nat]
    BY <1>9
  <2>7. F \in [T -> Nat]
    <3>1. F = [l \in T |-> F[l]]
      BY DEF LeafShares
    <3>2. \A l \in T : F[l] \in Nat
      BY <2>2, <2>5, <2>6
    <3> QED BY <3>1, <3>2
  <2> HIDE DEF b, F, G
  <2>8. /\ IsFiniteSet(T) /\ F \in [T -> Nat] /\ G \in [S -> Nat] /\ b \in [T -> S]
        /\ \A l, m \in T : b[l] = b[m] => l = m
        /\ \A s \in S : \E l \in T : b[l] = s
        /\ \A l \in T : G[b[l]] = F[l]
    BY <2>1, <2>2, <2>3, <2>4, <2>5, <2>6, <2>7
  <2> HIDE DEF S, T, n, w
  <2>9. Total(G, S) = Total(F, T)
    BY ONLY <2>8, TotalRenamed
  <2> QED BY <2>9 DEF F, G
<1>12. Kraft(p, S, n)
  <2>1. 2 ^ n \in Nat
    BY <1>6, PowersOfTwo
  <2> QED BY <2>1, <1>8, <1>10, <1>11 DEF Kraft
<1>13. ASSUME NEW D \in Nat, NEW f, Kraft(f, S, D)
       PROVE  CostOf(p, w, S) <= CostOf(f, w, S)
  <2> DEFINE v == Weights({t})
  <2>1. PICK g : Kraft(g, {t}, D) /\ CostOf(g, v, {t}) + CostOf(p, w, S) <= CostOf(f, w, S)
    BY <1>13 DEF Shallow, S, w
  <2>2. CostOf(g, v, {t}) \in Nat
    <3>1. g \in [{t} -> 0..D] /\ IsFiniteSet({t})
      BY <2>1, FS_Singleton DEF Kraft
    <3>2. t.weight \in Nat
      BY FS_CardinalityType DEF Forest, TreeOK
    <3>3. v \in [{t} -> Nat]
      BY <3>2 DEF Weights
    <3> HIDE DEF v
    <3> QED BY <3>1, <3>3, FitFacts
  <2>3. CostOf(f, w, S) \in Nat
    <3>1. f \in [S -> 0..D]
      BY <1>13 DEF Kraft
    <3> QED BY <3>1, <1>6, FitFacts
  <2> DEFINE a == CostOf(g, v, {t})
             b == CostOf(p, w, S)
             c == CostOf(f, w, S)
  <2>4. a \in Nat /\ b \in Nat /\ c \in Nat /\ a + b <= c
    BY <2>1, <2>2, <2>3, <1>9
  <2> HIDE DEF a, b, c
  <2>5. b <= c
    BY <2>4
  <2> QED BY <2>5 DEF b, c
<1>14. Best(d, p)
  BY <1>7, <1>8, <1>12, <1>13 DEF Best, S, w, n
<1> QED BY <1>2, <1>4, <1>14 DEF Depths, S, T

\* For a single symbol a bit each is the best.
LEMMA OneSymbolBest ==
  ASSUME NEW d, d \in Seq(Value), d # <<>>, NEW v, \A i \in DOMAIN d : d[i] = v,
         NEW p, p = [s \in ToSet(d) |-> 1]
  PROVE  Best(d, p)
<1> DEFINE S == ToSet(d)
           w == CountsOf(d)
<1>1. S = {v}
  <2>1. DOMAIN d # {}
    BY EmptySeq
  <2> QED BY <2>1 DEF ToSet
<1>2. IsFiniteSet(S) /\ Cardinality(S) = 1
  BY <1>1, FS_Singleton
<1>3. w \in [S -> Nat]
  BY CountFacts
<1> HIDE DEF S, w
<1>4. p \in [S -> 1..1] /\ p \in [S -> 0..1] /\ p[v] = 1
  BY <1>1 DEF S
<1>5. ASSUME NEW f, f \in [S -> Nat] PROVE Total(f, S) = f[v] /\ f[v] \in Nat
  <2>1. v \in S
    BY <1>1
  <2>2. Total(f, S) = Total(f, S \ {v}) + f[v] /\ f[v] \in Nat
    BY <1>2, <1>5, <2>1, TotalWithout
  <2>3. S \ {v} = {}
    BY <1>1
  <2>4. Total(f, S \ {v}) = 0
    BY <2>3, NoUnits
  <2> QED BY <2>2, <2>4
<1>6. Kraft(p, S, 1)
  <2>1. Room(p, S, 1) \in [S -> Nat]
    BY <1>2, <1>3, <1>4, FitFacts
  <2>2. Total(Room(p, S, 1), S) = Room(p, S, 1)[v]
    <3> DEFINE F == Room(p, S, 1)
    <3>1. F \in [S -> Nat]
      BY <2>1
    <3> HIDE DEF F
    <3>2. Total(F, S) = F[v]
      BY <3>1, <1>5
    <3> QED BY <3>2 DEF F
  <2>3. Room(p, S, 1)[v] = 2 ^ (1 - 1) /\ 1 - 1 = 0
    BY <1>1, <1>4 DEF Room
  <2>4. 2 ^ 0 = 1 /\ 2 ^ 1 = 2
    <3>1. 2 ^ 0 = 1 /\ 2 ^ (0 + 1) = 2 * 2 ^ 0 /\ 0 + 1 = 1
      BY PowersOfTwo
    <3> QED BY <3>1
  <2>5. Total(Room(p, S, 1), S) <= 2 ^ 1
    BY <2>2, <2>3, <2>4
  <2> QED BY <2>5, <1>4 DEF Kraft
<1>7. ASSUME NEW D \in Nat, NEW f, Kraft(f, S, D), \A s \in S : f[s] >= 1
      PROVE  CostOf(p, w, S) <= CostOf(f, w, S)
  <2>1. f \in [S -> 0..D] /\ v \in S
    BY <1>1, <1>7 DEF Kraft
  <2>2. Costs(f, w, S) \in [S -> Nat] /\ Costs(p, w, S) \in [S -> Nat]
    BY <1>2, <1>3, <1>4, <2>1, FitFacts
  <2>3. CostOf(f, w, S) = Costs(f, w, S)[v]
    <3> DEFINE F == Costs(f, w, S)
    <3>1. F \in [S -> Nat]
      BY <2>2
    <3> HIDE DEF F
    <3>2. Total(F, S) = F[v]
      BY <3>1, <1>5
    <3> QED BY <3>2 DEF F, CostOf
  <2>4. CostOf(p, w, S) = Costs(p, w, S)[v]
    <3> DEFINE F == Costs(p, w, S)
    <3>1. F \in [S -> Nat]
      BY <2>2
    <3> HIDE DEF F
    <3>2. Total(F, S) = F[v]
      BY <3>1, <1>5
    <3> QED BY <3>2 DEF F, CostOf
  <2>5. Costs(f, w, S)[v] = w[v] * f[v] /\ Costs(p, w, S)[v] = w[v] * 1
    BY <2>1, <1>4 DEF Costs
  <2> DEFINE a == w[v]
             b == f[v]
  <2>6. a \in Nat /\ b \in Nat /\ b >= 1
    BY <2>1, <1>3, <1>7
  <2> HIDE DEF a, b
  <2>7. a * 1 <= a * b
    <3>1. b - 1 \in Nat
      BY <2>6
    <3> DEFINE e == b - 1
    <3>2. e \in Nat /\ b = e + 1
      BY <2>6, <3>1
    <3> HIDE DEF e
    <3>3. a * (e + 1) = a * e + a /\ a * e \in Nat
      BY <2>6, <3>2
    <3> QED BY <2>6, <3>2, <3>3
  <2> QED BY <2>3, <2>4, <2>5, <2>7 DEF a, b
<1> QED BY <1>2, <1>4, <1>6, <1>7 DEF Best, S, w

\* The code ByteTable has for a symbol when the codes are c.
Coded(c, s) ==
  LET mine == {i \in DOMAIN c : c[i].symbol = s}
  IN IF mine = {} THEN <<>> ELSE c[Max(mine)].bits

LEMMA CodedLength ==
  ASSUME NEW d, NEW T, GoodLeaves(d, T), NEW f, Ordered(f, T), NEW s,
         \E l \in T : l.value = s, NEW m \in Nat, \A l \in T : l.value = s => Len(l.path) = m
  PROVE  Len(Coded(CodesFrom(f), s)) = m
<1> DEFINE c == CodesFrom(f)
           n == Cardinality(T)
           mine == {i \in DOMAIN c : c[i].symbol = s}
           k == Max(mine)
<1>1. /\ n \in Nat \ {0} /\ DOMAIN f = 1..n
      /\ \A i \in DOMAIN f : f[i] \in T
      /\ \A l \in T : \E i \in DOMAIN f : f[i] = l
  BY OrderedLengths
<1>2. /\ DOMAIN c = DOMAIN f
      /\ \A i \in DOMAIN f : /\ c[i].symbol = f[i].value
                             /\ c[i].bits = Digits(CodeNumbers(f)[i], Len(f[i].path))
  BY DEF CodesFrom
<1> HIDE DEF c, n
<1>3. mine \subseteq 1..n /\ mine # {}
  BY <1>1, <1>2
<1>4. k \in mine
  <2> HIDE DEF mine
  <2>1. Max(mine) \in mine
    BY <1>1, <1>3, LastPosition
  <2> QED BY <2>1
<1>5. Coded(c, s) = c[k].bits
  <2>1. Coded(c, s) = IF mine = {} THEN <<>> ELSE c[k].bits
    BY DEF Coded
  <2> HIDE DEF mine, k
  <2> QED BY <2>1, <1>3
<1>6. k \in DOMAIN f /\ f[k] \in T /\ f[k].value = s
  BY <1>1, <1>2, <1>4
<1> HIDE DEF k, mine
<1>7. Len(f[k].path) = m /\ c[k].bits = Digits(CodeNumbers(f)[k], m)
  BY <1>2, <1>6
<1>8. Len(Digits(CodeNumbers(f)[k], m)) = m
  BY DigitsAreBits
<1> QED BY <1>5, <1>7, <1>8 DEF c

\* The lengths are as good as they can be, in the tree and in the codes.
ShortInv ==
  /\ phase = "build" /\ Forest(data, heap) => \E p : Shallow(data, heap, p)
  /\ phase \in {"write", "read"} => Best(data, [s \in ToSet(data) |-> Len(Coded(codes, s))])

LEMMA ApplyModelShort == IInv /\ ApplyModel => ShortInv'
<1> SUFFICES ASSUME IInv, ApplyModel PROVE ShortInv'
  OBVIOUS
<1>1. /\ phase = "apply" /\ data' = Applied(data, UseModel) /\ heap' = FirstHeap
      /\ phase' = IF heap' = {} THEN "undefined" ELSE "build"
  BY DEF ApplyModel
<1>2. data' \in Seq(Value)
  BY AppliedType DEF IInv, TypeOK, ApplyModel
<1>3. heap' = FirstOf(data')
  <2>1. \A v : Occurrences(v) = TimesIn(data', v)
    BY DEF Occurrences, TimesIn
  <2>2. {Leaf(v, Occurrences(v)) : v \in ToSet(data')} = SeenLeaves(data')
    BY <2>1 DEF SeenLeaves
  <2> QED BY <1>1, <2>2 DEF FirstHeap, FirstOf
<1>4. phase' \in {"build", "undefined"}
  BY <1>1
<1>5. ASSUME Forest(data', heap') PROVE \E p : Shallow(data', heap', p)
  <2>1. PICK i \in DOMAIN data', j \in DOMAIN data' : data'[i] # data'[j]
    BY <1>5 DEF Forest
  <2>2. data' # <<>>
    BY <2>1
  <2>3. Cardinality(SeenLeaves(data')) # 1
    <3> SUFFICES ASSUME Cardinality(SeenLeaves(data')) = 1 PROVE FALSE
      OBVIOUS
    <3>1. OneSymbol(data', SeenLeaves(data') \cup {Leaf(0, 0)})
      BY <1>2, <2>2, FirstLonely
    <3> QED BY <2>1, <3>1 DEF OneSymbol
  <2>4. heap' = SeenLeaves(data')
    BY <1>3, <2>3 DEF FirstOf
  <2> QED BY <1>2, <2>4, FirstShallow
<1> QED BY <1>4, <1>5 DEF ShortInv

LEMMA MergeShort == IInv /\ ShortInv /\ Merge => ShortInv'
<1> SUFFICES ASSUME IInv, ShortInv, Merge PROVE ShortInv'
  OBVIOUS
<1>1. phase = "build" /\ data' = data /\ phase' = phase /\ Cardinality(heap) > 1
  <2>1. /\ phase = "build" /\ Cardinality(heap) > 1
        /\ UNCHANGED <<input, data, phase, codes, file, lost, decoding>>
    BY Zenon DEF Merge
  <2> QED BY <2>1
<1>2. PICK left \in Lightest(heap) : \E right \in Lightest(heap \ {left}) :
        heap' = MergedHeap(heap, left, right)
  BY DEF Merge, MergedHeap, Parent
<1>3. PICK right \in Lightest(heap \ {left}) : heap' = MergedHeap(heap, left, right)
  BY <1>2
<1>4. HeapOK(data, heap) /\ data \in Seq(Value)
  BY <1>1 DEF IInv, HeapInv, TypeOK
<1>5. ASSUME Forest(data, heap') PROVE \E q : Shallow(data, heap', q)
  <2>1. Forest(data, heap) /\ IsFiniteSet(heap)
    BY <1>4, <1>5 DEF HeapOK, OneSymbol, Forest
  <2>2. PICK p : Shallow(data, heap, p)
    BY <1>1, <2>1 DEF ShortInv
  <2> QED BY <1>3, <1>4, <2>1, <2>2, MergedShallow
<1> QED BY <1>1, <1>5 DEF ShortInv

LEMMA SortCodesShort == IInv /\ ShortInv /\ SortCodes => ShortInv'
<1> SUFFICES ASSUME IInv, ShortInv, SortCodes PROVE ShortInv'
  OBVIOUS
<1> DEFINE T == (CHOOSE t \in heap : TRUE).leaves
<1>1. phase = "build" /\ Cardinality(heap) = 1 /\ data' = data
  BY DEF SortCodes
<1>2. PICK leaves \in SetToSeqs(T) :
        /\ \A i, j \in DOMAIN leaves : i < j => Len(leaves[i].path) <= Len(leaves[j].path)
        /\ codes' = [i \in DOMAIN leaves |->
                      [symbol |-> leaves[i].value,
                       bits |-> Digits(CodeNumbers(leaves)[i], Len(leaves[i].path))]]
        /\ phase' = IF \E i \in DOMAIN leaves : CodeNumbers(leaves)[i] >= 2 ^ (IntBits - 1)
                    THEN "undefined" ELSE "write"
  BY DEF SortCodes
<1>3. data \in Seq(Value) /\ HeapOK(data, heap) /\ data # <<>>
  BY <1>1 DEF IInv, HeapInv, TypeOK, DataInv
<1>4. GoodLeaves(data, T)
  BY <1>1, <1>3, LastTree
<1>5. PICK t : heap = {t}
  BY <1>1, <1>3, FS_Singleton DEF HeapOK
<1>6. T = t.leaves
  BY <1>5
<1> HIDE DEF T
<1>7. Ordered(leaves, T) /\ codes' = CodesFrom(leaves)
  BY <1>2 DEF Ordered, CodesFrom
<1>8. phase' \in {"write", "undefined"}
  BY <1>2
<1> DEFINE q == [s \in ToSet(data) |-> Len(Coded(CodesFrom(leaves), s))]
<1>9. Best(data, q)
  <2>1. CASE Forest(data, heap)
    <3>1. PICK p : Shallow(data, heap, p)
      BY <1>1, <2>1 DEF ShortInv
    <3>2. /\ Best(data, p)
          /\ \A s \in ToSet(data) : \E l \in T : l.value = s
          /\ \A l \in T : p[l.value] = Len(l.path)
      <4>1. data \in Seq(Value) /\ heap = {t} /\ Forest(data, heap) /\ Shallow(data, heap, p)
        BY <1>3, <1>5, <2>1, <3>1
      <4>2. Best(data, p) /\ Depths(data, t.leaves, p)
        BY ONLY <4>1, LastShallow
      <4> QED BY <4>2, <1>6 DEF Depths
    <3>3. p \in [ToSet(data) -> Nat]
      BY <3>1 DEF Shallow
    <3>4. \A s \in ToSet(data) : Len(Coded(CodesFrom(leaves), s)) = p[s]
      <4> SUFFICES ASSUME NEW s \in ToSet(data)
                   PROVE  Len(Coded(CodesFrom(leaves), s)) = p[s]
        OBVIOUS
      <4>1. /\ \E l \in T : l.value = s
            /\ p[s] \in Nat
            /\ \A l \in T : l.value = s => Len(l.path) = p[s]
        BY <3>2, <3>3
      <4> DEFINE m == p[s]
      <4>2. /\ GoodLeaves(data, T) /\ Ordered(leaves, T) /\ m \in Nat
            /\ \E l \in T : l.value = s
            /\ \A l \in T : l.value = s => Len(l.path) = m
        BY <1>4, <1>7, <4>1
      <4> HIDE DEF m
      <4>3. Len(Coded(CodesFrom(leaves), s)) = m
        BY ONLY <4>2, CodedLength
      <4> QED BY <4>3 DEF m
    <3>5. q = p
      <4>1. q = [s \in ToSet(data) |-> p[s]]
        BY <3>4
      <4>2. p = [s \in ToSet(data) |-> p[s]]
        BY <3>3
      <4> QED BY <4>1, <4>2
    <3> QED BY <3>2, <3>5
  <2>2. CASE OneSymbol(data, heap)
    <3>1. PICK v \in Value, w \in Nat \ {0} :
               /\ \A i \in DOMAIN data : data[i] = v
               /\ heap = Lonely(v, w) \/ heap = Married(v, w)
      BY <2>2 DEF OneSymbol
    <3>2. heap # Lonely(v, w)
      <4>1. Leaf(v, w) # Leaf(0, 0)
        <5>1. Leaf(v, w).weight = w /\ Leaf(0, 0).weight = 0
          BY DEF Leaf
        <5> QED BY <5>1
      <4> QED BY <4>1, <1>5 DEF Lonely
    <3>3. T = {[value |-> 0, path |-> <<0>>], [value |-> v, path |-> <<1>>]}
      BY <1>5, <1>6, <3>1, <3>2 DEF Married
    <3>4. \A l \in T : Len(l.path) = 1
      BY <3>3
    <3>5. \E l \in T : l.value = v
      BY <3>3
    <3>6. \A s \in ToSet(data) : s = v
      BY <3>1 DEF ToSet
    <3> DEFINE m == 1
    <3>7. /\ GoodLeaves(data, T) /\ Ordered(leaves, T) /\ m \in Nat
          /\ \E l \in T : l.value = v
          /\ \A l \in T : l.value = v => Len(l.path) = m
      BY <1>4, <1>7, <3>4, <3>5
    <3> HIDE DEF m
    <3>8. Len(Coded(CodesFrom(leaves), v)) = m
      BY ONLY <3>7, CodedLength
    <3>9. q = [s \in ToSet(data) |-> 1]
      BY <3>6, <3>8 DEF m
    <3> HIDE DEF q
    <3> QED BY <1>3, <3>1, <3>9, OneSymbolBest
  <2> QED BY <2>1, <2>2, <1>3 DEF HeapOK
<1>10. Best(data', [s \in ToSet(data') |-> Len(Coded(codes', s))])
  BY <1>1, <1>7, <1>9
<1> QED BY <1>8, <1>10 DEF ShortInv

LEMMA NextShort == IInv /\ ShortInv /\ [Next]_vars => ShortInv'
<1> SUFFICES ASSUME IInv, ShortInv, [Next]_vars PROVE ShortInv'
  OBVIOUS
<1>1. CASE ApplyModel
  BY <1>1, ApplyModelShort
<1>2. CASE Merge
  BY <1>2, MergeShort
<1>3. CASE SortCodes
  BY <1>3, SortCodesShort
<1>4. CASE WriteFile
  <2>1. phase = "write" /\ phase' = "read" /\ data' = data /\ codes' = codes
    BY <1>4 DEF WriteFile
  <2> QED BY <2>1 DEF ShortInv
<1>5. CASE LoseEnd
  <2>1. phase = "read" /\ phase' = phase /\ data' = data /\ codes' = codes
    BY <1>5 DEF LoseEnd
  <2> QED BY <2>1 DEF ShortInv
<1>6. CASE ReadHeader
  <2>1. phase' \in {"error", "decode"}
    BY <1>6 DEF ReadHeader
  <2> QED BY <2>1 DEF ShortInv
<1>7. CASE DecodeBit
  <2>1. phase' = "decode" \/ phase' = "error"
    BY <1>7, DecodeBitInv
  <2> QED BY <2>1 DEF ShortInv
<1>8. CASE RevertModel
  <2>1. phase' = "done"
    BY <1>8 DEF RevertModel
  <2> QED BY <2>1 DEF ShortInv
<1>9. CASE UNCHANGED vars
  <2>1. phase' = phase /\ data' = data /\ codes' = codes /\ heap' = heap
    BY <1>9 DEF vars
  <2> QED BY <2>1 DEF ShortInv
<1>10. CASE ReadNothing
  <2>1. phase' = "undefined"
    BY <1>10 DEF ReadNothing
  <2> QED BY <2>1 DEF ShortInv
<1> QED BY <1>1, <1>2, <1>3, <1>4, <1>5, <1>6, <1>7, <1>8, <1>9, <1>10 DEF Next, Step, Done

\* The body has as many bits as the codes cost.
LEMMA BodyIsShort == IInv /\ ShortInv => ShortestBody
<1> SUFFICES ASSUME IInv, ShortInv, phase = "read" PROVE Len(Body) = LeastCost(Counted)
  BY DEF ShortestBody
<1> DEFINE S == ToSet(data)
           n == Cardinality(S)
           w == CountsOf(data)
           p == [s \in S |-> Len(Coded(codes, s))]
           k == Len(data)
           g == [i \in DOMAIN data |-> p[data[i]]]
<1>1. data \in Seq(Value) /\ data # <<>> /\ CodesOK(data, codes)
  BY DEF IInv, TypeOK, DataInv, CodesInv
<1>2. PICK N : CodeTable(data, codes, N)
  BY <1>1 DEF CodesOK
<1>3. Len(Body) = Start(k)
  BY <1>1, <1>2, BodyFacts
<1>4. DOMAIN data = 1..k /\ \A i \in DOMAIN data : data[i] \in S
  BY <1>1, CountFacts
<1>5. Start(k) = Total(g, 1..k)
  <2>1. \A i \in DOMAIN data : g[i] = Len(ByteTable(data[i]))
    BY <1>4 DEF ByteTable, Coded
  <2>2. PartLengths(Parts) = [i \in DOMAIN data |-> Len(ByteTable(data[i]))]
    BY DEF PartLengths, Parts
  <2>3. PartLengths(Parts) = g
    <3>1. g = [i \in DOMAIN data |-> g[i]]
      OBVIOUS
    <3>2. [i \in DOMAIN data |-> g[i]] = [i \in DOMAIN data |-> Len(ByteTable(data[i]))]
      BY <2>1
    <3> HIDE DEF g
    <3> QED BY <2>2, <3>1, <3>2
  <2> HIDE DEF g, k
  <2> QED BY <2>3 DEF Start, EndOfPart
<1>6. Best(data, p)
  BY DEF ShortInv
<1>7. /\ p \in [S -> 1..n] /\ Kraft(p, S, n) /\ \A s \in S : n = 1 \/ p[s] < n
      /\ \A D \in Nat : \A f : Kraft(f, S, D) /\ (\A s \in S : f[s] >= 1)
                                 => CostOf(p, w, S) <= CostOf(f, w, S)
  BY <1>6 DEF Best
<1>8. IsFiniteSet(S) /\ n \in Nat /\ w \in [S -> Nat]
  BY <1>1, CountFacts, FS_CardinalityType
<1>9. Counted = w
  BY DEF Counted, CountsOf
<1> HIDE DEF S, w, p, g, k
<1>10. CostOf(p, w, S) = Total(g, 1..k)
  <2>1. p \in [S -> Nat]
    <3>1. 1..n \subseteq Nat
      BY <1>8
    <3> HIDE DEF n
    <3> QED BY <1>7, <3>1
  <2>2. CostOf(p, CountsOf(data), ToSet(data)) = Total([i \in DOMAIN data |-> p[data[i]]], DOMAIN data)
    BY <1>1, <2>1, CostBySample DEF S
  <2> QED BY <2>2, <1>4 DEF S, w, g
<1>11. LeastCost(w) = CostOf(p, w, S)
  <2> HIDE DEF n
  <2>1. \A f : Kraft(f, S, n) /\ (\A s \in S : f[s] >= 1)
                 => CostOf(p, w, S) <= CostOf(f, w, S)
    BY <1>7, <1>8
  <2> QED BY <1>7, <1>8, <2>1, LeastCostIs DEF n
<1> QED BY <1>3, <1>5, <1>9, <1>10, <1>11

\* Huffman's theorem for this code: what merging the two lightest trees, throwing the
\* tree away and numbering the codes by their lengths leaves is as short as any prefix code.
THEOREM ShortestCodes == Spec => []ShortestBody
<1>1. Init => ShortInv
  BY DEF Init, ShortInv
<1>2. IInv /\ ShortInv /\ [Next]_vars => ShortInv'
  BY NextShort
<1>3. IInv /\ ShortInv => ShortestBody
  BY BodyIsShort
<1> QED BY <1>1, <1>2, <1>3, SpecInvariant, PTL DEF Spec
=============================================================================
