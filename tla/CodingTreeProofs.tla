-------------------------- MODULE CodingTreeProofs --------------------------
(***************************************************************************)
(* Proofs about the tree, for every finite alphabet and every RootOrder of *)
(* at least twice its size.                                                *)
(*                                                                         *)
(* First about the operations of HuffmanTree: the invariants of            *)
(* TreeInvariants hold of a new tree, and SlideNode and SplitNYT preserve  *)
(* them.  Then about the calls of CodingTree: findNodeForSwap ends and     *)
(* returns the leader, slideAndIncrement reaches the root and ends,        *)
(* updateTree leaves a sound coder behind, and getPathToSymbol finds one   *)
(* path at least.  TreeUpdateProofs uses the first part for the steps of a *)
(* call of updateTree, the proofs about the codecs use the second.         *)
(*                                                                         *)
(* It starts with what says nothing about these trees and is used by the   *)
(* proofs of several components: induction, functions defined by it,       *)
(* powers of two, sums, and how short the codes of a prefix code can be.   *)
(* Sums are cardinalities here (Total counts units), so that no fold has   *)
(* to be reasoned about.                                                   *)
(*                                                                         *)
(* A recursive function f[x] == e is CHOOSE f : f = [x |-> e]: it has to   *)
(* be shown that there is such an f before the equation may be used.       *)
(***************************************************************************)
EXTENDS CodingTree, TreeInvariants, PrefixCodes, Integers, TLAPS, FiniteSetTheorems,
        FunctionTheorems, SequenceTheorems

-----------------------------------------------------------------------------
(***************************************************************************)
(* Induction on sets of numbers, and functions defined by it.              *)
(***************************************************************************)
\* A set with 0 and every successor holds all numbers.  (Otherwise the predecessor
\* function would map the missing numbers up to n into themselves without n, which
\* contradicts the pigeonhole principle.)
LEMMA Induction ==
  ASSUME NEW S, 0 \in S, \A i \in Nat : i \in S => i + 1 \in S
  PROVE  \A n \in Nat : n \in S
<1> SUFFICES ASSUME NEW n \in Nat, n \notin S PROVE FALSE
  OBVIOUS
<1> DEFINE M == {i \in 0..n : i \notin S}
           previous == [i \in M |-> i - 1]
<1>1. IsFiniteSet(M) /\ n \in M
  <2>1. IsFiniteSet(0..n)
    BY FS_Interval
  <2>2. QED
    BY <2>1, FS_Subset
<1>2. \A i \in M : i - 1 \in M \ {n}
  <2> SUFFICES ASSUME NEW i \in M PROVE i - 1 \in M \ {n}
    OBVIOUS
  <2>1. i \in Nat /\ i # 0 /\ i <= n /\ i \notin S
    OBVIOUS
  <2>2. i - 1 \in Nat /\ (i - 1) + 1 = i
    BY <2>1
  <2>3. i - 1 \notin S
    BY <2>1, <2>2
  <2>4. QED
    BY <2>1, <2>2, <2>3
<1>3. previous \in [M -> M \ {n}]
  BY <1>2
<1>4. \A i, j \in M : i # j => previous[i] # previous[j]
  OBVIOUS
<1> HIDE DEF M, previous
<1>5. IsFiniteSet(M \ {n}) /\ Cardinality(M \ {n}) < Cardinality(M)
  <2>1. Cardinality(M) \in Nat
    BY <1>1, FS_CardinalityType
  <2>2. IsFiniteSet(M \ {n}) /\ Cardinality(M \ {n}) = Cardinality(M) - 1
    BY <1>1, FS_RemoveElement
  <2>3. QED
    BY <2>1, <2>2
<1>6. \E i, j \in M : i # j /\ previous[i] = previous[j]
  BY <1>1, <1>3, <1>5, FS_PigeonHole
<1>7. QED
  BY <1>4, <1>6

\* f starts with first, and every other value is made of the one before.
Iterate(f, X, first, N, next) ==
  /\ f \in [0..N -> X]
  /\ f[0] = first
  /\ \A i \in 1..N : f[i] = next[<<i, f[i - 1]>>]

\* A function on 0..N whose every value is made of the one before exists.
LEMMA Iterates ==
  ASSUME NEW X, NEW first, NEW N, NEW next,
         first \in X, N \in Nat, next \in [(1..N) \X X -> X]
  PROVE  \E f : Iterate(f, X, first, N, next)
<1> DEFINE Start(f, k) == /\ f \in [0..k -> X]
                          /\ f[0] = first
                          /\ \A i \in 1..k : f[i] = next[<<i, f[i - 1]>>]
           S == {k \in Nat : k <= N => \E f \in [0..k -> X] : Start(f, k)}
<1>1. 0 \in S
  <2>1. Start([i \in 0..0 |-> first], 0)
    OBVIOUS
  <2>2. QED
    BY <2>1
<1>2. ASSUME NEW k \in Nat, k \in S PROVE k + 1 \in S
  <2> SUFFICES ASSUME k + 1 <= N PROVE \E f \in [0..(k + 1) -> X] : Start(f, k + 1)
    OBVIOUS
  <2>1. PICK f \in [0..k -> X] : Start(f, k)
    BY <1>2
  <2> DEFINE g == [i \in 0..(k + 1) |-> IF i <= k THEN f[i] ELSE next[<<k + 1, f[k]>>]]
  <2>2. next[<<k + 1, f[k]>>] \in X
    OBVIOUS
  <2>3. g \in [0..(k + 1) -> X] /\ g[0] = first
    BY <2>1, <2>2
  <2>4. \A i \in 1..(k + 1) : g[i] = next[<<i, g[i - 1]>>]
    <3> SUFFICES ASSUME NEW i \in 1..(k + 1) PROVE g[i] = next[<<i, g[i - 1]>>]
      OBVIOUS
    <3>1. g[i - 1] = f[i - 1]
      OBVIOUS
    <3>2. CASE i <= k
      <4>1. i \in 1..k /\ g[i] = f[i]
        BY <3>2
      <4>2. QED
        BY <2>1, <3>1, <4>1
    <3>3. CASE i = k + 1
      <4>1. i - 1 = k /\ ~(i <= k)
        BY <3>3
      <4>2. g[i] = next[<<k + 1, f[k]>>]
        BY <4>1
      <4>3. QED
        BY <3>1, <3>3, <4>1, <4>2
    <3>4. QED
      BY <3>2, <3>3
  <2>5. QED
    BY <2>3, <2>4
<1> HIDE DEF S
<1>3. N \in S
  BY <1>1, <1>2, Induction
<1>4. QED
  BY <1>3 DEF S, Iterate

\* The same for a sequence without an end.
IterateForever(f, X, first, next) ==
  /\ f \in [Nat -> X]
  /\ f[0] = first
  /\ \A i \in Nat : f[i + 1] = next[<<i + 1, f[i]>>]

\* A recursive function on all numbers exists.
LEMMA IteratesForever ==
  ASSUME NEW X, NEW first, NEW next,
         first \in X, next \in [Nat \X X -> X]
  PROVE  \E f : IterateForever(f, X, first, next)
<1> DEFINE upTo(N) == [c \in (1..N) \X X |-> next[c]]
           Part(g, N) == Iterate(g, X, first, N, upTo(N))
           part(N) == CHOOSE g : Part(g, N)
           f == [n \in Nat |-> part(n)[n]]
<1>1. ASSUME NEW N \in Nat PROVE Part(part(N), N)
  <2>1. upTo(N) \in [(1..N) \X X -> X]
    OBVIOUS
  <2> HIDE DEF upTo
  <2>2. \E g : Iterate(g, X, first, N, upTo(N))
    BY <2>1, Iterates
  <2>3. QED
    BY <2>2
<1>2. ASSUME NEW N \in Nat, NEW g, Part(g, N)
      PROVE  /\ g \in [0..N -> X] /\ g[0] = first
             /\ \A i \in Nat : i < N => g[i + 1] = next[<<i + 1, g[i]>>]
  <2>1. /\ g \in [0..N -> X] /\ g[0] = first
        /\ \A i \in 1..N : g[i] = upTo(N)[<<i, g[i - 1]>>]
    BY <1>2 DEF Iterate
  <2>2. ASSUME NEW i \in Nat, i < N PROVE g[i + 1] = next[<<i + 1, g[i]>>]
    <3>1. i + 1 \in 1..N /\ (i + 1) - 1 = i /\ g[i] \in X
      BY <2>1, <2>2
    <3>2. <<i + 1, g[i]>> \in (1..N) \X X
      BY <3>1
    <3>3. QED
      BY <2>1, <3>1, <3>2
  <2>3. QED
    BY <2>1, <2>2
<1> HIDE DEF Part, part
<1>3. ASSUME NEW N \in Nat PROVE part(N + 1)[N] = part(N)[N]
  <2> DEFINE S == {i \in Nat : i <= N => part(N + 1)[i] = part(N)[i]}
  <2>1. 0 \in S
    BY <1>1, <1>2
  <2>2. ASSUME NEW i \in Nat, i \in S PROVE i + 1 \in S
    <3> SUFFICES ASSUME i + 1 <= N PROVE part(N + 1)[i + 1] = part(N)[i + 1]
      OBVIOUS
    <3>1. part(N + 1)[i] = part(N)[i] /\ i < N /\ i < N + 1
      BY <2>2
    <3>2. part(N)[i + 1] = next[<<i + 1, part(N)[i]>>]
      BY <1>1, <1>2, <3>1
    <3>3. part(N + 1)[i + 1] = next[<<i + 1, part(N + 1)[i]>>]
      BY <1>1, <1>2, <3>1
    <3>4. QED
      BY <3>1, <3>2, <3>3
  <2> HIDE DEF S
  <2>3. N \in S
    BY <2>1, <2>2, Induction
  <2>4. QED
    BY <2>3 DEF S
<1>4. f \in [Nat -> X]
  <2>1. \A n \in Nat : part(n)[n] \in X
    BY <1>1, <1>2
  <2>2. QED
    BY <2>1
<1>5. f[0] = first
  BY <1>1, <1>2
<1>6. ASSUME NEW i \in Nat PROVE f[i + 1] = next[<<i + 1, f[i]>>]
  <2>1. part(i + 1)[i + 1] = next[<<i + 1, part(i + 1)[i]>>]
    BY <1>1, <1>2
  <2>2. QED
    BY <1>3, <2>1
<1> HIDE DEF f
<1>7. QED
  BY <1>4, <1>5, <1>6 DEF IterateForever

-----------------------------------------------------------------------------
(***************************************************************************)
(* Powers of two.  The prover knows nothing of exponents: they are counted *)
(* here as the subsets of an interval.                                     *)
(***************************************************************************)
\* With one element more a set has twice as many subsets.
LEMMA OneMoreDoubles ==
  ASSUME NEW S, IsFiniteSet(S), NEW x, x \notin S
  PROVE  Cardinality(SUBSET (S \cup {x})) = 2 * Cardinality(SUBSET S)
<1> DEFINE A == SUBSET S
           B == {T \cup {x} : T \in A}
           f == [T \in A |-> T \cup {x}]
<1>1. IsFiniteSet(A) /\ Cardinality(A) \in Nat
  BY FS_SUBSET, FS_CardinalityType
<1>2. f \in Bijection(A, B)
  <2>1. f \in [A -> B]
    OBVIOUS
  <2>2. \A T, U \in A : f[T] = f[U] => T = U
    <3> SUFFICES ASSUME NEW T \in A, NEW U \in A, T \cup {x} = U \cup {x} PROVE T = U
      OBVIOUS
    <3>1. T = (T \cup {x}) \ {x} /\ U = (U \cup {x}) \ {x}
      OBVIOUS
    <3>2. QED
      BY <3>1
  <2>3. \A u \in B : \E T \in A : f[T] = u
    OBVIOUS
  <2> HIDE DEF f, A, B
  <2>4. QED
    BY <2>1, <2>2, <2>3, Fun_IsBij
<1>3. IsFiniteSet(B) /\ Cardinality(B) = Cardinality(A)
  <2> HIDE DEF f, A, B
  <2>1. ExistsBijection(A, B)
    BY <1>2 DEF ExistsBijection
  <2>2. QED
    BY <1>1, <2>1, FS_Bijection
<1>4. A \cap B = {}
  OBVIOUS
<1>5. SUBSET (S \cup {x}) = A \cup B
  <2>1. ASSUME NEW T \in SUBSET (S \cup {x}) PROVE T \in A \cup B
    <3>1. CASE x \notin T
      BY <3>1
    <3>2. CASE x \in T
      <4>1. T \ {x} \in A /\ T = (T \ {x}) \cup {x}
        BY <3>2
      <4>2. QED
        BY <4>1
    <3>3. QED
      BY <3>1, <3>2
  <2>2. A \cup B \subseteq SUBSET (S \cup {x})
    OBVIOUS
  <2>3. QED
    BY <2>1, <2>2
<1> HIDE DEF A, B
<1>6. Cardinality(A \cup B) = Cardinality(A) + Cardinality(B) - Cardinality(A \cap B)
  BY <1>1, <1>3, FS_Union
<1>7. Cardinality(A \cap B) = 0
  BY <1>4, FS_EmptySet
<1>8. Cardinality(A \cup B) = 2 * Cardinality(A)
  BY <1>1, <1>3, <1>6, <1>7
<1>9. Cardinality(SUBSET (S \cup {x})) = Cardinality(A \cup B)
  BY <1>5
<1>10. QED
  BY <1>8, <1>9 DEF A

\* The powers of two, by counting subsets.
LEMMA PowersOfTwo ==
  /\ 2 ^ 0 = 1
  /\ \A n \in Nat : 2 ^ n \in Nat /\ 2 ^ n > 0 /\ 2 ^ (n + 1) = 2 * 2 ^ n
<1>1. \A n \in Nat : /\ 2 ^ n = Cardinality(SUBSET (1..n))
                     /\ 2 ^ n \in Nat
  <2> SUFFICES ASSUME NEW n \in Nat
               PROVE  2 ^ n = Cardinality(SUBSET (1..n)) /\ 2 ^ n \in Nat
    OBVIOUS
  <2>1. IsFiniteSet(1..n) /\ Cardinality(1..n) = n
    BY FS_Interval
  <2>2. IsFiniteSet(SUBSET (1..n)) /\ Cardinality(SUBSET (1..n)) = 2 ^ n
    BY <2>1, FS_SUBSET
  <2>3. QED
    BY <2>2, FS_CardinalityType
<1>2. 2 ^ 0 = 1
  <2>1. 1..0 = {} /\ SUBSET {} = {{}}
    OBVIOUS
  <2>2. Cardinality({{}}) = 1
    BY FS_Singleton
  <2>3. QED
    BY <1>1, <2>1, <2>2
<1>3. ASSUME NEW n \in Nat PROVE 2 ^ (n + 1) = 2 * 2 ^ n
  <2>1. 1..(n + 1) = (1..n) \cup {n + 1} /\ n + 1 \notin 1..n /\ n + 1 \in Nat
    OBVIOUS
  <2>2. IsFiniteSet(1..n)
    BY FS_Interval
  <2>3. Cardinality(SUBSET (1..(n + 1))) = 2 * Cardinality(SUBSET (1..n))
    BY <2>1, <2>2, OneMoreDoubles
  <2>4. QED
    BY <1>1, <2>1, <2>3
<1> DEFINE S == {n \in Nat : 2 ^ n > 0}
<1>4. 0 \in S
  BY <1>2
<1>5. \A n \in Nat : n \in S => n + 1 \in S
  BY <1>1, <1>3
<1>6. \A n \in Nat : n \in S
  <2> HIDE DEF S
  <2>1. QED
    BY <1>4, <1>5, Induction
<1>7. QED
  BY <1>1, <1>2, <1>3, <1>6

\* More bits make more values.
LEMMA PowersGrow ==
  ASSUME NEW m \in Nat, NEW n \in Nat, m <= n
  PROVE  2 ^ m <= 2 ^ n
<1> DEFINE S == {i \in Nat : 2 ^ m <= 2 ^ (m + i)}
<1>1. 0 \in S
  BY PowersOfTwo
<1>2. ASSUME NEW i \in Nat, i \in S PROVE i + 1 \in S
  <2>1. m + (i + 1) = (m + i) + 1 /\ m + i \in Nat
    OBVIOUS
  <2>2. 2 ^ (m + (i + 1)) = 2 * 2 ^ (m + i) /\ 2 ^ (m + i) \in Nat
    BY <2>1, PowersOfTwo
  <2>3. 2 ^ m <= 2 ^ (m + i) /\ 2 ^ m \in Nat
    BY <1>2, PowersOfTwo
  <2>4. QED
    BY <2>2, <2>3
<1>3. n - m \in S
  <2> HIDE DEF S
  <2>1. n - m \in Nat
    OBVIOUS
  <2>2. QED
    BY <1>1, <1>2, <2>1, Induction
<1>4. m + (n - m) = n
  OBVIOUS
<1>5. QED
  BY <1>3, <1>4

\* A value is twice its half and its last bit.
LEMMA Halves ==
  ASSUME NEW v \in Nat, NEW P \in Nat, P > 0
  PROVE  /\ v \div P = 2 * (v \div (2 * P)) + ((v \div P) % 2)
         /\ v \div P \in Nat /\ (v \div P) % 2 \in {0, 1}
<1>1. (v \div P) \div 2 = v \div (2 * P)
  OBVIOUS
<1>2. v \div P \in Nat
  OBVIOUS
<1>3. ASSUME NEW w \in Nat PROVE w = 2 * (w \div 2) + (w % 2) /\ w % 2 \in {0, 1}
  <2>1. w = 2 * (w \div 2) + (w % 2)
    OBVIOUS
  <2>2. w % 2 \in 0..1
    OBVIOUS
  <2>3. QED
    BY <2>1, <2>2
<1>4. QED
  BY <1>1, <1>2, <1>3

-----------------------------------------------------------------------------
(***************************************************************************)
(* The bits of a number, the highest first, and the two ways the code puts *)
(* a number together of them.                                              *)
(***************************************************************************)
BitsOf(bits, v, n) == \A i \in 1..n : bits[i] = (v \div 2 ^ (n - i)) % 2

\* The sum of the powers of two of binToIntegral.
IsBitSum(f, bits, n) ==
  f = [i \in 0..n |-> IF i = 0 THEN 0 ELSE f[i - 1] + bits[i] * 2 ^ (n - i)]

\* Shifted by one place for every bit.
IsBitShift(f, bits, n) ==
  f = [i \in 0..n |-> IF i = 0 THEN 0 ELSE 2 * f[i - 1] + bits[i]]

\* The number without its last n - i bits, as a quotient.
LEMMA Quotients ==
  ASSUME NEW v \in Nat, NEW n \in Nat, NEW bits, BitsOf(bits, v, n)
  PROVE  /\ \A i \in 0..n : 2 ^ (n - i) \in Nat /\ 2 ^ (n - i) > 0
                            /\ v \div 2 ^ (n - i) \in Nat
         /\ \A i \in 1..n : /\ 2 ^ (n - (i - 1)) = 2 * 2 ^ (n - i)
                            /\ v \div 2 ^ (n - i) = 2 * (v \div 2 ^ (n - (i - 1))) + bits[i]
                            /\ bits[i] \in {0, 1}
<1>1. ASSUME NEW i \in 0..n
      PROVE  2 ^ (n - i) \in Nat /\ 2 ^ (n - i) > 0 /\ v \div 2 ^ (n - i) \in Nat
  <2>1. n - i \in Nat
    OBVIOUS
  <2>2. 2 ^ (n - i) \in Nat /\ 2 ^ (n - i) > 0
    BY <2>1, PowersOfTwo
  <2>3. QED
    BY <2>2, Halves
<1>2. ASSUME NEW i \in 1..n
      PROVE  /\ 2 ^ (n - (i - 1)) = 2 * 2 ^ (n - i)
             /\ v \div 2 ^ (n - i) = 2 * (v \div 2 ^ (n - (i - 1))) + bits[i]
             /\ bits[i] \in {0, 1}
  <2> DEFINE p == 2 ^ (n - i)
             q == 2 ^ (n - (i - 1))
  <2>1. q = 2 * p
    <3>1. n - (i - 1) = (n - i) + 1 /\ n - i \in Nat
      OBVIOUS
    <3>2. QED
      BY <3>1, PowersOfTwo
  <2>2. p \in Nat /\ p > 0
    BY <1>1
  <2>3. bits[i] = (v \div p) % 2
    BY DEF BitsOf
  <2> HIDE DEF p, q
  <2>4. v \div p = 2 * (v \div (2 * p)) + ((v \div p) % 2) /\ (v \div p) % 2 \in {0, 1}
    BY <2>2, Halves
  <2>5. v \div p = 2 * (v \div q) + bits[i] /\ bits[i] \in {0, 1}
    BY <2>1, <2>3, <2>4
  <2>6. QED
    BY <2>1, <2>5 DEF p, q
<1>3. QED
  BY <1>1, <1>2

\* The sum over the first i bits is the number without its other bits.
LEMMA BitSum ==
  ASSUME NEW v \in Nat, NEW n \in Nat, v < 2 ^ n, NEW bits, BitsOf(bits, v, n)
  PROVE  /\ \E f : IsBitSum(f, bits, n)
         /\ \A f : IsBitSum(f, bits, n) => f[n] = v
<1> DEFINE P(i) == 2 ^ (n - i)
           high(i) == (v \div P(i)) * P(i)
<1>1. high(0) = 0
  <2> DEFINE Q == P(0)
  <2>1. Q = 2 ^ n /\ Q \in Nat
    BY PowersOfTwo
  <2> HIDE DEF Q
  <2>2. v < Q
    BY <2>1
  <2>3. v \div Q = 0
    BY <2>1, <2>2
  <2>4. QED
    BY <2>1, <2>3 DEF Q
<1>2. high(n) = v
  <2>1. P(n) = 1
    BY PowersOfTwo
  <2>2. v \div 1 = v
    OBVIOUS
  <2>3. QED
    BY <2>1, <2>2
<1>3. ASSUME NEW i \in 1..n
      PROVE  high(i) = high(i - 1) + bits[i] * P(i)
  <2> DEFINE p == P(i)
             r == P(i - 1)
             a == v \div p
             q == v \div r
  <2>1. r = 2 * p /\ a = 2 * q + bits[i] /\ bits[i] \in {0, 1}
    BY Quotients
  <2>2. p \in Nat /\ q \in Nat
    <3>1. i \in 0..n /\ i - 1 \in 0..n
      OBVIOUS
    <3>2. QED
      BY <3>1, Quotients
  <2>3. high(i) = a * p /\ high(i - 1) = q * r
    OBVIOUS
  <2> HIDE DEF p, r, a, q, high
  <2>4. a * p = (2 * q + bits[i]) * p /\ q * r = q * (2 * p)
    BY <2>1
  <2>5. (2 * q + bits[i]) * p = q * (2 * p) + bits[i] * p
    BY <2>1, <2>2
  <2>6. high(i) = high(i - 1) + bits[i] * p
    BY <2>3, <2>4, <2>5
  <2>7. QED
    BY <2>6 DEF p
<1> HIDE DEF high
<1> DEFINE g == [i \in 0..n |-> high(i)]
<1>4. IsBitSum(g, bits, n)
  <2>1. ASSUME NEW i \in 0..n
        PROVE  high(i) = IF i = 0 THEN 0 ELSE g[i - 1] + bits[i] * P(i)
    <3>1. CASE i = 0
      BY <1>1, <3>1
    <3>2. CASE i # 0
      <4>1. i \in 1..n /\ i - 1 \in 0..n
        BY <3>2
      <4>2. g[i - 1] = high(i - 1)
        BY <4>1
      <4>3. QED
        BY <1>3, <3>2, <4>1, <4>2
    <3>3. QED
      BY <3>1, <3>2
  <2>2. g = [i \in 0..n |-> IF i = 0 THEN 0 ELSE g[i - 1] + bits[i] * P(i)]
    BY <2>1
  <2>3. QED
    BY <2>2 DEF IsBitSum
<1>5. ASSUME NEW f, IsBitSum(f, bits, n) PROVE f[n] = v
  <2>1. \A i \in 0..n : f[i] = IF i = 0 THEN 0 ELSE f[i - 1] + bits[i] * P(i)
    BY <1>5 DEF IsBitSum
  <2> DEFINE S == {i \in Nat : i <= n => f[i] = high(i)}
  <2>2. 0 \in S
    BY <1>1, <2>1
  <2>3. ASSUME NEW i \in Nat, i \in S PROVE i + 1 \in S
    <3> SUFFICES ASSUME i + 1 <= n PROVE f[i + 1] = high(i + 1)
      OBVIOUS
    <3>1. i + 1 \in 1..n /\ i + 1 \in 0..n /\ i + 1 # 0 /\ (i + 1) - 1 = i
      OBVIOUS
    <3>2. f[i] = high(i)
      BY <2>3
    <3> DEFINE j == i + 1
    <3>3. f[j] = f[j - 1] + bits[j] * P(j) /\ high(j) = high(j - 1) + bits[j] * P(j)
      BY <1>3, <2>1, <3>1
    <3>4. QED
      BY <3>1, <3>2, <3>3
  <2> HIDE DEF S
  <2>4. n \in S
    BY <2>2, <2>3, Induction
  <2>5. QED
    BY <1>2, <2>4 DEF S
<1>6. QED
  BY <1>4, <1>5

\* Shifting keeps the last n bits.
LEMMA BitShift ==
  ASSUME NEW v \in Nat, NEW n \in Nat, NEW bits, BitsOf(bits, v, n)
  PROVE  /\ \E f : IsBitShift(f, bits, n)
         /\ \A f : IsBitShift(f, bits, n) => f[n] = v % 2 ^ n
<1> DEFINE Q == v \div 2 ^ n
           low(i) == (v \div 2 ^ (n - i)) - 2 ^ i * Q
<1>1. Q \in Nat /\ 2 ^ n \in Nat /\ 2 ^ n > 0
  <2>1. 2 ^ n \in Nat /\ 2 ^ n > 0
    BY PowersOfTwo
  <2>2. QED
    BY <2>1, Halves
<1>2. low(0) = 0
  <2>1. n - 0 = n
    OBVIOUS
  <2>2. low(0) = Q - 1 * Q
    BY <2>1, PowersOfTwo
  <2> HIDE DEF Q
  <2>3. QED
    BY <1>1, <2>2
<1>3. low(n) = v % 2 ^ n
  <2>1. 2 ^ (n - n) = 1
    BY PowersOfTwo
  <2>2. v \div 1 = v
    OBVIOUS
  <2>3. low(n) = v - 2 ^ n * Q
    BY <2>1, <2>2
  <2> DEFINE P == 2 ^ n
  <2>4. P \in Nat /\ P > 0 /\ Q = v \div P
    BY <1>1
  <2> HIDE DEF P
  <2>5. v % P = v - P * (v \div P)
    BY <2>4
  <2>6. QED
    BY <2>3, <2>4, <2>5 DEF P
<1>4. ASSUME NEW i \in 1..n PROVE low(i) = 2 * low(i - 1) + bits[i]
  <2> DEFINE a == v \div 2 ^ (n - i)
             b == v \div 2 ^ (n - (i - 1))
             p == 2 ^ (i - 1)
  <2>1. a = 2 * b + bits[i] /\ bits[i] \in {0, 1}
    BY Quotients
  <2>2. b \in Nat
    <3>1. i - 1 \in 0..n
      OBVIOUS
    <3>2. QED
      BY <3>1, Quotients
  <2>3. 2 ^ i = 2 * p /\ p \in Nat
    <3>1. i - 1 \in Nat /\ (i - 1) + 1 = i
      OBVIOUS
    <3>2. 2 ^ ((i - 1) + 1) = 2 * p /\ p \in Nat
      BY <3>1, PowersOfTwo
    <3>3. QED
      BY <3>1, <3>2
  <2>4. low(i) = a - 2 ^ i * Q /\ low(i - 1) = b - p * Q
    OBVIOUS
  <2> HIDE DEF a, b, p, Q, low
  <2> DEFINE x == p * Q
  <2>5. 2 ^ i * Q = 2 * x /\ x \in Int
    <3>1. (2 * p) * Q = 2 * (p * Q) /\ p * Q \in Int
      BY <1>1, <2>3
    <3>2. QED
      BY <2>3, <3>1
  <2> HIDE DEF x
  <2>6. low(i) = a - 2 * x /\ low(i - 1) = b - x
    BY <2>4, <2>5 DEF x
  <2>7. QED
    BY <2>1, <2>2, <2>5, <2>6
<1> HIDE DEF low, Q
<1> DEFINE g == [i \in 0..n |-> low(i)]
<1>5. IsBitShift(g, bits, n)
  <2>1. ASSUME NEW i \in 0..n
        PROVE  low(i) = IF i = 0 THEN 0 ELSE 2 * g[i - 1] + bits[i]
    <3>1. CASE i = 0
      BY <1>2, <3>1
    <3>2. CASE i # 0
      <4>1. i \in 1..n /\ i - 1 \in 0..n
        BY <3>2
      <4>2. g[i - 1] = low(i - 1)
        BY <4>1
      <4>3. QED
        BY <1>4, <3>2, <4>1, <4>2
    <3>3. QED
      BY <3>1, <3>2
  <2>2. g = [i \in 0..n |-> IF i = 0 THEN 0 ELSE 2 * g[i - 1] + bits[i]]
    BY <2>1
  <2>3. QED
    BY <2>2 DEF IsBitShift
<1>6. ASSUME NEW f, IsBitShift(f, bits, n) PROVE f[n] = v % 2 ^ n
  <2>1. \A i \in 0..n : f[i] = IF i = 0 THEN 0 ELSE 2 * f[i - 1] + bits[i]
    BY <1>6 DEF IsBitShift
  <2> DEFINE S == {i \in Nat : i <= n => f[i] = low(i)}
  <2>2. 0 \in S
    BY <1>2, <2>1
  <2>3. ASSUME NEW i \in Nat, i \in S PROVE i + 1 \in S
    <3> SUFFICES ASSUME i + 1 <= n PROVE f[i + 1] = low(i + 1)
      OBVIOUS
    <3>1. i + 1 \in 1..n /\ i + 1 \in 0..n /\ i + 1 # 0 /\ (i + 1) - 1 = i
      OBVIOUS
    <3>2. f[i] = low(i)
      BY <2>3
    <3> DEFINE j == i + 1
    <3>3. f[j] = 2 * f[j - 1] + bits[j] /\ low(j) = 2 * low(j - 1) + bits[j]
      BY <1>4, <2>1, <3>1
    <3>4. QED
      BY <3>1, <3>2, <3>3
  <2> HIDE DEF S
  <2>4. n \in S
    BY <2>2, <2>3, Induction
  <2>5. QED
    BY <1>3, <2>4 DEF S
<1>7. QED
  BY <1>5, <1>6

\* 2 ^ (2 * m) is the square of 2 ^ m.
LEMMA SquareOfPower ==
  ASSUME NEW m \in Nat
  PROVE  2 ^ (2 * m) = 2 ^ m * 2 ^ m
<1> DEFINE S == {i \in Nat : 2 ^ (2 * i) = 2 ^ i * 2 ^ i}
<1>1. 0 \in S
  BY PowersOfTwo
<1>2. ASSUME NEW i \in Nat, i \in S PROVE i + 1 \in S
  <2> DEFINE p == 2 ^ i
             r == 2 ^ (2 * i)
  <2>1. r = p * p /\ p \in Nat
    BY <1>2, PowersOfTwo
  <2>2. 2 ^ (i + 1) = 2 * p
    BY PowersOfTwo
  <2>3. 2 ^ (2 * (i + 1)) = 2 * (2 * r) /\ r \in Nat
    <3>1. 2 * i \in Nat /\ 2 * i + 1 \in Nat /\ 2 * (i + 1) = (2 * i + 1) + 1
      OBVIOUS
    <3>2. 2 ^ ((2 * i + 1) + 1) = 2 * 2 ^ (2 * i + 1) /\ 2 ^ (2 * i + 1) = 2 * r /\ r \in Nat
      BY <3>1, PowersOfTwo
    <3>3. QED
      BY <3>1, <3>2
  <2> HIDE DEF p, r
  <2>4. 2 * (2 * r) = (2 * p) * (2 * p)
    BY <2>1, <2>3
  <2>5. QED
    BY <2>2, <2>3, <2>4
<1> HIDE DEF S
<1>3. m \in S
  BY <1>1, <1>2, Induction
<1>4. QED
  BY <1>3 DEF S

\* The two digits of a number to the base P.
LEMMA TwoDigits ==
  ASSUME NEW n \in Nat, NEW P \in Nat, P > 0
  PROVE  (n % P) + P * ((n \div P) % P) = n % (P * P)
<1> DEFINE a == n % P
           q == n \div P
           b == q % P
           r == q \div P
<1>1. /\ a \in 0..(P - 1) /\ q \in Nat /\ n = q * P + a
  OBVIOUS
<1> HIDE DEF a, q
<1>2. b \in 0..(P - 1) /\ r \in Nat /\ q = r * P + b
  BY <1>1
<1> HIDE DEF b, r
<1>3. P * P \in Nat /\ P * P > 0
  OBVIOUS
<1>4. n = r * (P * P) + (a + P * b)
  BY <1>1, <1>2
<1>5. a + P * b \in 0..(P * P - 1)
  <2>1. b <= P - 1 /\ b \in Nat
    BY <1>2
  <2>2. P * b <= P * (P - 1) /\ P * b \in Nat
    BY <2>1
  <2>3. P * (P - 1) = P * P - P
    OBVIOUS
  <2>4. QED
    BY <1>1, <1>3, <2>2, <2>3
<1> DEFINE M == P * P
           d == a + P * b
<1> HIDE DEF M, d
<1>6. M \in Nat /\ M > 0 /\ d \in 0..(M - 1) /\ n = r * M + d
  BY <1>3, <1>4, <1>5 DEF M, d
<1>7. n % M = d
  BY <1>2, <1>6
<1>8. QED
  BY <1>7 DEF M, d, a, b, q

-----------------------------------------------------------------------------
(***************************************************************************)
(* Counting.  The model sums over sets and sequences with SumFunction; a   *)
(* sum of numbers is the number of elements of a set, and the theorems     *)
(* about cardinalities are those about sums.                               *)
(***************************************************************************)
\* As many elements for every x of S as f[x] says.
Units(f, S) == {u \in S \X Nat : u[2] < f[u[1]]}
Total(f, S) == Cardinality(Units(f, S))

\* What holds of the empty set, and of a set when it holds without any one of its
\* elements, holds of every finite set.
LEMMA SetInduction ==
  ASSUME NEW T, IsFiniteSet(T), NEW P, {} \in P,
         \A S \in SUBSET T : S # {} /\ (\A x \in S : S \ {x} \in P) => S \in P
  PROVE  T \in P
<1> DEFINE Q == {n \in Nat : \A S \in SUBSET T : Cardinality(S) = n => S \in P}
<1>1. 0 \in Q
  <2>1. ASSUME NEW S \in SUBSET T, Cardinality(S) = 0 PROVE S \in P
    <3>1. IsFiniteSet(S)
      BY FS_Subset
    <3>2. S = {}
      BY <2>1, <3>1, FS_EmptySet
    <3>3. QED
      BY <3>2
  <2>2. QED
    BY <2>1
<1>2. ASSUME NEW n \in Nat, n \in Q PROVE n + 1 \in Q
  <2>1. ASSUME NEW S \in SUBSET T, Cardinality(S) = n + 1 PROVE S \in P
    <3>1. IsFiniteSet(S)
      BY FS_Subset
    <3>2. S # {}
      BY <2>1, <3>1, FS_EmptySet
    <3>3. ASSUME NEW x \in S PROVE S \ {x} \in P
      <4>1. Cardinality(S \ {x}) = Cardinality(S) - 1
        BY <3>1, FS_RemoveElement
      <4>2. Cardinality(S \ {x}) = n /\ S \ {x} \in SUBSET T
        BY <2>1, <4>1
      <4>3. QED
        BY <1>2, <4>2
    <3>4. QED
      BY <3>2, <3>3
  <2>2. QED
    BY <2>1
<1>3. Cardinality(T) \in Nat
  BY FS_CardinalityType
<1> HIDE DEF Q
<1>4. Cardinality(T) \in Q
  BY <1>1, <1>2, <1>3, Induction
<1>5. QED
  BY <1>4 DEF Q

\* One element more adds its own units.
LEMMA OneMoreUnit ==
  ASSUME NEW T, NEW f, f \in [T -> Nat], NEW S, S \subseteq T, NEW x \in T, x \notin S,
         IsFiniteSet(Units(f, S))
  PROVE  /\ IsFiniteSet(Units(f, S \cup {x}))
         /\ Total(f, S \cup {x}) = Total(f, S) + f[x]
<1> DEFINE n == f[x]
           B == {x} \X (0..(n - 1))
           A == Units(f, S)
<1>1. n \in Nat
  OBVIOUS
<1>2. IsFiniteSet(B) /\ Cardinality(B) = n
  <2>1. IsFiniteSet(0..(n - 1)) /\ Cardinality(0..(n - 1)) = n
    BY <1>1, FS_Interval
  <2>2. IsFiniteSet({x}) /\ Cardinality({x}) = 1
    BY FS_Singleton
  <2> HIDE DEF n
  <2>3. IsFiniteSet(B) /\ Cardinality(B) = Cardinality({x}) * Cardinality(0..(n - 1))
    BY <2>1, <2>2, FS_Product
  <2>4. 1 * n = n
    BY <1>1
  <2>5. QED
    BY <2>1, <2>2, <2>3, <2>4
<1>3. Units(f, S \cup {x}) = A \cup B
  <2>1. ASSUME NEW u \in Units(f, S \cup {x}) PROVE u \in A \cup B
    <3>1. u = <<u[1], u[2]>> /\ u[1] \in S \cup {x} /\ u[2] \in Nat /\ u[2] < f[u[1]]
      BY DEF Units
    <3>2. CASE u[1] = x
      <4>1. u[2] \in 0..(n - 1)
        BY <3>1, <3>2, <1>1
      <4>2. QED
        BY <3>1, <3>2, <4>1
    <3>3. CASE u[1] \in S
      BY <3>1, <3>3 DEF Units
    <3>4. QED
      BY <3>1, <3>2, <3>3
  <2>2. A \subseteq Units(f, S \cup {x})
    BY DEF Units
  <2>3. B \subseteq Units(f, S \cup {x})
    BY <1>1 DEF Units
  <2>4. QED
    BY <2>1, <2>2, <2>3
<1>4. A \cap B = {}
  BY DEF Units
<1>5. IsFiniteSet(A) /\ Cardinality(A) \in Nat
  BY FS_CardinalityType
<1> HIDE DEF A, B, n
<1>6. /\ IsFiniteSet(A \cup B)
      /\ Cardinality(A \cup B) = Cardinality(A) + Cardinality(B) - Cardinality(A \cap B)
  BY <1>2, <1>5, FS_Union
<1>7. Cardinality(A \cap B) = 0
  BY <1>4, FS_EmptySet
<1>8. Cardinality(A \cup B) = Cardinality(A) + n
  BY <1>1, <1>2, <1>5, <1>6, <1>7
<1>9. QED
  BY <1>3, <1>6, <1>8 DEF Total, A, n

\* The units of finitely many elements are finitely many.
LEMMA UnitsFinite ==
  ASSUME NEW S, IsFiniteSet(S), NEW f, NEW T, S \subseteq T, f \in [T -> Nat]
  PROVE  IsFiniteSet(Units(f, S)) /\ Total(f, S) \in Nat
<1> DEFINE P == {R \in SUBSET S : IsFiniteSet(Units(f, R))}
<1>1. {} \in P
  <2>1. Units(f, {}) = {}
    BY DEF Units
  <2>2. QED
    BY <2>1, FS_EmptySet
<1>2. ASSUME NEW R \in SUBSET S, R # {}, \A x \in R : R \ {x} \in P
      PROVE  R \in P
  <2>1. PICK x \in R : TRUE
    BY <1>2
  <2>2. IsFiniteSet(Units(f, R \ {x}))
    BY <1>2, <2>1
  <2>3. R = (R \ {x}) \cup {x} /\ x \in T /\ x \notin R \ {x} /\ R \ {x} \subseteq T
    BY <2>1
  <2>4. IsFiniteSet(Units(f, (R \ {x}) \cup {x}))
    BY <2>2, <2>3, OneMoreUnit
  <2>5. QED
    BY <2>3, <2>4
<1> HIDE DEF P
<1>3. S \in P
  BY <1>1, <1>2, SetInduction
<1>4. QED
  BY <1>3, FS_CardinalityType DEF P, Total

\* The library's sum counts the units.
LEMMA SumCounts ==
  ASSUME NEW S, IsFiniteSet(S), NEW f, f \in [S -> Nat]
  PROVE  SumFunction(f) = Total(f, S)
<1> DEFINE one(R) == CHOOSE x \in R : TRUE
           Fold(g) == [R \in SUBSET S |->
                         IF R = {} THEN 0 ELSE f[one(R)] + g[R \ {one(R)}]]
           sum == CHOOSE g : g = Fold(g)
           h == [R \in SUBSET S |-> Total(f, R)]
<1>1. SumFunction(f) = sum[S]
  <2>1. DOMAIN f = S
    OBVIOUS
  <2>2. QED
    BY <2>1 DEF SumFunction, SumFunctionOnSet, FoldFunctionOnSet, MapThenFoldSet
<1>2. ASSUME NEW R \in SUBSET S, R # {}
      PROVE  one(R) \in R /\ Total(f, R) = f[one(R)] + Total(f, R \ {one(R)})
  <2>1. one(R) \in R
    BY <1>2
  <2> HIDE DEF one
  <2> DEFINE x == one(R)
             Q == R \ {x}
  <2>2. x \in S /\ x \notin Q /\ Q \subseteq S /\ R = Q \cup {x} /\ f[x] \in Nat
    BY <2>1
  <2>3. IsFiniteSet(Q)
    BY <2>2, FS_Subset
  <2> HIDE DEF x, Q
  <2>4. IsFiniteSet(Units(f, Q)) /\ Total(f, Q) \in Nat
    BY <2>2, <2>3, UnitsFinite
  <2>5. Total(f, Q \cup {x}) = Total(f, Q) + f[x]
    BY <2>2, <2>4, OneMoreUnit
  <2>6. QED
    BY <2>1, <2>2, <2>4, <2>5 DEF x, Q
<1>3. Total(f, {}) = 0
  <2>1. Units(f, {}) = {}
    BY DEF Units
  <2>2. QED
    BY <2>1, FS_EmptySet DEF Total
<1> HIDE DEF one
<1>4. h = Fold(h)
  <2>1. ASSUME NEW R \in SUBSET S
        PROVE  h[R] = IF R = {} THEN 0 ELSE f[one(R)] + h[R \ {one(R)}]
    <3>1. CASE R = {}
      BY <1>3, <3>1
    <3>2. CASE R # {}
      BY <1>2, <3>2
    <3>3. QED
      BY <3>1, <3>2
  <2>2. QED
    BY <2>1
<1>5. sum = Fold(sum)
  <2> HIDE DEF h
  <2>1. QED
    BY <1>4
<1> HIDE DEF sum
<1> DEFINE P == {R \in SUBSET S : sum[R] = Total(f, R)}
<1>6. {} \in P
  BY <1>3, <1>5
<1>7. ASSUME NEW R \in SUBSET S, R # {}, \A x \in R : R \ {x} \in P
      PROVE  R \in P
  <2>1. sum[R] = f[one(R)] + sum[R \ {one(R)}]
    BY <1>5, <1>7
  <2>2. one(R) \in R /\ Total(f, R) = f[one(R)] + Total(f, R \ {one(R)})
    BY <1>2, <1>7
  <2>3. sum[R \ {one(R)}] = Total(f, R \ {one(R)})
    BY <1>7, <2>2
  <2>4. QED
    BY <2>1, <2>2, <2>3
<1> HIDE DEF P
<1>8. S \in P
  BY <1>6, <1>7, SetInduction
<1>9. QED
  BY <1>1, <1>8 DEF P


\* No elements, no units.
LEMMA NoUnits ==
  ASSUME NEW f
  PROVE  Total(f, {}) = 0
<1>1. Units(f, {}) = {}
  BY DEF Units
<1>2. QED
  BY <1>1, FS_EmptySet DEF Total

\* The sum over two disjoint sets.
LEMMA TotalOfUnion ==
  ASSUME NEW T, NEW f, f \in [T -> Nat], NEW R, NEW S, R \subseteq T, S \subseteq T,
         IsFiniteSet(R), IsFiniteSet(S), R \cap S = {}
  PROVE  Total(f, R \cup S) = Total(f, R) + Total(f, S)
<1>1. Units(f, R \cup S) = Units(f, R) \cup Units(f, S)
  BY DEF Units
<1>2. Units(f, R) \cap Units(f, S) = {}
  BY DEF Units
<1>3. /\ IsFiniteSet(Units(f, R)) /\ IsFiniteSet(Units(f, S))
      /\ Total(f, R) \in Nat /\ Total(f, S) \in Nat
  BY UnitsFinite
<1>4. Cardinality(Units(f, R) \cup Units(f, S))
        = Cardinality(Units(f, R)) + Cardinality(Units(f, S))
            - Cardinality(Units(f, R) \cap Units(f, S))
  BY <1>3, FS_Union
<1>5. Cardinality(Units(f, R) \cap Units(f, S)) = 0
  BY <1>2, FS_EmptySet
<1> DEFINE A == Units(f, R)
           B == Units(f, S)
<1>6. /\ Cardinality(A \cup B) = Cardinality(A) + Cardinality(B) - Cardinality(A \cap B)
      /\ Cardinality(A) \in Nat /\ Cardinality(B) \in Nat /\ Cardinality(A \cap B) = 0
  BY <1>3, <1>4, <1>5 DEF Total
<1>7. Cardinality(A \cup B) = Cardinality(A) + Cardinality(B)
  <2> HIDE DEF A, B
  <2>1. QED
    BY <1>6
<1>8. QED
  BY <1>1, <1>7 DEF Total

\* The sum does not change when the elements get other names.
LEMMA TotalRenamed ==
  ASSUME NEW S, IsFiniteSet(S), NEW f, f \in [S -> Nat], NEW T, NEW g, g \in [T -> Nat],
         NEW b, b \in [S -> T],
         \A x, y \in S : b[x] = b[y] => x = y,
         \A y \in T : \E x \in S : b[x] = y,
         \A x \in S : g[b[x]] = f[x]
  PROVE  Total(g, T) = Total(f, S)
<1> DEFINE A == Units(f, S)
           B == Units(g, T)
           h == [u \in A |-> <<b[u[1]], u[2]>>]
<1>1. \A u \in A : u = <<u[1], u[2]>> /\ u[1] \in S /\ u[2] \in Nat /\ u[2] < f[u[1]]
  BY DEF Units
<1>2. \A y \in T, k \in Nat : k < g[y] => <<y, k>> \in B
  BY DEF Units
<1>3. \A v \in B : v = <<v[1], v[2]>> /\ v[1] \in T /\ v[2] \in Nat /\ v[2] < g[v[1]]
  BY DEF Units
<1>4. \A x \in S, k \in Nat : k < f[x] => <<x, k>> \in A
  BY DEF Units
<1> HIDE DEF A, B
<1>5. h \in [A -> B]
  <2>1. ASSUME NEW u \in A PROVE <<b[u[1]], u[2]>> \in B
    <3>1. u[1] \in S /\ u[2] \in Nat /\ u[2] < g[b[u[1]]] /\ b[u[1]] \in T
      BY <1>1
    <3>2. QED
      BY <1>2, <3>1
  <2>2. QED
    BY <2>1
<1>6. \A u, v \in A : h[u] = h[v] => u = v
  <2> SUFFICES ASSUME NEW u \in A, NEW v \in A, h[u] = h[v] PROVE u = v
    OBVIOUS
  <2>1. b[u[1]] = b[v[1]] /\ u[2] = v[2]
    OBVIOUS
  <2>2. u[1] = v[1]
    BY <1>1, <2>1
  <2>3. QED
    BY <1>1, <2>1, <2>2
<1>7. \A v \in B : \E u \in A : h[u] = v
  <2> SUFFICES ASSUME NEW v \in B PROVE \E u \in A : h[u] = v
    OBVIOUS
  <2>1. PICK x \in S : b[x] = v[1]
    BY <1>3
  <2>2. <<x, v[2]>> \in A
    BY <1>3, <1>4, <2>1
  <2>3. h[<<x, v[2]>>] = v
    BY <1>3, <2>1, <2>2
  <2>4. QED
    BY <2>2, <2>3
<1> HIDE DEF h
<1>8. h \in Bijection(A, B)
  BY <1>5, <1>6, <1>7, Fun_IsBij
<1>9. IsFiniteSet(A)
  BY UnitsFinite DEF A
<1>10. Cardinality(B) = Cardinality(A)
  BY <1>8, <1>9, FS_Bijection DEF ExistsBijection
<1>11. QED
  BY <1>10 DEF A, B, Total

\* Only the values on the set matter.
LEMMA TotalOfEqual ==
  ASSUME NEW S, NEW f, NEW g, \A x \in S : f[x] = g[x]
  PROVE  Total(f, S) = Total(g, S)
<1>1. Units(f, S) = Units(g, S)
  BY DEF Units
<1>2. QED
  BY <1>1 DEF Total

\* A part is no more than the whole.
LEMMA TotalOfPart ==
  ASSUME NEW T, NEW f, f \in [T -> Nat], NEW R, NEW S, R \subseteq S, S \subseteq T,
         IsFiniteSet(S)
  PROVE  Total(f, R) <= Total(f, S)
<1>1. Units(f, R) \subseteq Units(f, S)
  BY DEF Units
<1>2. IsFiniteSet(Units(f, S))
  BY UnitsFinite
<1>3. QED
  BY <1>1, <1>2, FS_Subset DEF Total

\* The sum over the first numbers, one after the other.
LEMMA TotalOfFirst ==
  ASSUME NEW n \in Nat, NEW f, f \in [1..n -> Nat]
  PROVE  /\ Total(f, 1..0) = 0
         /\ \A i \in 0..n : Total(f, 1..i) \in Nat
         /\ \A i \in 1..n : Total(f, 1..i) = Total(f, 1..(i - 1)) + f[i]
<1>1. 1..0 = {}
  OBVIOUS
<1>2. Total(f, 1..0) = 0
  BY <1>1, NoUnits
<1>3. ASSUME NEW i \in 0..n PROVE IsFiniteSet(Units(f, 1..i)) /\ Total(f, 1..i) \in Nat
  <2>1. IsFiniteSet(1..i) /\ 1..i \subseteq 1..n
    BY FS_Interval
  <2>2. QED
    BY <2>1, UnitsFinite
<1>4. ASSUME NEW i \in 1..n PROVE Total(f, 1..i) = Total(f, 1..(i - 1)) + f[i]
  <2>1. i - 1 \in 0..n /\ 1..(i - 1) \subseteq 1..n /\ i \notin 1..(i - 1)
        /\ 1..i = 1..(i - 1) \cup {i}
    OBVIOUS
  <2>2. IsFiniteSet(Units(f, 1..(i - 1)))
    BY <1>3, <2>1
  <2> DEFINE R == 1..(i - 1)
  <2>3. R \subseteq 1..n /\ i \notin R /\ 1..i = R \cup {i} /\ IsFiniteSet(Units(f, R))
    BY <2>1, <2>2
  <2> HIDE DEF R
  <2>4. Total(f, R \cup {i}) = Total(f, R) + f[i]
    BY <2>3, OneMoreUnit, SMTT(30)
  <2>5. QED
    BY <2>3, <2>4 DEF R
<1>5. QED
  BY <1>2, <1>3, <1>4

\* Powers of two multiply as their exponents add.
LEMMA PowerOfSum ==
  ASSUME NEW m \in Nat, NEW n \in Nat
  PROVE  2 ^ (m + n) = 2 ^ m * 2 ^ n
<1> DEFINE S == {i \in Nat : 2 ^ (m + i) = 2 ^ m * 2 ^ i}
<1>1. 0 \in S
  <2>1. m + 0 = m /\ 2 ^ m \in Nat
    BY PowersOfTwo
  <2> DEFINE p == 2 ^ m
  <2> HIDE DEF p
  <2>2. p \in Nat => p = p * 1
    OBVIOUS
  <2>3. QED
    BY <2>1, <2>2, PowersOfTwo DEF p
<1>2. ASSUME NEW i \in Nat, i \in S PROVE i + 1 \in S
  <2> DEFINE p == 2 ^ m
             q == 2 ^ i
             r == 2 ^ (m + i)
  <2>1. p \in Nat /\ q \in Nat /\ r \in Nat /\ r = p * q
    BY <1>2, PowersOfTwo
  <2>2. m + (i + 1) = (m + i) + 1 /\ m + i \in Nat
    OBVIOUS
  <2>3. 2 ^ (i + 1) = 2 * q /\ 2 ^ ((m + i) + 1) = 2 * r
    BY <2>2, PowersOfTwo
  <2> HIDE DEF p, q, r
  <2>4. p * (2 * q) = 2 * (p * q)
    BY <2>1
  <2>5. 2 ^ (m + (i + 1)) = 2 ^ m * 2 ^ (i + 1)
    BY <2>1, <2>2, <2>3, <2>4 DEF p
  <2>6. QED
    BY <2>5
<1> HIDE DEF S
<1>3. n \in S
  BY <1>1, <1>2, Induction
<1>4. QED
  BY <1>3 DEF S


\* A positive factor can be cancelled.
LEMMA Cancel ==
  ASSUME NEW a \in Nat, NEW b \in Nat, NEW p \in Nat, p > 0
  PROVE  /\ a * p <= b * p => a <= b
         /\ a * p < b * p => a < b
         /\ a * p = b * p => a = b
<1>1. ASSUME a * p <= b * p, a > b PROVE FALSE
  <2>1. PICK d \in Nat : a = b + 1 + d
    <3>1. a - b - 1 \in Nat /\ a = b + 1 + (a - b - 1)
      BY <1>1
    <3>2. QED
      BY <3>1
  <2>2. a * p = b * p + p + d * p
    BY <2>1
  <2>3. d * p >= 0 /\ b * p \in Nat /\ d * p \in Nat
    BY <2>1
  <2> DEFINE x == b * p
             y == d * p
             z == a * p
  <2>4. z = x + p + y /\ y >= 0 /\ x \in Nat /\ y \in Nat /\ z <= x
    BY <1>1, <2>2, <2>3
  <2> HIDE DEF x, y, z
  <2>5. QED
    BY <2>4
<1>2. ASSUME a * p < b * p, a >= b PROVE FALSE
  <2>1. PICK d \in Nat : a = b + d
    <3>1. a - b \in Nat /\ a = b + (a - b)
      BY <1>2
    <3>2. QED
      BY <3>1
  <2>2. a * p = b * p + d * p
    BY <2>1
  <2>3. d * p \in Nat /\ b * p \in Nat
    BY <2>1
  <2> DEFINE x == b * p
             y == d * p
             z == a * p
  <2>4. z = x + y /\ x \in Nat /\ y \in Nat /\ z < x
    BY <1>2, <2>2, <2>3
  <2> HIDE DEF x, y, z
  <2>5. QED
    BY <2>4
<1>3. ASSUME a * p = b * p PROVE a = b
  <2>1. a * p \in Nat /\ b * p \in Nat
    OBVIOUS
  <2> DEFINE x == b * p
             z == a * p
  <2>2. z <= x /\ x <= z
    <3> HIDE DEF x, z
    <3>1. z = x /\ x \in Nat
      BY <1>3, <2>1 DEF x, z
    <3>2. QED
      BY <3>1
  <2>3. ~(a > b)
    BY <1>1, <2>2
  <2>4. ~(b > a)
    <3> SUFFICES ASSUME b > a PROVE FALSE
      OBVIOUS
    <3>1. PICK d \in Nat : b = a + 1 + d
      <4>1. b - a - 1 \in Nat /\ b = a + 1 + (b - a - 1)
        OBVIOUS
      <4>2. QED
        BY <4>1
    <3>2. b * p = a * p + p + d * p
      BY <3>1
    <3> DEFINE y == d * p
    <3>3. y \in Nat /\ x = z + p + y /\ z \in Nat
      BY <3>1, <3>2
    <3> HIDE DEF x, y, z
    <3>4. QED
      BY <2>2, <3>3
  <2>5. QED
    BY <2>3, <2>4
<1>4. QED
  BY <1>1, <1>2, <1>3

-----------------------------------------------------------------------------
(***************************************************************************)
(* The least cost of lengths that satisfy Kraft's inequality, which a      *)
(* merge of the two lightest does not raise (Huffman's theorem).           *)
(***************************************************************************)
\* The sum is the value at one place and the sum over the others.
LEMMA TotalWithout ==
  ASSUME NEW S, IsFiniteSet(S), NEW f, f \in [S -> Nat], NEW x \in S
  PROVE  /\ Total(f, S) \in Nat /\ Total(f, S \ {x}) \in Nat /\ f[x] \in Nat
         /\ Total(f, S) = Total(f, S \ {x}) + f[x]
<1> DEFINE R == S \ {x}
<1>1. R \subseteq S /\ x \notin R /\ S = R \cup {x} /\ IsFiniteSet(R) /\ f[x] \in Nat
  BY FS_Subset
<1> HIDE DEF R
<1>2. IsFiniteSet(Units(f, R)) /\ Total(f, R) \in Nat /\ Total(f, S) \in Nat
  BY <1>1, UnitsFinite
<1>3. Total(f, R \cup {x}) = Total(f, R) + f[x]
  BY <1>1, <1>2, OneMoreUnit
<1> QED BY <1>1, <1>2, <1>3 DEF R

\* The sum is the values at two places and the sum over the others.
LEMMA TotalWithoutTwo ==
  ASSUME NEW S, IsFiniteSet(S), NEW f, f \in [S -> Nat], NEW x \in S, NEW y \in S, x # y
  PROVE  /\ Total(f, S) \in Nat /\ Total(f, S \ {x, y}) \in Nat
         /\ f[x] \in Nat /\ f[y] \in Nat
         /\ Total(f, S) = Total(f, S \ {x, y}) + f[x] + f[y]
<1> DEFINE R == S \ {x}
           g == [s \in R |-> f[s]]
<1>1. /\ Total(f, S) \in Nat /\ Total(f, R) \in Nat /\ f[x] \in Nat
      /\ Total(f, S) = Total(f, R) + f[x]
  BY TotalWithout
<1>2. IsFiniteSet(R) /\ g \in [R -> Nat] /\ y \in R /\ R \ {y} = S \ {x, y}
  BY FS_Subset
<1>3. /\ Total(g, R) \in Nat /\ Total(g, R \ {y}) \in Nat /\ g[y] \in Nat
      /\ Total(g, R) = Total(g, R \ {y}) + g[y]
  <2> HIDE DEF R, g
  <2> QED BY <1>2, TotalWithout
<1>4. Total(g, R) = Total(f, R) /\ Total(g, R \ {y}) = Total(f, R \ {y}) /\ g[y] = f[y]
  <2>1. (\A s \in R : g[s] = f[s]) /\ (\A s \in R \ {y} : g[s] = f[s]) /\ g[y] = f[y]
    BY <1>2
  <2> HIDE DEF R, g
  <2> QED BY <2>1, TotalOfEqual
<1> HIDE DEF R, g
<1> QED BY <1>1, <1>2, <1>3, <1>4

\* One element more.
LEMMA TotalWith ==
  ASSUME NEW S, IsFiniteSet(S), NEW f, f \in [S -> Nat], NEW R \in SUBSET S,
         NEW x \in S, x \notin R
  PROVE  /\ Total(f, R) \in Nat /\ f[x] \in Nat
         /\ Total(f, R \cup {x}) = Total(f, R) + f[x]
<1>1. R \subseteq S /\ IsFiniteSet(R) /\ f[x] \in Nat
  BY FS_Subset
<1>2. IsFiniteSet(Units(f, R)) /\ Total(f, R) \in Nat
  BY <1>1, UnitsFinite
<1>3. Total(f, R \cup {x}) = Total(f, R) + f[x]
  BY <1>1, <1>2, OneMoreUnit
<1> QED BY <1>1, <1>2, <1>3

\* A common factor.
Scaled(m, k, S) == [s \in S |-> m * k[s]]

LEMMA TotalScaled ==
  ASSUME NEW S, IsFiniteSet(S), NEW k, k \in [S -> Nat], NEW m \in Nat,
         NEW f, f \in [S -> Nat], f = Scaled(m, k, S)
  PROVE  Total(f, S) = m * Total(k, S)
<1> DEFINE P == {R \in SUBSET S : Total(f, R) = m * Total(k, R)}
<1>1. {} \in P
  <2>1. Total(f, {}) = 0 /\ Total(k, {}) = 0 /\ m * 0 = 0
    BY NoUnits
  <2> QED BY <2>1
<1>2. ASSUME NEW R \in SUBSET S, R # {}, \A x \in R : R \ {x} \in P
      PROVE  R \in P
  <2>1. PICK x \in R : TRUE
    BY <1>2
  <2> DEFINE Q == R \ {x}
  <2>2. Q \subseteq S /\ x \in S /\ x \notin Q /\ R = Q \cup {x} /\ IsFiniteSet(Q)
    BY <2>1, FS_Subset
  <2>3. Total(f, Q) = m * Total(k, Q)
    BY <1>2, <2>1
  <2> HIDE DEF Q
  <2>4. Total(f, Q) \in Nat /\ Total(f, Q \cup {x}) = Total(f, Q) + f[x]
    BY <2>2, TotalWith
  <2>5. /\ Total(k, Q) \in Nat /\ k[x] \in Nat
        /\ Total(k, Q \cup {x}) = Total(k, Q) + k[x]
    BY <2>2, TotalWith
  <2>6. f[x] = m * k[x]
    BY <2>2 DEF Scaled
  <2>7. m * (Total(k, Q) + k[x]) = m * Total(k, Q) + m * k[x]
    <3> DEFINE a == Total(k, Q)
               b == k[x]
    <3>1. a \in Nat /\ b \in Nat
      BY <2>5
    <3> HIDE DEF a, b
    <3>2. m * (a + b) = m * a + m * b
      BY <3>1
    <3> QED BY <3>2 DEF a, b
  <2>8. Total(f, R) = m * Total(k, R)
    BY <2>2, <2>3, <2>4, <2>5, <2>6, <2>7
  <2> QED BY <2>8
<1> HIDE DEF P
<1>3. S \in P
  BY <1>1, <1>2, SetInduction
<1> QED BY <1>3 DEF P

\* Lengths of at most D for the elements of S that satisfy Kraft's inequality.
Room(g, S, D) == [s \in S |-> 2 ^ (D - g[s])]
Kraft(g, S, D) == g \in [S -> 0..D] /\ Total(Room(g, S, D), S) <= 2 ^ D

\* The cost of such lengths.
Costs(g, w, S) == [s \in S |-> w[s] * g[s]]
CostOf(g, w, S) == Total(Costs(g, w, S), S)

\* Their types.
LEMMA FitFacts ==
  ASSUME NEW S, IsFiniteSet(S), NEW D \in Nat, NEW g, g \in [S -> 0..D],
         NEW w, w \in [S -> Nat]
  PROVE  /\ Room(g, S, D) \in [S -> Nat] /\ Total(Room(g, S, D), S) \in Nat
         /\ Costs(g, w, S) \in [S -> Nat] /\ CostOf(g, w, S) \in Nat
         /\ g \in [S -> Nat] /\ Total(g, S) \in Nat /\ 2 ^ D \in Nat
<1>1. ASSUME NEW s \in S
      PROVE 2 ^ (D - g[s]) \in Nat /\ w[s] * g[s] \in Nat /\ g[s] \in Nat
  <2>1. g[s] \in Nat /\ D - g[s] \in Nat /\ w[s] \in Nat
    OBVIOUS
  <2>2. 2 ^ (D - g[s]) \in Nat
    BY <2>1, PowersOfTwo
  <2> QED BY <2>1, <2>2
<1>2. /\ Room(g, S, D) \in [S -> Nat] /\ Costs(g, w, S) \in [S -> Nat]
      /\ g \in [S -> Nat]
  BY <1>1 DEF Room, Costs
<1>3. Total(Room(g, S, D), S) \in Nat /\ CostOf(g, w, S) \in Nat /\ Total(g, S) \in Nat
  BY <1>2, UnitsFinite DEF CostOf
<1> QED BY <1>2, <1>3, PowersOfTwo

\* Of two elements the lighter one may have the longer code.
LEMMA LightLonger ==
  ASSUME NEW a \in Nat, NEW b \in Nat, NEW l \in Nat, NEW m \in Nat, a <= b, l <= m
  PROVE  a * m + b * l <= a * l + b * m
<1>1. PICK d \in Nat : b = a + d
  <2>1. b - a \in Nat /\ b = a + (b - a)
    OBVIOUS
  <2> QED BY <2>1
<1>2. PICK e \in Nat : m = l + e
  <2>1. m - l \in Nat /\ m = l + (m - l)
    OBVIOUS
  <2> QED BY <2>1
<1>3. b * m = b * l + a * e + d * e /\ a * m = a * l + a * e
  BY <1>1, <1>2
<1>4. a * e \in Nat /\ d * e \in Nat /\ b * l \in Nat /\ a * l \in Nat
  BY <1>1, <1>2
<1> DEFINE p == a * e
           q == d * e
           r == b * l
           t == a * l
           u == b * m
           v == a * m
<1>5. u = r + p + q /\ v = t + p /\ p \in Nat /\ q \in Nat /\ r \in Nat /\ t \in Nat
  BY <1>3, <1>4
<1> HIDE DEF p, q, r, t, u, v
<1>6. v + r <= t + u
  BY <1>5
<1> QED BY <1>6 DEF p, q, r, t, u, v

\* So two elements may change their codes, if the lighter one gets the longer.
LEMMA SwapLengths ==
  ASSUME NEW S, IsFiniteSet(S), NEW D \in Nat, NEW w, w \in [S -> Nat],
         NEW g, Kraft(g, S, D), NEW x \in S, NEW y \in S, w[x] <= w[y], g[x] <= g[y],
         NEW h, h = [g EXCEPT ![x] = g[y], ![y] = g[x]]
  PROVE  Kraft(h, S, D) /\ CostOf(h, w, S) <= CostOf(g, w, S)
<1>1. g \in [S -> 0..D] /\ Total(Room(g, S, D), S) <= 2 ^ D
  BY DEF Kraft
<1>2. /\ h \in [S -> 0..D] /\ h[x] = g[y] /\ h[y] = g[x]
      /\ \A s \in S \ {x, y} : h[s] = g[s]
  BY <1>1
<1>3. CASE x = y
  <2>1. h = g
    BY <1>1, <1>2, <1>3
  <2>2. CostOf(g, w, S) \in Nat
    BY <1>1, FitFacts
  <2> QED BY <2>1, <2>2
<1>4. CASE x # y
  <2> DEFINE R == S \ {x, y}
             a == Room(g, S, D)
             b == Room(h, S, D)
             c == Costs(g, w, S)
             d == Costs(h, w, S)
  <2>1. /\ a \in [S -> Nat] /\ b \in [S -> Nat] /\ c \in [S -> Nat] /\ d \in [S -> Nat]
    BY <1>1, <1>2, FitFacts
  <2>2. /\ a[x] = b[y] /\ a[y] = b[x]
        /\ \A s \in R : a[s] = b[s] /\ c[s] = d[s]
        /\ c[x] = w[x] * g[x] /\ c[y] = w[y] * g[y]
        /\ d[x] = w[x] * g[y] /\ d[y] = w[y] * g[x]
    BY <1>2 DEF Room, Costs
  <2> HIDE DEF a, b, c, d
  <2>3. Total(a, R) = Total(b, R) /\ Total(c, R) = Total(d, R)
    <3> HIDE DEF R
    <3> QED BY <2>2, TotalOfEqual
  <2>4. /\ Total(a, R) \in Nat /\ Total(c, R) \in Nat
        /\ a[x] \in Nat /\ a[y] \in Nat /\ c[x] \in Nat /\ c[y] \in Nat
        /\ Total(a, S) = Total(a, R) + a[x] + a[y]
        /\ Total(c, S) = Total(c, R) + c[x] + c[y]
    BY <1>4, <2>1, TotalWithoutTwo
  <2>5. /\ d[x] \in Nat /\ d[y] \in Nat
        /\ Total(b, S) = Total(b, R) + b[x] + b[y]
        /\ Total(d, S) = Total(d, R) + d[x] + d[y]
    BY <1>4, <2>1, TotalWithoutTwo
  <2>6. d[x] + d[y] <= c[x] + c[y]
    <3>1. w[x] \in Nat /\ w[y] \in Nat /\ g[x] \in Nat /\ g[y] \in Nat
      BY <1>1
    <3>2. w[x] * g[y] + w[y] * g[x] <= w[x] * g[x] + w[y] * g[y]
      BY <3>1, LightLonger
    <3> QED BY <2>2, <3>2
  <2> HIDE DEF R
  <2>7. Total(b, S) = Total(a, S)
    BY <2>2, <2>3, <2>4, <2>5
  <2>8. Total(d, S) <= Total(c, S)
    BY <2>3, <2>4, <2>5, <2>6
  <2> QED BY <1>1, <1>2, <2>7, <2>8 DEF Kraft, CostOf, a, b, c, d
<1> QED BY <1>3, <1>4

\* A set of numbers has a least one.
LEMMA LeastNumber ==
  ASSUME NEW S, S \subseteq Nat, S # {}
  PROVE  \E n \in S : \A m \in S : n <= m
<1> SUFFICES ASSUME \A n \in S : \E m \in S : ~(n <= m) PROVE FALSE
  OBVIOUS
<1> DEFINE Z == {n \in Nat : \A m \in S : m >= n}
<1>1. 0 \in Z
  OBVIOUS
<1>2. ASSUME NEW n \in Nat, n \in Z PROVE n + 1 \in Z
  <2>1. n \notin S
    <3> SUFFICES ASSUME n \in S PROVE FALSE
      OBVIOUS
    <3>1. PICK m \in S : ~(n <= m)
      OBVIOUS
    <3>2. m >= n /\ m \in Nat
      BY <1>2
    <3> QED BY <3>1, <3>2
  <2>2. ASSUME NEW m \in S PROVE m >= n + 1
    <3>1. m \in Nat /\ m >= n /\ m # n
      BY <1>2, <2>1
    <3> QED BY <3>1
  <2> QED BY <2>2
<1> HIDE DEF Z
<1>3. \A n \in Nat : n \in Z
  BY <1>1, <1>2, Induction
<1>4. PICK k \in S : TRUE
  OBVIOUS
<1>5. k + 1 \in Z /\ k \in Nat
  BY <1>3, <1>4
<1>6. k >= k + 1
  BY <1>4, <1>5 DEF Z
<1> QED BY <1>5, <1>6

\* One length at least is the greatest.
LEMMA Longest ==
  ASSUME NEW S, S # {}, NEW D \in Nat, NEW g, g \in [S -> 0..D]
  PROVE  \E a \in S : \A s \in S : g[s] <= g[a]
<1> DEFINE B == {n \in Nat : \A s \in S : g[s] <= n}
<1>1. D \in B /\ B \subseteq Nat
  OBVIOUS
<1>2. PICK n \in B : \A m \in B : n <= m
  <2> HIDE DEF B
  <2> QED BY <1>1, LeastNumber
<1>3. \A s \in S : g[s] \in Nat /\ g[s] <= n
  BY <1>2
<1>4. CASE n = 0
  <2>1. \A s, r \in S : g[s] <= g[r]
    <3> SUFFICES ASSUME NEW s \in S, NEW r \in S PROVE g[s] <= g[r]
      OBVIOUS
    <3>1. g[s] \in Nat /\ g[r] \in Nat /\ g[s] <= 0
      BY <1>3, <1>4
    <3> QED BY <3>1
  <2> QED BY <2>1
<1>5. CASE n # 0
  <2>1. n - 1 \in Nat /\ ~(n <= n - 1)
    BY <1>5
  <2>2. n - 1 \notin B
    BY <1>2, <2>1
  <2>3. PICK a \in S : ~(g[a] <= n - 1)
    BY <2>1, <2>2
  <2>4. g[a] = n
    BY <1>3, <2>1, <2>3
  <2> QED BY <1>3, <2>4
<1> QED BY <1>4, <1>5

\* A single longest code is longer than it has to be.
LEMMA Shorten ==
  ASSUME NEW S, IsFiniteSet(S), NEW D \in Nat, NEW w, w \in [S -> Nat],
         NEW g, Kraft(g, S, D), NEW a \in S, \A s \in S \ {a} : g[s] < g[a], g[a] >= 1,
         NEW h, h = [g EXCEPT ![a] = g[a] - 1]
  PROVE  /\ Kraft(h, S, D) /\ CostOf(h, w, S) <= CostOf(g, w, S)
         /\ Total(h, S) < Total(g, S)
<1> DEFINE R == S \ {a}
           l == g[a]
           u == 2 ^ (D - l)
           m == 2 * u
           k == [s \in R |-> 2 ^ (l - 1 - g[s])]
           P == 2 ^ (l - 1)
           K == Total(k, R)
           p == Room(g, S, D)
           q == Room(h, S, D)
           c == Costs(g, w, S)
           d == Costs(h, w, S)
<1>1. g \in [S -> 0..D] /\ Total(p, S) <= 2 ^ D
  BY DEF Kraft
<1>2. l \in Nat /\ D - l \in Nat /\ l - 1 \in Nat /\ IsFiniteSet(R) /\ w[a] \in Nat
  BY <1>1, FS_Subset
<1>3. h \in [S -> 0..D] /\ h[a] = l - 1 /\ \A s \in R : h[s] = g[s]
  BY <1>1, <1>2
<1>4. /\ p \in [S -> Nat] /\ q \in [S -> Nat] /\ c \in [S -> Nat] /\ d \in [S -> Nat]
      /\ g \in [S -> Nat] /\ h \in [S -> Nat]
  BY <1>1, <1>3, FitFacts
<1>5. u \in Nat /\ u > 0 /\ P \in Nat /\ p[a] = u /\ 2 ^ D \in Nat
  BY <1>2, PowersOfTwo DEF Room
<1>6. q[a] = m
  <2>1. D - (l - 1) = (D - l) + 1
    BY <1>2
  <2>2. 2 ^ ((D - l) + 1) = 2 * u
    BY <1>2, PowersOfTwo
  <2> QED BY <1>3, <2>1, <2>2 DEF Room
<1>7. 2 ^ D = m * P
  <2>1. (D - l) + 1 \in Nat /\ D = ((D - l) + 1) + (l - 1)
    BY <1>2
  <2>2. 2 ^ (((D - l) + 1) + (l - 1)) = 2 ^ ((D - l) + 1) * P
    BY <1>2, <2>1, PowerOfSum
  <2>3. 2 ^ ((D - l) + 1) = m
    BY <1>2, PowersOfTwo
  <2> QED BY <2>1, <2>2, <2>3
<1>8. ASSUME NEW s \in R PROVE 2 ^ (l - 1 - g[s]) \in Nat /\ p[s] = m * 2 ^ (l - 1 - g[s])
  <2>1. g[s] \in Nat /\ g[s] < l
    BY <1>1
  <2>2. l - 1 - g[s] \in Nat /\ (D - l) + 1 \in Nat
        /\ D - g[s] = ((D - l) + 1) + (l - 1 - g[s])
    BY <1>2, <2>1
  <2>3. 2 ^ (((D - l) + 1) + (l - 1 - g[s])) = 2 ^ ((D - l) + 1) * 2 ^ (l - 1 - g[s])
    BY <2>2, PowerOfSum
  <2>4. 2 ^ ((D - l) + 1) = m /\ 2 ^ (l - 1 - g[s]) \in Nat
    BY <1>2, <2>2, PowersOfTwo
  <2> QED BY <2>2, <2>3, <2>4 DEF Room
<1> DEFINE pR == [s \in R |-> p[s]]
<1>9. k \in [R -> Nat] /\ pR \in [R -> Nat] /\ pR = Scaled(m, k, R) /\ m \in Nat
  BY <1>4, <1>5, <1>8 DEF Scaled
<1>10. \A s \in R : p[s] = q[s] /\ c[s] = d[s] /\ p[s] = pR[s]
  BY <1>3 DEF Room, Costs
<1>11. c[a] = w[a] * l /\ d[a] = w[a] * (l - 1)
  BY <1>3 DEF Costs
<1> HIDE DEF p, q, c, d, k, pR, u, P
<1>12. Total(pR, R) = m * K /\ K \in Nat
  <2>1. Total(pR, R) = m * Total(k, R)
    <3> HIDE DEF R, m
    <3> QED BY <1>2, <1>9, TotalScaled
  <2>2. Total(k, R) \in Nat
    <3> HIDE DEF R
    <3> QED BY <1>2, <1>9, UnitsFinite
  <2> QED BY <2>1, <2>2
<1>13. /\ Total(p, R) = Total(pR, R) /\ Total(p, R) = Total(q, R)
       /\ Total(c, R) = Total(d, R) /\ Total(g, R) = Total(h, R)
  <2>1. Total(p, R) = Total(pR, R)
    <3> HIDE DEF R
    <3> QED BY <1>10, TotalOfEqual
  <2>2. Total(p, R) = Total(q, R)
    <3> HIDE DEF R
    <3> QED BY <1>10, TotalOfEqual
  <2>3. Total(c, R) = Total(d, R)
    <3> HIDE DEF R
    <3> QED BY <1>10, TotalOfEqual
  <2>4. Total(g, R) = Total(h, R)
    <3> HIDE DEF R
    <3> QED BY <1>3, TotalOfEqual
  <2> QED BY <2>1, <2>2, <2>3, <2>4
<1>14. Total(p, S) = Total(p, R) + p[a] /\ Total(p, R) \in Nat
  BY <1>4, TotalWithout
<1>15. Total(q, S) = Total(q, R) + q[a]
  BY <1>4, TotalWithout
<1>16. Total(c, S) = Total(c, R) + c[a] /\ Total(c, R) \in Nat
  BY <1>4, TotalWithout
<1>17. Total(d, S) = Total(d, R) + d[a]
  BY <1>4, TotalWithout
<1>18. Total(g, S) = Total(g, R) + g[a] /\ Total(g, R) \in Nat
  BY <1>4, TotalWithout
<1>19. Total(h, S) = Total(h, R) + h[a]
  BY <1>4, TotalWithout
<1>20. m * K + m <= m * P
  <2>1. m * K + u <= m * P
    BY <1>1, <1>5, <1>7, <1>12, <1>13, <1>14
  <2>2. K * m < P * m
    <3> DEFINE x == m * K
               y == m * P
    <3>1. x \in Nat /\ y \in Nat /\ x + u <= y /\ K * m = x /\ P * m = y
      BY <1>5, <1>12, <2>1
    <3> HIDE DEF x, y
    <3> QED BY <1>5, <3>1
  <2>3. K < P
    BY <1>5, <1>12, <2>2, Cancel
  <2>4. PICK e \in Nat : P = K + 1 + e
    <3>1. P - K - 1 \in Nat /\ P = K + 1 + (P - K - 1)
      BY <1>5, <1>12, <2>3
    <3> QED BY <3>1
  <2>5. m \in Nat /\ m * P = m * K + m + m * e
    <3> HIDE DEF K
    <3> QED BY <1>5, <1>12, <2>4
  <2>6. m * e \in Nat /\ m * K \in Nat
    BY <1>12, <2>5
  <2> DEFINE x == m * e
             y == m * K
             z == m * P
  <2> HIDE DEF m, x, y, z
  <2>7. x \in Nat /\ y \in Nat /\ m \in Nat /\ z = y + m + x
    BY <2>5, <2>6 DEF x, y, z
  <2>8. y + m <= z
    BY <2>7
  <2> QED BY <2>8 DEF y, z
<1>21. Total(q, S) <= 2 ^ D
  BY <1>6, <1>7, <1>12, <1>13, <1>15, <1>20
<1>22. d[a] <= c[a]
  <2>1. w[a] * l = w[a] * (l - 1) + w[a] /\ w[a] * (l - 1) \in Nat
    <3>1. PICK n \in Nat : l = n + 1
      <4>1. l = (l - 1) + 1
        BY <1>2
      <4> QED BY <1>2, <4>1
    <3>2. w[a] * (n + 1) = w[a] * n + w[a] /\ l - 1 = n
      BY <1>2, <3>1
    <3> QED BY <1>2, <3>1, <3>2
  <2> DEFINE x == w[a] * l
             y == w[a] * (l - 1)
  <2> HIDE DEF x, y
  <2>2. x = y + w[a] /\ y \in Nat
    BY <2>1 DEF x, y
  <2>3. y <= x
    BY <1>2, <2>2
  <2> QED BY <1>11, <2>3 DEF x, y
<1>23. d[a] \in Nat /\ c[a] \in Nat
  BY <1>4
<1>24. Total(d, S) <= Total(c, S)
  BY <1>13, <1>16, <1>17, <1>22, <1>23
<1>25. Total(h, S) < Total(g, S)
  BY <1>2, <1>3, <1>13, <1>18, <1>19
<1> QED BY <1>3, <1>21, <1>24, <1>25 DEF Kraft, CostOf, q, c, d

\* Two codes at least need not be shorter than any other.
LEMMA TwoLongest ==
  ASSUME NEW S, IsFiniteSet(S), NEW D \in Nat, NEW w, w \in [S -> Nat],
         NEW g, Kraft(g, S, D), NEW x \in S, NEW y \in S, x # y
  PROVE  \E h : /\ Kraft(h, S, D) /\ CostOf(h, w, S) <= CostOf(g, w, S)
                /\ \E a, b \in S : /\ a # b /\ h[a] >= 1 /\ h[b] = h[a]
                                   /\ \A s \in S : h[s] <= h[a]
<1> DEFINE Good(h) == Kraft(h, S, D) /\ CostOf(h, w, S) <= CostOf(g, w, S)
           T == {n \in Nat : \E h : Good(h) /\ Total(h, S) = n}
<1>1. T \subseteq Nat /\ T # {}
  <2>1. g \in [S -> 0..D]
    BY DEF Kraft
  <2>2. CostOf(g, w, S) \in Nat /\ Total(g, S) \in Nat
    BY <2>1, FitFacts
  <2>3. Total(g, S) \in T
    BY <2>2
  <2> QED BY <2>3
<1>2. PICK n \in T : \A m \in T : n <= m
  <2> HIDE DEF T
  <2> QED BY <1>1, LeastNumber
<1>3. PICK h : Good(h) /\ Total(h, S) = n
  OBVIOUS
<1>4. /\ h \in [S -> 0..D] /\ Total(Room(h, S, D), S) <= 2 ^ D
      /\ CostOf(h, w, S) <= CostOf(g, w, S) /\ g \in [S -> 0..D]
  BY <1>3 DEF Kraft
<1>5. PICK a \in S : \A s \in S : h[s] <= h[a]
  BY <1>4, Longest
<1>6. h[a] >= 1
  <2> SUFFICES ASSUME ~(h[a] >= 1) PROVE FALSE
    OBVIOUS
  <2>1. ASSUME NEW s \in S PROVE h[s] = 0
    BY <1>4, <1>5
  <2> DEFINE p == Room(h, S, D)
  <2>2. p[x] = 2 ^ D /\ p[y] = 2 ^ D
    <3>1. D - 0 = D /\ h[x] = 0 /\ h[y] = 0
      BY <2>1
    <3> QED BY <3>1 DEF Room
  <2>3. p \in [S -> Nat] /\ 2 ^ D \in Nat /\ 2 ^ D > 0
    BY <1>4, FitFacts, PowersOfTwo
  <2> HIDE DEF p
  <2>4. Total(p, S \ {x, y}) \in Nat /\ Total(p, S) = Total(p, S \ {x, y}) + p[x] + p[y]
    BY <2>3, TotalWithoutTwo
  <2>5. Total(p, S) <= 2 ^ D
    BY <1>4 DEF p
  <2> QED BY <2>2, <2>3, <2>4, <2>5
<1>7. \E b \in S : a # b /\ h[b] = h[a]
  <2> SUFFICES ASSUME \A b \in S : a # b => h[b] # h[a] PROVE FALSE
    OBVIOUS
  <2>1. \A s \in S \ {a} : h[s] < h[a]
    BY <1>4, <1>5
  <2> DEFINE f == [h EXCEPT ![a] = h[a] - 1]
  <2>2. /\ Kraft(f, S, D) /\ CostOf(f, w, S) <= CostOf(h, w, S)
        /\ Total(f, S) < Total(h, S)
    BY <1>3, <1>6, <2>1, Shorten
  <2>3. f \in [S -> 0..D]
    BY <2>2 DEF Kraft
  <2> HIDE DEF f
  <2>4. CostOf(f, w, S) \in Nat /\ Total(f, S) \in Nat
    BY <2>3, FitFacts
  <2>5. CostOf(h, w, S) \in Nat /\ CostOf(g, w, S) \in Nat
    BY <1>4, FitFacts
  <2>6. Good(f)
    BY <1>4, <2>2, <2>4, <2>5
  <2>7. Total(f, S) \in T
    BY <2>4, <2>6
  <2> QED BY <1>2, <1>3, <2>2, <2>4, <2>7
<1> QED BY <1>3, <1>5, <1>6, <1>7

\* They may be those of the two lightest.
LEMMA LightestLongest ==
  ASSUME NEW S, IsFiniteSet(S), NEW D \in Nat, NEW w, w \in [S -> Nat],
         NEW g, Kraft(g, S, D), NEW x \in S, NEW y \in S, x # y,
         \A s \in S : w[x] <= w[s], \A s \in S \ {x} : w[y] <= w[s]
  PROVE  \E h : /\ Kraft(h, S, D) /\ CostOf(h, w, S) <= CostOf(g, w, S)
                /\ h[x] >= 1 /\ h[y] = h[x]
<1>1. PICK e : /\ Kraft(e, S, D) /\ CostOf(e, w, S) <= CostOf(g, w, S)
               /\ \E a, b \in S : /\ a # b /\ e[a] >= 1 /\ e[b] = e[a]
                                  /\ \A s \in S : e[s] <= e[a]
  BY TwoLongest
<1>2. e \in [S -> 0..D] /\ g \in [S -> 0..D]
  BY <1>1 DEF Kraft
<1>3. CostOf(e, w, S) \in Nat /\ CostOf(g, w, S) \in Nat
  BY <1>2, FitFacts
<1>4. PICK a \in S, b \in S : /\ a # b /\ b # x /\ e[a] >= 1 /\ e[b] = e[a]
                              /\ \A s \in S : e[s] <= e[a]
  <2>1. PICK a \in S, b \in S : /\ a # b /\ e[a] >= 1 /\ e[b] = e[a]
                                /\ \A s \in S : e[s] <= e[a]
    BY <1>1
  <2>2. CASE b # x
    BY <2>1, <2>2
  <2>3. CASE b = x
    BY <2>1, <2>3
  <2> QED BY <2>2, <2>3
<1> DEFINE f == [e EXCEPT ![x] = e[a], ![a] = e[x]]
           h == [f EXCEPT ![y] = f[b], ![b] = f[y]]
<1>5. /\ f \in [S -> 0..D] /\ f[x] = e[a] /\ f[b] = e[a]
      /\ \A s \in S : f[s] <= e[a]
  BY <1>2, <1>4
<1>6. h[x] = e[a] /\ h[y] = e[a]
  BY <1>4, <1>5
<1>7. Kraft(f, S, D) /\ CostOf(f, w, S) <= CostOf(e, w, S)
  BY <1>1, <1>4, SwapLengths
<1> HIDE DEF f
<1>8. Kraft(h, S, D) /\ CostOf(h, w, S) <= CostOf(f, w, S)
  <2>1. f[y] <= f[b] /\ w[y] <= w[b]
    BY <1>4, <1>5
  <2> QED BY <1>7, <2>1, SwapLengths
<1>9. h \in [S -> 0..D]
  BY <1>8 DEF Kraft
<1> HIDE DEF h
<1>10. CostOf(f, w, S) \in Nat /\ CostOf(h, w, S) \in Nat
  BY <1>5, <1>9, FitFacts
<1>11. CostOf(h, w, S) <= CostOf(g, w, S)
  BY <1>1, <1>3, <1>7, <1>8, <1>10
<1> QED BY <1>4, <1>6, <1>8, <1>11

\* x and y of S become z of R, which weighs as much as both.
Merges(S, w, x, y, R, v, z) ==
  /\ x \in S /\ y \in S /\ x # y /\ z \notin S \ {x, y}
  /\ R = (S \ {x, y}) \cup {z}
  /\ w \in [S -> Nat] /\ v \in [R -> Nat]
  /\ v[z] = w[x] + w[y]
  /\ \A s \in S \ {x, y} : v[s] = w[s]

\* What a merge does to the room and the costs, when the codes of x and y are those of
\* z with one bit more.
LEMMA MergeCosts ==
  ASSUME NEW S, IsFiniteSet(S), NEW D \in Nat, NEW w, NEW x, NEW y, NEW R, NEW v, NEW z,
         Merges(S, w, x, y, R, v, z),
         NEW g, g \in [S -> 0..D], NEW f, f \in [R -> 0..D],
         g[x] = f[z] + 1, g[y] = f[z] + 1, \A s \in S \ {x, y} : g[s] = f[s]
  PROVE  /\ IsFiniteSet(R)
         /\ Total(Room(g, S, D), S) = Total(Room(f, R, D), R)
         /\ CostOf(g, w, S) = CostOf(f, v, R) + w[x] + w[y]
         /\ CostOf(g, w, S) \in Nat /\ CostOf(f, v, R) \in Nat
<1> DEFINE Q == S \ {x, y}
           p == Room(g, S, D)
           q == Room(f, R, D)
           c == Costs(g, w, S)
           d == Costs(f, v, R)
           l == f[z]
<1>1. /\ x \in S /\ y \in S /\ x # y /\ z \notin Q /\ R = Q \cup {z} /\ z \in R
      /\ w \in [S -> Nat] /\ v \in [R -> Nat]
      /\ v[z] = w[x] + w[y] /\ \A s \in Q : v[s] = w[s]
  BY DEF Merges
<1>2. IsFiniteSet(Q) /\ IsFiniteSet(R) /\ R \ {z} = Q
  <2>1. IsFiniteSet(Q)
    BY FS_Subset
  <2>2. IsFiniteSet(Q \cup {z})
    BY <2>1, FS_AddElement
  <2> QED BY <1>1, <2>1, <2>2
<1>3. p \in [S -> Nat] /\ c \in [S -> Nat] /\ CostOf(g, w, S) \in Nat
  BY <1>1, FitFacts
<1>4. q \in [R -> Nat] /\ d \in [R -> Nat] /\ CostOf(f, v, R) \in Nat
  BY <1>1, <1>2, FitFacts
<1>5. l \in Nat /\ l + 1 <= D
  <2>1. f[z] \in 0..D /\ g[x] \in 0..D
    BY <1>1
  <2> QED BY <2>1
<1>6. \A s \in Q : p[s] = q[s] /\ c[s] = d[s]
  BY <1>1 DEF Room, Costs
<1>7. p[x] + p[y] = q[z]
  <2>1. D - (l + 1) \in Nat /\ D - l = (D - (l + 1)) + 1
    BY <1>5
  <2>2. 2 ^ ((D - (l + 1)) + 1) = 2 * 2 ^ (D - (l + 1)) /\ 2 ^ (D - (l + 1)) \in Nat
    BY <2>1, PowersOfTwo
  <2>3. p[x] = 2 ^ (D - (l + 1)) /\ p[y] = 2 ^ (D - (l + 1)) /\ q[z] = 2 ^ (D - l)
    BY <1>1 DEF Room
  <2> QED BY <2>1, <2>2, <2>3
<1>8. c[x] + c[y] = d[z] + w[x] + w[y]
  <2>1. c[x] = w[x] * (l + 1) /\ c[y] = w[y] * (l + 1) /\ d[z] = (w[x] + w[y]) * l
    BY <1>1 DEF Costs
  <2> DEFINE a == w[x]
             b == w[y]
  <2>2. a \in Nat /\ b \in Nat
    BY <1>1
  <2> HIDE DEF a, b, l
  <2>3. a * (l + 1) + b * (l + 1) = (a + b) * l + a + b
    BY <1>5, <2>2
  <2> QED BY <2>1, <2>3 DEF a, b
<1>9. w[x] \in Nat /\ w[y] \in Nat
  BY <1>1
<1> HIDE DEF p, q, c, d, l
<1>10. Total(p, Q) = Total(q, Q) /\ Total(c, Q) = Total(d, Q)
  <2>1. Total(p, Q) = Total(q, Q)
    <3> HIDE DEF Q
    <3> QED BY <1>6, TotalOfEqual
  <2>2. Total(c, Q) = Total(d, Q)
    <3> HIDE DEF Q
    <3> QED BY <1>6, TotalOfEqual
  <2> QED BY <2>1, <2>2
<1>11. /\ Total(p, S) = Total(p, Q) + p[x] + p[y]
       /\ Total(p, Q) \in Nat /\ p[x] \in Nat /\ p[y] \in Nat
  BY <1>1, <1>3, TotalWithoutTwo
<1>12. /\ Total(c, S) = Total(c, Q) + c[x] + c[y]
       /\ Total(c, Q) \in Nat /\ c[x] \in Nat /\ c[y] \in Nat
  BY <1>1, <1>3, TotalWithoutTwo
<1>13. Total(q, R) = Total(q, R \ {z}) + q[z] /\ q[z] \in Nat
  BY <1>1, <1>2, <1>4, TotalWithout
<1>14. Total(d, R) = Total(d, R \ {z}) + d[z] /\ d[z] \in Nat
  BY <1>1, <1>2, <1>4, TotalWithout
<1> HIDE DEF Q
<1>15. Total(p, S) = Total(q, R)
  BY <1>2, <1>7, <1>10, <1>11, <1>13
<1>16. Total(c, S) = Total(d, R) + w[x] + w[y]
  <2>1. Total(d, R) = Total(c, Q) + d[z]
    BY <1>2, <1>10, <1>14
  <2>2. Total(c, S) = Total(c, Q) + (d[z] + w[x] + w[y])
    BY <1>8, <1>12
  <2> QED BY <1>9, <1>12, <1>14, <2>1, <2>2
<1> QED BY <1>2, <1>3, <1>4, <1>15, <1>16 DEF CostOf, p, q, c, d

\* If the two lightest are merged nothing is lost: the least cost sinks by what they
\* weigh.
LEMMA MergeLowers ==
  ASSUME NEW S, IsFiniteSet(S), NEW D \in Nat, NEW w, NEW x, NEW y, NEW R, NEW v, NEW z,
         Merges(S, w, x, y, R, v, z),
         \A s \in S : w[x] <= w[s], \A s \in S \ {x} : w[y] <= w[s],
         NEW g, Kraft(g, S, D)
  PROVE  /\ IsFiniteSet(R)
         /\ \E f : Kraft(f, R, D) /\ CostOf(f, v, R) + w[x] + w[y] <= CostOf(g, w, S)
<1>1. /\ x \in S /\ y \in S /\ x # y /\ z \notin S \ {x, y}
      /\ R = (S \ {x, y}) \cup {z} /\ w \in [S -> Nat] /\ v \in [R -> Nat]
  BY DEF Merges
<1>2. PICK h : /\ Kraft(h, S, D) /\ CostOf(h, w, S) <= CostOf(g, w, S)
               /\ h[x] >= 1 /\ h[y] = h[x]
  BY <1>1, LightestLongest
<1>3. h \in [S -> 0..D] /\ Total(Room(h, S, D), S) <= 2 ^ D /\ g \in [S -> 0..D]
  BY <1>2 DEF Kraft
<1> DEFINE f == [s \in R |-> IF s = z THEN h[x] - 1 ELSE h[s]]
<1>4. /\ f \in [R -> 0..D] /\ h[x] = f[z] + 1 /\ h[y] = f[z] + 1
      /\ \A s \in S \ {x, y} : h[s] = f[s]
  BY <1>1, <1>2, <1>3
<1> HIDE DEF f
<1>5. /\ IsFiniteSet(R)
      /\ Total(Room(h, S, D), S) = Total(Room(f, R, D), R)
      /\ CostOf(h, w, S) = CostOf(f, v, R) + w[x] + w[y]
  BY <1>3, <1>4, MergeCosts
<1>6. Kraft(f, R, D)
  BY <1>3, <1>4, <1>5 DEF Kraft
<1>7. CostOf(f, v, R) + w[x] + w[y] <= CostOf(g, w, S)
  BY <1>2, <1>5
<1> QED BY <1>5, <1>6, <1>7

\* The other way round, codes for R are codes for S.
LEMMA SplitRaises ==
  ASSUME NEW S, IsFiniteSet(S), NEW D \in Nat, NEW w, NEW x, NEW y, NEW R, NEW v, NEW z,
         Merges(S, w, x, y, R, v, z),
         NEW f, Kraft(f, R, D), f[z] < D
  PROVE  \E g : /\ Kraft(g, S, D) /\ CostOf(g, w, S) = CostOf(f, v, R) + w[x] + w[y]
                /\ g = [s \in S |-> IF s \in {x, y} THEN f[z] + 1 ELSE f[s]]
<1>1. /\ x \in S /\ y \in S /\ x # y /\ z \in R
      /\ R = (S \ {x, y}) \cup {z} /\ w \in [S -> Nat] /\ v \in [R -> Nat]
  BY DEF Merges
<1>2. f \in [R -> 0..D] /\ Total(Room(f, R, D), R) <= 2 ^ D
  BY DEF Kraft
<1> DEFINE g == [s \in S |-> IF s \in {x, y} THEN f[z] + 1 ELSE f[s]]
<1>3. /\ g \in [S -> 0..D] /\ g[x] = f[z] + 1 /\ g[y] = f[z] + 1
      /\ \A s \in S \ {x, y} : g[s] = f[s]
  BY <1>1, <1>2
<1> HIDE DEF g
<1>4. /\ Total(Room(g, S, D), S) = Total(Room(f, R, D), R)
      /\ CostOf(g, w, S) = CostOf(f, v, R) + w[x] + w[y]
  BY <1>2, <1>3, MergeCosts
<1>5. Kraft(g, S, D)
  BY <1>2, <1>3, <1>4 DEF Kraft
<1> QED BY <1>4, <1>5 DEF g

\* The sum of two functions.
Both(f, g, S) == [s \in S |-> f[s] + g[s]]

LEMMA TotalOfSum ==
  ASSUME NEW S, IsFiniteSet(S), NEW f, f \in [S -> Nat], NEW g, g \in [S -> Nat]
  PROVE  Total(Both(f, g, S), S) = Total(f, S) + Total(g, S)
<1> DEFINE h == Both(f, g, S)
           P == {R \in SUBSET S : Total(h, R) = Total(f, R) + Total(g, R)}
<1>1. h \in [S -> Nat] /\ \A s \in S : h[s] = f[s] + g[s]
  BY DEF Both
<1> HIDE DEF h
<1>2. {} \in P
  <2>1. Total(f, {}) = 0 /\ Total(g, {}) = 0 /\ Total(h, {}) = 0
    BY NoUnits
  <2> QED BY <2>1
<1>3. ASSUME NEW R \in SUBSET S, R # {}, \A x \in R : R \ {x} \in P
      PROVE  R \in P
  <2>1. PICK x \in R : TRUE
    BY <1>3
  <2> DEFINE Q == R \ {x}
  <2>2. Q \in SUBSET S /\ x \in S /\ x \notin Q /\ R = Q \cup {x}
    BY <2>1
  <2>3. Total(h, Q) = Total(f, Q) + Total(g, Q)
    BY <1>3, <2>1
  <2> HIDE DEF Q
  <2>4. Total(f, Q) \in Nat /\ f[x] \in Nat /\ Total(f, Q \cup {x}) = Total(f, Q) + f[x]
    BY <2>2, TotalWith
  <2>5. Total(g, Q) \in Nat /\ g[x] \in Nat /\ Total(g, Q \cup {x}) = Total(g, Q) + g[x]
    BY <2>2, TotalWith
  <2>6. Total(h, Q \cup {x}) = Total(h, Q) + h[x]
    BY <1>1, <2>2, TotalWith
  <2>7. Total(h, R) = Total(f, R) + Total(g, R)
    BY <1>1, <2>2, <2>3, <2>4, <2>5, <2>6
  <2> QED BY <2>7
<1> HIDE DEF P
<1>4. S \in P
  BY <1>2, <1>3, SetInduction
<1> QED BY <1>4 DEF P, h

\* The elements of A, each counted once.
Marks(A, S) == [s \in S |-> IF s \in A THEN 1 ELSE 0]

LEMMA TotalOfOnes ==
  ASSUME NEW S, IsFiniteSet(S), NEW A, A \subseteq S
  PROVE  Marks(A, S) \in [S -> Nat] /\ Total(Marks(A, S), S) = Cardinality(A)
<1> DEFINE f == Marks(A, S)
           P == {R \in SUBSET S : Total(f, R) = Cardinality(R \cap A)}
<1>1. f \in [S -> Nat] /\ \A s \in S : f[s] = IF s \in A THEN 1 ELSE 0
  BY DEF Marks
<1> HIDE DEF f
<1>2. {} \in P
  <2>1. Total(f, {}) = 0 /\ {} \cap A = {} /\ Cardinality({}) = 0
    BY NoUnits, FS_EmptySet
  <2> QED BY <2>1
<1>3. ASSUME NEW R \in SUBSET S, R # {}, \A x \in R : R \ {x} \in P
      PROVE  R \in P
  <2>1. PICK x \in R : TRUE
    BY <1>3
  <2> DEFINE Q == R \ {x}
  <2>2. Q \in SUBSET S /\ x \in S /\ x \notin Q /\ R = Q \cup {x}
    BY <2>1
  <2>3. Total(f, Q) = Cardinality(Q \cap A)
    BY <1>3, <2>1
  <2> HIDE DEF Q
  <2>4. Total(f, Q) \in Nat /\ f[x] \in Nat /\ Total(f, Q \cup {x}) = Total(f, Q) + f[x]
    BY <1>1, <2>2, TotalWith
  <2>5. CASE x \in A
    <3>1. R \cap A = (Q \cap A) \cup {x} /\ x \notin Q \cap A /\ f[x] = 1
      BY <1>1, <2>2, <2>5
    <3>2. IsFiniteSet(Q \cap A)
      BY <2>2, FS_Subset
    <3> DEFINE B == Q \cap A
    <3> HIDE DEF B
    <3>3. Cardinality(B \cup {x}) = Cardinality(B) + 1
      BY <3>1, <3>2, FS_AddElement DEF B
    <3> QED BY <2>2, <2>3, <2>4, <3>1, <3>3 DEF B
  <2>6. CASE x \notin A
    <3>1. R \cap A = Q \cap A /\ f[x] = 0
      BY <1>1, <2>2, <2>6
    <3>2. Total(f, Q \cup {x}) = Total(f, Q)
      BY <2>4, <3>1
    <3>3. Total(f, R) = Cardinality(R \cap A)
      BY <2>2, <2>3, <3>1, <3>2
    <3> QED BY <3>3
  <2> QED BY <2>5, <2>6
<1> HIDE DEF P
<1>4. S \in P
  BY <1>2, <1>3, SetInduction
<1>5. S \cap A = A
  OBVIOUS
<1> QED BY <1>1, <1>4, <1>5 DEF P, f

\* The sum over the places i of f[d[i]], symbol by symbol.
Having(d, I, s) == {i \in I : d[i] = s}

LEMMA TotalByValue ==
  ASSUME NEW I, IsFiniteSet(I), NEW S, IsFiniteSet(S), NEW d, \A i \in I : d[i] \in S,
         NEW f, f \in [S -> Nat],
         NEW w, w \in [S -> Nat], \A s \in S : w[s] = Cardinality(Having(d, I, s)),
         NEW g, g \in [I -> Nat], \A i \in I : g[i] = f[d[i]]
  PROVE  CostOf(f, w, S) = Total(g, I)
<1> DEFINE At(V) == {i \in I : d[i] \in V}
           one(s) == Having(d, I, s)
           c == Costs(f, w, S)
           P == {V \in SUBSET S : Total(c, V) = Total(g, At(V))}
<1>1. ASSUME NEW s \in S
      PROVE  IsFiniteSet(one(s)) /\ Cardinality(one(s)) \in Nat /\ one(s) \subseteq I
  <2>1. one(s) \subseteq I
    BY DEF Having
  <2>2. IsFiniteSet(one(s))
    BY <2>1, FS_Subset
  <2> QED BY <2>1, <2>2, FS_CardinalityType
<1>4. c \in [S -> Nat] /\ \A s \in S : c[s] = w[s] * f[s]
  <2>1. ASSUME NEW s \in S PROVE w[s] * f[s] \in Nat
    <3>1. w[s] \in Nat /\ f[s] \in Nat
      OBVIOUS
    <3> QED BY <3>1
  <2> QED BY <2>1 DEF Costs
<1>5. ASSUME NEW s \in S PROVE Total(g, one(s)) = w[s] * f[s]
  <2> DEFINE R == one(s)
             k == Marks(R, R)
             h == [i \in R |-> g[i]]
  <2>1. \A i \in R : i \in I /\ d[i] = s
    BY DEF Having
  <2>2. IsFiniteSet(R) /\ f[s] \in Nat
    BY <1>1
  <2>3. h \in [R -> Nat] /\ (\A i \in R : h[i] = g[i]) /\ \A i \in R : h[i] = f[s]
    BY <2>1
  <2> HIDE DEF R, h
  <2>4. k \in [R -> Nat] /\ Total(k, R) = Cardinality(R)
    BY <2>2, TotalOfOnes
  <2>5. \A i \in R : k[i] = 1
    BY DEF Marks
  <2> HIDE DEF k
  <2>6. h = Scaled(f[s], k, R)
    BY <2>2, <2>3, <2>5 DEF Scaled
  <2>7. Total(h, R) = f[s] * Total(k, R)
    BY <2>2, <2>3, <2>4, <2>6, TotalScaled
  <2>8. Total(g, R) = Total(h, R)
    BY <2>3, TotalOfEqual
  <2>9. Cardinality(R) \in Nat /\ w[s] = Cardinality(R)
    BY <1>1 DEF R
  <2>10. Total(g, R) = w[s] * f[s]
    <3> DEFINE a == f[s]
               b == w[s]
    <3>1. a \in Nat /\ b \in Nat /\ Total(g, R) = a * b
      BY <2>2, <2>4, <2>7, <2>8, <2>9
    <3> HIDE DEF a, b
    <3>2. Total(g, R) = b * a
      BY <3>1
    <3> QED BY <3>2 DEF a, b
  <2> QED BY <2>10 DEF R
<1> HIDE DEF c, one
<1>6. {} \in P
  <2>1. At({}) = {}
    OBVIOUS
  <2>2. Total(c, {}) = 0 /\ Total(g, {}) = 0
    BY NoUnits
  <2> QED BY <2>1, <2>2
<1>7. ASSUME NEW V \in SUBSET S, V # {}, \A x \in V : V \ {x} \in P
      PROVE  V \in P
  <2>1. PICK x \in V : TRUE
    BY <1>7
  <2> DEFINE Q == V \ {x}
             A == At(Q)
             B == one(x)
  <2>2. Q \in SUBSET S /\ x \in S /\ x \notin Q /\ V = Q \cup {x}
    BY <2>1
  <2>3. Total(c, Q) = Total(g, A)
    BY <1>7, <2>1
  <2>4. At(V) = A \cup B /\ A \cap B = {} /\ A \subseteq I
    BY <2>2 DEF one, Having
  <2>5. IsFiniteSet(A) /\ IsFiniteSet(B) /\ B \subseteq I
    BY <1>1, <2>2, <2>4, FS_Subset
  <2> HIDE DEF Q, A, B
  <2>6. Total(c, Q \cup {x}) = Total(c, Q) + c[x]
    BY <1>4, <2>2, TotalWith
  <2>7. Total(g, A \cup B) = Total(g, A) + Total(g, B)
    BY <2>4, <2>5, TotalOfUnion
  <2>8. Total(g, B) = c[x]
    BY <1>4, <1>5, <2>2 DEF B
  <2>9. Total(c, V) = Total(g, A \cup B)
    BY <2>2, <2>3, <2>6, <2>7, <2>8
  <2>10. Total(c, V) = Total(g, At(V))
    BY <2>4, <2>9
  <2> QED BY <2>10
<1>8. S \in P
  <2> HIDE DEF P
  <2> QED BY <1>6, <1>7, SetInduction
<1>9. At(S) = I
  OBVIOUS
<1> QED BY <1>8, <1>9 DEF CostOf, c

\* What the reference definition calls the least cost.
LEMMA LeastCostIs ==
  ASSUME NEW S, IsFiniteSet(S), NEW w, w \in [S -> Nat], NEW n, n = Cardinality(S),
         NEW p, p \in [S -> 1..n], \A s \in S : n = 1 \/ p[s] < n, Kraft(p, S, n),
         \A f : Kraft(f, S, n) /\ (\A s \in S : f[s] >= 1)
                  => CostOf(p, w, S) <= CostOf(f, w, S)
  PROVE  LeastCost(w) = CostOf(p, w, S)
<1>1. n \in Nat /\ DOMAIN w = S
  BY FS_CardinalityType
<1>2. ASSUME NEW f, f \in [S -> 1..n]
      PROVE  /\ f \in [S -> 0..n] /\ CodeCost(f, w) = CostOf(f, w, S)
             /\ CostOf(f, w, S) \in Nat
             /\ f \in PrefixLengths(S) <=> f \in [S -> 1..MaxBitsFor(n)] /\ Kraft(f, S, n)
  <2>1. f \in [S -> 0..n]
    BY <1>1, <1>2
  <2>2. /\ Room(f, S, n) \in [S -> Nat] /\ Costs(f, w, S) \in [S -> Nat]
        /\ CostOf(f, w, S) \in Nat
    BY <1>1, <2>1, FitFacts
  <2>3. SumFunction(Room(f, S, n)) = Total(Room(f, S, n), S)
    BY <2>2, SumCounts
  <2>4. SumFunction(Costs(f, w, S)) = Total(Costs(f, w, S), S)
    BY <2>2, SumCounts
  <2>5. CodeCost(f, w) = CostOf(f, w, S)
    BY <1>1, <2>4 DEF CodeCost, CostOf, Costs
  <2>6. f \in PrefixLengths(S) <=> f \in [S -> 1..MaxBitsFor(n)] /\ Kraft(f, S, n)
    BY <1>2, <2>1, <2>3 DEF PrefixLengths, Kraft, Room
  <2> QED BY <2>1, <2>2, <2>5, <2>6
<1> DEFINE C == {CodeCost(f, w) : f \in PrefixLengths(S)}
<1>3. \A f \in PrefixLengths(S) : f \in [S -> 1..n]
  <2>1. 1..MaxBitsFor(n) \subseteq 1..n
    BY <1>1 DEF MaxBitsFor
  <2> QED BY <2>1 DEF PrefixLengths
<1>4. CostOf(p, w, S) \in C
  <2>1. p \in [S -> 1..MaxBitsFor(n)]
    <3>1. \A s \in S : p[s] \in 1..MaxBitsFor(n)
      BY <1>1 DEF MaxBitsFor
    <3>2. p = [s \in S |-> p[s]]
      OBVIOUS
    <3> QED BY <3>1, <3>2
  <2> QED BY <2>1, <1>2
<1>5. ASSUME NEW c \in C PROVE c \in Nat /\ CostOf(p, w, S) <= c
  <2>1. PICK f \in PrefixLengths(S) : c = CodeCost(f, w)
    OBVIOUS
  <2>2. f \in [S -> 1..n]
    BY <1>3
  <2>3. \A s \in S : f[s] >= 1
    BY <1>1, <2>2
  <2>4. Kraft(f, S, n) /\ c = CostOf(f, w, S) /\ CostOf(f, w, S) \in Nat
    BY <1>2, <2>1, <2>2
  <2> QED BY <2>3, <2>4
<1>6. LeastCost(w) = Min(C)
  BY <1>1 DEF LeastCost
<1> HIDE DEF C
<1>7. Min(C) = CHOOSE x \in C : \A y \in C : x <= y
  BY DEF Min
<1>8. \A x \in C : (\A y \in C : x <= y) => x = CostOf(p, w, S)
  <2> SUFFICES ASSUME NEW x \in C, \A y \in C : x <= y PROVE x = CostOf(p, w, S)
    OBVIOUS
  <2>1. x <= CostOf(p, w, S) /\ CostOf(p, w, S) <= x /\ x \in Nat /\ CostOf(p, w, S) \in Nat
    BY <1>4, <1>5
  <2> QED BY <2>1
<1> DEFINE m == CostOf(p, w, S)
<1> HIDE DEF m
<1>9. m \in C /\ \A y \in C : m <= y
  BY <1>4, <1>5 DEF m
<1>10. \A x \in C : (\A y \in C : x <= y) => x = m
  BY <1>8 DEF m
<1>11. (CHOOSE x \in C : \A y \in C : x <= y) = m
  BY <1>9, <1>10
<1> QED BY <1>6, <1>7, <1>11 DEF m

-----------------------------------------------------------------------------
(***************************************************************************)
(* Facts about the constants and about the operations on trees.            *)
(***************************************************************************)
\* There are nodes, and Null is not one of them.
LEMMA NodeFacts ==
  /\ Cardinality(Symbol) \in Nat \ {0}
  /\ MaxNodes \in Nat
  /\ MaxNodes = 2 * Cardinality(Symbol) + 1
  /\ Node = 1..MaxNodes
  /\ Null \notin Node
  /\ Root \in Node
<1>1. Cardinality(Symbol) \in Nat
  BY SymbolAssumption, FS_CardinalityType
<1>2. Cardinality(Symbol) # 0
  BY SymbolAssumption, FS_EmptySet
<1>3. QED
  BY <1>1, <1>2 DEF MaxNodes, Node, Null, Root

\* Allocated nodes are nodes.
LEMMA AllocatedFacts ==
  ASSUME NEW t \in Tree
  PROVE  /\ t.used \in Node
         /\ t.used \in Nat
         /\ Allocated(t) = 1..t.used
         /\ Allocated(t) \subseteq Node
         /\ Root \in Allocated(t)
         /\ Null \notin Allocated(t)
<1>1. t.used \in Node
  BY DEF Tree
<1>2. QED
  BY <1>1, NodeFacts DEF Allocated, Root, Null

\* SlideNode, field by field.
LEMMA SlideFields ==
  ASSUME NEW t \in Tree, NEW n \in Node, NEW c \in Node
  PROVE  LET u == SlideNode(t, n, c)
             w == IF c = n THEN t ELSE SwapNodes(t, c, n)
         IN /\ u.used = t.used
            /\ u.left = w.left
            /\ u.right = w.right
            /\ u.parent = w.parent
            /\ u.weight = [t.weight EXCEPT ![n] = @ + 1]
            /\ u.order = [t.order EXCEPT ![c] = t.order[n], ![n] = t.order[c]]
            /\ u.isNYT = t.isNYT
            /\ u.value = t.value
  BY DEF SlideNode, SwapNodes, Tree

\* SwapNodes, field by field.
LEMMA SwapFields ==
  ASSUME NEW t \in Tree, NEW a \in Node, NEW b \in Node
  PROVE  LET w == SwapNodes(t, a, b)
         IN /\ CanSwap(t, a, b) =>
                 /\ w.left = [n \in Node |-> Exchange(t.left[n], a, b)]
                 /\ w.right = [n \in Node |-> Exchange(t.right[n], a, b)]
                 /\ w.parent = [t.parent EXCEPT ![a] = t.parent[b],
                                                ![b] = t.parent[a]]
            /\ ~CanSwap(t, a, b) => w = t
            /\ w.used = t.used /\ w.isNYT = t.isNYT /\ w.value = t.value
  BY DEF SwapNodes, Tree

\* What SplitNYT needs to yield a tree: two nodes and two orders are left.
LEMMA SplitTyped ==
  ASSUME NEW t \in Tree, NEW y \in Node, NEW s \in Symbol,
         t.used + 2 \in Node, t.order[y] >= 2
  PROVE  /\ SplitNYT(t, y, s) \in Tree
         /\ SplitNYT(t, y, s).used = t.used + 2
         /\ SplitNYT(t, y, s).weight = t.weight
<1> DEFINE left == [t.left EXCEPT ![y] = NewNYT(t)]
           right == [t.right EXCEPT ![y] = NewLeaf(t)]
           parent == [t.parent EXCEPT ![NewNYT(t)] = y, ![NewLeaf(t)] = y]
           order == [t.order EXCEPT ![NewNYT(t)] = t.order[y] - 2,
                                    ![NewLeaf(t)] = t.order[y] - 1]
           isNYT == [t.isNYT EXCEPT ![y] = FALSE, ![NewNYT(t)] = TRUE]
           value == [t.value EXCEPT ![NewLeaf(t)] = s]
<1>1. NewNYT(t) \in Node /\ NewLeaf(t) \in Node
  BY NodeFacts, AllocatedFacts DEF NewNYT, NewLeaf
<1>2. left \in [Node -> Node \cup {Null}] /\ right \in [Node -> Node \cup {Null}]
  BY <1>1 DEF Tree
<1>3. parent \in [Node -> Node \cup {Null}]
  BY DEF Tree
<1>4. order \in [Node -> Nat]
  <2>1. t.order \in [Node -> Nat] /\ t.order[y] \in Nat
    BY DEF Tree
  <2>2. t.order[y] - 2 \in Nat /\ t.order[y] - 1 \in Nat
    BY <2>1
  <2>3. QED
    BY <2>1, <2>2
<1>5. isNYT \in [Node -> BOOLEAN] /\ value \in [Node -> Symbol]
  BY DEF Tree
<1>6. SplitNYT(t, y, s) = [t EXCEPT !.used = t.used + 2, !.left = left,
                                    !.right = right, !.parent = parent,
                                    !.order = order, !.isNYT = isNYT,
                                    !.value = value]
  BY DEF SplitNYT
<1> HIDE DEF left, right, parent, order, isNYT, value
<1>7. QED
  BY <1>2, <1>3, <1>4, <1>5, <1>6 DEF Tree

\* An exchange of places yields a tree.
LEMMA SwapTyped ==
  ASSUME NEW t \in Tree, NEW a \in Node, NEW b \in Node
  PROVE  SwapNodes(t, a, b) \in Tree
<1> DEFINE left == [n \in Node |-> Exchange(t.left[n], a, b)]
           right == [n \in Node |-> Exchange(t.right[n], a, b)]
           parent == [t.parent EXCEPT ![a] = t.parent[b], ![b] = t.parent[a]]
<1>1. left \in [Node -> Node \cup {Null}] /\ right \in [Node -> Node \cup {Null}]
  BY DEF Tree, Exchange
<1>2. parent \in [Node -> Node \cup {Null}]
  BY DEF Tree
<1>3. CASE CanSwap(t, a, b)
  <2>1. SwapNodes(t, a, b) = [t EXCEPT !.left = left, !.right = right,
                                       !.parent = parent]
    BY <1>3 DEF SwapNodes
  <2> HIDE DEF left, right, parent
  <2>2. QED
    BY <1>1, <1>2, <2>1 DEF Tree
<1>4. CASE ~CanSwap(t, a, b)
  BY <1>4 DEF SwapNodes
<1>5. QED
  BY <1>3, <1>4

\* So does a slide, and it leaves these fields alone.
LEMMA SlideTyped ==
  ASSUME NEW t \in Tree, NEW n \in Node, NEW c \in Node
  PROVE  /\ SlideNode(t, n, c) \in Tree
         /\ SlideNode(t, n, c).used = t.used
         /\ SlideNode(t, n, c).isNYT = t.isNYT
         /\ SlideNode(t, n, c).value = t.value
<1> DEFINE moved == IF c = n THEN t ELSE SwapNodes(t, c, n)
           order == [t.order EXCEPT ![c] = t.order[n], ![n] = t.order[c]]
           weight == [t.weight EXCEPT ![n] = @ + 1]
<1>1. /\ moved \in Tree
      /\ moved.used = t.used /\ moved.isNYT = t.isNYT /\ moved.value = t.value
  BY SwapTyped, SwapFields, ZenonT(60)
<1>2. order \in [Node -> Nat] /\ weight \in [Node -> Nat]
  BY DEF Tree
<1>3. SlideNode(t, n, c) = [moved EXCEPT !.order = order, !.weight = weight]
  BY DEF SlideNode
<1> HIDE DEF moved, order, weight
<1>4. QED
  BY <1>1, <1>2, <1>3 DEF Tree

(***************************************************************************)
(* Where SlideNode(t, n, c) puts things: Moved is the permutation of the   *)
(* nodes that it applies to the places, Exchange the one it applies to the *)
(* orders.                                                                 *)
(***************************************************************************)
Moved(t, n, c, x) ==
  IF c # n /\ CanSwap(t, c, n) THEN Exchange(x, c, n) ELSE x

\* The exchange of two nodes is its own inverse and moves neither Null nor the root.
LEMMA MovedFacts ==
  ASSUME NEW t \in Tree, NEW n \in Allocated(t), NEW c \in Allocated(t),
         t.weight[c] = t.weight[n], t.parent[Root] = Null
  PROVE  /\ \A x : Moved(t, n, c, Moved(t, n, c, x)) = x
         /\ \A x \in Allocated(t) : Moved(t, n, c, x) \in Allocated(t)
         /\ \A x \in Node : Moved(t, n, c, x) \in Node
         /\ Moved(t, n, c, Null) = Null
         /\ Moved(t, n, c, Root) = Root
         /\ \A x \in Node : t.weight[Moved(t, n, c, x)] = t.weight[x]
  BY AllocatedFacts DEF Moved, Exchange, CanSwap

\* SplitNYT, node by node.
LEMMA SplitAt ==
  ASSUME NEW t \in Tree, NEW y \in Node, NEW s \in Symbol, NEW x \in Node,
         NewNYT(t) \in Node, NewLeaf(t) \in Node
  PROVE  LET u == SplitNYT(t, y, s)
             p == NewNYT(t)
             q == NewLeaf(t)
         IN /\ u.left[x] = IF x = y THEN p ELSE t.left[x]
            /\ u.right[x] = IF x = y THEN q ELSE t.right[x]
            /\ u.parent[x] = IF x \in {p, q} THEN y ELSE t.parent[x]
            /\ u.order[x] = IF x = q THEN t.order[y] - 1
                            ELSE IF x = p THEN t.order[y] - 2
                            ELSE t.order[x]
            /\ u.value[x] = IF x = q THEN s ELSE t.value[x]
<1> DEFINE u == SplitNYT(t, y, s)
           p == NewNYT(t)
           q == NewLeaf(t)
<1>1. /\ t.left \in [Node -> Node \cup {Null}]
      /\ t.right \in [Node -> Node \cup {Null}]
      /\ t.parent \in [Node -> Node \cup {Null}]
      /\ t.order \in [Node -> Nat]
      /\ t.value \in [Node -> Symbol]
  BY DEF Tree
<1>2. /\ u.left = [t.left EXCEPT ![y] = p]
      /\ u.right = [t.right EXCEPT ![y] = q]
      /\ u.parent = [t.parent EXCEPT ![p] = y, ![q] = y]
      /\ u.order = [t.order EXCEPT ![p] = t.order[y] - 2, ![q] = t.order[y] - 1]
      /\ u.value = [t.value EXCEPT ![q] = s]
  BY DEF SplitNYT, Tree
<1> HIDE DEF u, p, q
<1>3. p \in Node /\ q \in Node
  BY DEF p, q
<1>4. /\ u.left[x] = IF x = y THEN p ELSE t.left[x]
      /\ u.right[x] = IF x = y THEN q ELSE t.right[x]
  BY <1>1, <1>2
<1>5. u.parent[x] = IF x \in {p, q} THEN y ELSE t.parent[x]
  BY <1>1, <1>2, <1>3
<1>6. u.order[x] = IF x = q THEN t.order[y] - 1
                   ELSE IF x = p THEN t.order[y] - 2
                   ELSE t.order[x]
  BY <1>1, <1>2, <1>3
<1>7. u.value[x] = IF x = q THEN s ELSE t.value[x]
  BY <1>1, <1>2, <1>3
<1>8. QED
  BY <1>4, <1>5, <1>6, <1>7 DEF u, p, q

\* SlideNode, node by node.
LEMMA SlideAt ==
  ASSUME NEW t \in Tree, NEW n \in Node, NEW c \in Node, NEW x \in Node
  PROVE  LET u == SlideNode(t, n, c)
         IN /\ u.left[x] = Moved(t, n, c, t.left[x])
            /\ u.right[x] = Moved(t, n, c, t.right[x])
            /\ u.parent[x] = t.parent[Moved(t, n, c, x)]
            /\ u.weight[x] = t.weight[x] + (IF x = n THEN 1 ELSE 0)
            /\ u.order[x] = t.order[Exchange(x, c, n)]
<1> DEFINE u == SlideNode(t, n, c)
           w == IF c = n THEN t ELSE SwapNodes(t, c, n)
<1>1. /\ t.left \in [Node -> Node \cup {Null}]
      /\ t.right \in [Node -> Node \cup {Null}]
      /\ t.parent \in [Node -> Node \cup {Null}]
      /\ t.weight \in [Node -> Nat]
      /\ t.order \in [Node -> Nat]
  BY DEF Tree
<1>2. /\ u.left = w.left
      /\ u.right = w.right
      /\ u.parent = w.parent
      /\ u.weight = [t.weight EXCEPT ![n] = @ + 1]
      /\ u.order = [t.order EXCEPT ![c] = t.order[n], ![n] = t.order[c]]
  BY SlideFields
<1> HIDE DEF u
<1>3. u.order[x] = t.order[Exchange(x, c, n)]
  BY <1>1, <1>2 DEF Exchange
<1>4. u.weight[x] = t.weight[x] + (IF x = n THEN 1 ELSE 0)
  BY <1>1, <1>2
<1>5. CASE c # n /\ CanSwap(t, c, n)
  <2>0. w = SwapNodes(t, c, n)
    BY <1>5
  <2> HIDE DEF w
  <2>1. /\ w.left = [y \in Node |-> Exchange(t.left[y], c, n)]
        /\ w.right = [y \in Node |-> Exchange(t.right[y], c, n)]
        /\ w.parent = [t.parent EXCEPT ![c] = t.parent[n], ![n] = t.parent[c]]
    BY <1>5, <2>0, SwapFields, ZenonT(60)
  <2>2. u.parent[x] = t.parent[Exchange(x, c, n)]
    BY <1>1, <1>2, <2>1 DEF Exchange
  <2>3. QED
    BY <1>2, <1>3, <1>4, <1>5, <2>1, <2>2 DEF Moved, u
<1>6. CASE ~(c # n /\ CanSwap(t, c, n))
  <2>1. w = t
    BY <1>6, SwapFields
  <2>2. QED
    BY <1>2, <1>3, <1>4, <1>6, <2>1 DEF Moved, u
<1>7. QED
  BY <1>5, <1>6

-----------------------------------------------------------------------------
(***************************************************************************)
(* The invariants of TreeInvariants.                                       *)
(***************************************************************************)

\* The tree of one NYT node satisfies it.
LEMMA NewTreeBuilt ==
  LET cache == [s \in Symbol |-> Null]
  IN Built(NewTree, Root, cache, Null) /\ Ranked(NewTree, Root, Null)
<1> DEFINE cache == [s \in Symbol |-> Null]
<1>1. /\ NewTree.used = 1
      /\ NewTree.left = [n \in Node |-> Null]
      /\ NewTree.right = [n \in Node |-> Null]
      /\ NewTree.parent = [n \in Node |-> Null]
      /\ NewTree.weight = [n \in Node |-> 0]
      /\ NewTree.order = [n \in Node |-> IF n = Root THEN RootOrder ELSE 0]
      /\ NewTree.isNYT = [n \in Node |-> n = Root]
  BY DEF NewTree
<1>2. NewTree \in Tree
  BY NodeFacts, SymbolAssumption, OrderAssumption DEF NewTree, Tree, Root
<1> HIDE DEF cache
<1> DEFINE tree == NewTree
<1> HIDE DEF tree
<1>3. /\ tree.used = 1 /\ tree \in Tree
      /\ tree.left = [n \in Node |-> Null]
      /\ tree.right = [n \in Node |-> Null]
      /\ tree.parent = [n \in Node |-> Null]
      /\ tree.weight = [n \in Node |-> 0]
      /\ tree.order = [n \in Node |-> IF n = Root THEN RootOrder ELSE 0]
      /\ tree.isNYT = [n \in Node |-> n = Root]
  BY <1>1, <1>2 DEF tree
<1>4. Allocated(tree) = {Root}
  BY <1>3 DEF Allocated, Root
<1>5. Root \in Node /\ Null \notin Node
  BY NodeFacts
<1>6. \A n \in Node : IsLeaf(tree, n)
  BY <1>3 DEF IsLeaf
<1>7. Blank(tree) /\ Linked(tree) /\ Loopless(tree) /\ AddsUp(tree, Null)
  BY <1>3, <1>4, <1>5, <1>6 DEF Blank, Linked, Loopless, AddsUp
<1>8. tree.order[Root] = RootOrder /\ tree.weight[Root] = 0
  BY <1>3, <1>5
<1>9. RootOrder \in Nat
  BY OrderAssumption
<1>10. Ranking(tree)
  <2>1. {tree.order[n] : n \in Allocated(tree)} = {RootOrder}
    BY <1>4, <1>8
  <2>2. (RootOrder + 1 - tree.used)..RootOrder = {RootOrder}
    BY <1>3, <1>9
  <2>3. QED
    BY <1>4, <2>1, <2>2 DEF Ranking
<1>11. RanksLast(tree, Root) /\ InnerRoot(tree, Root)
  BY <1>3, <1>4, <1>5, <1>6, <1>8, <1>9 DEF RanksLast, InnerRoot
<1>12. Current(tree, Root, cache)
  BY <1>4 DEF Current
<1>13. cache \in [Symbol -> Node \cup {Null}] /\ SeenIn(cache) = {}
  BY DEF SeenIn, cache
<1>14. TwoPerSymbol(tree, Root, cache)
  BY <1>3, <1>13, FS_EmptySet DEF TwoPerSymbol
<1>15. Built(tree, Root, cache, Null)
  BY <1>3, <1>5, <1>7, <1>10, <1>11, <1>12, <1>13, <1>14 DEF Built
<1>16. ParentsAbove(tree) /\ HeavierAbove(tree, Null) /\ Weightless(tree, Root, Null)
  BY <1>4, <1>8 DEF ParentsAbove, HeavierAbove, Weightless
<1>17. Adjacent(tree) /\ Marked(tree, Root)
  BY <1>3, <1>4, <1>5, <1>6 DEF Adjacent, Marked
<1>18. QED
  BY <1>15, <1>16, <1>17 DEF Ranked, tree, cache

\* What the proofs below use most of the invariant.
LEMMA Basics ==
  ASSUME NEW tree, NEW nyt, NEW cache, NEW node,
         Built(tree, nyt, cache, node)
  PROVE  /\ tree \in Tree
         /\ Allocated(tree) \subseteq Node
         /\ Root \in Allocated(tree) /\ Null \notin Allocated(tree)
         /\ nyt \in Allocated(tree)
         /\ RootOrder \in Nat /\ tree.used \in Nat
         /\ \A n \in Allocated(tree) :
              /\ tree.order[n] \in Nat /\ tree.weight[n] \in Nat
              /\ RootOrder + 1 - tree.used <= tree.order[n]
              /\ tree.order[n] <= RootOrder
         /\ \A m, n \in Allocated(tree) : tree.order[m] = tree.order[n] => m = n
         /\ \E n \in Allocated(tree) : tree.order[n] = RootOrder
         /\ tree.parent[Root] = Null
         /\ \A n \in Allocated(tree) \ {Root} :
              tree.parent[n] \in Allocated(tree) /\ tree.parent[n] # n
<1> DEFINE A == Allocated(tree)
           low == RootOrder + 1 - tree.used
<1>1. /\ tree \in Tree /\ nyt \in A /\ Linked(tree) /\ Loopless(tree)
      /\ {tree.order[n] : n \in A} = low..RootOrder
      /\ \A m, n \in A : tree.order[m] = tree.order[n] => m = n
  BY DEF Built, RanksLast, Ranking
<1>2. /\ A \subseteq Node /\ Root \in A /\ Null \notin A
      /\ tree.used \in Nat /\ tree.used \in Node
  BY <1>1, AllocatedFacts
<1>3. RootOrder \in Nat /\ tree.used >= 1
  BY <1>2, OrderAssumption, NodeFacts
<1>4. \A n \in A : tree.order[n] \in Nat /\ tree.weight[n] \in Nat
  BY <1>1, <1>2 DEF Tree
<1> HIDE DEF A
<1>5. \A n \in A : tree.order[n] \in low..RootOrder
  BY <1>1
<1>6. RootOrder \in {tree.order[n] : n \in A}
  <2>1. RootOrder \in low..RootOrder
    BY <1>2, <1>3
  <2> HIDE DEF low
  <2>2. QED
    BY <1>1, <2>1
<1>7. QED
  BY <1>1, <1>2, <1>3, <1>4, <1>5, <1>6 DEF Linked, Loopless, A

\* Every node but the root has a sibling, and the two weigh what their parent
\* weighs, or one more if its turn is next.
LEMMA SiblingOf ==
  ASSUME NEW tree, NEW nyt, NEW cache, NEW node,
         Built(tree, nyt, cache, node), NEW n \in Allocated(tree) \ {Root}
  PROVE  \E e \in Allocated(tree) \ {Root} :
           /\ e # n /\ tree.parent[e] = tree.parent[n]
           /\ {tree.left[tree.parent[n]], tree.right[tree.parent[n]]} = {n, e}
           /\ ~IsLeaf(tree, tree.parent[n])
           /\ tree.weight[n] + tree.weight[e]
                = tree.weight[tree.parent[n]]
                    + (IF tree.parent[n] = node THEN 1 ELSE 0)
<1> DEFINE y == tree.parent[n]
<1>1. /\ y \in Allocated(tree) /\ n \in {tree.left[y], tree.right[y]}
      /\ n # Null /\ tree.parent[Root] = Null /\ Null \notin Allocated(tree)
  BY Basics DEF Built, Linked
<1>2. ~IsLeaf(tree, y)
  BY <1>1 DEF IsLeaf
<1>3. /\ {tree.left[y], tree.right[y]} \subseteq Allocated(tree)
      /\ tree.left[y] # tree.right[y]
      /\ tree.parent[tree.left[y]] = y /\ tree.parent[tree.right[y]] = y
  BY <1>1, <1>2 DEF Built, Linked
<1>4. tree.weight[tree.left[y]] + tree.weight[tree.right[y]]
        = tree.weight[y] + (IF y = node THEN 1 ELSE 0)
  BY <1>1, <1>2 DEF Built, AddsUp
<1>5. tree.weight[tree.left[y]] \in Nat /\ tree.weight[tree.right[y]] \in Nat
  BY <1>3, Basics
<1> HIDE DEF y
<1>6. CASE n = tree.left[y]
  <2>1. tree.weight[n] + tree.weight[tree.right[y]]
          = tree.weight[y] + (IF y = node THEN 1 ELSE 0)
    BY <1>4, <1>6
  <2>2. QED
    BY <1>1, <1>2, <1>3, <1>6, <2>1 DEF y
<1>7. CASE n = tree.right[y]
  <2>1. tree.weight[n] + tree.weight[tree.left[y]]
          = tree.weight[y] + (IF y = node THEN 1 ELSE 0)
    BY <1>4, <1>5, <1>7
  <2>2. QED
    BY <1>1, <1>2, <1>3, <1>7, <2>1 DEF y
<1>8. QED
  BY <1>1, <1>6, <1>7

\* The highest rank is nobody's child: it is the root's.
LEMMA RootRanksFirst ==
  ASSUME NEW tree, NEW nyt, NEW cache, NEW node,
         Built(tree, nyt, cache, node), ParentsAbove(tree)
  PROVE  /\ tree.order[Root] = RootOrder
         /\ \A n \in Allocated(tree) \ {Root} : tree.order[n] < tree.order[Root]
<1>1. PICK n \in Allocated(tree) : tree.order[n] = RootOrder
  BY Basics
<1>2. n = Root
  <2> SUFFICES ASSUME n # Root PROVE FALSE
    OBVIOUS
  <2>1. tree.parent[n] \in Allocated(tree) /\ tree.order[n] < tree.order[tree.parent[n]]
    BY <1>1, Basics DEF ParentsAbove
  <2>2. QED
    BY <1>1, <2>1, Basics
<1>3. QED
  BY <1>1, <1>2, Basics

\* NYT's sibling ranks next to it, and their parent next to both.
LEMMA NYTSibling ==
  ASSUME NEW tree, NEW nyt, NEW cache, NEW node,
         Built(tree, nyt, cache, node), Adjacent(tree), Marked(tree, nyt),
         NEW n \in Allocated(tree) \ {Root, nyt}, nyt # Root,
         tree.parent[n] = tree.parent[nyt]
  PROVE  /\ tree.order[n] = tree.order[nyt] + 1
         /\ tree.order[tree.parent[n]] = tree.order[nyt] + 2
<1>1. PICK e \in Allocated(tree) \ {Root} :
        /\ tree.parent[e] = tree.parent[n]
        /\ {tree.left[tree.parent[n]], tree.right[tree.parent[n]]} = {n, e}
        /\ ~IsLeaf(tree, tree.parent[n]) /\ e # n
  BY SiblingOf
<1>2. tree.parent[n] \in Allocated(tree)
  BY Basics
<1>3. nyt \in {tree.left[tree.parent[nyt]], tree.right[tree.parent[nyt]]}
  BY Basics DEF Built, Linked
<1>4. e = nyt
  BY <1>1, <1>3
<1>5. tree.order[n] = tree.order[nyt] + 1 \/ tree.order[nyt] = tree.order[n] + 1
  BY <1>1, <1>2, <1>4 DEF Adjacent
<1>6. tree.order[nyt] = RootOrder + 1 - tree.used
  BY DEF Built, RanksLast
<1>7. tree.order[tree.parent[nyt]] = tree.order[nyt] + 2
  BY DEF Marked
<1>8. QED
  BY <1>5, <1>6, <1>7, Basics

\* A node of the weight of node, node itself or one that ranks above it, weighs as
\* much as its own parent only if it is node and has NYT for a sibling.
LEMMA EqualParent ==
  ASSUME NEW tree, NEW nyt, NEW cache, NEW node,
         Built(tree, nyt, cache, node), Ranked(tree, nyt, node),
         node \in Allocated(tree) \ {nyt}, NEW c \in Allocated(tree) \ {Root},
         tree.weight[c] = tree.weight[node],
         c = node \/ tree.order[node] < tree.order[c],
         tree.weight[tree.parent[c]] = tree.weight[c]
  PROVE  /\ c = node
         /\ nyt # Root /\ tree.parent[nyt] = tree.parent[c]
         /\ tree.order[node] = tree.order[nyt] + 1
         /\ tree.order[tree.parent[node]] = tree.order[nyt] + 2
<1>1. /\ node \in Allocated(tree) \ {nyt} /\ node # Null
      /\ ParentsAbove(tree) /\ HeavierAbove(tree, node) /\ Adjacent(tree)
      /\ Marked(tree, nyt) /\ Weightless(tree, nyt, node)
      /\ tree.order[nyt] = RootOrder + 1 - tree.used
      /\ tree.weight[nyt] = 0
  BY Basics DEF Ranked, Built, RanksLast
<1>2. PICK e \in Allocated(tree) \ {Root} :
        /\ e # c /\ tree.parent[e] = tree.parent[c]
        /\ tree.weight[c] + tree.weight[e]
             = tree.weight[tree.parent[c]] + (IF tree.parent[c] = node THEN 1 ELSE 0)
  BY SiblingOf
<1>3. tree.parent[c] # node
  <2>1. tree.order[c] < tree.order[tree.parent[c]]
    BY <1>1 DEF ParentsAbove
  <2>2. QED
    BY <1>1, <2>1, Basics
<1>4. tree.weight[e] = 0
  BY <1>2, <1>3, Basics
<1>5. c # nyt
  BY <1>1, Basics
<1>6. e = nyt
  <2> SUFFICES ASSUME e # nyt PROVE FALSE
    OBVIOUS
  <2>1. e \in {node, tree.parent[node]}
    BY <1>1, <1>4 DEF Weightless
  <2>2. tree.weight[node] = 0
    <3>1. CASE e = node
      BY <1>4, <3>1
    <3>2. CASE e = tree.parent[node] /\ e # node
      <4>1. node # Root
        BY <1>2, <3>2, Basics
      <4>2. tree.order[node] < tree.order[e]
        BY <1>1, <3>2, <4>1 DEF ParentsAbove
      <4>3. ~(tree.weight[e] < tree.weight[node])
        BY <1>1, <3>2, <4>2, Basics DEF HeavierAbove
      <4>4. QED
        BY <1>1, <1>4, <4>3, Basics
    <3>3. QED
      BY <2>1, <3>1, <3>2
  <2>3. c \in {node, tree.parent[node]}
    BY <1>1, <1>5, <2>2 DEF Weightless
  <2>4. node # Root
    BY <1>2, <2>1, <2>3, Basics
  <2>5. tree.parent[node] # node /\ tree.parent[tree.parent[node]] # tree.parent[node]
    <3>1. tree.parent[node] \in Allocated(tree)
      BY <1>1, <2>4, Basics
    <3>2. QED
      BY <1>1, <2>4, <3>1, Basics
  <2>6. QED
    BY <1>2, <2>1, <2>3, <2>5
<1>7. /\ tree.order[c] = tree.order[nyt] + 1
      /\ tree.order[tree.parent[c]] = tree.order[nyt] + 2
  BY <1>1, <1>2, <1>5, <1>6, NYTSibling
<1>8. c = node
  BY <1>1, <1>7, Basics
<1>9. QED
  BY <1>2, <1>6, <1>7, <1>8

\* A set of nodes that holds the parent of each of its nodes is empty: its ranks
\* would have no end.  (An infinite ascent in an interval contradicts the pigeonhole
\* principle: succession would map its lower part into itself without the lowest.)
LEMMA NoEndlessAscent ==
  ASSUME NEW tree, NEW nyt, NEW cache, NEW node,
         Built(tree, nyt, cache, node), ParentsAbove(tree), NEW U \in SUBSET Allocated(tree),
         \A u \in U : u # Root /\ tree.parent[u] \in U
  PROVE  U = {}
<1> SUFFICES ASSUME U # {} PROVE FALSE
  OBVIOUS
<1> DEFINE low == RootOrder + 1 - tree.used
           T == {i \in low..RootOrder : \E u \in U : i <= tree.order[u]}
           next == [i \in T |-> i + 1]
<1>1. /\ low \in Int /\ RootOrder \in Int
      /\ \A u \in U : /\ tree.order[u] \in Int
                     /\ low <= tree.order[u] /\ tree.order[u] <= RootOrder
                     /\ tree.order[u] < tree.order[tree.parent[u]]
                     /\ tree.parent[u] \in U
  BY Basics DEF ParentsAbove
<1> HIDE DEF low
<1>2. low \in T
  BY <1>1
<1>3. IsFiniteSet(T)
  BY <1>1, FS_Interval, FS_Subset
<1>4. /\ IsFiniteSet(T \ {low})
      /\ Cardinality(T \ {low}) < Cardinality(T)
  <2> HIDE DEF T
  <2>1. Cardinality(T) \in Nat
    BY <1>3, FS_CardinalityType
  <2>2. IsFiniteSet(T \ {low}) /\ Cardinality(T \ {low}) = Cardinality(T) - 1
    BY <1>2, <1>3, FS_RemoveElement
  <2>3. QED
    BY <2>1, <2>2
<1>5. ASSUME NEW i \in T PROVE i + 1 \in T \ {low}
  <2>1. PICK u \in U : i <= tree.order[u]
    OBVIOUS
  <2>2. i + 1 <= tree.order[tree.parent[u]] /\ i + 1 <= RootOrder
    BY <1>1, <2>1
  <2>3. QED
    BY <1>1, <2>2
<1>6. next \in [T -> T \ {low}]
  BY <1>5
<1>7. \E i, j \in T : i # j /\ next[i] = next[j]
  <2> HIDE DEF next, T
  <2>1. QED
    BY <1>3, <1>4, <1>6, FS_PigeonHole
<1>8. QED
  BY <1>1, <1>7

-----------------------------------------------------------------------------
(***************************************************************************)
(* The search.                                                             *)
(***************************************************************************)
\* A leaf whose turn is next lags behind no children: the call may start there.
LEMMA KnownLeaf ==
  ASSUME NEW tree, NEW nyt, NEW cache, NEW s,
         Built(tree, nyt, cache, Null), s \in Symbol, cache[s] # Null
  PROVE  /\ cache[s] \in Allocated(tree) \ {nyt}
         /\ IsLeaf(tree, cache[s])
         /\ Built(tree, nyt, cache, cache[s])
         /\ Ranked(tree, nyt, Null) => Ranked(tree, nyt, cache[s])
<1>1. cache[s] \in Allocated(tree) \ {nyt}
  BY DEF Built, TwoPerSymbol, SeenIn
<1>2. IsLeaf(tree, cache[s])
  BY <1>1 DEF Built, Current
<1>3. Null \notin Allocated(tree)
  BY Basics
<1>4. AddsUp(tree, cache[s])
  BY <1>2, <1>3 DEF Built, AddsUp
<1>5. Built(tree, nyt, cache, cache[s])
  BY <1>4 DEF Built
<1>6. Ranked(tree, nyt, Null) => Ranked(tree, nyt, cache[s])
  BY <1>3 DEF Ranked, HeavierAbove, Weightless
<1>7. QED
  BY <1>1, <1>2, <1>5, <1>6

\* The node a search starts from is its first candidate.
LEMMA StartEligible ==
  ASSUME NEW tree, NEW nyt, NEW cache, NEW node,
         Built(tree, nyt, cache, node), node \in Allocated(tree) \ {nyt}
  PROVE  Eligible(tree, nyt, node, node) /\ node # tree.parent[node]
  BY DEF Built, Loopless, Eligible

\* The candidate after the visit of h has the weight of the one before, and is that
\* or ranks higher.
LEMMA VisitClimbs ==
  ASSUME NEW tree, NEW nyt, NEW cache, NEW node, NEW candidate, NEW h,
         Built(tree, nyt, cache, node), Eligible(tree, nyt, node, candidate),
         h \in Allocated(tree)
  PROVE  LET next == IF BetterToSwap(tree, candidate, h) THEN h ELSE candidate
         IN /\ Eligible(tree, nyt, node, next)
            /\ next = candidate \/ tree.order[candidate] < tree.order[next]
            /\ tree.order[candidate] <= tree.order[next]
<1>1. /\ node \in Allocated(tree) \ {nyt} /\ candidate \in Allocated(tree)
      /\ tree.weight[candidate] = tree.weight[node]
      /\ candidate = node \/ tree.order[node] < tree.order[candidate]
  BY DEF Eligible
<1>2. /\ tree.order[node] \in Nat /\ tree.order[candidate] \in Nat
      /\ tree.order[h] \in Nat
  BY <1>1, Basics
<1>3. CASE BetterToSwap(tree, candidate, h)
  <2>1. /\ tree.weight[candidate] = tree.weight[h]
        /\ tree.order[candidate] < tree.order[h]
    BY <1>3 DEF BetterToSwap
  <2>2. tree.order[node] < tree.order[h]
    BY <1>1, <1>2, <2>1
  <2>3. QED
    BY <1>1, <1>2, <1>3, <2>1, <2>2 DEF Eligible
<1>4. CASE ~BetterToSwap(tree, candidate, h)
  BY <1>1, <1>2, <1>4 DEF Eligible
<1>5. QED
  BY <1>3, <1>4

\* In a ranked tree the visit settles h: what the candidate of the moment excludes,
\* its own parent, is as heavy as node only if the candidate is node itself.  And
\* a candidate above node is above node's parent if that is as heavy as node.
LEMMA VisitSettles ==
  ASSUME NEW tree, NEW nyt, NEW cache, NEW node, NEW candidate, NEW h,
         Built(tree, nyt, cache, node), Ranked(tree, nyt, node),
         Eligible(tree, nyt, node, candidate), candidate # tree.parent[node],
         h \in Allocated(tree), candidate # Root
  PROVE  LET next == IF BetterToSwap(tree, candidate, h) THEN h ELSE candidate
         IN /\ next # tree.parent[node]
            /\ Settled(tree, node, next, h)
            /\ \A m \in Allocated(tree) :
                 Settled(tree, node, candidate, m) => Settled(tree, node, next, m)
<1> DEFINE next == IF BetterToSwap(tree, candidate, h) THEN h ELSE candidate
<1>1. /\ node \in Allocated(tree) \ {nyt} /\ candidate \in Allocated(tree)
      /\ tree.weight[candidate] = tree.weight[node]
      /\ candidate = node \/ tree.order[node] < tree.order[candidate]
  BY DEF Eligible
<1>2. \A m \in Allocated(tree) : tree.order[m] \in Nat
  BY Basics
<1>3. tree.order[candidate] <= tree.order[next] /\ next \in Allocated(tree)
  BY <1>1, VisitClimbs
<1>4. next = candidate \/
        /\ next = h /\ tree.weight[h] = tree.weight[candidate]
        /\ h # tree.parent[candidate] /\ tree.order[candidate] < tree.order[h]
  BY DEF BetterToSwap
<1>5. ASSUME h = tree.parent[candidate], tree.weight[h] = tree.weight[candidate]
      PROVE  candidate = node
  BY <1>1, <1>5, EqualParent
<1>6. Settled(tree, node, next, h)
  <2> SUFFICES ASSUME tree.weight[h] = tree.weight[node], h # tree.parent[node],
                      next # h
               PROVE  tree.order[h] <= tree.order[next]
    BY <1>2 DEF Settled
  <2>1. ~BetterToSwap(tree, candidate, h) /\ next = candidate
    OBVIOUS
  <2>2. h # tree.parent[candidate]
    BY <1>1, <1>5
  <2>3. ~(tree.order[candidate] < tree.order[h])
    BY <1>1, <2>1, <2>2 DEF BetterToSwap
  <2>4. QED
    BY <1>1, <1>2, <2>1, <2>3
<1> HIDE DEF next
<1>7. next # tree.parent[node]
  <2> SUFFICES ASSUME next # candidate, h = tree.parent[node] PROVE FALSE
    BY <1>4
  <2>1. node # Root
    BY <1>1, Basics
  <2>2. /\ tree.order[node] = tree.order[nyt] + 1
        /\ tree.order[h] = tree.order[nyt] + 2
    BY <1>1, <1>4, <2>1, EqualParent
  <2>3. candidate # node /\ tree.order[node] < tree.order[candidate]
    BY <1>1, <1>4
  <2>4. tree.order[nyt] \in Nat
    BY Basics
  <2>5. QED
    BY <1>1, <1>2, <1>4, <2>2, <2>3, <2>4
<1>8. ASSUME NEW m \in Allocated(tree), Settled(tree, node, candidate, m)
      PROVE  Settled(tree, node, next, m)
  BY <1>1, <1>2, <1>3, <1>8 DEF Settled
<1>9. QED
  BY <1>6, <1>7, <1>8 DEF next

\* Nothing ranks above the root.
LEMMA RootSettles ==
  ASSUME NEW tree, NEW nyt, NEW cache, NEW node,
         Built(tree, nyt, cache, node), Ranked(tree, nyt, node)
  PROVE  \A m \in Allocated(tree) : Settled(tree, node, Root, m)
<1>1. \A m \in Allocated(tree) : tree.order[m] \in Nat
  BY Basics
<1>2. \A m \in Allocated(tree) \ {Root} : tree.order[m] < tree.order[Root]
  BY RootRanksFirst DEF Ranked
<1>3. QED
  BY <1>1, <1>2, Basics DEF Settled

-----------------------------------------------------------------------------
(***************************************************************************)
(* SlideNode preserves the invariants.                                     *)
(***************************************************************************)
\* slid is what SlideNode makes of a tree, if the search has kept to the weight.
Slides(tree, nyt, cache, node, candidate, slid) ==
  /\ Built(tree, nyt, cache, node)
  /\ Eligible(tree, nyt, node, candidate)
  /\ slid = SlideNode(tree, node, candidate)

\* The same for a ranked tree and a search that has found the leader.
RankedSlides(tree, nyt, cache, node, candidate, slid) ==
  /\ Slides(tree, nyt, cache, node, candidate, slid)
  /\ Ranked(tree, nyt, node)
  /\ Leads(tree, node, candidate)

\* What a slide does, in terms of the nodes before it.
LEMMA SlideStep ==
  ASSUME NEW tree, NEW nyt, NEW cache, NEW node, NEW candidate, NEW slid,
         Slides(tree, nyt, cache, node, candidate, slid)
  PROVE  /\ tree \in Tree /\ slid \in Tree
         /\ slid.used = tree.used
         /\ Allocated(slid) = Allocated(tree)
         /\ node \in Allocated(tree) \ {nyt}
         /\ candidate \in Allocated(tree) \ {nyt}
         /\ tree.weight[candidate] = tree.weight[node]
         /\ slid.parent[node] \in Allocated(tree) \cup {Null}
         /\ slid.isNYT = tree.isNYT /\ slid.value = tree.value
         /\ \A x \in Node :
              /\ slid.left[x] = Moved(tree, node, candidate, tree.left[x])
              /\ slid.right[x] = Moved(tree, node, candidate, tree.right[x])
              /\ slid.parent[x] = tree.parent[Moved(tree, node, candidate, x)]
              /\ slid.weight[x] = tree.weight[x] + (IF x = node THEN 1 ELSE 0)
              /\ slid.order[x] = tree.order[Exchange(x, candidate, node)]
<1>1. tree \in Tree /\ slid = SlideNode(tree, node, candidate)
  BY DEF Slides, Built
<1>2. /\ node \in Allocated(tree) \ {nyt}
      /\ candidate \in Allocated(tree)
      /\ tree.weight[candidate] = tree.weight[node]
      /\ candidate = node \/ tree.order[node] < tree.order[candidate]
  BY DEF Slides, Eligible
<1>3. node \in Node /\ candidate \in Node
  BY <1>1, <1>2, AllocatedFacts
<1>4. candidate # nyt
  <2>1. tree.order[node] \in (RootOrder + 1 - tree.used)..RootOrder
    BY <1>2 DEF Slides, Built, Ranking
  <2>2. tree.order[nyt] = RootOrder + 1 - tree.used
    BY DEF Slides, Built, RanksLast
  <2>3. tree.used \in Nat /\ RootOrder \in Nat
    BY <1>1, AllocatedFacts, OrderAssumption
  <2>4. QED
    BY <1>2, <2>1, <2>2, <2>3
<1>5. slid \in Tree /\ slid.used = tree.used
      /\ slid.isNYT = tree.isNYT /\ slid.value = tree.value
  BY <1>1, <1>3, SlideTyped
<1>6. Allocated(slid) = Allocated(tree)
  BY <1>5 DEF Allocated
<1>7. \A x \in Node :
        /\ slid.left[x] = Moved(tree, node, candidate, tree.left[x])
        /\ slid.right[x] = Moved(tree, node, candidate, tree.right[x])
        /\ slid.parent[x] = tree.parent[Moved(tree, node, candidate, x)]
        /\ slid.weight[x] = tree.weight[x] + (IF x = node THEN 1 ELSE 0)
        /\ slid.order[x] = tree.order[Exchange(x, candidate, node)]
  BY <1>1, <1>3, SlideAt
<1>8. slid.parent[node] \in Allocated(tree) \cup {Null}
  <2>1. Moved(tree, node, candidate, node) \in Allocated(tree)
    BY <1>1, <1>2, MovedFacts DEF Slides, Built, Linked
  <2>2. tree.parent[Moved(tree, node, candidate, node)] \in Allocated(tree) \cup {Null}
    BY <2>1 DEF Slides, Built, Linked
  <2>3. QED
    BY <1>3, <1>7, <2>2
<1>9. QED
  BY <1>1, <1>2, <1>4, <1>5, <1>6, <1>7, <1>8

\* What the tree is before a slide.
LEMMA SlidesFrom ==
  ASSUME NEW tree, NEW nyt, NEW cache, NEW node, NEW candidate, NEW slid,
         Slides(tree, nyt, cache, node, candidate, slid)
  PROVE  /\ Built(tree, nyt, cache, node)
         /\ nyt \in Node /\ cache \in [Symbol -> Node \cup {Null}]
         /\ Linked(tree) /\ Loopless(tree) /\ Blank(tree)
         /\ AddsUp(tree, node)
         /\ Ranking(tree)
         /\ RanksLast(tree, nyt) /\ InnerRoot(tree, nyt)
         /\ Current(tree, nyt, cache) /\ TwoPerSymbol(tree, nyt, cache)
  BY DEF Slides, Built

\* A swap replaces one child by another in two places, and the two parent
\* pointers follow: the links stay inverse to each other.
LEMMA SlideKeepsLinks ==
  ASSUME NEW tree, NEW nyt, NEW cache, NEW node, NEW candidate, NEW slid,
         Slides(tree, nyt, cache, node, candidate, slid)
  PROVE  Linked(slid) /\ Loopless(slid) /\ Blank(slid)
<1> DEFINE M(x) == Moved(tree, node, candidate, x)
           A == Allocated(tree)
<1>1. /\ A \subseteq Node /\ Root \in A /\ Null \notin A
      /\ node \in A /\ candidate \in A
      /\ Allocated(slid) = A
      /\ tree \in Tree
  BY SlideStep, AllocatedFacts
<1>2. /\ \A x : M(M(x)) = x
      /\ \A x \in A : M(x) \in A
      /\ \A x \in Node : M(x) \in Node
      /\ M(Null) = Null
      /\ M(Root) = Root
  BY SlideStep, MovedFacts, SlidesFrom DEF Linked
<1>3. \A x \in Node : /\ slid.left[x] = M(tree.left[x])
                      /\ slid.right[x] = M(tree.right[x])
                      /\ slid.parent[x] = tree.parent[M(x)]
                      /\ x # node => slid.weight[x] = tree.weight[x]
  BY SlideStep DEF Tree
<1>4. Linked(tree) /\ Loopless(tree) /\ Blank(tree)
  BY SlidesFrom
<1>5. \A x \in A : tree.parent[M(x)] # x
  BY <1>1, <1>4 DEF Loopless, Moved, Exchange, CanSwap
<1>6. \A x \in Node \ A : M(x) = x
  BY <1>1 DEF Moved, Exchange
<1> HIDE DEF M, A
<1>7. \A x \in Node : IsLeaf(slid, x) <=> IsLeaf(tree, x)
  BY <1>2, <1>3 DEF IsLeaf
<1>8. Loopless(slid)
  BY <1>1, <1>3, <1>5 DEF Loopless
<1>9. Blank(slid)
  BY <1>1, <1>3, <1>4, <1>6, <1>7 DEF Blank, A
<1>10. Linked(slid)
  <2>1. slid.parent[Root] = Null
    BY <1>1, <1>2, <1>3, <1>4 DEF Linked
  <2>2. ASSUME NEW n \in A \ {Root}
        PROVE  /\ slid.parent[n] \in A
               /\ n \in {slid.left[slid.parent[n]], slid.right[slid.parent[n]]}
    <3>1. M(n) \in A \ {Root}
      BY <1>2
    <3>2. /\ tree.parent[M(n)] \in A
          /\ M(n) \in {tree.left[tree.parent[M(n)]], tree.right[tree.parent[M(n)]]}
      BY <3>1, <1>4 DEF Linked, A
    <3>3. QED
      BY <1>1, <1>2, <1>3, <3>2
  <2>3. ASSUME NEW n \in A, ~IsLeaf(slid, n)
        PROVE  /\ {slid.left[n], slid.right[n]} \subseteq A
               /\ slid.left[n] # slid.right[n]
               /\ slid.parent[slid.left[n]] = n
               /\ slid.parent[slid.right[n]] = n
    <3>1. /\ {tree.left[n], tree.right[n]} \subseteq A
          /\ tree.left[n] # tree.right[n]
          /\ tree.parent[tree.left[n]] = n
          /\ tree.parent[tree.right[n]] = n
      BY <1>1, <1>4, <1>7, <2>3 DEF Linked, A
    <3>2. QED
      BY <1>1, <1>2, <1>3, <3>1
  <2>4. QED
    BY <1>1, <2>1, <2>2, <2>3 DEF Linked
<1>11. QED
  BY <1>8, <1>9, <1>10

\* The nodes exchanged have the same weight, so sums stay; then node gains one,
\* and its parent after the exchange is the node that lags.
LEMMA SlideKeepsWeights ==
  ASSUME NEW tree, NEW nyt, NEW cache, NEW node, NEW candidate, NEW slid,
         Slides(tree, nyt, cache, node, candidate, slid)
  PROVE  AddsUp(slid, slid.parent[node])
<1> DEFINE M(x) == Moved(tree, node, candidate, x)
           A == Allocated(tree)
<1>1. /\ A \subseteq Node /\ Root \in A /\ Null \notin A
      /\ node \in A
      /\ Allocated(slid) = A
      /\ tree \in Tree
  BY SlideStep, AllocatedFacts
<1>2. /\ M(Null) = Null
      /\ \A x : M(M(x)) = x
      /\ \A x \in Node : M(x) \in Node /\ tree.weight[M(x)] = tree.weight[x]
  BY SlideStep, MovedFacts, SlidesFrom DEF Linked
<1>3. \A x \in Node :
        /\ slid.left[x] = M(tree.left[x])
        /\ slid.right[x] = M(tree.right[x])
        /\ slid.weight[x] = tree.weight[x] + (IF x = node THEN 1 ELSE 0)
  BY SlideStep
<1>4. \A x \in Node : tree.weight[x] \in Nat
  BY <1>1 DEF Tree
<1>5. Linked(slid) /\ Loopless(slid)
  BY SlideKeepsLinks
<1> HIDE DEF M, A
<1>6. ASSUME NEW n \in A, ~IsLeaf(slid, n)
      PROVE  slid.weight[slid.left[n]] + slid.weight[slid.right[n]]
               = slid.weight[n] + (IF n = slid.parent[node] THEN 1 ELSE 0)
  <2> DEFINE l == tree.left[n]
             r == tree.right[n]
  <2>1. /\ M(l) \in A /\ M(r) \in A /\ M(l) # M(r)
        /\ slid.parent[M(l)] = n /\ slid.parent[M(r)] = n
    BY <1>1, <1>3, <1>5, <1>6 DEF Linked
  <2>2. l \in Node /\ r \in Node
    BY <1>1, <1>2, <2>1
  <2>3. ~IsLeaf(tree, n)
    BY <1>1, <2>2, NodeFacts DEF IsLeaf
  <2>4. tree.weight[l] + tree.weight[r]
          = tree.weight[n] + (IF n = node THEN 1 ELSE 0)
    BY <2>3, SlidesFrom DEF AddsUp, A
  <2>5. tree.weight[M(l)] = tree.weight[l] /\ tree.weight[M(r)] = tree.weight[r]
    BY <1>2, <2>2
  <2>6. n = slid.parent[node] <=> M(l) = node \/ M(r) = node
    <3>1. CASE n = slid.parent[node]
      <4>1. n = slid.parent[node] /\ node # Root
        BY <1>1, <1>5, <3>1 DEF Linked
      <4>2. node \in {slid.left[n], slid.right[n]}
        BY <1>1, <1>5, <4>1 DEF Linked
      <4>3. QED
        BY <1>1, <1>3, <3>1, <4>2
    <3>2. CASE n # slid.parent[node]
      BY <1>1, <2>1, <3>2
    <3>3. QED
      BY <3>1, <3>2
  <2>7. n = node => M(l) # node /\ M(r) # node
    BY <1>1, <1>5, <2>1 DEF Loopless
  <2>8. /\ slid.weight[M(l)] = tree.weight[l] + (IF M(l) = node THEN 1 ELSE 0)
        /\ slid.weight[M(r)] = tree.weight[r] + (IF M(r) = node THEN 1 ELSE 0)
        /\ slid.weight[n] = tree.weight[n] + (IF n = node THEN 1 ELSE 0)
    BY <1>1, <1>3, <2>1, <2>5
  <2>9. tree.weight[l] \in Nat /\ tree.weight[r] \in Nat /\ tree.weight[n] \in Nat
    BY <1>1, <1>4, <2>2
  <2>10. slid.left[n] = M(l) /\ slid.right[n] = M(r)
    BY <1>1, <1>3
  <2> HIDE DEF l, r
  <2>11. slid.weight[M(l)] + slid.weight[M(r)]
           = slid.weight[n] + (IF n = slid.parent[node] THEN 1 ELSE 0)
    BY <2>1, <2>4, <2>6, <2>7, <2>8, <2>9
  <2>12. QED
    BY <2>10, <2>11
<1>7. QED
  BY <1>1, <1>6 DEF AddsUp

\* Two orders are exchanged: the set of orders stays, and so does injectivity.
LEMMA SlideKeepsRanking ==
  ASSUME NEW tree, NEW nyt, NEW cache, NEW node, NEW candidate, NEW slid,
         Slides(tree, nyt, cache, node, candidate, slid)
  PROVE  Ranking(slid)
<1> DEFINE X(x) == Exchange(x, candidate, node)
           A == Allocated(tree)
<1>1. /\ A \subseteq Node /\ Allocated(slid) = A /\ slid.used = tree.used
  BY SlideStep, AllocatedFacts
<1>2. /\ \A x \in A : X(x) \in A
      /\ \A x : X(X(x)) = x
  BY SlideStep DEF Exchange
<1>3. \A x \in A : slid.order[x] = tree.order[X(x)]
  BY <1>1, SlideStep
<1>4. /\ {tree.order[x] : x \in A} = (RootOrder + 1 - tree.used)..RootOrder
      /\ \A x, y \in A : tree.order[x] = tree.order[y] => y = x
  BY SlidesFrom DEF Ranking
<1> HIDE DEF X, A
<1>5. {slid.order[x] : x \in A} = {tree.order[x] : x \in A}
  BY <1>2, <1>3
<1>6. \A x, y \in A : slid.order[x] = slid.order[y] => y = x
  BY <1>2, <1>3, <1>4
<1>7. QED
  BY <1>1, <1>4, <1>5, <1>6 DEF Ranking

\* NYT is neither node nor candidate: nothing about it changes.
LEMMA SlideKeepsNYT ==
  ASSUME NEW tree, NEW nyt, NEW cache, NEW node, NEW candidate, NEW slid,
         Slides(tree, nyt, cache, node, candidate, slid)
  PROVE  RanksLast(slid, nyt)
<1>1. /\ nyt \in Allocated(tree) /\ IsLeaf(tree, nyt)
      /\ tree.weight[nyt] = 0
      /\ tree.order[nyt] = RootOrder + 1 - tree.used
  BY SlidesFrom DEF RanksLast
<1>2. /\ nyt # node /\ nyt # candidate
      /\ slid.used = tree.used /\ Allocated(slid) = Allocated(tree)
  BY SlideStep
<1>3. nyt \in Node
  BY <1>1, SlideStep, AllocatedFacts
<1>4. Moved(tree, node, candidate, Null) = Null
  BY SlideStep, MovedFacts, SlidesFrom DEF Linked
<1>5. slid.left[nyt] = Null /\ slid.right[nyt] = Null
  BY <1>1, <1>3, <1>4, SlideStep DEF IsLeaf
<1>6. slid.weight[nyt] = 0
  BY <1>1, <1>2, <1>3, SlideStep
<1>7. slid.order[nyt] = tree.order[nyt]
  BY <1>2, <1>3, SlideStep DEF Exchange
<1>8. QED
  BY <1>1, <1>2, <1>5, <1>6, <1>7 DEF RanksLast, IsLeaf

\* A leaf stays a leaf and keeps its value, wherever it is moved.
LEMMA SlideKeepsCache ==
  ASSUME NEW tree, NEW nyt, NEW cache, NEW node, NEW candidate, NEW slid,
         Slides(tree, nyt, cache, node, candidate, slid)
  PROVE  Current(slid, nyt, cache) /\ TwoPerSymbol(slid, nyt, cache) /\ InnerRoot(slid, nyt)
<1>1. /\ slid.value = tree.value
      /\ slid.used = tree.used /\ Allocated(slid) = Allocated(tree)
  BY SlideStep
<1>2. \A x \in Allocated(tree) : IsLeaf(slid, x) <=> IsLeaf(tree, x)
  <2>1. /\ \A x : Moved(tree, node, candidate, Moved(tree, node, candidate, x)) = x
        /\ Moved(tree, node, candidate, Null) = Null
    BY SlideStep, MovedFacts, SlidesFrom DEF Linked
  <2>2. QED
    BY <2>1, SlideStep, AllocatedFacts DEF IsLeaf
<1>3. Current(slid, nyt, cache)
  BY <1>1, <1>2, SlidesFrom DEF Current
<1>4. TwoPerSymbol(slid, nyt, cache)
  BY <1>1, SlidesFrom DEF TwoPerSymbol, SeenIn
<1>5. InnerRoot(slid, nyt)
  BY <1>1, <1>2, SlideStep, SlidesFrom, AllocatedFacts DEF InnerRoot
<1>6. QED
  BY <1>3, <1>4, <1>5

\* A parent is not NYT, which is a leaf: the next search may start from it.
LEMMA SlideKeepsSearch ==
  ASSUME NEW tree, NEW nyt, NEW cache, NEW node, NEW candidate, NEW slid,
         Slides(tree, nyt, cache, node, candidate, slid),
         slid.parent[node] # Null
  PROVE  slid.parent[node] \in Allocated(slid) \ {nyt}
<1>1. /\ slid \in Tree /\ node \in Allocated(slid)
      /\ slid.parent[node] \in Allocated(slid)
  BY SlideStep
<1>2. Linked(slid) /\ RanksLast(slid, nyt)
  BY SlideKeepsLinks, SlideKeepsNYT
<1>3. node # Root /\ node # Null
  BY <1>1, <1>2, AllocatedFacts DEF Linked
<1>4. node \in {slid.left[slid.parent[node]], slid.right[slid.parent[node]]}
  BY <1>1, <1>2, <1>3 DEF Linked
<1>5. QED
  BY <1>1, <1>2, <1>3, <1>4 DEF IsLeaf, RanksLast

\* The tree after a slide is sound but for its ranks.
LEMMA SlideKeepsBuilt ==
  ASSUME NEW tree, NEW nyt, NEW cache, NEW node, NEW candidate, NEW slid,
         Slides(tree, nyt, cache, node, candidate, slid)
  PROVE  Built(slid, nyt, cache, slid.parent[node])
<1>1. /\ slid \in Tree /\ nyt \in Node
      /\ cache \in [Symbol -> Node \cup {Null}]
  BY SlideStep, SlidesFrom
<1>2. QED
  BY <1>1, SlideKeepsLinks, SlideKeepsWeights, SlideKeepsRanking, SlideKeepsNYT,
     SlideKeepsCache DEF Built

\* A candidate that is not node itself is neither the root nor next to node.
LEMMA CandidateSwappable ==
  ASSUME NEW tree, NEW nyt, NEW cache, NEW node, NEW candidate, NEW slid,
         RankedSlides(tree, nyt, cache, node, candidate, slid), candidate # node
  PROVE  /\ CanSwap(tree, candidate, node)
         /\ node # Root /\ candidate # Root
         /\ tree.order[node] < tree.order[candidate]
<1> DEFINE A == Allocated(tree)
           up(n) == tree.parent[n]
<1>1. /\ node \in A \ {nyt} /\ candidate \in A
      /\ Built(tree, nyt, cache, node) /\ Ranked(tree, nyt, node)
      /\ tree.weight[candidate] = tree.weight[node]
      /\ tree.order[node] < tree.order[candidate]
      /\ candidate # up(node)
  BY DEF RankedSlides, Slides, Leads, Eligible
<1>2. /\ \A n \in A \ {Root} : /\ up(n) \in A
                             /\ tree.order[n] < tree.order[up(n)]
                             /\ tree.order[n] < tree.order[Root]
      /\ Root \in A /\ Null \notin A
      /\ \A n \in A : tree.order[n] \in Nat /\ tree.weight[n] \in Nat
  BY <1>1, Basics, RootRanksFirst DEF Ranked, ParentsAbove
<1>3. \A m, n \in A : tree.order[n] < tree.order[m] /\ m # node
                     => tree.weight[n] <= tree.weight[m]
  BY <1>1, <1>2 DEF Ranked, HeavierAbove
<1>4. node # Root
  BY <1>1, <1>2
<1>5. up(candidate) # node
  BY <1>1, <1>2, Basics
<1>6. candidate # Root
  <2> SUFFICES ASSUME candidate = Root PROVE FALSE
    OBVIOUS
  <2> DEFINE y == up(node)
  <2>1. /\ y \in A \ {Root} /\ up(y) \in A
        /\ tree.order[node] < tree.order[y] /\ tree.order[y] < tree.order[up(y)]
    BY <1>1, <1>2, <1>4
  <2>2. /\ tree.order[up(y)] <= tree.order[Root]
        /\ y # node /\ up(y) # node
    BY <1>2, <2>1
  <2>3. /\ tree.weight[node] <= tree.weight[y]
        /\ tree.weight[y] <= tree.weight[up(y)]
        /\ up(y) # Root => tree.weight[up(y)] <= tree.weight[Root]
    BY <1>1, <1>2, <1>3, <1>4, <2>1, <2>2
  <2>4. tree.weight[y] = tree.weight[node] /\ tree.weight[up(y)] = tree.weight[y]
    BY <1>1, <1>2, <2>1, <2>3
  <2> HIDE DEF y
  <2>5. y = node
    BY <1>1, <1>4, <2>1, <2>4, EqualParent, Basics
  <2>6. QED
    BY <2>2, <2>5
<1>7. up(node) # Null /\ up(candidate) # Null
  BY <1>1, <1>2, <1>4, <1>6
<1>8. QED
  BY <1>1, <1>4, <1>5, <1>6, <1>7 DEF CanSwap

\* What a slide does to a ranked tree: node and the leader exchange places and orders,
\* so that the order of a place stays, and node is one heavier.
LEMMA RankedSlide ==
  ASSUME NEW tree, NEW nyt, NEW cache, NEW node, NEW candidate, NEW slid,
         RankedSlides(tree, nyt, cache, node, candidate, slid)
  PROVE  LET X(n) == Exchange(n, candidate, node)
         IN /\ Built(tree, nyt, cache, node) /\ Ranked(tree, nyt, node) /\ node # Null
            /\ Allocated(slid) = Allocated(tree)
            /\ node \in Allocated(tree) \ {nyt}
            /\ candidate \in Allocated(tree) \ {nyt}
            /\ tree.weight[candidate] = tree.weight[node]
            /\ candidate = node \/ tree.order[node] < tree.order[candidate]
            /\ candidate # tree.parent[node]
            /\ \A n \in Allocated(tree) :
                 tree.weight[n] = tree.weight[node] /\ n # tree.parent[node]
                   => tree.order[n] <= tree.order[candidate]
            /\ slid.used = tree.used /\ slid.isNYT = tree.isNYT
            /\ X(Null) = Null /\ X(Root) = Root
            /\ \A n \in Node :
                 /\ slid.left[n] = X(tree.left[n])
                 /\ slid.right[n] = X(tree.right[n])
                 /\ slid.parent[n] = tree.parent[X(n)]
                 /\ slid.weight[n] = tree.weight[n] + (IF n = node THEN 1 ELSE 0)
                 /\ slid.order[n] = tree.order[X(n)]
<1>1. /\ Built(tree, nyt, cache, node) /\ Ranked(tree, nyt, node)
      /\ Slides(tree, nyt, cache, node, candidate, slid)
      /\ Leads(tree, node, candidate)
      /\ candidate = node \/ tree.order[node] < tree.order[candidate]
  BY DEF RankedSlides, Slides, Eligible
<1>2. \A n : Moved(tree, node, candidate, n) = Exchange(n, candidate, node)
  BY CandidateSwappable DEF Moved, Exchange
<1>3. \A n \in Allocated(tree) :
        tree.weight[n] = tree.weight[node] /\ n # tree.parent[node]
          => tree.order[n] <= tree.order[candidate]
  BY <1>1 DEF Leads, Settled
<1>4. candidate # tree.parent[node]
  BY <1>1 DEF Leads
<1>5. node # Null
  BY <1>1, SlideStep, AllocatedFacts
<1>6. /\ Moved(tree, node, candidate, Null) = Null
      /\ Moved(tree, node, candidate, Root) = Root
  BY <1>1, SlideStep, MovedFacts, SlidesFrom DEF Linked
<1>7. QED
  BY <1>1, <1>2, <1>3, <1>4, <1>5, <1>6, SlideStep

\* NYT's parent is not moved.  Were it the node that slides, the leader would be
\* lighter than NYT's sibling but rank above it; were it the leader, the node that
\* slides could only be NYT's sibling, whose parent is never its leader.
LEMMA NYTParentStays ==
  ASSUME NEW tree, NEW nyt, NEW cache, NEW node, NEW candidate, NEW slid,
         RankedSlides(tree, nyt, cache, node, candidate, slid), nyt # Root
  PROVE  Exchange(tree.parent[nyt], candidate, node) = tree.parent[nyt]
<1> DEFINE A == Allocated(tree)
           p == tree.parent[nyt]
<1> SUFFICES ASSUME candidate # node, p \in {candidate, node} PROVE FALSE
  BY DEF Exchange
<1>1. /\ Built(tree, nyt, cache, node) /\ Ranked(tree, nyt, node)
      /\ node \in A \ {nyt} /\ candidate \in A \ {nyt}
      /\ tree.weight[candidate] = tree.weight[node]
      /\ tree.order[node] < tree.order[candidate]
      /\ candidate # tree.parent[node]
  BY RankedSlide
<1>2. nyt \in A \ {Root} /\ p \in A
  BY <1>1, Basics
<1>3. PICK e \in A \ {Root} :
        /\ e # nyt /\ tree.parent[e] = p
        /\ tree.weight[nyt] + tree.weight[e]
             = tree.weight[p] + (IF p = node THEN 1 ELSE 0)
  BY <1>1, <1>2, SiblingOf
<1>4. /\ tree.order[e] = tree.order[nyt] + 1
      /\ tree.order[p] = tree.order[nyt] + 2
  BY <1>1, <1>3, NYTSibling DEF Ranked
<1>5. CASE p = node
  <2>1. tree.weight[candidate] < tree.weight[e]
    BY <1>1, <1>2, <1>3, <1>5, Basics DEF Ranked, Built, RanksLast
  <2>2. tree.order[candidate] < tree.order[e]
    BY <1>1, <2>1 DEF Ranked, HeavierAbove
  <2>3. QED
    BY <1>1, <1>2, <1>4, <1>5, <2>2, Basics
<1>6. CASE p = candidate
  <2>1. tree.order[nyt] < tree.order[node]
    BY <1>1, <1>2, Basics DEF Ranked, Marked, Built, RanksLast
  <2>2. tree.order[node] = tree.order[e]
    BY <1>1, <1>2, <1>3, <1>4, <1>6, <2>1, Basics
  <2>3. node = e
    BY <1>1, <1>3, <2>2, Basics
  <2>4. QED
    BY <1>1, <1>3, <1>6, <2>3
<1>7. QED
  BY <1>5, <1>6

\* Parents still rank above their children: the children of the leader, who moves
\* down, are lighter than it, and so rank below node, whose order it takes.
LEMMA SlideKeepsParents ==
  ASSUME NEW tree, NEW nyt, NEW cache, NEW node, NEW candidate, NEW slid,
         RankedSlides(tree, nyt, cache, node, candidate, slid)
  PROVE  ParentsAbove(slid)
<1> DEFINE A == Allocated(tree)
           X(n) == Exchange(n, candidate, node)
<1>1. /\ Built(tree, nyt, cache, node) /\ Ranked(tree, nyt, node) /\ node # Null
      /\ Allocated(slid) = A
      /\ node \in A \ {nyt} /\ candidate \in A
      /\ tree.weight[candidate] = tree.weight[node]
      /\ candidate = node \/ tree.order[node] < tree.order[candidate]
      /\ candidate # tree.parent[node]
      /\ X(Root) = Root
  BY RankedSlide
<1>2. \A n \in A : /\ slid.parent[n] = tree.parent[X(n)]
                   /\ slid.order[n] = tree.order[X(n)]
  BY <1>1, Basics, RankedSlide
<1>3. ASSUME NEW z \in A \ {Root}
      PROVE  tree.order[z] < tree.order[X(tree.parent[z])]
  <2> DEFINE y == tree.parent[z]
  <2>1. y \in A /\ y # z /\ tree.order[z] < tree.order[y]
    BY <1>1, Basics DEF Ranked, ParentsAbove
  <2>2. CASE y \notin {candidate, node} \/ candidate = node
    BY <2>1, <2>2 DEF Exchange
  <2>3. CASE y = node /\ candidate # node
    BY <1>1, <2>1, <2>3, Basics DEF Exchange
  <2>4. CASE y = candidate /\ candidate # node
    <3> SUFFICES ASSUME ~(tree.order[z] < tree.order[node]) PROVE FALSE
      BY <2>4 DEF Exchange
    <3>1. z # node
      BY <1>1, <2>4
    <3>2. tree.order[node] < tree.order[z]
      BY <1>1, <3>1, Basics
    <3>3. ~(tree.weight[z] < tree.weight[node])
      BY <1>1, <3>1 DEF Ranked, HeavierAbove
    <3>4. PICK e \in A : tree.weight[z] + tree.weight[e] = tree.weight[y]
      BY <1>1, <2>4, SiblingOf, Basics
    <3>5. tree.weight[z] = tree.weight[node] /\ tree.weight[y] = tree.weight[z]
      BY <1>1, <2>1, <2>4, <3>3, <3>4, Basics
    <3>6. z = node
      BY <1>1, <3>2, <3>5, EqualParent
    <3>7. QED
      BY <3>1, <3>6
  <2>5. QED
    BY <2>2, <2>3, <2>4
<1>4. \A n \in A \ {Root} : X(n) \in A \ {Root}
  BY <1>1 DEF Exchange
<1> HIDE DEF X
<1>5. \A n \in A \ {Root} : slid.order[n] < slid.order[slid.parent[n]]
  BY <1>1, <1>2, <1>3, <1>4, Basics
<1>6. QED
  BY <1>1, <1>5 DEF ParentsAbove

\* Places keep their orders, so that siblings stay next to each other.
LEMMA SlideKeepsSiblings ==
  ASSUME NEW tree, NEW nyt, NEW cache, NEW node, NEW candidate, NEW slid,
         RankedSlides(tree, nyt, cache, node, candidate, slid)
  PROVE  Adjacent(slid)
<1> DEFINE A == Allocated(tree)
           X(n) == Exchange(n, candidate, node)
<1>1. /\ Built(tree, nyt, cache, node) /\ Ranked(tree, nyt, node) /\ Allocated(slid) = A
      /\ node \in A /\ candidate \in A
      /\ X(Null) = Null
  BY RankedSlide
<1>2. /\ \A n \in A : X(n) \in A
      /\ \A n : X(X(n)) = n
  BY <1>1 DEF Exchange
<1>3. \A n \in A : /\ slid.left[n] = X(tree.left[n])
                   /\ slid.right[n] = X(tree.right[n])
                   /\ slid.order[n] = tree.order[X(n)]
  BY <1>1, Basics, RankedSlide
<1> HIDE DEF X
<1>4. ASSUME NEW n \in A, ~IsLeaf(slid, n)
      PROVE  LET l == slid.order[slid.left[n]]
                 r == slid.order[slid.right[n]]
             IN l = r + 1 \/ r = l + 1
  <2>1. ~IsLeaf(tree, n)
    BY <1>1, <1>3, <1>4 DEF IsLeaf
  <2>2. tree.left[n] \in A /\ tree.right[n] \in A
    BY <1>1, <2>1 DEF Built, Linked
  <2>3. /\ slid.order[slid.left[n]] = tree.order[tree.left[n]]
        /\ slid.order[slid.right[n]] = tree.order[tree.right[n]]
    BY <1>2, <1>3, <2>2
  <2>4. QED
    BY <1>1, <2>1, <2>3 DEF Ranked, Adjacent
<1>5. QED
  BY <1>1, <1>4 DEF Adjacent

\* The leader of a weight can gain one and still ranks as its weight demands; the
\* only heavier node it may not pass is its own parent, whose turn is next.
LEMMA SlideKeepsHeavier ==
  ASSUME NEW tree, NEW nyt, NEW cache, NEW node, NEW candidate, NEW slid,
         RankedSlides(tree, nyt, cache, node, candidate, slid)
  PROVE  HeavierAbove(slid, slid.parent[node])
<1> DEFINE A == Allocated(tree)
           X(n) == Exchange(n, candidate, node)
<1>1. /\ Built(tree, nyt, cache, node) /\ Ranked(tree, nyt, node) /\ node # Null
      /\ Allocated(slid) = A
      /\ node \in A \ {nyt} /\ candidate \in A
      /\ tree.weight[candidate] = tree.weight[node]
      /\ candidate = node \/ tree.order[node] < tree.order[candidate]
      /\ candidate # tree.parent[node]
      /\ \A n \in A : tree.weight[n] = tree.weight[node] /\ n # tree.parent[node]
                        => tree.order[n] <= tree.order[candidate]
  BY RankedSlide
<1>2. \A n \in A :
        /\ slid.parent[n] = tree.parent[X(n)]
        /\ slid.weight[n] = tree.weight[n] + (IF n = node THEN 1 ELSE 0)
        /\ slid.order[n] = tree.order[X(n)]
  BY <1>1, Basics, RankedSlide
<1>3. \A n \in A : tree.order[n] \in Nat /\ tree.weight[n] \in Nat
  BY <1>1, Basics
<1>4. \A m, n \in A : tree.weight[m] < tree.weight[n] /\ m # node
                     => tree.order[m] < tree.order[n]
  BY <1>1 DEF Ranked, HeavierAbove
<1>5. ASSUME NEW m \in A, NEW n \in A, slid.weight[m] < slid.weight[n]
      PROVE  \/ tree.order[X(m)] < tree.order[X(n)]
             \/ m = slid.parent[node] /\ slid.parent[n] = m
  <2>1. CASE n = node /\ tree.weight[m] < tree.weight[node]
    <3>1. m \notin {node, candidate}
      BY <1>1, <1>3, <2>1
    <3>2. tree.order[m] < tree.order[node]
      BY <1>1, <1>4, <2>1, <3>1
    <3>3. QED
      BY <1>1, <1>3, <2>1, <3>1, <3>2 DEF Exchange
  <2>2. CASE n = node /\ m # node /\ tree.weight[m] = tree.weight[node]
    <3>1. CASE m = candidate
      BY <1>1, <2>2, <3>1 DEF Exchange
    <3>2. CASE m # candidate /\ m # tree.parent[node]
      <4>1. tree.order[m] <= tree.order[candidate]
        BY <1>1, <2>2, <3>2
      <4>2. tree.order[m] # tree.order[candidate]
        BY <1>1, <3>2, Basics
      <4>3. tree.order[m] < tree.order[candidate]
        BY <1>1, <1>3, <4>1, <4>2
      <4>4. QED
        BY <2>2, <3>2, <4>3 DEF Exchange
    <3>3. CASE m # candidate /\ m = tree.parent[node]
      <4>1. CASE candidate = node
        <5>1. slid.parent[node] = tree.parent[node]
          BY <1>1, <1>2, <4>1 DEF Exchange
        <5>2. QED
          BY <1>1, <2>2, <3>3, <5>1
      <4>2. CASE candidate # node
        <5>1. node # Root
          BY <1>1, <3>3, Basics
        <5>2. /\ tree.order[node] = tree.order[nyt] + 1
              /\ tree.order[m] = tree.order[nyt] + 2
          BY <1>1, <2>2, <3>3, <5>1, EqualParent
        <5>3. tree.order[candidate] # tree.order[m]
          BY <1>1, <3>3, Basics
        <5>4. tree.order[m] < tree.order[candidate]
          BY <1>1, <1>3, <4>2, <5>2, <5>3, Basics
        <5>5. QED
          BY <2>2, <3>3, <5>4 DEF Exchange
      <4>3. QED
        BY <4>1, <4>2
    <3>4. QED
      BY <3>1, <3>2, <3>3
  <2>3. CASE m = node
    <3>1. n # node /\ tree.weight[node] + 1 < tree.weight[n]
      BY <1>1, <1>2, <1>3, <1>5, <2>3
    <3>2. n # candidate /\ tree.weight[candidate] < tree.weight[n]
      BY <1>1, <1>3, <3>1
    <3>3. tree.order[candidate] < tree.order[n]
      <4> SUFFICES ASSUME ~(tree.order[candidate] < tree.order[n]) PROVE FALSE
        OBVIOUS
      <4>1. candidate = node /\ tree.parent[n] = node
        BY <1>1, <3>2 DEF Ranked, HeavierAbove
      <4>2. n # Root
        BY <1>1, <4>1, Basics
      <4>3. PICK e \in A : tree.weight[n] + tree.weight[e] = tree.weight[node] + 1
        BY <1>1, <4>1, <4>2, SiblingOf
      <4>4. QED
        BY <1>1, <1>3, <3>1, <4>3
    <3>4. QED
      BY <2>3, <3>1, <3>2, <3>3 DEF Exchange
  <2>4. CASE m # node /\ n # node
    <3>1. tree.weight[m] < tree.weight[n]
      BY <1>2, <1>3, <1>5, <2>4
    <3>2. tree.order[m] < tree.order[n]
      BY <1>4, <2>4, <3>1
    <3>3. CASE m = candidate
      <4>1. n # candidate /\ tree.order[node] < tree.order[n]
        BY <1>1, <1>3, <2>4, <3>1, <3>2, <3>3
      <4>2. QED
        BY <2>4, <3>3, <4>1 DEF Exchange
    <3>4. CASE n = candidate
      <4>1. m # candidate /\ tree.order[m] < tree.order[node]
        BY <1>1, <1>3, <1>4, <2>4, <3>1, <3>4
      <4>2. QED
        BY <2>4, <3>4, <4>1 DEF Exchange
    <3>5. CASE m # candidate /\ n # candidate
      BY <2>4, <3>2, <3>5 DEF Exchange
    <3>6. QED
      BY <3>3, <3>4, <3>5
  <2>5. QED
    <3>1. n = node /\ m # node =>
            tree.weight[m] < tree.weight[node] \/ tree.weight[m] = tree.weight[node]
      BY <1>1, <1>2, <1>3, <1>5
    <3>2. QED
      BY <2>1, <2>2, <2>3, <2>4, <3>1
<1> HIDE DEF X
<1>6. QED
  BY <1>1, <1>2, <1>5 DEF HeavierAbove

\* NYT keeps its place, its order and its parent's.
LEMMA SlideKeepsMarked ==
  ASSUME NEW tree, NEW nyt, NEW cache, NEW node, NEW candidate, NEW slid,
         RankedSlides(tree, nyt, cache, node, candidate, slid)
  PROVE  Marked(slid, nyt)
<1> DEFINE A == Allocated(tree)
<1>1. /\ Slides(tree, nyt, cache, node, candidate, slid)
      /\ Built(tree, nyt, cache, node) /\ Ranked(tree, nyt, node) /\ slid.used = tree.used
      /\ slid.isNYT = tree.isNYT /\ nyt \notin {node, candidate}
  BY RankedSlide DEF RankedSlides
<1>2. RanksLast(slid, nyt)
  BY <1>1, SlideKeepsNYT
<1>3. nyt # Root => slid.order[slid.parent[nyt]] = tree.order[tree.parent[nyt]]
  <2> SUFFICES ASSUME nyt # Root
               PROVE  slid.order[slid.parent[nyt]] = tree.order[tree.parent[nyt]]
    OBVIOUS
  <2>1. nyt \in A /\ tree.parent[nyt] \in A /\ A \subseteq Node
    BY <1>1, Basics
  <2>2. slid.parent[nyt] = tree.parent[nyt]
    BY <1>1, <2>1, RankedSlide DEF Exchange
  <2>3. slid.order[tree.parent[nyt]] = tree.order[tree.parent[nyt]]
    BY <2>1, RankedSlide, NYTParentStays
  <2>4. QED
    BY <2>2, <2>3
<1>4. nyt # Root => tree.order[tree.parent[nyt]] = tree.order[nyt] + 2
  BY <1>1 DEF Ranked, Marked, Built, RanksLast
<1>5. tree.order[nyt] = RootOrder + 1 - tree.used
  BY <1>1 DEF Ranked, Marked, Built, RanksLast
<1>6. slid.isNYT = [n \in Node |-> n = nyt]
  BY <1>1 DEF Ranked, Marked, Built, RanksLast
<1>7. QED
  BY <1>1, <1>2, <1>3, <1>4, <1>5, <1>6 DEF Marked, RanksLast

\* A parent that weighs nothing is the parent of a new leaf, which is not swapped:
\* the parent is the next node.
LEMMA SlideKeepsWeightless ==
  ASSUME NEW tree, NEW nyt, NEW cache, NEW node, NEW candidate, NEW slid,
         RankedSlides(tree, nyt, cache, node, candidate, slid)
  PROVE  Weightless(slid, nyt, slid.parent[node])
<1> DEFINE A == Allocated(tree)
<1>1. /\ Built(tree, nyt, cache, node) /\ Ranked(tree, nyt, node) /\ node # Null /\ Allocated(slid) = A
      /\ node \in A /\ candidate \in A \ {nyt}
      /\ tree.weight[candidate] = tree.weight[node]
      /\ candidate # tree.parent[node]
  BY RankedSlide
<1>2. ASSUME NEW n \in A \ {nyt}, slid.weight[n] = 0
      PROVE  n = slid.parent[node]
  <2>1. n # node /\ tree.weight[n] = 0
    BY <1>1, <1>2, Basics, RankedSlide
  <2>2. n = tree.parent[node]
    BY <1>1, <2>1 DEF Ranked, Weightless
  <2>3. tree.weight[node] = 0
    <3>1. node # Root
      BY <1>1, <2>2, Basics
    <3>2. tree.order[node] < tree.order[n]
      BY <1>1, <2>2, <3>1 DEF Ranked, ParentsAbove
    <3>3. ~(tree.weight[n] < tree.weight[node])
      BY <1>1, <2>1, <3>2, Basics DEF Ranked, HeavierAbove
    <3>4. QED
      BY <1>1, <2>1, <3>3, Basics
  <2>4. candidate = node
    BY <1>1, <2>3 DEF Ranked, Weightless
  <2>5. slid.parent[node] = tree.parent[node]
    BY <1>1, <2>4, Basics, RankedSlide DEF Exchange
  <2>6. QED
    BY <1>1, <2>2, <2>5
<1>3. Null \notin A
  BY <1>1, Basics
<1>4. QED
  BY <1>1, <1>2, <1>3 DEF Weightless

\* The tree after a slide is ranked as well.
LEMMA SlideKeepsRanked ==
  ASSUME NEW tree, NEW nyt, NEW cache, NEW node, NEW candidate, NEW slid,
         RankedSlides(tree, nyt, cache, node, candidate, slid)
  PROVE  Ranked(slid, nyt, slid.parent[node])
  BY SlideKeepsParents, SlideKeepsHeavier, SlideKeepsSiblings, SlideKeepsMarked,
     SlideKeepsWeightless DEF Ranked

-----------------------------------------------------------------------------
(***************************************************************************)
(* SplitNYT preserves the invariants.                                      *)
(***************************************************************************)
\* split and known are what updateTree makes of a tree and its cache when it meets
\* a symbol for the first time.
Splits(tree, nyt, cache, s, split, known) ==
  /\ Built(tree, nyt, cache, Null)
  /\ s \in Symbol /\ cache[s] = Null
  /\ split = SplitNYT(tree, nyt, s)
  /\ known = [cache EXCEPT ![s] = NewLeaf(tree)]

\* There are two nodes and two orders left for a symbol not seen before.
LEMMA RoomForSplit ==
  ASSUME NEW tree, NEW nyt, NEW cache, NEW node,
         Built(tree, nyt, cache, node), NEW s \in Symbol, cache[s] = Null
  PROVE  /\ tree.used + 2 \in Node
         /\ tree.order[nyt] \in Nat /\ tree.order[nyt] >= 2
         /\ (Cardinality(SeenIn(cache) \cup {s}) = Cardinality(SeenIn(cache)) + 1)
<1>1. /\ SeenIn(cache) \cup {s} \in SUBSET Symbol /\ SeenIn(cache) \in SUBSET Symbol
      /\ s \notin SeenIn(cache)
  BY DEF SeenIn
<1>2. /\ IsFiniteSet(SeenIn(cache))
      /\ Cardinality(SeenIn(cache) \cup {s}) <= Cardinality(Symbol)
  BY <1>1, SymbolAssumption, FS_Subset
<1>3. Cardinality(SeenIn(cache) \cup {s}) = Cardinality(SeenIn(cache)) + 1
  BY <1>1, <1>2, FS_AddElement
<1>4. Cardinality(SeenIn(cache)) \in Nat /\ Cardinality(Symbol) \in Nat
  BY <1>2, SymbolAssumption, FS_CardinalityType
<1>5. /\ tree.used = 2 * Cardinality(SeenIn(cache)) + 1
      /\ tree.order[nyt] = RootOrder + 1 - tree.used
  BY DEF Built, TwoPerSymbol, RanksLast
<1>6. tree.used + 2 \in Node
  BY <1>2, <1>3, <1>4, <1>5, NodeFacts
<1>7. tree.order[nyt] \in Nat /\ tree.order[nyt] >= 2
  BY <1>2, <1>3, <1>4, <1>5, OrderAssumption
<1>8. QED
  BY <1>3, <1>6, <1>7

\* What a split does, in terms of the nodes before it.
LEMMA SplitStep ==
  ASSUME NEW tree, NEW nyt, NEW cache, NEW s, NEW split, NEW known,
         Splits(tree, nyt, cache, s, split, known)
  PROVE  LET p == NewNYT(tree)
             q == NewLeaf(tree)
         IN /\ tree \in Tree /\ split \in Tree
            /\ s \in Symbol /\ cache[s] = Null
            /\ split.used = tree.used + 2
            /\ Allocated(split) = Allocated(tree) \cup {p, q}
            /\ Allocated(tree) \subseteq Node
            /\ p \in Node \ Allocated(tree) /\ q \in Node \ Allocated(tree)
            /\ p # q
            /\ nyt \in Allocated(tree)
            /\ p = tree.used + 1 /\ q = tree.used + 2
            /\ Null \notin Allocated(tree)
            /\ split = SplitNYT(tree, nyt, s)
            /\ known = [cache EXCEPT ![s] = q]
            /\ split.weight = tree.weight
            /\ \A x \in Node :
                 /\ split.left[x] = IF x = nyt THEN p ELSE tree.left[x]
                 /\ split.right[x] = IF x = nyt THEN q ELSE tree.right[x]
                 /\ split.parent[x] = IF x \in {p, q} THEN nyt ELSE tree.parent[x]
                 /\ split.order[x] = IF x = q THEN tree.order[nyt] - 1
                                     ELSE IF x = p THEN tree.order[nyt] - 2
                                     ELSE tree.order[x]
                 /\ split.value[x] = IF x = q THEN s ELSE tree.value[x]
<1> DEFINE p == NewNYT(tree)
           q == NewLeaf(tree)
           u == SplitNYT(tree, nyt, s)
<1>1. /\ tree \in Tree /\ nyt \in Node /\ s \in Symbol /\ cache[s] = Null
      /\ split = u
      /\ nyt \in Allocated(tree)
      /\ Built(tree, nyt, cache, Null)
  BY DEF Splits, Built, RanksLast
<1>2. tree.used + 2 \in Node /\ tree.order[nyt] \in Nat /\ tree.order[nyt] >= 2
  BY <1>1, RoomForSplit
<1>3. /\ u \in Tree
      /\ u.used = tree.used + 2
      /\ u.weight = tree.weight
  BY <1>1, <1>2, SplitTyped
<1>4. /\ p = tree.used + 1 /\ q = tree.used + 2
      /\ Null \notin Allocated(tree)
      /\ p # q
      /\ p \in Node \ Allocated(tree) /\ q \in Node \ Allocated(tree)
      /\ Allocated(tree) \subseteq Node
  BY <1>1, <1>2, NodeFacts, AllocatedFacts DEF NewNYT, NewLeaf
<1>5. known = [cache EXCEPT ![s] = q]
  BY DEF Splits
<1>6. Allocated(u) = Allocated(tree) \cup {p, q}
  BY <1>1, <1>3, <1>4, AllocatedFacts
<1>7. \A x \in Node :
        /\ u.left[x] = IF x = nyt THEN p ELSE tree.left[x]
        /\ u.right[x] = IF x = nyt THEN q ELSE tree.right[x]
        /\ u.parent[x] = IF x \in {p, q} THEN nyt ELSE tree.parent[x]
        /\ u.order[x] = IF x = q THEN tree.order[nyt] - 1
                        ELSE IF x = p THEN tree.order[nyt] - 2
                        ELSE tree.order[x]
        /\ u.value[x] = IF x = q THEN s ELSE tree.value[x]
  BY <1>1, <1>4, SplitAt
<1>8. split = SplitNYT(tree, nyt, s)
  BY <1>1
<1> HIDE DEF u, p, q
<1>9. QED
  BY <1>1, <1>3, <1>4, <1>5, <1>6, <1>7, <1>8 DEF p, q

\* What the tree is before a split.
LEMMA SplitsFrom ==
  ASSUME NEW tree, NEW nyt, NEW cache, NEW s, NEW split, NEW known,
         Splits(tree, nyt, cache, s, split, known)
  PROVE  /\ Built(tree, nyt, cache, Null)
         /\ nyt \in Node /\ cache \in [Symbol -> Node \cup {Null}]
         /\ Linked(tree) /\ Loopless(tree) /\ Blank(tree)
         /\ AddsUp(tree, Null)
         /\ Ranking(tree)
         /\ RanksLast(tree, nyt) /\ InnerRoot(tree, nyt)
         /\ Current(tree, nyt, cache) /\ TwoPerSymbol(tree, nyt, cache)
  BY DEF Splits, Built

\* The two new nodes become the children of the old NYT node.
LEMMA SplitKeepsLinks ==
  ASSUME NEW tree, NEW nyt, NEW cache, NEW s, NEW split, NEW known,
         Splits(tree, nyt, cache, s, split, known)
  PROVE  /\ Linked(split) /\ Loopless(split) /\ Blank(split)
         /\ InnerRoot(split, NewNYT(tree))
<1> DEFINE A == Allocated(tree)
           p == NewNYT(tree)
           q == NewLeaf(tree)
<1>1. /\ A \subseteq Node /\ Root \in A /\ Null \notin A
      /\ nyt \in A /\ p \in Node \ A /\ q \in Node \ A /\ p # q
      /\ p # Null /\ q # Null
      /\ Allocated(split) = A \cup {p, q}
      /\ split.weight = tree.weight
  BY SplitStep, AllocatedFacts, NodeFacts
<1>2. \A x \in Node :
        /\ split.left[x] = IF x = nyt THEN p ELSE tree.left[x]
        /\ split.right[x] = IF x = nyt THEN q ELSE tree.right[x]
        /\ split.parent[x] = IF x \in {p, q} THEN nyt ELSE tree.parent[x]
  BY SplitStep
<1>3. Linked(tree) /\ Loopless(tree) /\ Blank(tree) /\ IsLeaf(tree, nyt)
  BY SplitsFrom DEF RanksLast
<1> HIDE DEF p, q, A
<1>4. IsLeaf(tree, p) /\ IsLeaf(tree, q)
  BY <1>1, <1>3 DEF Blank, A
<1>5. Loopless(split)
  BY <1>1, <1>2, <1>3 DEF Loopless, A
<1>6. Blank(split)
  BY <1>1, <1>2, <1>3 DEF Blank, IsLeaf, A
<1>7. split.parent[Root] = Null
  BY <1>1, <1>2, <1>3 DEF Linked
<1>8. ASSUME NEW n \in (A \cup {p, q}) \ {Root}
      PROVE  /\ split.parent[n] \in A \cup {p, q}
             /\ n \in {split.left[split.parent[n]], split.right[split.parent[n]]}
  <2>1. CASE n \in {p, q}
    BY <1>1, <1>2, <2>1
  <2>2. CASE n \notin {p, q}
    <3>1. /\ n \in A \ {Root} /\ n # Null
          /\ tree.parent[n] \in A
          /\ n \in {tree.left[tree.parent[n]], tree.right[tree.parent[n]]}
      BY <1>1, <1>3, <2>2 DEF Linked, A
    <3>2. tree.parent[n] # nyt
      BY <1>3, <3>1 DEF IsLeaf
    <3>3. QED
      BY <1>1, <1>2, <2>2, <3>1, <3>2
  <2>3. QED
    BY <2>1, <2>2
<1>9. ASSUME NEW n \in A \cup {p, q}, ~IsLeaf(split, n)
      PROVE  /\ {split.left[n], split.right[n]} \subseteq A \cup {p, q}
             /\ split.left[n] # split.right[n]
             /\ split.parent[split.left[n]] = n
             /\ split.parent[split.right[n]] = n
  <2>1. CASE n = nyt
    BY <1>1, <1>2, <2>1
  <2>2. CASE n # nyt
    <3>1. split.left[n] = tree.left[n] /\ split.right[n] = tree.right[n]
      BY <1>1, <1>2, <2>2
    <3>2. n \in A /\ ~IsLeaf(tree, n)
      BY <1>4, <1>9, <3>1 DEF IsLeaf
    <3>3. /\ {tree.left[n], tree.right[n]} \subseteq A
          /\ tree.left[n] # tree.right[n]
          /\ tree.parent[tree.left[n]] = n
          /\ tree.parent[tree.right[n]] = n
      BY <1>3, <3>2 DEF Linked, A
    <3>4. QED
      BY <1>1, <1>2, <3>1, <3>3
  <2>3. QED
    BY <2>1, <2>2
<1>10. Linked(split)
  BY <1>1, <1>7, <1>8, <1>9 DEF Linked
<1>11. InnerRoot(split, p)
  BY <1>1, <1>2, SplitsFrom, NodeFacts DEF InnerRoot, IsLeaf
<1>12. QED
  BY <1>5, <1>6, <1>10, <1>11 DEF p

\* The old NYT node and its two children weigh nothing yet.
LEMMA SplitKeepsWeights ==
  ASSUME NEW tree, NEW nyt, NEW cache, NEW s, NEW split, NEW known,
         Splits(tree, nyt, cache, s, split, known)
  PROVE  AddsUp(split, NewLeaf(tree))
<1> DEFINE A == Allocated(tree)
           p == NewNYT(tree)
           q == NewLeaf(tree)
<1>1. /\ A \subseteq Node /\ nyt \in A /\ p \in Node \ A /\ q \in Node \ A
      /\ Allocated(split) = A \cup {p, q}
      /\ split.weight = tree.weight
      /\ q # Null
      /\ Null \notin A
      /\ tree \in Tree
  BY SplitStep, AllocatedFacts
<1>2. \A x \in Node :
        /\ split.left[x] = IF x = nyt THEN p ELSE tree.left[x]
        /\ split.right[x] = IF x = nyt THEN q ELSE tree.right[x]
  BY SplitStep
<1>3. /\ IsLeaf(tree, p) /\ IsLeaf(tree, q)
      /\ tree.weight[p] = 0 /\ tree.weight[q] = 0 /\ tree.weight[nyt] = 0
  BY <1>1, SplitsFrom DEF Blank, RanksLast
<1> HIDE DEF A, p, q
<1>4. ASSUME NEW n \in A \cup {p, q}, ~IsLeaf(split, n)
      PROVE  split.weight[split.left[n]] + split.weight[split.right[n]]
               = split.weight[n] + (IF n = q THEN 1 ELSE 0)
  <2>1. CASE n = nyt
    BY <1>1, <1>2, <1>3, <2>1
  <2>2. CASE n # nyt
    <3>1. split.left[n] = tree.left[n] /\ split.right[n] = tree.right[n]
      BY <1>1, <1>2, <2>2
    <3>2. n \in A /\ ~IsLeaf(tree, n) /\ n # q /\ n # Null
      BY <1>1, <1>3, <1>4, <3>1 DEF IsLeaf
    <3>3. tree.weight[tree.left[n]] + tree.weight[tree.right[n]]
            = tree.weight[n] + (IF n = Null THEN 1 ELSE 0)
      BY <3>2, SplitsFrom DEF AddsUp, A
    <3>4. QED
      BY <1>1, <3>1, <3>2, <3>3
  <2>3. QED
    BY <2>1, <2>2
<1>5. QED
  BY <1>1, <1>4 DEF AddsUp, q

\* The two new orders are the next two below the lowest.
LEMMA SplitKeepsRanking ==
  ASSUME NEW tree, NEW nyt, NEW cache, NEW s, NEW split, NEW known,
         Splits(tree, nyt, cache, s, split, known)
  PROVE  Ranking(split) /\ RanksLast(split, NewNYT(tree))
<1> DEFINE A == Allocated(tree)
           p == NewNYT(tree)
           q == NewLeaf(tree)
           low == RootOrder + 1 - tree.used
<1>1. /\ A \subseteq Node /\ nyt \in A /\ p \in Node \ A /\ q \in Node \ A
      /\ p # q
      /\ Allocated(split) = A \cup {p, q}
      /\ split.used = tree.used + 2
      /\ split.weight = tree.weight
      /\ tree \in Tree
  BY SplitStep
<1>2. \A x \in Node :
        /\ split.left[x] = IF x = nyt THEN p ELSE tree.left[x]
        /\ split.right[x] = IF x = nyt THEN q ELSE tree.right[x]
        /\ split.order[x] = IF x = q THEN tree.order[nyt] - 1
                            ELSE IF x = p THEN tree.order[nyt] - 2
                            ELSE tree.order[x]
  BY SplitStep
<1>3. /\ tree.used \in Nat /\ RootOrder \in Nat
      /\ low \in Int /\ low <= RootOrder
      /\ RootOrder + 1 - (tree.used + 2) = low - 2
  <2>1. tree.used \in Nat /\ tree.used >= 1
    BY <1>1, AllocatedFacts, NodeFacts
  <2>2. RootOrder \in Nat
    BY OrderAssumption
  <2>3. QED
    BY <2>1, <2>2
<1>4. /\ {tree.order[x] : x \in A} = low..RootOrder
      /\ \A x, y \in A : tree.order[x] = tree.order[y] => y = x
      /\ tree.order[nyt] = low
  BY SplitsFrom DEF Ranking, RanksLast
<1>5. IsLeaf(tree, p) /\ tree.weight[p] = 0
  BY <1>1, SplitsFrom DEF Blank
<1> HIDE DEF A, p, q, low
<1>6. /\ split.order[q] = low - 1 /\ split.order[p] = low - 2
      /\ \A x \in A : split.order[x] = tree.order[x]
  BY <1>1, <1>2, <1>4
<1>7. \A x \in A : tree.order[x] \in low..RootOrder
  BY <1>4
<1>8. {split.order[x] : x \in A \cup {p, q}} = (low - 2)..RootOrder
  <2>1. {split.order[x] : x \in A \cup {p, q}}
          = {tree.order[x] : x \in A} \cup {low - 1, low - 2}
    BY <1>6
  <2>2. (low..RootOrder) \cup {low - 1, low - 2} = (low - 2)..RootOrder
    BY <1>3
  <2>3. QED
    BY <1>4, <2>1, <2>2
<1>9. \A x, y \in A \cup {p, q} : split.order[x] = split.order[y] => y = x
  BY <1>3, <1>4, <1>6, <1>7
<1>10. Ranking(split)
  BY <1>1, <1>3, <1>8, <1>9 DEF Ranking
<1>11. RanksLast(split, p)
  <2>1. IsLeaf(split, p)
    BY <1>1, <1>2, <1>5 DEF IsLeaf
  <2>2. QED
    BY <1>1, <1>3, <1>5, <1>6, <2>1 DEF RanksLast
<1>12. QED
  BY <1>10, <1>11 DEF p

\* The new leaf is the cached node of the new symbol, and of no other.
LEMMA SplitKeepsCache ==
  ASSUME NEW tree, NEW nyt, NEW cache, NEW s, NEW split, NEW known,
         Splits(tree, nyt, cache, s, split, known)
  PROVE  /\ Current(split, NewNYT(tree), known)
         /\ TwoPerSymbol(split, NewNYT(tree), known)
<1> DEFINE A == Allocated(tree)
           p == NewNYT(tree)
           q == NewLeaf(tree)
<1>1. /\ A \subseteq Node /\ nyt \in A /\ p \in Node \ A /\ q \in Node \ A
      /\ p # q /\ p # Null /\ q # Null /\ Null \notin A
      /\ Allocated(split) = A \cup {p, q}
      /\ split.used = tree.used + 2
      /\ s \in Symbol /\ cache[s] = Null
      /\ known = [cache EXCEPT ![s] = q]
      /\ cache \in [Symbol -> Node \cup {Null}]
      /\ tree \in Tree
  BY SplitStep, SplitsFrom, AllocatedFacts, NodeFacts
<1>2. \A x \in Node :
        /\ split.left[x] = IF x = nyt THEN p ELSE tree.left[x]
        /\ split.right[x] = IF x = nyt THEN q ELSE tree.right[x]
        /\ split.value[x] = IF x = q THEN s ELSE tree.value[x]
  BY SplitStep
<1>3. IsLeaf(tree, q)
  BY <1>1, SplitsFrom DEF Blank
<1>4. \A z \in Symbol : cache[z] = Null \/ cache[z] \in A \ {nyt}
  BY SplitsFrom DEF TwoPerSymbol, SeenIn
<1>5. \A n \in A \ {nyt}, z \in Symbol :
        (IsLeaf(tree, n) /\ tree.value[n] = z) <=> cache[z] = n
  BY SplitsFrom DEF Current
<1>6. Cardinality(SeenIn(cache) \cup {s}) = Cardinality(SeenIn(cache)) + 1
  BY <1>1, SplitsFrom, RoomForSplit
<1>7. Cardinality(SeenIn(cache)) \in Nat
  <2>1. SeenIn(cache) \in SUBSET Symbol
    BY DEF SeenIn
  <2>2. QED
    BY <2>1, SymbolAssumption, FS_Subset, FS_CardinalityType
<1> HIDE DEF A, p, q
<1>8. \A z \in Symbol : known[z] = IF z = s THEN q ELSE cache[z]
  BY <1>1
<1>9. SeenIn(known) = SeenIn(cache) \cup {s}
  BY <1>1, <1>8 DEF SeenIn
<1>10. ASSUME NEW n \in (A \cup {p, q}) \ {p}, NEW z \in Symbol
       PROVE  (IsLeaf(split, n) /\ split.value[n] = z) <=> known[z] = n
  <2>1. CASE n = q
    <3>1. IsLeaf(split, n) /\ split.value[n] = s
      BY <1>1, <1>2, <1>3, <2>1 DEF IsLeaf
    <3>2. QED
      BY <1>1, <1>4, <1>8, <2>1, <3>1
  <2>2. CASE n = nyt
    <3>1. ~IsLeaf(split, n)
      BY <1>1, <1>2, <2>2 DEF IsLeaf
    <3>2. QED
      BY <1>1, <1>4, <1>8, <2>2, <3>1
  <2>3. CASE n \in A \ {nyt}
    <3>1. /\ IsLeaf(split, n) <=> IsLeaf(tree, n)
          /\ split.value[n] = tree.value[n]
      BY <1>1, <1>2, <2>3 DEF IsLeaf
    <3>2. n # q /\ n # Null
      BY <1>1, <2>3
    <3>3. QED
      BY <1>1, <1>5, <1>8, <2>3, <3>1, <3>2
  <2>4. QED
    BY <2>1, <2>2, <2>3
<1>11. Current(split, p, known)
  BY <1>1, <1>10 DEF Current
<1>12. TwoPerSymbol(split, p, known)
  <2>1. split.used = 2 * Cardinality(SeenIn(known)) + 1
    <3>1. tree.used = 2 * Cardinality(SeenIn(cache)) + 1
      BY SplitsFrom DEF TwoPerSymbol
    <3>2. split.used = tree.used + 2
      BY <1>1
    <3>3. QED
      BY <1>6, <1>7, <1>9, <3>1, <3>2
  <2>2. \A z \in SeenIn(known) : known[z] \in (A \cup {p, q}) \ {p}
    BY <1>1, <1>4, <1>8, <1>9 DEF SeenIn
  <2>3. QED
    BY <1>1, <2>1, <2>2 DEF TwoPerSymbol
<1>13. QED
  BY <1>11, <1>12 DEF p

\* The tree after a split is sound but for its ranks.
LEMMA SplitKeepsBuilt ==
  ASSUME NEW tree, NEW nyt, NEW cache, NEW s, NEW split, NEW known,
         Splits(tree, nyt, cache, s, split, known)
  PROVE  Built(split, NewNYT(tree), known, NewLeaf(tree))
<1>1. /\ split \in Tree /\ NewNYT(tree) \in Node /\ NewLeaf(tree) \in Node
      /\ known = [cache EXCEPT ![s] = NewLeaf(tree)]
      /\ cache \in [Symbol -> Node \cup {Null}]
  BY SplitStep, SplitsFrom
<1>2. known \in [Symbol -> Node \cup {Null}]
  BY <1>1
<1>3. QED
  BY <1>1, <1>2, SplitKeepsLinks, SplitKeepsWeights, SplitKeepsRanking,
     SplitKeepsCache DEF Built

\* The mark goes from one node to another.
LEMMA MarkMoves ==
  ASSUME NEW x, NEW y, x \in Node, y \in Node, x # y
  PROVE  [[n \in Node |-> n = x] EXCEPT ![x] = FALSE, ![y] = TRUE]
           = [n \in Node |-> n = y]
<1> DEFINE f == [n \in Node |-> n = x]
           g == [f EXCEPT ![x] = FALSE, ![y] = TRUE]
           h == [n \in Node |-> n = y]
<1>1. g = [n \in Node |-> IF n = y THEN TRUE ELSE IF n = x THEN FALSE ELSE n = x]
  BY Zenon
<1>2. \A n \in Node : (IF n = y THEN TRUE ELSE IF n = x THEN FALSE ELSE n = x) = (n = y)
  OBVIOUS
<1>3. g = h
  BY <1>1, <1>2, Zenon
<1>4. QED
  BY <1>3

\* The two new nodes take the two orders below all others.
LEMMA SplitKeepsRanked ==
  ASSUME NEW tree, NEW nyt, NEW cache, NEW s, NEW split, NEW known,
         Splits(tree, nyt, cache, s, split, known),
         Ranked(tree, nyt, Null)
  PROVE  Ranked(split, NewNYT(tree), NewLeaf(tree))
<1> DEFINE A == Allocated(tree)
           p == NewNYT(tree)
           q == NewLeaf(tree)
           low == RootOrder + 1 - tree.used
<1>1. /\ Built(tree, nyt, cache, Null) /\ Ranked(tree, nyt, Null) /\ tree \in Tree
      /\ split.used = tree.used + 2
      /\ Allocated(split) = A \cup {p, q}
      /\ A \subseteq Node /\ nyt \in A
      /\ p \in Node \ A /\ q \in Node \ A /\ p # q
      /\ split.weight = tree.weight
  BY SplitStep, SplitsFrom
<1>2. \A x \in Node :
        /\ split.left[x] = IF x = nyt THEN p ELSE tree.left[x]
        /\ split.right[x] = IF x = nyt THEN q ELSE tree.right[x]
        /\ split.parent[x] = IF x \in {p, q} THEN nyt ELSE tree.parent[x]
        /\ split.order[x] = IF x = q THEN tree.order[nyt] - 1
                            ELSE IF x = p THEN tree.order[nyt] - 2
                            ELSE tree.order[x]
  BY <1>1, SplitStep
<1>3. /\ tree.order[nyt] = low /\ tree.weight[nyt] = 0 /\ IsLeaf(tree, nyt)
      /\ tree.isNYT = [n \in Node |-> n = nyt]
      /\ tree.weight[p] = 0 /\ tree.weight[q] = 0
      /\ IsLeaf(tree, p) /\ IsLeaf(tree, q)
  BY <1>1 DEF Ranked, Marked, Built, RanksLast, Built, Blank
<1>4. /\ low \in Int /\ Null \notin A
      /\ \A n \in A : tree.order[n] \in Nat /\ low <= tree.order[n]
      /\ \A n \in A \ {Root} : tree.parent[n] \in A
  BY <1>1, Basics
<1>5. split.isNYT = [tree.isNYT EXCEPT ![nyt] = FALSE, ![p] = TRUE]
  <2>1. split = SplitNYT(tree, nyt, s) /\ tree \in Tree
    BY SplitStep
  <2>2. QED
    BY <2>1 DEF SplitNYT, Tree
<1>6. RanksLast(split, p)
  BY <1>1, SplitKeepsRanking
<1>7. Root \in A
  BY <1>1, Basics
<1> HIDE DEF A, p, q, low
<1>8. /\ split.order[q] = low - 1 /\ split.order[p] = low - 2
      /\ \A n \in A : split.order[n] = tree.order[n]
      /\ split.parent[p] = nyt /\ split.parent[q] = nyt
      /\ \A n \in A : split.parent[n] = tree.parent[n]
  BY <1>1, <1>2, <1>3
<1>9. ParentsAbove(split)
  <2>1. \A n \in A \ {Root} : tree.order[n] < tree.order[tree.parent[n]]
    BY <1>1 DEF Ranked, ParentsAbove, A
  <2>2. \A n \in A \ {Root} : split.order[n] < split.order[split.parent[n]]
    BY <1>4, <1>8, <2>1
  <2>3. /\ split.order[p] < split.order[split.parent[p]]
        /\ split.order[q] < split.order[split.parent[q]]
    BY <1>1, <1>3, <1>4, <1>8
  <2>4. QED
    BY <1>1, <2>2, <2>3 DEF ParentsAbove
<1>10. HeavierAbove(split, q)
  <2>1. \A m, n \in A : tree.weight[m] < tree.weight[n]
                         => tree.order[m] < tree.order[n]
    BY <1>1, <1>4 DEF Ranked, HeavierAbove, A
  <2>2. ASSUME NEW m \in A \cup {p, q}, NEW n \in A \cup {p, q},
               tree.weight[m] < tree.weight[n]
        PROVE  split.order[m] < split.order[n]
    <3>1. tree.weight[m] \in Nat
      BY <1>1 DEF Tree
    <3>2. n \in A
      BY <1>3, <2>2, <3>1
    <3>3. QED
      BY <1>4, <1>8, <2>1, <2>2, <3>2
  <2>3. QED
    BY <1>1, <2>2 DEF HeavierAbove
<1>11. Adjacent(split)
  <2>1. ASSUME NEW n \in A \cup {p, q}, ~IsLeaf(split, n)
        PROVE  LET l == split.order[split.left[n]]
                   r == split.order[split.right[n]]
               IN l = r + 1 \/ r = l + 1
    <3>1. CASE n = nyt
      BY <1>1, <1>2, <1>4, <1>8, <3>1
    <3>2. CASE n \in A \ {nyt}
      <4>1. /\ ~IsLeaf(tree, n)
            /\ split.left[n] = tree.left[n] /\ split.right[n] = tree.right[n]
        BY <1>1, <1>2, <2>1, <3>2 DEF IsLeaf
      <4>2. tree.left[n] \in A /\ tree.right[n] \in A
        BY <1>1, <3>2, <4>1 DEF Built, Linked, A
      <4>3. \/ tree.order[tree.left[n]] = tree.order[tree.right[n]] + 1
            \/ tree.order[tree.right[n]] = tree.order[tree.left[n]] + 1
        BY <1>1, <3>2, <4>1 DEF Ranked, Adjacent, A
      <4>4. QED
        BY <1>8, <4>1, <4>2, <4>3
    <3>3. CASE n \in {p, q}
      BY <1>1, <1>2, <1>3, <2>1, <3>3 DEF IsLeaf
    <3>4. QED
      BY <3>1, <3>2, <3>3
  <2>2. QED
    BY <1>1, <2>1 DEF Adjacent
<1>12. Marked(split, p)
  <2>1. split.isNYT = [n \in Node |-> n = p]
    <3>1. nyt \in Node /\ p \in Node /\ nyt # p
      BY <1>1
    <3>2. QED
      BY <1>3, <1>5, <3>1, MarkMoves
  <2>2. split.order[split.parent[p]] = split.order[p] + 2
    BY <1>1, <1>3, <1>4, <1>8
  <2>3. QED
    BY <1>1, <1>6, <2>1, <2>2 DEF Marked, RanksLast
<1>13. Weightless(split, p, q)
  <2>1. \A n \in A \ {nyt} : tree.weight[n] # 0
    BY <1>1 DEF Ranked, Weightless, A
  <2>2. q # Null
    BY <1>1, NodeFacts
  <2>3. QED
    BY <1>1, <1>8, <2>1, <2>2 DEF Weightless
<1>14. QED
  BY <1>9, <1>10, <1>11, <1>12, <1>13 DEF Ranked, p, q

-----------------------------------------------------------------------------
(***************************************************************************)
(* Coders between two calls of updateTree.                                 *)
(***************************************************************************)
\* What is true of a coder between two calls of updateTree.
Sound(c) ==
  /\ c = [tree |-> c.tree, nyt |-> c.nyt, cache |-> c.cache]
  /\ Built(c.tree, c.nyt, c.cache, Null)
  /\ Ranked(c.tree, c.nyt, Null)

-----------------------------------------------------------------------------
(***************************************************************************)
(* The recursive calls go down the tree, from every node to lower levels.  *)
(***************************************************************************)
Level(t, n) ==
  IF n = Null THEN 0 ELSE IF n \in Allocated(t) THEN t.order[n] + 1 ELSE 1

\* Levels grow towards the root: a child is on a lower one.
LEMMA ChildrenBelow ==
  ASSUME NEW tree, NEW nyt, NEW cache, NEW node,
         Built(tree, nyt, cache, node), ParentsAbove(tree)
  PROVE  /\ \A n \in Node \cup {Null} : Level(tree, n) \in Nat /\ Level(tree, n) < RootOrder + 2
         /\ \A n \in Node : \A c \in {tree.left[n], tree.right[n]} :
              c \in Node \cup {Null} /\ Level(tree, c) < Level(tree, n)
<1>1. /\ tree \in Tree /\ RootOrder \in Nat
      /\ Allocated(tree) \subseteq Node /\ Null \notin Allocated(tree)
      /\ \A n \in Allocated(tree) : tree.order[n] \in Nat /\ tree.order[n] <= RootOrder
      /\ tree.parent[Root] = Null
  BY Basics
<1>2. \A n \in Node \cup {Null} : Level(tree, n) \in Nat /\ Level(tree, n) < RootOrder + 2
  BY <1>1 DEF Level
<1>3. ASSUME NEW n \in Node, NEW c \in {tree.left[n], tree.right[n]}
      PROVE  c \in Node \cup {Null} /\ Level(tree, c) < Level(tree, n)
  <2>1. n # Null
    BY NodeFacts
  <2>2. CASE c = Null
    BY <1>1, <2>1, <2>2 DEF Level
  <2>3. CASE c # Null
    <3>1. ~IsLeaf(tree, n)
      BY <2>3 DEF IsLeaf
    <3>2. n \in Allocated(tree)
      BY <3>1 DEF Built, Blank
    <3>3. c \in Allocated(tree) /\ tree.parent[c] = n
      BY <3>1, <3>2 DEF Built, Linked
    <3>4. c # Root
      BY <1>1, <2>1, <3>3
    <3>5. tree.order[c] < tree.order[n]
      BY <3>3, <3>4 DEF ParentsAbove
    <3>6. QED
      BY <1>1, <2>1, <2>3, <3>2, <3>3, <3>5 DEF Level
  <2>4. QED
    BY <2>2, <2>3
<1>4. QED
  BY <1>2, <1>3

-----------------------------------------------------------------------------
(***************************************************************************)
(* findNodeForSwap.                                                        *)
(***************************************************************************)
Calls == (Node \cup {Null}) \X Node

\* The result of the call v, where f has the results of the calls it makes.
Result(t, f, v) ==
  IF v[1] = Null \/ v[2] = Root THEN v[2]
  ELSE f[<<t.right[v[1]],
           f[<<t.left[v[1]], IF BetterToSwap(t, v[2], v[1]) THEN v[1] ELSE v[2]>>]>>]

\* The calls for nodes of the levels below k.
CallsBelow(t, k) == {v \in Calls : Level(t, v[1]) < k}

\* Every call ends with a node: the results up to level k are made of those below.
LEMMA SearchEnds ==
  ASSUME NEW tree, NEW nyt, NEW cache, NEW node,
         Built(tree, nyt, cache, node), ParentsAbove(tree)
  PROVE  \A v \in Calls : Search(tree)[v] = Result(tree, Search(tree), v)
<1> DEFINE Below(k) == CallsBelow(tree, k)
           Results(f, k) == /\ f \in [Below(k) -> Node]
                            /\ \A v \in Below(k) : f[v] = Result(tree, f, v)
           S == {k \in Nat : \E f \in [Below(k) -> Node] : Results(f, k)}
           start(v) == IF BetterToSwap(tree, v[2], v[1]) THEN v[1] ELSE v[2]
<1>1. /\ \A n \in Node \cup {Null} : Level(tree, n) \in Nat /\ Level(tree, n) < RootOrder + 2
      /\ \A n \in Node : /\ tree.left[n] \in Node \cup {Null}
                         /\ Level(tree, tree.left[n]) < Level(tree, n)
                         /\ tree.right[n] \in Node \cup {Null}
                         /\ Level(tree, tree.right[n]) < Level(tree, n)
  BY ChildrenBelow
<1>2. 0 \in S
  <2>1. Below(0) = {}
    BY <1>1 DEF CallsBelow, Calls
  <2>2. [v \in Below(0) |-> Root] \in [Below(0) -> Node]
    BY <2>1
  <2>3. QED
    BY <2>1, <2>2
<1>3. ASSUME NEW k \in Nat, k \in S PROVE k + 1 \in S
  <2>1. PICK f \in [Below(k) -> Node] : Results(f, k)
    BY <1>3
  <2>2. /\ Below(k) \subseteq Below(k + 1) /\ Below(k + 1) \subseteq Calls
        /\ \A v \in Calls : v[1] \in Node \cup {Null} /\ v[2] \in Node
    BY <1>1 DEF CallsBelow, Calls
  <2>3. ASSUME NEW v \in Below(k + 1), ~(v[1] = Null \/ v[2] = Root)
        PROVE  /\ <<tree.left[v[1]], start(v)>> \in Below(k)
               /\ \A c \in Node : <<tree.right[v[1]], c>> \in Below(k)
    <3>1. v[1] \in Node /\ v[2] \in Node /\ Level(tree, v[1]) < k + 1
      BY <2>2, <2>3 DEF CallsBelow
    <3>2. start(v) \in Node
      BY <3>1
    <3> HIDE DEF start
    <3>3. Level(tree, tree.left[v[1]]) < k /\ Level(tree, tree.right[v[1]]) < k
      BY <1>1, <3>1
    <3>4. QED
      BY <1>1, <3>1, <3>2, <3>3 DEF CallsBelow, Calls
  <2> DEFINE g == [v \in Below(k + 1) |-> IF v \in Below(k) THEN f[v] ELSE Result(tree, f, v)]
  <2>4. ASSUME NEW v \in Below(k + 1) PROVE Result(tree, f, v) \in Node
    BY <2>2, <2>3, <2>4 DEF Result
  <2>5. ASSUME NEW v \in Below(k + 1) PROVE Result(tree, g, v) = Result(tree, f, v)
    <3>1. CASE v[1] = Null \/ v[2] = Root
      BY <3>1 DEF Result
    <3>2. CASE ~(v[1] = Null \/ v[2] = Root)
      <4>1. /\ <<tree.left[v[1]], start(v)>> \in Below(k)
            /\ \A c \in Node : <<tree.right[v[1]], c>> \in Below(k)
        BY <2>3, <3>2
      <4>2. \A w \in Below(k) : g[w] = f[w] /\ f[w] \in Node
        BY <2>2
      <4> HIDE DEF g, Below
      <4>3. g[<<tree.left[v[1]], start(v)>>] = f[<<tree.left[v[1]], start(v)>>]
        BY <4>1, <4>2
      <4>4. g[<<tree.right[v[1]], f[<<tree.left[v[1]], start(v)>>]>>]
              = f[<<tree.right[v[1]], f[<<tree.left[v[1]], start(v)>>]>>]
        BY <4>1, <4>2
      <4>5. QED
        BY <3>2, <4>3, <4>4 DEF Result
    <3>3. QED
      BY <3>1, <3>2
  <2>6. \A v \in Below(k) : f[v] = Result(tree, f, v)
    BY <2>1
  <2>7. g \in [Below(k + 1) -> Node]
    BY <2>2, <2>4
  <2>8. \A v \in Below(k + 1) : g[v] = Result(tree, g, v)
    <3> SUFFICES ASSUME NEW v \in Below(k + 1) PROVE g[v] = Result(tree, g, v)
      OBVIOUS
    <3>1. g[v] = Result(tree, f, v)
      BY <2>6
    <3>2. QED
      BY <2>5, <3>1
  <2> HIDE DEF g
  <2>9. QED
    BY <2>7, <2>8
<1>4. RootOrder + 2 \in S
  <2> HIDE DEF S
  <2>1. \A n \in Nat : n \in S
    BY <1>2, <1>3, Induction
  <2>2. RootOrder + 2 \in Nat
    BY OrderAssumption
  <2>3. QED
    BY <2>1, <2>2
<1>5. Below(RootOrder + 2) = Calls
  BY <1>1 DEF CallsBelow, Calls
<1>6. PICK f \in [Calls -> Node] : \A v \in Calls : f[v] = Result(tree, f, v)
  BY <1>4, <1>5
<1>7. f = [v \in Calls |-> Result(tree, f, v)]
  BY <1>6
<1>8. Search(tree) = [v \in Calls |-> Result(tree, Search(tree), v)]
  BY <1>7, Zenon DEF Search, Result, Calls
<1>9. QED
  BY <1>8

Candidate(t, y, n, c) == Eligible(t, y, n, c) /\ c # t.parent[n]

\* After candidate c the search for n has come to r.
Advances(t, y, n, c, r) ==
  /\ Candidate(t, y, n, r)
  /\ \A m \in Allocated(t) : Settled(t, n, c, m) => Settled(t, n, r, m)

\* The visit of node h itself.
LEMMA VisitAdvances ==
  ASSUME NEW tree, NEW nyt, NEW cache, NEW node, NEW c, NEW h,
         Built(tree, nyt, cache, node), Ranked(tree, nyt, node),
         Candidate(tree, nyt, node, c), h \in Allocated(tree), c # Root
  PROVE  LET next == IF BetterToSwap(tree, c, h) THEN h ELSE c
         IN /\ Advances(tree, nyt, node, c, next)
            /\ Settled(tree, node, next, h)
<1> DEFINE next == IF BetterToSwap(tree, c, h) THEN h ELSE c
<1>1. Eligible(tree, nyt, node, c) /\ c # tree.parent[node]
  BY DEF Candidate
<1>2. Eligible(tree, nyt, node, next)
  BY <1>1, VisitClimbs
<1>3. /\ next # tree.parent[node]
      /\ Settled(tree, node, next, h)
      /\ \A m \in Allocated(tree) :
           Settled(tree, node, c, m) => Settled(tree, node, next, m)
  BY <1>1, VisitSettles
<1> HIDE DEF next
<1>4. Advances(tree, nyt, node, c, next)
  BY <1>2, <1>3 DEF Advances, Candidate
<1>5. QED
  BY <1>3, <1>4 DEF next

\* Every call turns a candidate into a candidate and unsettles no node.
LEMMA SearchAdvances ==
  ASSUME NEW tree, NEW nyt, NEW cache, NEW node,
         Built(tree, nyt, cache, node), Ranked(tree, nyt, node),
         NEW n \in Allocated(tree) \cup {Null}, NEW c, Candidate(tree, nyt, node, c)
  PROVE  Advances(tree, nyt, node, c, Search(tree)[<<n, c>>])
<1> DEFINE A == Allocated(tree) \cup {Null}
           f == Search(tree)
           Adv(b, r) == Advances(tree, nyt, node, b, r)
           Cand(b) == Candidate(tree, nyt, node, b)
           S == {k \in Nat : \A m \in A : Level(tree, m) < k =>
                   \A b \in Node : Cand(b) => Adv(b, f[<<m, b>>])}
<1>1. /\ \A m \in Node \cup {Null} : Level(tree, m) \in Nat /\ Level(tree, m) < RootOrder + 2
      /\ \A m \in Node : /\ Level(tree, tree.left[m]) < Level(tree, m)
                         /\ Level(tree, tree.right[m]) < Level(tree, m)
  BY ChildrenBelow DEF Ranked
<1>2. /\ Allocated(tree) \subseteq Node /\ A \subseteq Node \cup {Null}
      /\ Null \notin Allocated(tree)
  BY Basics
<1>3. \A m \in Allocated(tree) : tree.left[m] \in A /\ tree.right[m] \in A
  BY DEF Built, Linked, IsLeaf
<1>4. \A v \in Calls : f[v] = Result(tree, f, v)
  BY SearchEnds DEF Ranked
<1>5. \A b : Cand(b) => b \in Node
  BY <1>2 DEF Candidate, Eligible
<1>6. \A b, r : Adv(b, r) => Cand(r)
  BY DEF Advances
<1>7. \A b, r, w : Adv(b, r) /\ Adv(r, w) => Adv(b, w)
  BY DEF Advances
<1>8. \A b : Cand(b) => Adv(b, b)
  BY DEF Advances
<1> HIDE DEF A
<1>9. 0 \in S
  BY <1>1, <1>2
<1>10. ASSUME NEW k \in Nat, k \in S PROVE k + 1 \in S
  <2> SUFFICES ASSUME NEW m \in A, Level(tree, m) < k + 1, NEW b \in Node, Cand(b)
               PROVE  Adv(b, f[<<m, b>>])
    OBVIOUS
  <2>1. f[<<m, b>>] = Result(tree, f, <<m, b>>)
    BY <1>2, <1>4 DEF Calls
  <2>2. CASE m = Null \/ b = Root
    <3>1. Result(tree, f, <<m, b>>) = b
      BY <2>2 DEF Result
    <3>2. QED
      BY <1>8, <2>1, <3>1
  <2>3. CASE ~(m = Null \/ b = Root)
    <3> DEFINE next == IF BetterToSwap(tree, b, m) THEN m ELSE b
               l == f[<<tree.left[m], next>>]
               r == f[<<tree.right[m], l>>]
    <3>1. m \in Allocated(tree) /\ m \in Node
      BY <1>2, <2>3 DEF A
    <3>2. Adv(b, next)
      BY <2>3, <3>1, VisitAdvances
    <3>3. /\ tree.left[m] \in A /\ Level(tree, tree.left[m]) < k
          /\ tree.right[m] \in A /\ Level(tree, tree.right[m]) < k
      BY <1>1, <1>2, <1>3, <3>1
    <3>4. \A x \in A : Level(tree, x) < k => \A d \in Node : Cand(d) => Adv(d, f[<<x, d>>])
      BY <1>10
    <3>5. f[<<m, b>>] = r
      BY <2>1, <2>3 DEF Result
    <3> HIDE DEF next, Adv, Cand, f
    <3>6. Adv(next, l)
      BY <1>5, <1>6, <3>2, <3>3, <3>4
    <3> HIDE DEF l
    <3>7. Adv(l, r)
      BY <1>5, <1>6, <3>6, <3>3, <3>4
    <3>8. QED
      BY <1>7, <3>2, <3>5, <3>6, <3>7
  <2>4. QED
    BY <2>2, <2>3
<1>11. RootOrder + 2 \in S
  <2> HIDE DEF S
  <2>1. \A k \in Nat : k \in S
    BY <1>9, <1>10, Induction
  <2>2. RootOrder + 2 \in Nat
    BY OrderAssumption
  <2>3. QED
    BY <2>1, <2>2
<1>12. n \in A /\ Level(tree, n) < RootOrder + 2
  BY <1>1, <1>2 DEF A
<1> HIDE DEF Adv, Cand, f
<1>13. Cand(c) /\ c \in Node
  BY <1>5 DEF Cand
<1>14. Adv(c, f[<<n, c>>])
  BY <1>11, <1>12, <1>13
<1>15. QED
  BY <1>14 DEF Adv, f

\* findNodeForSwap returns the leader: every node is visited, since a call for a
\* node makes one for each of its children.
LEMMA SearchFindsLeaderOf ==
  ASSUME NEW tree, NEW nyt, NEW cache, NEW node,
         Built(tree, nyt, cache, node), Ranked(tree, nyt, node),
         node \in Allocated(tree) \ {nyt}
  PROVE  /\ Eligible(tree, nyt, node, FindNodeForSwap(tree, node))
         /\ Leads(tree, node, FindNodeForSwap(tree, node))
<1> DEFINE f == Search(tree)
           A == Allocated(tree) \cup {Null}
           Adv(b, r) == Advances(tree, nyt, node, b, r)
           Cand(b) == Candidate(tree, nyt, node, b)
           Done(b, m) == Settled(tree, node, b, m)
<1>1. Cand(node)
  BY StartEligible DEF Candidate
<1>2. /\ Allocated(tree) \subseteq Node /\ Null \notin Allocated(tree)
      /\ Root \in Allocated(tree)
      /\ \A m \in Allocated(tree) \ {Root} : tree.parent[m] \in Allocated(tree)
  BY Basics
<1>3. /\ \A m \in Allocated(tree) : tree.left[m] \in A /\ tree.right[m] \in A
      /\ \A m \in Allocated(tree) \ {Root} :
           m = tree.left[tree.parent[m]] \/ m = tree.right[tree.parent[m]]
  BY DEF Built, Linked, IsLeaf
<1>4. \A n \in A : \A b : Cand(b) => Adv(b, f[<<n, b>>])
  BY SearchAdvances
<1>5. /\ \A b : Cand(b) => b \in Node
      /\ \A b, r : Adv(b, r) => Cand(r)
      /\ \A b, r, m : Adv(b, r) /\ m \in Allocated(tree) /\ Done(b, m) => Done(r, m)
  BY <1>2 DEF Candidate, Eligible, Advances
<1>6. ASSUME NEW n \in Allocated(tree), NEW b, Cand(b), b # Root
      PROVE  LET next == IF BetterToSwap(tree, b, n) THEN n ELSE b
                 l == f[<<tree.left[n], next>>]
             IN /\ f[<<n, b>>] = f[<<tree.right[n], l>>]
                /\ Done(next, n)
                /\ Cand(next) /\ Adv(next, l) /\ Cand(l) /\ Adv(l, f[<<n, b>>])
  <2> DEFINE next == IF BetterToSwap(tree, b, n) THEN n ELSE b
             l == f[<<tree.left[n], next>>]
  <2>1. <<n, b>> \in Calls /\ n # Null
    BY <1>2, <1>5, <1>6 DEF Calls
  <2>2. f[<<n, b>>] = Result(tree, f, <<n, b>>)
    BY <2>1, SearchEnds DEF Ranked
  <2>3. Result(tree, f, <<n, b>>) = f[<<tree.right[n], l>>]
    BY <1>6, <2>1 DEF Result
  <2>4. Adv(b, next) /\ Done(next, n)
    BY <1>6, VisitAdvances
  <2> HIDE DEF f, Cand, Adv, Done, next, A
  <2>5. Cand(next) /\ Adv(next, l) /\ Cand(l)
    BY <1>3, <1>4, <1>5, <1>6, <2>4
  <2> HIDE DEF l
  <2>6. Adv(l, f[<<n, b>>])
    BY <1>3, <1>4, <1>6, <2>2, <2>3, <2>5
  <2>7. QED
    BY <2>2, <2>3, <2>4, <2>5, <2>6 DEF next, l
<1>7. \A m \in Allocated(tree) : Done(Root, m)
  BY RootSettles
<1>8. \A n, b : n \in Node /\ b = Root => f[<<n, b>>] = Root
  <2> SUFFICES ASSUME NEW n \in Node PROVE f[<<n, Root>>] = Root
    OBVIOUS
  <2>1. <<n, Root>> \in Calls
    BY NodeFacts DEF Calls
  <2>2. f[<<n, Root>>] = Result(tree, f, <<n, Root>>)
    BY <2>1, SearchEnds DEF Ranked
  <2>3. QED
    BY <2>2 DEF Result
<1> HIDE DEF f, Cand, Adv, Done, A
<1>9. ASSUME NEW m \in Allocated(tree) PROVE \A b : Cand(b) => Done(f[<<Root, b>>], m)
  <2> DEFINE V == {n \in Allocated(tree) : \A b : Cand(b) => Done(f[<<n, b>>], m)}
  <2>1. m \in V
    <3> SUFFICES ASSUME NEW b, Cand(b) PROVE Done(f[<<m, b>>], m)
      OBVIOUS
    <3>1. CASE b = Root
      BY <1>2, <1>7, <1>8, <3>1
    <3>2. CASE b # Root
      <4> DEFINE next == IF BetterToSwap(tree, b, m) THEN m ELSE b
                 l == f[<<tree.left[m], next>>]
      <4>1. Done(next, m) /\ Adv(next, l) /\ Adv(l, f[<<m, b>>])
        BY <1>6, <3>2
      <4> HIDE DEF next, l
      <4>2. QED
        BY <1>5, <4>1
    <3>3. QED
      BY <3>1, <3>2
  <2>2. ASSUME NEW n \in V, n # Root PROVE tree.parent[n] \in V
    <3> DEFINE p == tree.parent[n]
    <3>1. p \in Allocated(tree) /\ (n = tree.left[p] \/ n = tree.right[p])
      BY <1>2, <1>3, <2>2
    <3> SUFFICES ASSUME NEW b, Cand(b) PROVE Done(f[<<p, b>>], m)
      BY <3>1
    <3>2. \A d : Cand(d) => Done(f[<<n, d>>], m)
      BY <2>2
    <3> HIDE DEF p, V
    <3>3. CASE b = Root
      BY <1>2, <1>7, <1>8, <3>1, <3>3
    <3>4. CASE b # Root
      <4> DEFINE next == IF BetterToSwap(tree, b, p) THEN p ELSE b
                 l == f[<<tree.left[p], next>>]
      <4>1. /\ f[<<p, b>>] = f[<<tree.right[p], l>>]
            /\ Cand(next) /\ Adv(next, l) /\ Cand(l) /\ Adv(l, f[<<p, b>>])
        BY <1>6, <3>1, <3>4
      <4> HIDE DEF next
      <4>2. CASE n = tree.left[p]
        <5>1. Done(l, m)
          BY <3>2, <4>1, <4>2
        <5> HIDE DEF l
        <5>2. QED
          BY <1>5, <4>1, <5>1
      <4>3. CASE n = tree.right[p]
        BY <3>2, <4>1, <4>3
      <4>4. QED
        BY <3>1, <4>2, <4>3
    <3>5. QED
      BY <3>3, <3>4
  <2>3. Root \in V
    <3> SUFFICES ASSUME Root \notin V PROVE FALSE
      OBVIOUS
    <3>1. V \in SUBSET Allocated(tree) /\ V # {}
      BY <2>1
    <3>2. \A u \in V : u # Root /\ tree.parent[u] \in V
      BY <2>2
    <3> HIDE DEF V
    <3>3. QED
      BY <3>1, <3>2, NoEndlessAscent DEF Ranked
  <2>4. QED
    BY <2>3
<1>10. \A m \in Allocated(tree) : Done(f[<<Root, node>>], m)
  BY <1>1, <1>9
<1>11. Cand(f[<<Root, node>>])
  <2>1. Root \in A
    BY <1>2 DEF A
  <2>2. QED
    BY <1>1, <1>4, <1>5, <2>1
<1>12. QED
  BY <1>10, <1>11 DEF f, Cand, Done, Candidate, Leads, FindNodeForSwap

-----------------------------------------------------------------------------
(***************************************************************************)
(* slideAndIncrement.                                                      *)
(***************************************************************************)
\* One call: what it is called with, and what the call for the parent is.
Turn(r) ==
  LET slid == SlideNode(r.tree, r.node, FindNodeForSwap(r.tree, r.node))
  IN IF r.node = Null THEN r ELSE [tree |-> slid, node |-> slid.parent[r.node]]

\* What is true between two calls of a tree of u nodes.
OnTheWay(r, y, k, u) ==
  /\ r = [tree |-> r.tree, node |-> r.node]
  /\ Built(r.tree, y, k, r.node) /\ Ranked(r.tree, y, r.node)
  /\ r.node \in Allocated(r.tree) \cup {Null} /\ r.node # y
  /\ r.tree.used = u

\* A call leaves the invariants true for the next one, whose node ranks higher.
LEMMA TurnClimbs ==
  ASSUME NEW nyt, NEW cache, NEW used, NEW r, OnTheWay(r, nyt, cache, used)
  PROVE  /\ OnTheWay(Turn(r), nyt, cache, used)
         /\ r.node = Null => Turn(r).node = Null
         /\ Turn(r).node # Null => Turn(r).tree.order[Turn(r).node] > r.tree.order[r.node]
<1>1. CASE r.node = Null
  BY <1>1 DEF Turn
<1>2. CASE r.node # Null
  <2> DEFINE tree == r.tree
             node == r.node
             leader == FindNodeForSwap(tree, node)
             slid == SlideNode(tree, node, leader)
             next == slid.parent[node]
  <2>1. /\ Built(tree, nyt, cache, node) /\ Ranked(tree, nyt, node)
        /\ node \in Allocated(tree) \ {nyt} /\ tree.used = used
    BY <1>2 DEF OnTheWay
  <2>2. Turn(r) = [tree |-> slid, node |-> next]
    BY <1>2 DEF Turn
  <2> HIDE DEF tree, node
  <2>3. Eligible(tree, nyt, node, leader) /\ Leads(tree, node, leader)
    BY <2>1, SearchFindsLeaderOf
  <2> HIDE DEF leader
  <2>4. RankedSlides(tree, nyt, cache, node, leader, slid)
    BY <2>1, <2>3 DEF RankedSlides, Slides
  <2> HIDE DEF slid
  <2>5. Slides(tree, nyt, cache, node, leader, slid)
    BY <2>4 DEF RankedSlides
  <2>6. Built(slid, nyt, cache, next) /\ Ranked(slid, nyt, next)
    BY <2>4, <2>5, SlideKeepsBuilt, SlideKeepsRanked
  <2>7. /\ slid.used = tree.used /\ Allocated(slid) = Allocated(tree)
        /\ next \in Allocated(tree) \cup {Null}
        /\ node \in Node
        /\ slid.order[node] = tree.order[Exchange(node, leader, node)]
    <3>1. /\ slid.used = tree.used /\ Allocated(slid) = Allocated(tree)
          /\ next \in Allocated(tree) \cup {Null}
          /\ \A x \in Node : slid.order[x] = tree.order[Exchange(x, leader, node)]
      BY <2>5, SlideStep
    <3>2. node \in Node
      BY <2>1, Basics
    <3>3. QED
      BY <3>1, <3>2
  <2>8. slid.order[node] = tree.order[leader]
    BY <2>7 DEF Exchange
  <2>9. slid.order[node] \in Nat /\ slid.order[node] >= tree.order[node]
    <3>1. leader \in Allocated(tree) /\ (leader = node \/ tree.order[node] < tree.order[leader])
      BY <2>3 DEF Eligible
    <3>2. tree.order[leader] \in Nat /\ tree.order[node] \in Nat
      BY <2>1, <3>1, Basics
    <3>3. QED
      BY <2>8, <3>1, <3>2
  <2>10. next # Null => slid.order[next] > slid.order[node]
    <3> SUFFICES ASSUME next # Null PROVE slid.order[next] > slid.order[node]
      OBVIOUS
    <3>1. node # Root
      BY <2>6, Basics
    <3>2. slid.order[node] < slid.order[next]
      BY <2>1, <2>6, <2>7, <3>1 DEF Ranked, ParentsAbove
    <3>3. slid.order[next] \in Nat
      BY <2>6, <2>7, Basics
    <3>4. QED
      BY <2>9, <3>2, <3>3
  <2>11. next # Null => /\ slid.order[next] \in Nat
                        /\ slid.order[next] > tree.order[node]
    BY <2>1, <2>6, <2>7, <2>9, <2>10, Basics
  <2>12. next # nyt
    <3> SUFFICES ASSUME next = nyt PROVE FALSE
      OBVIOUS
    <3>1. slid.order[nyt] = RootOrder + 1 - slid.used /\ nyt \in Allocated(slid)
      BY <2>6 DEF Built, RanksLast
    <3>2. /\ Null \notin Allocated(slid) /\ RootOrder \in Nat /\ slid.used \in Nat
          /\ RootOrder + 1 - slid.used <= slid.order[node]
      BY <2>1, <2>6, <2>7, Basics
    <3>3. QED
      BY <2>9, <2>10, <3>1, <3>2
  <2>13. OnTheWay(Turn(r), nyt, cache, used)
    BY <2>1, <2>2, <2>6, <2>7, <2>12 DEF OnTheWay
  <2>14. QED
    BY <1>2, <2>2, <2>11, <2>13 DEF tree, node
<1>3. QED
  BY <1>1, <1>2

\* slideAndIncrement ends at the root: every call has a node of a higher rank than
\* the one before, and there are no more ranks than nodes.
LEMMA TurnsEnd ==
  ASSUME NEW tree, NEW nyt, NEW cache, NEW node,
         Built(tree, nyt, cache, node), Ranked(tree, nyt, node),
         node \in Allocated(tree) \ {nyt}
  PROVE  /\ MaxNodes \in Nat \ {0}
         /\ Turns(tree, node)[0] = [tree |-> tree, node |-> node]
         /\ \A i \in 1..MaxNodes : Turns(tree, node)[i] = Turn(Turns(tree, node)[i - 1])
         /\ OnTheWay(Turns(tree, node)[MaxNodes], nyt, cache, tree.used)
         /\ Turns(tree, node)[MaxNodes].node = Null
<1> DEFINE first == [tree |-> tree, node |-> node]
           Way(r) == OnTheWay(r, nyt, cache, tree.used)
           X == {r \in [tree : Tree, node : Node \cup {Null}] : Way(r)}
           T == Turns(tree, node)
           low == RootOrder + 1 - tree.used
<1>1. /\ tree \in Tree /\ Allocated(tree) \subseteq Node /\ RootOrder \in Nat
      /\ tree.used \in Nat /\ tree.used \in Node
      /\ tree.order[node] \in Nat /\ low <= tree.order[node]
  BY Basics, AllocatedFacts
<1>2. MaxNodes \in Nat /\ tree.used <= MaxNodes
  BY <1>1, NodeFacts
<1>3. Way(first)
  BY DEF OnTheWay
<1>4. \A r : Way(r) => r \in X
  <2> SUFFICES ASSUME NEW r, Way(r) PROVE r \in [tree : Tree, node : Node \cup {Null}]
    OBVIOUS
  <2>1. /\ r = [tree |-> r.tree, node |-> r.node]
        /\ r.tree \in Tree /\ r.node \in Allocated(r.tree) \cup {Null}
    BY DEF OnTheWay, Built
  <2>2. Allocated(r.tree) \subseteq Node
    BY <2>1, AllocatedFacts
  <2>3. QED
    BY <2>1, <2>2
<1>5. \A r : Way(r) => Way(Turn(r))
  BY TurnClimbs
<1>6. \E f : f = [i \in 0..MaxNodes |-> IF i = 0 THEN first ELSE Turn(f[i - 1])]
  <2> DEFINE next == [p \in (1..MaxNodes) \X X |-> Turn(p[2])]
  <2>1. first \in X
    BY <1>3, <1>4
  <2> HIDE DEF first
  <2>2. next \in [(1..MaxNodes) \X X -> X]
    <3> SUFFICES ASSUME NEW p \in (1..MaxNodes) \X X PROVE Turn(p[2]) \in X
      OBVIOUS
    <3>1. p[2] \in X
      OBVIOUS
    <3>2. Way(p[2])
      BY <3>1
    <3> HIDE DEF X, Way
    <3>3. QED
      BY <1>4, <1>5, <3>2
  <2> HIDE DEF X, next
  <2>3. PICK f : Iterate(f, X, first, MaxNodes, next)
    BY <1>2, <2>1, <2>2, Iterates
  <2>4. \A i \in 1..MaxNodes : f[i] = Turn(f[i - 1])
    <3> SUFFICES ASSUME NEW i \in 1..MaxNodes PROVE f[i] = Turn(f[i - 1])
      OBVIOUS
    <3>1. f[i - 1] \in X
      BY <1>2, <2>3 DEF Iterate
    <3>2. next[<<i, f[i - 1]>>] = Turn(f[i - 1])
      BY <3>1 DEF next
    <3>3. QED
      BY <2>3, <3>2 DEF Iterate
  <2>5. f = [i \in 0..MaxNodes |-> IF i = 0 THEN first ELSE Turn(f[i - 1])]
    <3>1. \A i \in 0..MaxNodes : f[i] = IF i = 0 THEN first ELSE Turn(f[i - 1])
      BY <1>2, <2>3, <2>4 DEF Iterate
    <3>2. QED
      BY <2>3, <3>1 DEF Iterate
  <2>6. QED
    BY <2>5
<1>7. T = [i \in 0..MaxNodes |-> IF i = 0 THEN first ELSE Turn(T[i - 1])]
  BY <1>6, Zenon DEF Turns, Turn
<1> DEFINE S == {i \in Nat : i <= MaxNodes =>
                   /\ Way(T[i])
                   /\ T[i].node # Null => T[i].tree.order[T[i].node] >= low + i}
<1> HIDE DEF T
<1>8. 0 \in S
  BY <1>1, <1>2, <1>3, <1>7
<1>9. ASSUME NEW i \in Nat, i \in S PROVE i + 1 \in S
  <2> SUFFICES ASSUME i + 1 <= MaxNodes
               PROVE  /\ Way(T[i + 1])
                      /\ T[i + 1].node # Null
                           => T[i + 1].tree.order[T[i + 1].node] >= low + (i + 1)
    OBVIOUS
  <2>1. /\ Way(T[i])
        /\ T[i].node # Null => T[i].tree.order[T[i].node] >= low + i
    BY <1>2, <1>9
  <2>2. T[i + 1] = Turn(T[i])
    <3>1. i + 1 \in 0..MaxNodes /\ i + 1 # 0 /\ (i + 1) - 1 = i
      BY <1>2
    <3>2. QED
      BY <1>7, <3>1
  <2>3. /\ Way(Turn(T[i]))
        /\ T[i].node = Null => Turn(T[i]).node = Null
        /\ Turn(T[i]).node # Null
             => Turn(T[i]).tree.order[Turn(T[i]).node] > T[i].tree.order[T[i].node]
    BY <2>1, TurnClimbs
  <2>4. ASSUME NEW r, Way(r), r.node # Null PROVE r.tree.order[r.node] \in Nat
    BY <2>4, Basics DEF OnTheWay
  <2> HIDE DEF Way, low, S
  <2>5. low \in Int
    BY <1>1 DEF low
  <2>6. ASSUME T[i + 1].node # Null
        PROVE  T[i + 1].tree.order[T[i + 1].node] >= low + (i + 1)
    <3> DEFINE a == T[i].tree.order[T[i].node]
               b == T[i + 1].tree.order[T[i + 1].node]
    <3>1. T[i].node # Null /\ a >= low + i /\ b > a
      BY <2>1, <2>2, <2>3, <2>6
    <3>2. a \in Nat /\ b \in Nat
      BY <2>1, <2>2, <2>3, <2>4, <2>6, <3>1
    <3> HIDE DEF a, b
    <3>3. b >= low + (i + 1)
      BY <2>5, <3>1, <3>2
    <3>4. QED
      BY <3>3 DEF b
  <2>7. QED
    BY <2>2, <2>3, <2>6
<1>10. MaxNodes \in S
  <2> HIDE DEF S
  <2>1. QED
    BY <1>2, <1>8, <1>9, Induction
<1>11. /\ Way(T[MaxNodes])
       /\ T[MaxNodes].node # Null => T[MaxNodes].tree.order[T[MaxNodes].node] >= low + MaxNodes
  BY <1>2, <1>10
<1>12. T[MaxNodes].node = Null
  <2> SUFFICES ASSUME T[MaxNodes].node # Null PROVE FALSE
    OBVIOUS
  <2> DEFINE a == T[MaxNodes].tree.order[T[MaxNodes].node]
  <2>1. a \in Nat /\ a <= RootOrder
    BY <1>11, Basics DEF OnTheWay
  <2>2. a >= low + MaxNodes
    BY <1>11
  <2> HIDE DEF a
  <2>3. QED
    BY <1>1, <1>2, <2>1, <2>2
<1>13. MaxNodes \in Nat \ {0}
  BY <1>1, <1>2, NodeFacts
<1>14. T[0] = first /\ \A i \in 1..MaxNodes : T[i] = Turn(T[i - 1])
  BY <1>7, <1>13
<1>15. QED
  BY <1>11, <1>12, <1>13, <1>14 DEF T

\* What the recursion returns.
LEMMA SlideAndIncrementKeeps ==
  ASSUME NEW tree, NEW nyt, NEW cache, NEW node,
         Built(tree, nyt, cache, node), Ranked(tree, nyt, node),
         node \in Allocated(tree) \ {nyt}
  PROVE  /\ Built(SlideAndIncrement(tree, node), nyt, cache, Null)
         /\ Ranked(SlideAndIncrement(tree, node), nyt, Null)
         /\ SlideAndIncrement(tree, node).used = tree.used
<1> DEFINE T == Turns(tree, node)
<1>1. OnTheWay(T[MaxNodes], nyt, cache, tree.used)
  BY TurnsEnd
<1>2. /\ MaxNodes \in Nat \ {0}
      /\ T[0] = [tree |-> tree, node |-> node]
      /\ T[MaxNodes].node = Null
  BY TurnsEnd
<1>3. SlideAndIncrement(tree, node) = T[MaxNodes].tree
  BY DEF SlideAndIncrement
<1> HIDE DEF T
<1>4. QED
  BY <1>1, <1>2, <1>3 DEF OnTheWay

\* The recursion as the code has it: one call, and then the call for the parent.
LEMMA SlideAndIncrementUnfolds ==
  ASSUME NEW tree, NEW nyt, NEW cache, NEW node,
         Built(tree, nyt, cache, node), Ranked(tree, nyt, node),
         node \in Allocated(tree) \ {nyt}
  PROVE  LET up == Turn([tree |-> tree, node |-> node])
         IN SlideAndIncrement(tree, node)
              = IF up.node = Null THEN up.tree ELSE SlideAndIncrement(up.tree, up.node)
<1> DEFINE first == [tree |-> tree, node |-> node]
           up == Turn(first)
           T == Turns(tree, node)
           U == Turns(up.tree, up.node)
           N == MaxNodes
<1>1. /\ N \in Nat \ {0}
      /\ T[0] = first
      /\ \A i \in 1..N : T[i] = Turn(T[i - 1])
      /\ T[N].node = Null
  BY TurnsEnd
<1>2. OnTheWay(first, nyt, cache, tree.used)
  BY DEF OnTheWay
<1>3. OnTheWay(up, nyt, cache, tree.used)
  <2> HIDE DEF first
  <2>1. QED
    BY <1>2, TurnClimbs
<1>4. SlideAndIncrement(tree, node) = T[N].tree
  BY DEF SlideAndIncrement
<1>5. up.node # Null => SlideAndIncrement(up.tree, up.node) = U[N].tree
  BY DEF SlideAndIncrement
<1> HIDE DEF first, up, T, U, N
<1>6. T[1] = up
  <2>1. 1 \in 1..N /\ 1 - 1 = 0
    BY <1>1
  <2>2. QED
    BY <1>1, <2>1 DEF up
<1>7. ASSUME NEW i \in Nat, i + 1 <= N PROVE T[i + 1] = Turn(T[i])
  <2>1. i + 1 \in 1..N /\ (i + 1) - 1 = i
    BY <1>1, <1>7
  <2>2. QED
    BY <1>1, <2>1
<1>8. ASSUME up.node = Null PROVE T[N] = up
  <2> DEFINE S == {i \in Nat : i + 1 <= N => T[i + 1] = up}
  <2>1. 0 \in S
    BY <1>6
  <2>2. ASSUME NEW i \in Nat, i \in S PROVE i + 1 \in S
    <3>1. ASSUME (i + 1) + 1 <= N PROVE T[(i + 1) + 1] = up
      <4>1. T[i + 1] = up
        BY <1>1, <2>2, <3>1
      <4>2. T[(i + 1) + 1] = Turn(T[i + 1])
        BY <1>7, <3>1
      <4>3. QED
        BY <1>8, <4>1, <4>2 DEF Turn
    <3>2. QED
      BY <3>1
  <2>3. N - 1 \in Nat /\ (N - 1) + 1 = N
    BY <1>1
  <2>4. N - 1 \in S
    <3> HIDE DEF S
    <3>1. QED
      BY <2>1, <2>2, <2>3, Induction
  <2>5. QED
    BY <2>3, <2>4
<1>9. ASSUME up.node # Null PROVE U[N] = T[N]
  <2>1. /\ Built(up.tree, nyt, cache, up.node) /\ Ranked(up.tree, nyt, up.node)
        /\ up.node \in Allocated(up.tree) \ {nyt}
        /\ up = [tree |-> up.tree, node |-> up.node]
    BY <1>3, <1>9 DEF OnTheWay
  <2>2. U[0] = up /\ \A i \in 1..N : U[i] = Turn(U[i - 1])
    BY <2>1, TurnsEnd DEF U, N
  <2> DEFINE S == {i \in Nat : i + 1 <= N => U[i] = T[i + 1]}
  <2>3. 0 \in S
    BY <1>6, <2>2
  <2>4. ASSUME NEW i \in Nat, i \in S PROVE i + 1 \in S
    <3>1. ASSUME (i + 1) + 1 <= N PROVE U[i + 1] = T[(i + 1) + 1]
      <4>1. U[i] = T[i + 1]
        BY <1>1, <2>4, <3>1
      <4>2. T[(i + 1) + 1] = Turn(T[i + 1])
        BY <1>7, <3>1
      <4>3. i + 1 \in 1..N /\ (i + 1) - 1 = i
        BY <1>1, <3>1
      <4>4. U[i + 1] = Turn(U[i])
        BY <2>2, <4>3
      <4>5. QED
        BY <4>1, <4>2, <4>4
    <3>2. QED
      BY <3>1
  <2>5. N - 1 \in Nat /\ (N - 1) + 1 = N
    BY <1>1
  <2>6. N - 1 \in S
    <3> HIDE DEF S
    <3>1. QED
      BY <2>3, <2>4, <2>5, Induction
  <2>7. U[N - 1] = T[N]
    BY <2>5, <2>6
  <2>8. N \in 1..N
    BY <1>1
  <2>9. U[N] = Turn(T[N])
    BY <2>2, <2>7, <2>8
  <2>10. QED
    BY <1>1, <2>9 DEF Turn
<1>10. QED
  BY <1>4, <1>5, <1>8, <1>9 DEF up, first

-----------------------------------------------------------------------------
(***************************************************************************)
(* updateTree.                                                             *)
(***************************************************************************)
\* A coder with nothing but an NYT node is sound.
LEMMA NewCoderSound == Sound(NewCoder)
  BY NewTreeBuilt DEF Sound, NewCoder

\* updateTree leaves a sound coder behind, which has seen s and all that was seen.
LEMMA UpdateTreeKeepsSound ==
  ASSUME NEW c, NEW s, Sound(c), s \in Symbol
  PROVE  /\ Sound(UpdateTree(c, s))
         /\ UpdateTree(c, s).cache[s] # Null
         /\ UpdateTree(c, s).nyt # Root
<1> DEFINE tree == c.tree
           nyt == c.nyt
           cache == c.cache
           u == UpdateTree(c, s)
<1>1. Built(tree, nyt, cache, Null) /\ Ranked(tree, nyt, Null)
  BY DEF Sound
<1>2. Sound(u) /\ u.cache[s] # Null
  <2>1. CASE cache[s] # Null
    <3> DEFINE n == cache[s]
    <3>1. u = [tree |-> SlideAndIncrement(tree, n), nyt |-> nyt, cache |-> cache]
      BY <2>1 DEF UpdateTree, Sound
    <3>2. /\ n \in Allocated(tree) \ {nyt}
          /\ Built(tree, nyt, cache, n)
          /\ Ranked(tree, nyt, n)
      BY <1>1, <2>1, KnownLeaf
    <3> HIDE DEF tree, nyt, cache, n
    <3>3. /\ Built(SlideAndIncrement(tree, n), nyt, cache, Null)
          /\ Ranked(SlideAndIncrement(tree, n), nyt, Null)
      BY <3>2, SlideAndIncrementKeeps
    <3>4. QED
      BY <2>1, <3>1, <3>3 DEF Sound, n
  <2>2. CASE cache[s] = Null
    <3> DEFINE p == NewNYT(tree)
               q == NewLeaf(tree)
               split == SplitNYT(tree, nyt, s)
               known == [cache EXCEPT ![s] = q]
    <3>1. u = [tree |-> SlideAndIncrement(split, q), nyt |-> p, cache |-> known]
      BY <2>2 DEF UpdateTree
    <3> HIDE DEF tree, nyt, cache
    <3>2. Splits(tree, nyt, cache, s, split, known)
      BY <1>1, <2>2 DEF Splits
    <3> HIDE DEF split, known
    <3>3. Built(split, p, known, q)
      BY <3>2, SplitKeepsBuilt
    <3>4. Ranked(split, p, q)
      BY <1>1, <3>2, SplitKeepsRanked
    <3>5. q \in Allocated(split) \ {p} /\ q # Null
      BY <3>2, SplitStep, NodeFacts
    <3>6. /\ Built(SlideAndIncrement(split, q), p, known, Null)
          /\ Ranked(SlideAndIncrement(split, q), p, Null)
      BY <3>3, <3>4, <3>5, SlideAndIncrementKeeps
    <3>7. cache \in [Symbol -> Node \cup {Null}]
      BY <1>1 DEF Built
    <3>8. known[s] = q
      BY <3>7 DEF known
    <3>9. QED
      BY <3>1, <3>5, <3>6, <3>8 DEF Sound
  <2>3. QED
    BY <2>1, <2>2
<1> HIDE DEF u
<1>3. u.nyt # Root
  <2>1. /\ Built(u.tree, u.nyt, u.cache, Null) /\ ParentsAbove(u.tree)
    BY <1>2 DEF Sound, Ranked
  <2>2. u.cache[s] \in Allocated(u.tree) \ {u.nyt}
    BY <1>2, <2>1 DEF Built, TwoPerSymbol, SeenIn
  <2>3. /\ u.tree.order[Root] = RootOrder
        /\ u.tree.order[u.nyt] = RootOrder + 1 - u.tree.used
    BY <2>1, RootRanksFirst DEF Built, RanksLast
  <2>4. u.nyt \in Allocated(u.tree) /\ Root \in Allocated(u.tree) /\ u.tree.used \in Nat
    BY <2>1, Basics
  <2>5. u.tree.used # 1
    BY <2>2, <2>4 DEF Allocated
  <2>6. QED
    BY <2>3, <2>4, <2>5, OrderAssumption
<1>4. QED
  BY <1>2, <1>3 DEF u

-----------------------------------------------------------------------------
(***************************************************************************)
(* getPathToSymbol.                                                        *)
(***************************************************************************)
Bit == {0, 1}

\* The paths from n, where f has those from its children.
PathsFrom(t, target, f, n) ==
  IF n = Null THEN {}
  ELSE IF n = target THEN {<<>>}
  ELSE {<<0>> \o p : p \in f[t.left[n]]} \cup {<<1>> \o p : p \in f[t.right[n]]}

\* The same as a predicate.
LEMMA InPathsFrom ==
  ASSUME NEW t, NEW target, NEW f, NEW n, NEW p
  PROVE  p \in PathsFrom(t, target, f, n) <=>
           /\ n # Null
           /\ IF n = target THEN p = <<>>
              ELSE \/ \E q \in f[t.left[n]] : p = <<0>> \o q
                   \/ \E q \in f[t.right[n]] : p = <<1>> \o q
  BY Zenon DEF PathsFrom

\* The recursion ends.
LEMMA PathsEnd ==
  ASSUME NEW tree, NEW nyt, NEW cache, NEW node, NEW target,
         Built(tree, nyt, cache, node), ParentsAbove(tree)
  PROVE  \A n \in Node \cup {Null} :
           PathsTo(tree, target)[n] = PathsFrom(tree, target, PathsTo(tree, target), n)
<1> DEFINE D == Node \cup {Null}
           Below(k) == {n \in D : Level(tree, n) < k}
           From(f, n) == PathsFrom(tree, target, f, n)
           S == {k \in Nat : \E f : f = [n \in Below(k) |-> From(f, n)]}
<1>1. /\ \A n \in D : Level(tree, n) \in Nat /\ Level(tree, n) < RootOrder + 2
      /\ \A n \in Node : /\ tree.left[n] \in D
                         /\ Level(tree, tree.left[n]) < Level(tree, n)
                         /\ tree.right[n] \in D
                         /\ Level(tree, tree.right[n]) < Level(tree, n)
  BY ChildrenBelow
<1>2. 0 \in S
  <2>1. Below(0) = {}
    BY <1>1
  <2> HIDE DEF Below
  <2> DEFINE f == [n \in Below(0) |-> {}]
  <2>2. f = [n \in Below(0) |-> From(f, n)]
    BY <2>1
  <2>3. QED
    BY <2>2
<1>3. ASSUME NEW k \in Nat, k \in S PROVE k + 1 \in S
  <2>1. PICK f : f = [n \in Below(k) |-> From(f, n)]
    BY <1>3
  <2> DEFINE g == [n \in Below(k + 1) |-> From(f, n)]
  <2>2. Below(k) \subseteq Below(k + 1)
    BY <1>1
  <2>3. \A n \in Below(k) : g[n] = f[n]
    <3> HIDE DEF Below, From
    <3>1. QED
      BY <2>1, <2>2
  <2>4. ASSUME NEW n \in Below(k + 1) PROVE From(g, n) = From(f, n)
    <3>1. CASE n = Null
      BY <3>1 DEF PathsFrom
    <3>2. CASE n # Null
      <4>1. n \in Node /\ Level(tree, n) < k + 1
        BY <3>2
      <4>2. tree.left[n] \in Below(k) /\ tree.right[n] \in Below(k)
        BY <1>1, <4>1
      <4> HIDE DEF g, Below
      <4>3. g[tree.left[n]] = f[tree.left[n]] /\ g[tree.right[n]] = f[tree.right[n]]
        BY <2>3, <4>2
      <4>4. QED
        BY <4>3 DEF PathsFrom
    <3>3. QED
      BY <3>1, <3>2
  <2> HIDE DEF From, Below
  <2>5. g = [n \in Below(k + 1) |-> From(g, n)]
    BY <2>4
  <2> HIDE DEF g
  <2>6. \E h : h = [n \in Below(k + 1) |-> From(h, n)]
    BY <2>5
  <2>7. QED
    BY <2>6
<1>4. RootOrder + 2 \in S
  <2> HIDE DEF S
  <2>1. \A k \in Nat : k \in S
    BY <1>2, <1>3, Induction
  <2>2. RootOrder + 2 \in Nat
    BY OrderAssumption
  <2>3. QED
    BY <2>1, <2>2
<1>5. Below(RootOrder + 2) = D
  BY <1>1
<1>6. \E f : f = [n \in D |-> From(f, n)]
  BY <1>4, <1>5
<1>7. PathsTo(tree, target) = [n \in D |-> From(PathsTo(tree, target), n)]
  BY <1>6, Zenon DEF PathsTo, PathsFrom
<1>8. QED
  BY <1>7

\* A bit in front of a sequence of bits.
LEMMA BitInFront ==
  ASSUME NEW b, b \in Bit, NEW q, q \in Seq(Bit)
  PROVE  /\ <<b>> \o q \in Seq(Bit)
         /\ <<b>> \o q # <<>>
         /\ Len(<<b>> \o q) = Len(q) + 1
         /\ (<<b>> \o q)[1] = b
         /\ \A i \in 1..Len(q) : (<<b>> \o q)[i + 1] = q[i]
  OBVIOUS

\* A path is a sequence of bits.
LEMMA PathsAreBits ==
  ASSUME NEW tree, NEW nyt, NEW cache, NEW node, NEW target,
         Built(tree, nyt, cache, node), ParentsAbove(tree)
  PROVE  \A n \in Node \cup {Null} : PathsTo(tree, target)[n] \subseteq Seq(Bit)
<1> DEFINE D == Node \cup {Null}
           P == PathsTo(tree, target)
           S == {k \in Nat : \A n \in D : Level(tree, n) < k => P[n] \subseteq Seq(Bit)}
<1>1. /\ \A n \in D : Level(tree, n) \in Nat /\ Level(tree, n) < RootOrder + 2
      /\ \A n \in Node : /\ tree.left[n] \in D
                         /\ Level(tree, tree.left[n]) < Level(tree, n)
                         /\ tree.right[n] \in D
                         /\ Level(tree, tree.right[n]) < Level(tree, n)
  BY ChildrenBelow
<1>2. \A n \in D : P[n] = PathsFrom(tree, target, P, n)
  BY PathsEnd
<1> HIDE DEF P
<1>3. 0 \in S
  BY <1>1
<1>4. ASSUME NEW k \in Nat, k \in S PROVE k + 1 \in S
  <2> SUFFICES ASSUME NEW n \in D, Level(tree, n) < k + 1, NEW p \in P[n]
               PROVE  p \in Seq(Bit)
    OBVIOUS
  <2>1. CASE n = Null \/ n = target
    <3>1. p = <<>>
      BY <1>2, <2>1, InPathsFrom
    <3>2. QED
      BY <3>1
  <2>2. CASE ~(n = Null \/ n = target)
    <3>1. P[tree.left[n]] \subseteq Seq(Bit) /\ P[tree.right[n]] \subseteq Seq(Bit)
      BY <1>1, <1>4, <2>2
    <3>2. \/ \E q \in P[tree.left[n]] : p = <<0>> \o q
          \/ \E q \in P[tree.right[n]] : p = <<1>> \o q
      BY <1>2, <2>2, InPathsFrom
    <3>3. \A b \in Bit : \A q \in Seq(Bit) : <<b>> \o q \in Seq(Bit)
      BY BitInFront
    <3>4. QED
      BY <3>1, <3>2, <3>3 DEF Bit
  <2>3. QED
    BY <2>1, <2>2
<1>5. RootOrder + 2 \in S
  <2> HIDE DEF S
  <2>1. \A k \in Nat : k \in S
    BY <1>3, <1>4, Induction
  <2>2. RootOrder + 2 \in Nat
    BY OrderAssumption
  <2>3. QED
    BY <2>1, <2>2
<1>6. QED
  BY <1>1, <1>5 DEF P

\* The child a bit leads to.
ChildBy(t, n, bit) == IF bit = 1 THEN t.right[n] ELSE t.left[n]

\* The path p from n goes on from the child its first bit leads to.
GoesOn(t, target, n, p) ==
  \E b \in Bit :
    /\ ChildBy(t, n, b) \in Allocated(t)
    /\ \E q \in PathsTo(t, target)[ChildBy(t, n, b)] :
         q \in Seq(Bit) /\ p = <<b>> \o q

\* A path that is not at its end yet goes on.
LEMMA PathsLead ==
  ASSUME NEW tree, NEW nyt, NEW cache, NEW node, NEW target,
         Built(tree, nyt, cache, node), ParentsAbove(tree),
         NEW n, n \in Allocated(tree),
         NEW p, p \in PathsTo(tree, target)[n]
  PROVE  /\ p = <<>> <=> n = target
         /\ n # target => ~IsLeaf(tree, n) /\ GoesOn(tree, target, n, p)
<1> DEFINE P == PathsTo(tree, target)
           D == Node \cup {Null}
<1>1. Allocated(tree) \subseteq Node /\ Null \notin Allocated(tree)
  BY Basics
<1>2. /\ \A m \in D : P[m] = PathsFrom(tree, target, P, m)
      /\ \A m \in D : P[m] \subseteq Seq(Bit)
  BY PathsEnd, PathsAreBits
<1>3. /\ tree.left[n] \in Allocated(tree) \cup {Null}
      /\ tree.right[n] \in Allocated(tree) \cup {Null}
  BY DEF Built, Linked, IsLeaf
<1>4. p \in P[n]
  OBVIOUS
<1> HIDE DEF P
<1>5. P[Null] = {} /\ n # Null
  BY <1>1, <1>2 DEF PathsFrom
<1>6. n = target => p = <<>>
  BY <1>1, <1>2, <1>4, <1>5 DEF PathsFrom
<1>7. ASSUME n # target
      PROVE  \E b \in Bit : \E q \in P[ChildBy(tree, n, b)] :
               ChildBy(tree, n, b) \in Allocated(tree) /\ q \in Seq(Bit) /\ p = <<b>> \o q
  <2>1. \/ \E q \in P[tree.left[n]] : p = <<0>> \o q
        \/ \E q \in P[tree.right[n]] : p = <<1>> \o q
    <3>1. p \in PathsFrom(tree, target, P, n)
      BY <1>1, <1>2, <1>4
    <3>2. QED
      BY <1>7, <3>1, InPathsFrom
  <2>2. CASE \E q \in P[tree.left[n]] : p = <<0>> \o q
    <3>1. PICK q \in P[tree.left[n]] : p = <<0>> \o q
      BY <2>2
    <3>2. tree.left[n] \in Allocated(tree) /\ q \in Seq(Bit)
      BY <1>1, <1>2, <1>3, <1>5
    <3>3. ChildBy(tree, n, 0) = tree.left[n] /\ 0 \in Bit
      BY DEF ChildBy, Bit
    <3>4. QED
      BY <3>1, <3>2, <3>3
  <2>3. CASE \E q \in P[tree.right[n]] : p = <<1>> \o q
    <3>1. PICK q \in P[tree.right[n]] : p = <<1>> \o q
      BY <2>3
    <3>2. tree.right[n] \in Allocated(tree) /\ q \in Seq(Bit)
      BY <1>1, <1>2, <1>3, <1>5
    <3>3. ChildBy(tree, n, 1) = tree.right[n] /\ 1 \in Bit
      BY DEF ChildBy, Bit
    <3>4. QED
      BY <3>1, <3>2, <3>3
  <2>4. QED
    BY <2>1, <2>2, <2>3
<1>8. n # target => p # <<>>
  BY <1>7, BitInFront
<1>9. n # target => ~IsLeaf(tree, n)
  <2> SUFFICES ASSUME n # target, IsLeaf(tree, n) PROVE FALSE
    OBVIOUS
  <2>1. PICK b \in Bit : ChildBy(tree, n, b) \in Allocated(tree)
    BY <1>7
  <2>2. ChildBy(tree, n, b) = Null
    BY DEF ChildBy, IsLeaf
  <2>3. QED
    BY <1>1, <2>1, <2>2
<1>10. n # target => GoesOn(tree, target, n, p)
  BY <1>7 DEF GoesOn, P
<1>11. QED
  BY <1>6, <1>8, <1>9, <1>10 DEF P

\* Every node is found: there is a path to it from each of its ancestors.
LEMMA PathFound ==
  ASSUME NEW tree, NEW nyt, NEW cache, NEW node, NEW target,
         Built(tree, nyt, cache, node), ParentsAbove(tree), target \in Allocated(tree)
  PROVE  /\ PathTo(tree, target) \in PathsTo(tree, target)[Root]
         /\ PathTo(tree, target) \in Seq(Bit)
<1> DEFINE P == PathsTo(tree, target)
           V == {n \in Allocated(tree) : P[n] # {}}
<1>1. /\ Allocated(tree) \subseteq Node /\ Null \notin Allocated(tree)
      /\ Root \in Allocated(tree)
  BY Basics
<1>2. /\ \A m \in Node : P[m] = PathsFrom(tree, target, P, m)
      /\ \A m \in Node : P[m] \subseteq Seq(Bit)
  BY PathsEnd, PathsAreBits
<1>3. \A n \in Allocated(tree) \ {Root} :
        /\ tree.parent[n] \in Allocated(tree)
        /\ n = tree.left[tree.parent[n]] \/ n = tree.right[tree.parent[n]]
  BY DEF Built, Linked
<1> HIDE DEF P
<1>4. target \in V
  BY <1>1, <1>2 DEF PathsFrom
<1>5. ASSUME NEW n \in V, n # Root PROVE tree.parent[n] \in V
  <2> DEFINE p == tree.parent[n]
  <2>1. p \in Allocated(tree) /\ (n = tree.left[p] \/ n = tree.right[p])
    BY <1>3, <1>5
  <2>2. PICK q : q \in P[n]
    BY <1>5
  <2> HIDE DEF p
  <2>3. CASE p = target
    BY <1>4, <2>3 DEF p
  <2>4. CASE p # target
    <3>1. \/ <<0>> \o q \in P[p]
          \/ <<1>> \o q \in P[p]
      BY <1>1, <1>2, <2>1, <2>2, <2>4, ZenonT(60) DEF PathsFrom
    <3>2. QED
      BY <2>1, <3>1 DEF p
  <2>5. QED
    BY <2>3, <2>4
<1>6. Root \in V
  <2> SUFFICES ASSUME Root \notin V PROVE FALSE
    OBVIOUS
  <2>1. V \in SUBSET Allocated(tree) /\ V # {}
    BY <1>4
  <2>2. \A u \in V : u # Root /\ tree.parent[u] \in V
    BY <1>5
  <2> HIDE DEF V
  <2>3. QED
    BY <2>1, <2>2, NoEndlessAscent
<1>7. PathTo(tree, target) \in P[Root]
  BY <1>6 DEF PathTo, P
<1>8. QED
  BY <1>1, <1>2, <1>7 DEF P

-----------------------------------------------------------------------------
(***************************************************************************)
(* What has been written stays at the beginning of the stream.             *)
(***************************************************************************)
\* s is the beginning of t.
Begins(s, t) == Len(s) <= Len(t) /\ \A i \in 1..Len(s) : s[i] = t[i]

\* What begins with two sequences.
LEMMA BeginsWithBoth ==
  ASSUME NEW a, NEW b, NEW w, a \in Seq(Bit), b \in Seq(Bit), w \in Seq(Bit),
         Begins(a \o b, w)
  PROVE  /\ Begins(a, w)
         /\ Len(a) + Len(b) <= Len(w)
         /\ \A i \in 1..Len(b) : w[Len(a) + i] = b[i]
<1>1. /\ Len(a \o b) = Len(a) + Len(b)
      /\ \A i \in 1..Len(a) : (a \o b)[i] = a[i]
      /\ \A i \in 1..Len(b) : (a \o b)[Len(a) + i] = b[i]
  OBVIOUS
<1>2. Len(a) \in Nat /\ Len(b) \in Nat /\ Len(w) \in Nat
  OBVIOUS
<1>3. Len(a) + Len(b) <= Len(w) /\ \A i \in 1..(Len(a) + Len(b)) : (a \o b)[i] = w[i]
  BY <1>1 DEF Begins
<1>4. Begins(a, w)
  BY <1>1, <1>2, <1>3 DEF Begins
<1>5. ASSUME NEW i \in 1..Len(b) PROVE w[Len(a) + i] = b[i]
  <2>1. Len(a) + i \in 1..(Len(a) + Len(b))
    BY <1>2
  <2>2. QED
    BY <1>1, <1>3, <2>1
<1>6. QED
  BY <1>3, <1>4, <1>5

\* Zeros fill the last of cells of C bits with fewer bits than it has.
LEMMA ZerosBehind ==
  ASSUME NEW b, b \in Seq(Bit), NEW C \in Nat \ {0}
  PROVE  LET filled == b \o [i \in 1..((-Len(b)) % C) |-> 0]
         IN filled \in Seq(Bit) /\ Begins(b, filled) /\ Len(filled) < Len(b) + C
<1> DEFINE m == (-Len(b)) % C
           zeros == [i \in 1..m |-> 0]
<1>1. Len(b) \in Nat
  OBVIOUS
<1>2. m \in 0..(C - 1)
  BY <1>1
<1> HIDE DEF m
<1>3. zeros \in Seq(Bit) /\ Len(zeros) = m
  BY <1>1, <1>2 DEF Bit
<1> HIDE DEF zeros
<1>4. /\ b \o zeros \in Seq(Bit) /\ Len(b \o zeros) = Len(b) + Len(zeros)
      /\ \A i \in 1..Len(b) : (b \o zeros)[i] = b[i]
  BY <1>3
<1>5. b \o zeros \in Seq(Bit) /\ Begins(b, b \o zeros) /\ Len(b \o zeros) < Len(b) + C
  BY <1>1, <1>2, <1>3, <1>4 DEF Begins
<1>6. QED
  BY <1>5 DEF zeros, m

-----------------------------------------------------------------------------
(***************************************************************************)
(* A symbol in a stream of bits: the code written for it is the path to    *)
(* its goal, which a decoder follows, and behind the NYT node a literal.   *)
(***************************************************************************)
Code(c, s, lit) ==
  IF c.cache[s] # Null THEN PathTo(c.tree, c.cache[s])
  ELSE PathTo(c.tree, c.nyt) \o lit

\* The node the decoder is on its way to.
Goal(c, s) == IF c.cache[s] # Null THEN c.cache[s] ELSE c.nyt

\* Bits b are behind the first `at' bits of the stream W.
Behind(W, at, b) == \A i \in 1..Len(b) : W[at + i] = b[i]

\* After `at' bits the decoder stands at node n; what comes up to the end-th bit
\* leads on to the goal.
LeadsOn(W, end, at, rest) == rest # <<>> /\ at + Len(rest) = end /\ Behind(W, at, rest)

OnWay(c, goal, W, end, n, at) ==
  /\ n \in Allocated(c.tree)
  /\ \E rest \in PathsTo(c.tree, goal)[n] : LeadsOn(W, end, at, rest)

\* The facts of a coder that decoders need.
LEMMA SoundFacts ==
  ASSUME NEW c, Sound(c)
  PROVE  /\ Built(c.tree, c.nyt, c.cache, Null) /\ Ranked(c.tree, c.nyt, Null)
         /\ ParentsAbove(c.tree)
         /\ c.tree \in Tree /\ c.nyt \in Node /\ c.cache \in [Symbol -> Node \cup {Null}]
         /\ Root \in Allocated(c.tree)
         /\ c.nyt \in Allocated(c.tree) /\ IsLeaf(c.tree, c.nyt)
         /\ \A m \in Allocated(c.tree) : m \in Node /\ (c.tree.isNYT[m] <=> m = c.nyt)
<1>1. Built(c.tree, c.nyt, c.cache, Null) /\ Ranked(c.tree, c.nyt, Null)
  BY DEF Sound
<1>2. /\ c.tree \in Tree /\ c.nyt \in Node /\ c.cache \in [Symbol -> Node \cup {Null}]
      /\ c.nyt \in Allocated(c.tree) /\ IsLeaf(c.tree, c.nyt)
  BY <1>1 DEF Built, RanksLast
<1>3. Root \in Allocated(c.tree) /\ \A m \in Allocated(c.tree) : m \in Node
  BY <1>1, Basics
<1>4. \A m \in Allocated(c.tree) : m \in Node /\ (c.tree.isNYT[m] <=> m = c.nyt)
  BY <1>1, <1>3 DEF Ranked, Marked
<1>5. ParentsAbove(c.tree)
  BY <1>1 DEF Ranked
<1>6. QED
  BY <1>1, <1>2, <1>3, <1>4, <1>5

\* A symbol that has a leaf is read at it.
LEMMA GoalOfSymbol ==
  ASSUME NEW c, NEW s, Sound(c), s \in Symbol
  PROVE  /\ Goal(c, s) \in Allocated(c.tree)
         /\ c.nyt # Root => Goal(c, s) # Root
         /\ c.cache[s] # Null <=> Goal(c, s) # c.nyt
         /\ Goal(c, s) # c.nyt =>
              IsLeaf(c.tree, Goal(c, s)) /\ c.tree.value[Goal(c, s)] = s
<1>1. Built(c.tree, c.nyt, c.cache, Null) /\ c.nyt \in Allocated(c.tree)
  BY SoundFacts
<1>2. CASE c.cache[s] # Null
  <2>1. Goal(c, s) = c.cache[s]
    BY <1>2 DEF Goal
  <2>2. Goal(c, s) \in Allocated(c.tree) \ {c.nyt} /\ IsLeaf(c.tree, Goal(c, s))
    BY <1>1, <1>2, <2>1, KnownLeaf
  <2>3. c.nyt # Root => Goal(c, s) # Root
    BY <1>1, <2>2 DEF Built, InnerRoot
  <2>4. c.tree.value[Goal(c, s)] = s
    BY <1>1, <1>2, <2>1, <2>2 DEF Built, Current
  <2>5. QED
    BY <1>2, <2>2, <2>3, <2>4
<1>3. CASE c.cache[s] = Null
  BY <1>1, <1>3 DEF Goal
<1>4. QED
  BY <1>2, <1>3

\* The code of a symbol is the path to its goal, with the literal behind NYT.
LEMMA CodeParts ==
  ASSUME NEW c, NEW s, NEW lit, Sound(c), s \in Symbol, lit \in Seq(Bit)
  PROVE  LET path == PathTo(c.tree, Goal(c, s))
         IN /\ path \in Seq(Bit) /\ path \in PathsTo(c.tree, Goal(c, s))[Root]
            /\ Code(c, s, lit) \in Seq(Bit)
            /\ Goal(c, s) # c.nyt => Code(c, s, lit) = path
            /\ Goal(c, s) = c.nyt => Code(c, s, lit) = path \o lit
<1> DEFINE path == PathTo(c.tree, Goal(c, s))
<1>1. path \in Seq(Bit) /\ path \in PathsTo(c.tree, Goal(c, s))[Root]
  BY SoundFacts, GoalOfSymbol, PathFound
<1>2. CASE c.cache[s] # Null
  <2>1. Goal(c, s) = c.cache[s] /\ Goal(c, s) # c.nyt /\ Code(c, s, lit) = path
    BY <1>2, GoalOfSymbol DEF Goal, Code
  <2>2. QED
    BY <1>1, <2>1
<1>3. CASE c.cache[s] = Null
  <2>1. Goal(c, s) = c.nyt /\ Code(c, s, lit) = path \o lit
    BY <1>3 DEF Goal, Code
  <2> HIDE DEF path
  <2>2. path \o lit \in Seq(Bit)
    BY <1>1
  <2>3. QED
    BY <1>1, <2>1, <2>2 DEF path
<1>4. QED
  BY <1>2, <1>3

\* Behind the beginning of a code there is a way to its goal, and behind that the
\* end of the code or the literal.
LEMMA CodeInStream ==
  ASSUME NEW c, NEW s, NEW lit, Sound(c), s \in Symbol, lit \in Seq(Bit),
         NEW W, NEW base, base \in Nat, Behind(W, base, Code(c, s, lit))
  PROVE  LET goal == Goal(c, s)
             end == base + Len(PathTo(c.tree, goal))
             next == base + Len(Code(c, s, lit))
         IN /\ end \in Nat /\ next \in Nat
            /\ goal # Root => OnWay(c, goal, W, end, Root, base)
            /\ goal = Root => end = base
            /\ goal # c.nyt => next = end
            /\ goal = c.nyt => next = end + Len(lit) /\ Behind(W, end, lit)
<1> DEFINE goal == Goal(c, s)
           path == PathTo(c.tree, goal)
           code == Code(c, s, lit)
           end == base + Len(path)
           next == base + Len(code)
<1>1. /\ path \in Seq(Bit) /\ path \in PathsTo(c.tree, goal)[Root]
      /\ code \in Seq(Bit)
      /\ goal # c.nyt => code = path
      /\ goal = c.nyt => code = path \o lit
  BY CodeParts
<1>2. \A i \in 1..Len(code) : W[base + i] = code[i]
  BY DEF Behind
<1>3. /\ Built(c.tree, c.nyt, c.cache, Null) /\ ParentsAbove(c.tree)
      /\ Root \in Allocated(c.tree)
  BY SoundFacts
<1> HIDE DEF goal, path, code
<1>4. end \in Nat /\ next \in Nat /\ Len(path) \in Nat /\ Len(lit) \in Nat
  BY <1>1
<1>5. /\ goal # c.nyt => next = end
      /\ goal = c.nyt => next = end + Len(lit) /\ Behind(W, end, lit)
      /\ Behind(W, base, path)
  <2>1. CASE goal # c.nyt
    BY <1>1, <1>2, <2>1 DEF Behind
  <2>2. CASE goal = c.nyt
    <3>1. /\ Len(code) = Len(path) + Len(lit)
          /\ \A i \in 1..Len(path) : code[i] = path[i]
          /\ \A i \in 1..Len(lit) : code[Len(path) + i] = lit[i]
      BY <1>1, <2>2
    <3>2. next = end + Len(lit)
      BY <1>4, <3>1
    <3>3. ASSUME NEW i \in 1..Len(path) PROVE W[base + i] = path[i]
      <4>1. i \in 1..Len(code)
        BY <1>4, <3>1
      <4>2. QED
        BY <1>2, <3>1, <4>1
    <3>4. ASSUME NEW i \in 1..Len(lit) PROVE W[end + i] = lit[i]
      <4>1. Len(path) + i \in 1..Len(code) /\ base + (Len(path) + i) = end + i
        BY <1>4, <3>1
      <4>2. W[base + (Len(path) + i)] = lit[i]
        BY <1>2, <3>1, <4>1
      <4>3. QED
        BY <4>1, <4>2
    <3>5. QED
      BY <2>2, <3>2, <3>3, <3>4 DEF Behind
  <2>3. QED
    BY <2>1, <2>2
<1>6. ASSUME goal # Root PROVE OnWay(c, goal, W, end, Root, base)
  <2>1. path # <<>>
    BY <1>1, <1>3, <1>6, PathsLead
  <2>2. LeadsOn(W, end, base, path)
    BY <1>5, <2>1 DEF LeadsOn
  <2>3. QED
    BY <1>1, <1>3, <2>2 DEF OnWay
<1>7. ASSUME goal = Root PROVE end = base
  <2>1. path = <<>>
    BY <1>1, <1>3, <1>7, PathsLead
  <2>2. QED
    BY <2>1
<1>8. QED
  BY <1>4, <1>5, <1>6, <1>7 DEF goal, path, code

\* A bit on the way leads to the goal, or to an internal node nearer to it.
LEMMA BitOnWay ==
  ASSUME NEW c, NEW goal, NEW W, NEW end, NEW n, NEW at, Sound(c),
         at \in Nat, end \in Nat, OnWay(c, goal, W, end, n, at)
  PROVE  LET m == ChildBy(c.tree, n, W[at + 1])
         IN /\ at < end
            /\ m \in Allocated(c.tree)
            /\ m = goal => at + 1 = end
            /\ m # goal => ~IsLeaf(c.tree, m) /\ OnWay(c, goal, W, end, m, at + 1)
<1> DEFINE m == ChildBy(c.tree, n, W[at + 1])
<1>1. Built(c.tree, c.nyt, c.cache, Null) /\ ParentsAbove(c.tree)
  BY SoundFacts
<1>2. /\ n \in Allocated(c.tree)
      /\ \E rest \in PathsTo(c.tree, goal)[n] : LeadsOn(W, end, at, rest)
  BY DEF OnWay
<1>3. PICK rest \in PathsTo(c.tree, goal)[n] : LeadsOn(W, end, at, rest)
  BY <1>2
<1>4. /\ rest # <<>> /\ at + Len(rest) = end
      /\ \A i \in 1..Len(rest) : W[at + i] = rest[i]
  BY <1>3 DEF LeadsOn, Behind
<1>5. n # goal
  BY <1>1, <1>2, <1>3, <1>4, PathsLead
<1>6. PICK b \in Bit :
        /\ ChildBy(c.tree, n, b) \in Allocated(c.tree)
        /\ \E q \in PathsTo(c.tree, goal)[ChildBy(c.tree, n, b)] :
             q \in Seq(Bit) /\ rest = <<b>> \o q
  <2>1. GoesOn(c.tree, goal, n, rest)
    BY <1>1, <1>2, <1>3, <1>5, PathsLead
  <2>2. QED
    BY <2>1 DEF GoesOn
<1>7. PICK q \in PathsTo(c.tree, goal)[ChildBy(c.tree, n, b)] :
        q \in Seq(Bit) /\ rest = <<b>> \o q
  BY <1>6
<1>8. /\ Len(rest) = Len(q) + 1 /\ Len(q) \in Nat /\ rest[1] = b
      /\ \A i \in 1..Len(q) : rest[i + 1] = q[i]
  BY <1>7, BitInFront
<1>9. at < end /\ at + 1 + Len(q) = end
  BY <1>4, <1>8
<1>10. W[at + 1] = b
  BY <1>4, <1>8
<1>11. m = ChildBy(c.tree, n, b) /\ m \in Allocated(c.tree)
  BY <1>6, <1>10
<1>12. ASSUME m = goal PROVE at + 1 = end
  <2>1. q = <<>>
    BY <1>1, <1>7, <1>11, <1>12, PathsLead
  <2>2. QED
    BY <1>9, <2>1
<1>13. ASSUME m # goal PROVE ~IsLeaf(c.tree, m) /\ OnWay(c, goal, W, end, m, at + 1)
  <2>1. q # <<>> /\ ~IsLeaf(c.tree, m)
    BY <1>1, <1>7, <1>11, <1>13, PathsLead
  <2>2. ASSUME NEW i \in 1..Len(q) PROVE W[at + 1 + i] = q[i]
    <3>1. i + 1 \in 1..Len(rest) /\ at + (i + 1) = at + 1 + i
      BY <1>8
    <3>2. W[at + (i + 1)] = rest[i + 1]
      BY <1>4, <3>1
    <3>3. QED
      BY <1>8, <3>1, <3>2
  <2>3. LeadsOn(W, end, at + 1, q)
    BY <1>9, <2>1, <2>2 DEF LeadsOn, Behind
  <2>4. q \in PathsTo(c.tree, goal)[m]
    BY <1>7, <1>11
  <2> HIDE DEF m
  <2>5. QED
    BY <1>11, <2>1, <2>3, <2>4 DEF OnWay
<1>14. QED
  BY <1>9, <1>11, <1>12, <1>13
=============================================================================
