---------------------------- MODULE StaticCodec ----------------------------
(***************************************************************************)
(* The static coder and its decoder (--static): encodeStatic of            *)
(* src/static_encoding.h builds a Huffman tree of the whole data, keeps    *)
(* only the lengths of its codes and writes canonical codes behind a       *)
(* header of their lengths; decodeStatic of src/static_decoding.h rebuilds *)
(* two tables from the header and never sees a tree.                       *)
(***************************************************************************)
EXTENDS Integers, Sequences, FiniteSets, FiniteSetsExt, SequencesExt

CONSTANTS
  ValueBits,      \* width of T and of a byte: 8
  PaddingShift,   \* PADDING_SHIFT: 5
  IntBits,        \* width of int: 32
  UseModel,       \* NeighborDifferenceModel (-m), otherwise IdentityModel
  MaxLength       \* bound of the model: samples of the input

ValueCount == 2 ^ ValueBits
Value == 0..(ValueCount - 1)

\* The byte that packs the padding and the shortest length has room for both, but
\* not for a whole cell of padding: it has to be narrowed to 0.
ASSUME WidthAssumption ==
  /\ ValueBits \in Nat \ {0} /\ IntBits \in Nat \ {0, 1}
  /\ PaddingShift \in 1..ValueBits
  /\ ValueBits <= 2 ^ PaddingShift
  /\ ValueBits = 2 ^ (ValueBits - PaddingShift)
  /\ UseModel \in BOOLEAN
  /\ MaxLength \in Nat

INSTANCE Preprocessing

VARIABLES
  input,    \* the caller's data
  data,     \* the data after the model has been applied in place
  phase,    \* "apply", "build", "write", "read", "decode", "done", "error"
            \* or "undefined": the code does something C++ gives no meaning
  heap,     \* treeHeap: [weight, leaves], a leaf being [value, path]
  codes,    \* symbolCodes: [symbol, bits], shortest first
  file,     \* the bytes of the file
  lost,     \* the end of the file has been lost
  tables,   \* the decoder's [zeros, ones]
  index,    \* the next bit behind the header of the file
  length,   \* counterOnes: bits read of the current code
  code,     \* counterZeros: those bits as a number
  result    \* the values decoded

vars == <<input, data, phase, heap, codes, file, lost, tables, index, length,
          code, result>>

encoding == <<data, heap, codes, file, lost>>
decoding == <<tables, index, length, code, result>>

Inputs == UNION {[1..n -> Value] : n \in 0..MaxLength}

Init ==
  /\ input \in Inputs
  /\ data = input
  /\ phase = "apply"
  /\ heap = {}
  /\ codes = <<>>
  /\ file = <<>>
  /\ lost = FALSE
  /\ tables = [zeros |-> <<>>, ones |-> <<>>]
  /\ index = 1
  /\ length = 0
  /\ code = 0
  /\ result = <<>>

-----------------------------------------------------------------------------
(***************************************************************************)
(* Building the tree.  What follows looks at nothing but the leaves and    *)
(* the turns on the way to them, so that a tree is the set of its leaves.  *)
(***************************************************************************)
Leaf(v, weight) == [weight |-> weight, leaves |-> {[value |-> v, path |-> <<>>]}]

\* createHistogram
Occurrences(v) == Cardinality({i \in DOMAIN data' : data'[i] = v})

\* A single symbol gets a node of weight 0 (makeNYTStatic) for a sibling.
FirstHeap ==
  LET seen == {Leaf(v, Occurrences(v)) : v \in ToSet(data')}
  IN IF Cardinality(seen) = 1 THEN seen \cup {Leaf(0, 0)} ELSE seen

\* Of no samples there is no tree: the front of an empty heap is taken.
ApplyModel ==
  /\ phase = "apply"
  /\ data' = Applied(data, UseModel)
  /\ heap' = FirstHeap
  /\ phase' = IF heap' = {} THEN "undefined" ELSE "build"
  /\ UNCHANGED <<input, codes, file, lost, decoding>>

Below(turn, leaves) == {[l EXCEPT !.path = <<turn>> \o @] : l \in leaves}

\* Mutant: any tree that is left may be the second one.
Lightest_Any(trees) == trees

\* What popAsHeap may return: which one depends on the standard library.
Lightest(trees) == {t \in trees : \A u \in trees : t.weight <= u.weight}

\* One turn of buildTree's loop.
Merge ==
  /\ phase = "build"
  /\ Cardinality(heap) > 1
  /\ \E left \in Lightest(heap) : \E right \in Lightest(heap \ {left}) :
       heap' = (heap \ {left, right}) \cup
         {[weight |-> left.weight + right.weight,
           leaves |-> Below(0, left.leaves) \cup Below(1, right.leaves)]}
  /\ UNCHANGED <<input, data, phase, codes, file, lost, decoding>>

-----------------------------------------------------------------------------
(***************************************************************************)
(* transformCodes: the first code is all zeros; each next one is the one   *)
(* before plus one, with zeros appended up to its own length.              *)
(***************************************************************************)
\* Mutant: the digits are not masked.
Digits_Unmasked(n, width) == [i \in 1..width |-> n \div 2 ^ (width - i)]

\* The number n in `width` binary digits.
Digits(n, width) == [i \in 1..width |-> (n \div 2 ^ (width - i)) % 2]

\* Mutant: the next code does not count up.
NextCode_NoIncrement(previous, shift) == previous * 2 ^ shift

NextCode(previous, shift) == (previous + 1) * 2 ^ shift

CodeNumbers(leaves) ==
  LET Length(i) == Len(leaves[i].path)
      Number[i \in DOMAIN leaves] ==
        IF i = 1 THEN 0 ELSE NextCode(Number[i - 1], Length(i) - Length(i - 1))
  IN Number

\* The sort leaves codes of one length in any order.  The numbers are of type
\* int: one that does not fit overflows it, or never shifts out to 0.  The tree
\* is not looked at again.
SortCodes ==
  /\ phase = "build"
  /\ Cardinality(heap) = 1
  /\ \E leaves \in SetToSeqs((CHOOSE t \in heap : TRUE).leaves) :
       /\ \A i, j \in DOMAIN leaves : i < j => Len(leaves[i].path) <= Len(leaves[j].path)
       /\ LET number == CodeNumbers(leaves)
          IN /\ codes' = [i \in DOMAIN leaves |->
                  [symbol |-> leaves[i].value,
                   bits |-> Digits(number[i], Len(leaves[i].path))]]
             /\ phase' = IF \E i \in DOMAIN leaves : number[i] >= 2 ^ (IntBits - 1)
                         THEN "undefined" ELSE "write"
  /\ heap' = {}
  /\ UNCHANGED <<input, data, file, lost, decoding>>

-----------------------------------------------------------------------------
(***************************************************************************)
(* encodeStatic_impl                                                       *)
(***************************************************************************)
CodeLengths == {Len(codes[i].bits) : i \in DOMAIN codes}
MinCodeLength == Min(CodeLengths)
MaxCodeLength == Max(CodeLengths)

\* byteTable: the last code of a symbol wins.
ByteTable(s) ==
  LET mine == {i \in DOMAIN codes : codes[i].symbol = s}
  IN IF mine = {} THEN <<>> ELSE codes[Max(mine)].bits

\* byteHeader[n].size()
CodesOfLength(n) == Cardinality({i \in DOMAIN codes : Len(codes[i].bits) = n})

Body == FlattenSeq([i \in DOMAIN data |-> ByteTable(data[i])])

\* The bits as bytes, the last one filled with zeros.
Bytes(bits) ==
  LET Bit(k) == IF k <= Len(bits) THEN bits[k] ELSE 0
  IN [i \in 1..((Len(bits) + ValueBits - 1) \div ValueBits) |->
        SumFunction([j \in 1..ValueBits |->
          Bit((i - 1) * ValueBits + j) * 2 ^ (ValueBits - j)])]

\* Mutant: one bit too few.
UnusedBitsInCell_OffByOne(bits) == ValueBits - 1 - (Len(bits) % ValueBits)

\* unusedBitsInCell; a whole cell when the last one is full.
UnusedBitsInCell(bits) == ValueBits - (Len(bits) % ValueBits)

\* Every field of the header is narrowed to a byte.  (The length in the first
\* one is not: codes that fit an int are too short to wrap the byte it has.)
WriteFile ==
  /\ phase = "write"
  /\ file' =
       <<MaxCodeLength + 1,
         MinCodeLength - 1 + ((UnusedBitsInCell(Body) * 2 ^ PaddingShift) % ValueCount)>>
       \o [i \in 1..(MaxCodeLength - MinCodeLength + 1) |->
             CodesOfLength(MinCodeLength + i - 1) % ValueCount]
       \o [i \in DOMAIN codes |-> codes[i].symbol]
       \o Bytes(Body)
  /\ phase' = "read"
  /\ UNCHANGED <<input, data, heap, codes, lost, decoding>>

\* The write of the file was cut short or has failed altogether, and nobody looks at
\* its result: the output, truncated when it was opened, may be left empty.
LoseEnd ==
  /\ phase = "read"
  /\ ~lost
  /\ \E n \in 0..(Len(file) - 1) : file' = SubSeq(file, 1, n)
  /\ lost' = TRUE
  /\ UNCHANGED <<input, data, phase, heap, codes, decoding>>

-----------------------------------------------------------------------------
(***************************************************************************)
(* decodeStatic: the header                                                *)
(***************************************************************************)
MaxLengthInfo == file[1]
Padding == file[2] \div 2 ^ PaddingShift
MinLengthInfo == file[2] % 2 ^ PaddingShift
LengthDifference == MaxLengthInfo - MinLengthInfo

\* Mutant: a count of 0 is always 0.
IndexLength_NoWrap(count) == count

\* A count of 0 stands for all values when the shortest code is as long as one.
IndexLength(count) ==
  IF count = 0 /\ MinLengthInfo = ValueBits - 1 THEN ValueCount ELSE count

\* Lengths shorter than the shortest code have no symbols.
ByteLengths ==
  [i \in 1..MinLengthInfo |-> 0]
    \o [i \in 1..(LengthDifference - 1) |-> IndexLength(file[i + 2])]

SymbolsLength == SumFunction(ByteLengths)
ByteCount == LengthDifference + 1 + SymbolsLength
Symbols == SubSeq(file, LengthDifference + 2, ByteCount)

\* zeros[n + 1] is twice the number behind the last code of length n, and
\* ones[n + 1] one more than the number of codes up to that length.
ReadTables ==
  LET Zeros[i \in 0..Len(ByteLengths)] ==
        IF i = 0 THEN 0 ELSE 2 * (Zeros[i - 1] + ByteLengths[i])
      Ones[i \in 0..Len(ByteLengths)] ==
        IF i = 0 THEN 1 ELSE Ones[i - 1] + ByteLengths[i]
  IN [zeros |-> [i \in 1..(Len(ByteLengths) + 1) |-> Zeros[i - 1]],
      ones |-> [i \in 1..(Len(ByteLengths) + 1) |-> Ones[i - 1]]]

\* "File size doesn't match data" and "Not enough data".
HeaderMissing == \/ Len(file) < MaxLengthInfo + 1
                 \/ Len(file) < LengthDifference + SymbolsLength + 1

\* The first byte is taken before any look at the size.
Unreadable == file = <<>>

ReadNothing ==
  /\ phase = "read"
  /\ Unreadable
  /\ phase' = "undefined"
  /\ UNCHANGED <<input, encoding, decoding>>

ReadHeader ==
  /\ phase = "read"
  /\ ~Unreadable
  /\ IF HeaderMissing
     THEN phase' = "error" /\ UNCHANGED tables
     ELSE phase' = "decode" /\ tables' = ReadTables
  /\ UNCHANGED <<input, encoding, index, length, code, result>>

-----------------------------------------------------------------------------
(***************************************************************************)
(* decodeStatic: the data                                                  *)
(***************************************************************************)
\* The bits forEachBit_n yields: the last byte's without its padding.
UsedBits ==
  IF Len(file) = ByteCount THEN 0 ELSE (Len(file) - ByteCount) * ValueBits - Padding

BitAt(i) ==
  Digits(file[ByteCount + 1 + ((i - 1) \div ValueBits)], ValueBits)[1 + ((i - 1) % ValueBits)]

DecodeBit ==
  /\ phase = "decode"
  /\ index <= UsedBits
  /\ index' = index + 1
  /\ LET n == length + 1
         c == 2 * code + BitAt(index)
         symbol == tables.ones[n] + c - tables.zeros[n] - 1
     IN IF c * 2 >= tables.zeros[n + 1]
        THEN length' = n /\ code' = c /\ UNCHANGED <<phase, result>>
        ELSE IF symbol >= SymbolsLength
        THEN phase' = "error" /\ UNCHANGED <<length, code, result>>
        ELSE /\ result' = Append(result, Symbols[symbol + 1])
             /\ length' = 0 /\ code' = 0
             /\ UNCHANGED phase
  /\ UNCHANGED <<input, encoding, tables>>

RevertModel ==
  /\ phase = "decode"
  /\ index > UsedBits
  /\ result' = Reverted(result, UseModel)
  /\ phase' = "done"
  /\ UNCHANGED <<input, encoding, tables, index, length, code>>

Step ==
  ApplyModel \/ Merge \/ SortCodes \/ WriteFile
    \/ ReadNothing \/ ReadHeader \/ DecodeBit \/ RevertModel

\* A run that stops anywhere else is a deadlock.
Done == phase \in {"done", "error", "undefined"} /\ UNCHANGED vars

Next == Step \/ LoseEnd \/ Done

\* One thread and no waiting: the program goes on while it can.
Spec == Init /\ [][Next]_vars /\ WF_vars(Step)

-----------------------------------------------------------------------------
(***************************************************************************)
(* Properties.                                                             *)
(***************************************************************************)
\* The types of the variables that others depend on.
TypeOK ==
  /\ input \in Seq(Value) /\ data \in Seq(Value) /\ result \in Seq(Value)
  /\ phase \in {"apply", "build", "write", "read", "decode", "done", "error", "undefined"}
  /\ codes \in Seq([symbol : Value, bits : Seq({0, 1})])
  /\ file \in Seq(Nat)
  /\ index \in Nat /\ length \in Nat /\ code \in Nat
  /\ lost \in BOOLEAN

\* The fewest samples a Huffman code of n bits takes: the nth but two of
\* Fibonacci's numbers.
FewestSamples(n) ==
  LET Fibonacci[i \in 0..n + 2] ==
        IF i < 2 THEN i ELSE Fibonacci[i - 1] + Fibonacci[i - 2]
  IN Fibonacci[n + 2]

Codec == INSTANCE LosslessCodec
  WITH Message <- Inputs,
       Defined <- LAMBDA m : Len(m) \in 1..(FewestSamples(IntBits) - 1),
       Remains <- IsPrefix,
       message <- input,
       readable <- ~(lost /\ file = <<>>),
       status <- CASE phase = "done" -> "returned"
                   [] phase = "error" -> "rejected"
                   [] phase = "undefined" -> "undefined"
                   [] OTHER -> "busy",
       decoded <- IF phase = "done" THEN result ELSE <<>>

\* The codec is lossless, whichever way heap and sort break ties, for all data
\* but none at all and data of 5702887 samples or more (with an int of 32 bits),
\* whose codes may be too long.  A file cut short is rejected or decoded to the
\* samples that are complete, but for one of which nothing is left, which decodeStatic
\* is not defined for either.  Every call returns.
ImplementsCodec == Codec!Spec

\* The canonical codes are still a prefix code, and a complete one: the decoder
\* recognises the end of every code, and no sequence of bits is without one.
CompletePrefixCode ==
  phase = "write" =>
    /\ \A i, j \in DOMAIN codes :
         IsPrefix(codes[i].bits, codes[j].bits) => i = j
    /\ SumFunction([i \in DOMAIN codes |-> 2 ^ (MaxCodeLength - Len(codes[i].bits))])
         = 2 ^ MaxCodeLength

\* The tables hold an entry for every length a code of the file can have, and
\* the padding is exact: the decoder never indexes `zeros` behind its end, and
\* the last bit in use ends a code unless the end of the file has been lost.
TablesCoverCodes ==
  /\ phase = "decode" => length < Len(tables.zeros) - 1
  /\ phase = "done" /\ ~lost => length = 0
=============================================================================
