--------------------------- MODULE AdaptiveCodec ---------------------------
(***************************************************************************)
(* The adaptive coder and its decoder: encodeAdaptive of                   *)
(* src/adaptive_encoding.h writes a stream of bits, decodeAdaptive of      *)
(* src/adaptive_decoding.h reads it, each with a tree of its own, so that  *)
(* they stay together only if both update it alike and the decoder knows   *)
(* at every bit which of its two states it is in.                          *)
(***************************************************************************)
EXTENDS CodingTree, Integers, SequencesExt

CONSTANTS
  ValueBits,    \* width of T: 8
  LiteralBits,  \* bits of a symbol sent for the first time: 9
  CellBits,     \* width of a cell of BinaryEncoder: 8
  UseModel,     \* NeighborDifferenceModel (-m), otherwise IdentityModel
  MaxLength     \* bound of the model: samples of the input

ValueCount == 2 ^ ValueBits
Value == 0..(ValueCount - 1)

ASSUME WidthAssumption ==
  /\ ValueBits \in Nat \ {0}
  /\ LiteralBits \in Nat /\ LiteralBits > ValueBits /\ LiteralBits > CellBits
  /\ CellBits \in Nat \ {0}
  /\ UseModel \in BOOLEAN
  /\ MaxLength \in Nat

INSTANCE Preprocessing
INSTANCE BitConversions

\* makeNYTAdaptive<T>: the symbols are the values of T.
ASSUME AlphabetAssumption ==
  Symbol = Value /\ Zero = 0 /\ RootOrder = 2 * ValueCount

VARIABLES
  input,     \* the caller's data
  data,      \* the data after the model has been applied in place
  phase,     \* "apply", "encode", "decode" or "done"
  index,     \* the next element of data or of stream to be handled
  coder,     \* tree, nytNode and symbolNodes of the encoder
  stream,    \* the bits written
  lost,      \* the end of stream has been lost
  decoder,   \* tree, nytNode and symbolNodes of the decoder
  node,      \* the node the decoder has walked down to
  state,     \* its State: "Tree" or "Value"
  literal,   \* inspectedCode
  stopped,   \* done
  result     \* the values decoded

vars == <<input, data, phase, index, coder, stream, lost, decoder, node,
          state, literal, stopped, result>>

encoding == <<data, coder, stream, lost>>
decoding == <<decoder, node, state, literal, stopped, result>>

Inputs == UNION {[1..n -> Value] : n \in 0..MaxLength}

Init ==
  /\ input \in Inputs
  /\ data = input
  /\ phase = "apply"
  /\ index = 1
  /\ coder = NewCoder
  /\ stream = <<>>
  /\ lost = FALSE
  /\ decoder = NewCoder
  /\ node = Root
  /\ state = "Value"
  /\ literal = <<>>
  /\ stopped = FALSE
  /\ result = <<>>

-----------------------------------------------------------------------------
\* The transform of encodeAdaptive's first line.
ApplyModel ==
  /\ phase = "apply"
  /\ data' = Applied(data, UseModel)
  /\ phase' = "encode"
  /\ UNCHANGED <<input, index, coder, stream, lost, decoding>>

-----------------------------------------------------------------------------
\* One turn of the loop of encodeAdaptive.
EncodeSymbol ==
  /\ phase = "encode"
  /\ index <= Len(data)
  /\ LET s == data[index]
     IN /\ stream' = stream \o
             (IF coder.cache[s] # Null
              THEN PathTo(coder.tree, coder.cache[s])
              ELSE PathTo(coder.tree, coder.nyt) \o TypeToBits(s, LiteralBits))
        /\ coder' = UpdateTree(coder, s)
  /\ index' = index + 1
  /\ UNCHANGED <<input, data, phase, lost, decoding>>

\* Mutant: no end mark.
EndMark_Missing == <<>>

\* PSEUDO_EOF as it is written: the path to NYT with no literal behind it.
EndMark == PathTo(coder.tree, coder.nyt)

\* The end mark is written and the cells are released.
EncodeEof ==
  /\ phase = "encode"
  /\ index > Len(data)
  /\ stream' = FillCell(stream \o EndMark)
  /\ phase' = "decode"
  /\ index' = 1
  /\ UNCHANGED <<input, data, coder, lost, decoding>>

-----------------------------------------------------------------------------
(***************************************************************************)
(* The decoder.                                                            *)
(***************************************************************************)
\* ~T{0}: the operand is promoted to int, so this is -1 and no value of T.
PSEUDO_EOF == -1

\* The node the decoder stands at after it has taken a bit.
Walk(bit) ==
  IF state = "Value" THEN node
  ELSE IF bit = 1 THEN decoder.tree.right[node] ELSE decoder.tree.left[node]

\* Mutant: the walk goes on one level up, at the parent before the update.
NextWalk_GoesUp(n) == decoder.tree.parent[n]

\* Where the walk to the next symbol starts, wherever the last one has ended.
NextWalk(n) == Root

\* What is left of the handling of a bit that led to node n and gave symbol s.
Emit(s, n) ==
  IF s = PSEUDO_EOF
  THEN stopped' = TRUE /\ node' = n /\ UNCHANGED <<decoder, result>>
  ELSE /\ decoder' = UpdateTree(decoder, s)
       /\ node' = NextWalk(n)
       /\ result' = Append(result, s)
       /\ UNCHANGED stopped

\* A bit that leads to a symbol's leaf.
DecodeLeaf(n) ==
  /\ IsLeaf(decoder.tree, n) /\ ~decoder.tree.isNYT[n]
  /\ Emit(decoder.tree.value[n], n)
  /\ UNCHANGED <<state, literal>>

\* A bit that leads to the NYT node, or a bit of the literal behind it.
DecodeNYT(n, bit) ==
  /\ decoder.tree.isNYT[n]
  /\ LET bits == IF state = "Value" THEN Append(literal, bit) ELSE literal
     IN IF Len(bits) = LiteralBits
        THEN /\ Emit(BinToIntegral(bits), n)
             /\ literal' = <<>>
             /\ state' = "Tree"
        ELSE /\ node' = n
             /\ literal' = bits
             /\ state' = "Value"
             /\ UNCHANGED <<decoder, result, stopped>>

\* A bit that leads to an internal node.
DecodeTurn(n) ==
  /\ ~IsLeaf(decoder.tree, n) /\ ~decoder.tree.isNYT[n]
  /\ node' = n
  /\ UNCHANGED <<decoder, state, literal, stopped, result>>

DecodeBit ==
  /\ phase = "decode"
  /\ index <= Len(stream)
  /\ index' = index + 1
  /\ IF stopped
     THEN UNCHANGED decoding
     ELSE LET bit == stream[index]
              n == Walk(bit)
          IN DecodeLeaf(n) \/ DecodeNYT(n, bit) \/ DecodeTurn(n)
  /\ UNCHANGED <<input, phase, encoding>>

\* The transform at the end of decodeAdaptive.
RevertModel ==
  /\ phase = "decode"
  /\ index > Len(stream)
  /\ result' = Reverted(result, UseModel)
  /\ phase' = "done"
  /\ UNCHANGED <<input, index, encoding, decoder, node, state, literal, stopped>>

\* The write of the file was cut short (nobody looks at its result): the file
\* ends after the cells that have been read.
LoseEnd ==
  /\ phase = "decode"
  /\ index <= Len(stream) /\ index % CellBits = 1
  /\ stream' = SubSeq(stream, 1, index - 1)
  /\ lost' = TRUE
  /\ UNCHANGED <<input, data, phase, index, coder, decoding>>

Step == ApplyModel \/ EncodeSymbol \/ EncodeEof \/ DecodeBit \/ RevertModel

\* A run that stops anywhere else is a deadlock.
Done == phase = "done" /\ UNCHANGED vars

Next == Step \/ LoseEnd \/ Done

\* One thread and no waiting: weak fairness of Step, with what ENABLED Step comes
\* to written out, since TLC evaluates no tree twice that way.
Fairness == []<>(phase = "done") \/ []<><<Step>>_vars

Spec == Init /\ [][Next]_vars /\ Fairness

-----------------------------------------------------------------------------
(***************************************************************************)
(* Properties.                                                             *)
(***************************************************************************)
Bits == Seq({0, 1})

Coder == [tree : Tree, nyt : Node, cache : [Value -> Node \cup {Null}]]

\* The types of the variables.
TypeOK ==
  /\ input \in Seq(Value) /\ data \in Seq(Value) /\ result \in Seq(Value)
  /\ phase \in {"apply", "encode", "decode", "done"}
  /\ index \in Nat
  /\ coder \in Coder /\ decoder \in Coder
  /\ stream \in Bits /\ literal \in Bits
  /\ node \in Node
  /\ state \in {"Tree", "Value"}
  /\ stopped \in BOOLEAN /\ lost \in BOOLEAN

Codec == INSTANCE LosslessCodec
  WITH Message <- Inputs,
       Defined <- LAMBDA m : TRUE,
       Remains <- IsPrefix,
       message <- input,
       readable <- TRUE,
       status <- IF phase = "done" THEN "returned" ELSE "busy",
       decoded <- IF phase = "done" THEN result ELSE <<>>

\* The codec is lossless: model, tree codes, literals, end mark and the zeros
\* that fill the last cell all cancel out, of a file cut short the symbols that
\* are complete are decoded, and every call returns.
ImplementsCodec == Codec!Spec

\* The two coders end with the same tree, NYT node and symbol nodes: neither
\* has made an update the other has not.
SameTree == phase = "done" /\ ~lost => decoder = coder

\* The end mark parks the decoder at the NYT node, and the bits that fill the
\* last cell are too few for a literal: they can never become a symbol.
ParkedAtNYT ==
  phase = "done" /\ ~lost => node = decoder.nyt /\ Len(literal) < CellBits

(***************************************************************************)
(* "adding PSEUDO_EOF" (src/adaptive_encoding.h:84), which the decoder     *)
(* compares every symbol with in order to stop (src/adaptive_decoding.h,   *)
(* lines 66 to 68): the decoder stops because it has seen the mark.        *)
(***************************************************************************)
StopsAtEof == phase = "done" /\ ~lost => stopped
=============================================================================
