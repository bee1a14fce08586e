----------------------------- MODULE BlockCodec -----------------------------
(***************************************************************************)
(* The adaptive coder that scans an image block by block and its decoder:  *)
(* encodeImageAdaptiveBlocks of src/adaptive_blocks_encoding.h writes a    *)
(* header, then for every block its scan method and its symbols, then an   *)
(* end mark; decodeImageAdaptiveBlocks of src/adaptive_blocks_decoding.h   *)
(* must know for every bit which of these it belongs to.                   *)
(***************************************************************************)
EXTENDS CodingTree, ImageBlocks, BlockScan

CONSTANTS
  LiteralBits,  \* bits of a symbol sent for the first time: 9
  CellBits,     \* width of a cell of BinaryEncoder, and of a byte: 8
  Images        \* bound of the model: records of a width and the data read

DimensionCount == 2 ^ (2 * CellBits)   \* of uint16_t: 65536

\* A height is narrowed to its field of the header.  If the rows that are left end
\* within a block, encoder and decoder do not agree on what lies outside of the
\* image, which their models pass over: they part.
RowsKept(height) == height % DimensionCount
KeepsBlocks(height) ==
  ~UseModel \/ RowsKept(height) = height \/ RowsKept(height) % BlockHeight = 0

(***************************************************************************)
(* Every method suits the blocks, and the width is that of the data (-w)   *)
(* and fits its field of the header: one of 65536 is written as 0, which   *)
(* the decoder would divide by.                                            *)
(***************************************************************************)
ASSUME ImageAssumption ==
  /\ ValueBits \in Nat \ {0} /\ CellBits \in Nat \ {0}
  /\ LiteralBits \in Nat /\ LiteralBits > ValueBits
  /\ BlockWidth = BlockHeight /\ \E m \in 1..BlockWidth : BlockWidth = 2 ^ m
  /\ BlockWidth < 2 ^ CellBits
  /\ UseModel \in BOOLEAN
  /\ \A image \in Images :
       /\ image.width \in 1..(DimensionCount - 1) /\ image.data \in Seq(Value)
       /\ KeepsBlocks(Height(Len(image.data), image.width))

INSTANCE BitConversions

\* makeNYTAdaptive<T>: the symbols are the values of T.
ASSUME AlphabetAssumption ==
  Symbol = Value /\ Zero = 0 /\ RootOrder = 2 * ValueCount

VARIABLES
  image,    \* the width and the data
  pixels,   \* the memory the view reads: the data and what is behind it
  phase,    \* "start", "block", "scan", "decode" or "done"
  block,    \* blockIndex of the encoder
  symbols,  \* what the iterator of the block has still to yield
  coder,    \* tree, nytNode and symbolNodes of the encoder
  stream,   \* the bits written
  lost,     \* the end of stream has been lost
  index,    \* the next bit to be read
  decoder,  \* tree, nytNode and symbolNodes of the decoder
  node,     \* the node the decoder has walked down to
  literal,  \* inspectedCode
  ctx,      \* DecodeContext but for blockScanData, with the bytes of headerBuilder
  stopped,  \* done
  result    \* the image decoded

vars == <<image, pixels, phase, block, symbols, coder, stream, lost, index,
          decoder, node, literal, ctx, stopped, result, scan, visited>>

encoding == <<image, pixels, block, symbols, coder, stream, lost>>
decoding == <<index, decoder, node, literal, ctx, stopped, result, scan, visited>>

ImageHeight == Height(Len(image.data), image.width)

NoBits == [i \in 1..3 |-> 0]

NewContext ==
  [state |-> "ImageHeader", header |-> <<>>, bitsRead |-> 0, methodBits |-> NoBits,
   blockIndex |-> 0, symbolCounter |-> 0,
   lastVal |-> 0, isFirstBlock |-> TRUE]

\* An incomplete last row is read beyond the end of the data, where anything
\* may be.
Init ==
  /\ image \in Images
  /\ \E beyond \in [1..(image.width * ImageHeight - Len(image.data)) -> Value] :
       pixels = image.data \o beyond
  /\ phase = "start"
  /\ block = 0
  /\ symbols = <<>>
  /\ coder = NewCoder
  /\ stream = <<>>
  /\ lost = FALSE
  /\ index = 1
  /\ decoder = NewCoder
  /\ node = Root
  /\ literal = <<>>
  /\ ctx = NewContext
  /\ ScanInit
  /\ stopped = FALSE
  /\ result = <<>>

-----------------------------------------------------------------------------
(***************************************************************************)
(* The encoder.                                                            *)
(***************************************************************************)
\* typeToBits of an uint16_t: its bytes in the order they have in memory.
Word(n) == TypeToBits(n, CellBits) \o TypeToBits(n \div 2 ^ CellBits, CellBits)

WriteHeader ==
  /\ phase = "start"
  /\ stream' = Word(image.width) \o Word(ImageHeight)
                 \o TypeToBits(BlockWidth, CellBits) \o TypeToBits(BlockHeight, CellBits)
  /\ phase' = "block"
  /\ UNCHANGED <<image, pixels, block, symbols, coder, lost, decoding>>

\* The scanner's iterator is dereferenced: the method of the block is written.
BeginBlock ==
  /\ phase = "block"
  /\ block < BlockCount(image.width, ImageHeight)
  /\ LET start == StartPosForBlock(block, image.width)
         best == BestMethod(pixels, image.width, ImageHeight, start)
     IN /\ stream' = stream \o TypeToBits(best - 1, 3)
        /\ symbols' =
             BlockSymbols(pixels, image.width, ImageHeight, start, ScanMethods[best])
  /\ phase' = "scan"
  /\ UNCHANGED <<image, pixels, block, coder, lost, decoding>>

EncodeSymbol ==
  /\ phase = "scan"
  /\ symbols # <<>>
  /\ LET s == Head(symbols)
     IN /\ stream' = stream \o
             (IF coder.cache[s] # Null
              THEN PathTo(coder.tree, coder.cache[s])
              ELSE PathTo(coder.tree, coder.nyt) \o TypeToBits(s, LiteralBits))
        /\ coder' = UpdateTree(coder, s)
  /\ symbols' = Tail(symbols)
  /\ UNCHANGED <<image, pixels, phase, block, lost, decoding>>

EndBlock ==
  /\ phase = "scan"
  /\ symbols = <<>>
  /\ block' = block + 1
  /\ phase' = "block"
  /\ UNCHANGED <<image, pixels, symbols, coder, stream, lost, decoding>>

\* Mutant: no end mark.
EndMark_Missing == <<>>

\* A scan method that does not exist.
EndMark == TypeToBits(7, 3)

EndImage ==
  /\ phase = "block"
  /\ block = BlockCount(image.width, ImageHeight)
  /\ stream' = FillCell(stream \o EndMark)
  /\ phase' = "decode"
  /\ UNCHANGED <<image, pixels, block, symbols, coder, lost, decoding>>

-----------------------------------------------------------------------------
(***************************************************************************)
(* The decoder.                                                            *)
(***************************************************************************)
\* ImageHeaderBuilder's fields; a word has its low byte first.
FieldWidth == ctx.header[1] + 2 ^ CellBits * ctx.header[2]
FieldHeight == ctx.header[3] + 2 ^ CellBits * ctx.header[4]
SymbolsInBlock == ctx.header[5] * ctx.header[6]

Byte(first) ==
  LET Partial[i \in 0..CellBits] ==
        IF i = 0 THEN 0 ELSE 2 * Partial[i - 1] + stream[first + i - 1]
  IN Partial[CellBits]

\* A byte of the header; the last one gives the result its size.
ReadHeaderByte ==
  /\ phase = "decode"
  /\ ctx.state = "ImageHeader"
  /\ index <= Len(stream)
  /\ index' = index + CellBits
  /\ LET bytes == Append(ctx.header, Byte(index))
     IN ctx' = [ctx EXCEPT !.header = bytes,
                           !.state = IF Len(bytes) = 6 THEN "BlockHeader" ELSE @]
  /\ result' = IF ctx'.state = "BlockHeader"
               THEN [i \in 1..(FieldWidth' * FieldHeight') |-> 0] ELSE result
  /\ UNCHANGED <<phase, encoding, decoder, node, literal, scan, visited, stopped>>

\* Mutant: the model goes on from block to block.
FreshVal_Kept(c) == c.lastVal

\* lastVal of the fresh model a block is given.
FreshVal(c) == 0

\* The header of a block has been read.  The first block finds the decoder at
\* an NYT root: the next bit is the first of a literal.
StartBlock(c) ==
  [c EXCEPT !.bitsRead = 0,
            !.state = IF c.isFirstBlock THEN "Value" ELSE "Tree",
            !.isFirstBlock = FALSE,
            !.lastVal = FreshVal(c)]

\* A bit of the method of the next block, or of the end mark.
ReadMethodBit(bit) ==
  LET read == ctx.bitsRead + 1
      bits == IF bit = 1 THEN [ctx.methodBits EXCEPT ![read] = 1] ELSE ctx.methodBits
      method == 4 * bits[1] + 2 * bits[2] + bits[3]
      buffered == [ctx EXCEPT !.bitsRead = read, !.methodBits = bits]
  IN /\ ctx.state = "BlockHeader"
     /\ IF read = 3 /\ method # 7
          THEN ctx' = StartBlock(buffered) /\ Restart(ScanMethods[method + 1])
          ELSE ctx' = buffered /\ UNCHANGED <<scan, visited>>
     /\ stopped' = (read = 3 /\ method = 7)
     /\ UNCHANGED <<decoder, node, literal, result>>

\* The node the decoder stands at after it has taken a bit.
Walk(bit) ==
  IF ctx.state = "Value" THEN node
  ELSE IF bit = 1 THEN decoder.tree.right[node] ELSE decoder.tree.left[node]

\* Mutant: the symbols are not counted from zero again.
EndBlockContext_KeepsCounter(c) ==
  [c EXCEPT !.state = "BlockHeader", !.methodBits = NoBits, !.blockIndex = @ + 1]

\* Mutant: the bits of the scan method are not cleared.
EndBlockContext_KeepsBits(c) ==
  [c EXCEPT !.symbolCounter = 0, !.state = "BlockHeader", !.blockIndex = @ + 1]

\* The symbols of the block are complete.
EndBlockContext(c) ==
  [c EXCEPT !.symbolCounter = 0, !.state = "BlockHeader", !.methodBits = NoBits,
            !.blockIndex = @ + 1]

\* A symbol has been read; state is the one the bits have led to, and bits are what
\* is left of inspectedCode.
TakeSymbol(s, state, bits) ==
  LET pos == PosInImage(StartPosForBlock(ctx.blockIndex, FieldWidth), scan.pos)
      inside == IsInside(pos, FieldWidth, FieldHeight)
      value == Revert(s, ctx.lastVal)
      counted == [ctx EXCEPT !.state = state,
                             !.symbolCounter = @ + 1,
                             !.lastVal = IF inside THEN value ELSE @]
  IN /\ decoder' = UpdateTree(decoder, s)
     /\ Advance
     /\ node' = Root
     /\ literal' = bits
     /\ result' = IF inside THEN [result EXCEPT ![Address(pos, FieldWidth)] = value]
                  ELSE result
     /\ ctx' = IF counted.symbolCounter = SymbolsInBlock
               THEN EndBlockContext(counted) ELSE counted

\* A bit that leads to a symbol's leaf.
DecodeLeaf(n) ==
  /\ IsLeaf(decoder.tree, n) /\ ~decoder.tree.isNYT[n]
  /\ TakeSymbol(decoder.tree.value[n], ctx.state, literal)

\* A bit that leads to the NYT node, or a bit of the literal behind it.
DecodeNYT(n, bit) ==
  /\ decoder.tree.isNYT[n]
  /\ LET bits == IF ctx.state = "Value" THEN Append(literal, bit) ELSE literal
     IN IF Len(bits) = LiteralBits
        THEN TakeSymbol(BinToIntegral(bits), "Tree", <<>>)
        ELSE /\ node' = n
             /\ literal' = bits
             /\ ctx' = [ctx EXCEPT !.state = "Value"]
             /\ UNCHANGED <<decoder, scan, visited, result>>

\* A bit that leads to an internal node.
DecodeTurn(n) ==
  /\ ~IsLeaf(decoder.tree, n) /\ ~decoder.tree.isNYT[n]
  /\ node' = n
  /\ UNCHANGED <<decoder, literal, ctx, scan, visited, result>>

\* A bit of a symbol.
ReadSymbolBit(bit) ==
  /\ ctx.state \in {"Tree", "Value"}
  /\ LET n == Walk(bit) IN DecodeLeaf(n) \/ DecodeNYT(n, bit) \/ DecodeTurn(n)
  /\ UNCHANGED stopped

DecodeBit ==
  /\ phase = "decode"
  /\ ctx.state # "ImageHeader"
  /\ index <= Len(stream)
  /\ index' = index + 1
  /\ IF stopped
     THEN UNCHANGED <<decoder, node, literal, ctx, scan, visited, stopped, result>>
     ELSE ReadMethodBit(stream[index]) \/ ReadSymbolBit(stream[index])
  /\ UNCHANGED <<phase, encoding>>

Return ==
  /\ phase = "decode"
  /\ index > Len(stream)
  /\ phase' = "done"
  /\ UNCHANGED <<encoding, decoding>>

\* The write of the file was cut short (nobody looks at its result): the file
\* ends after the bytes that have been read.
LoseEnd ==
  /\ phase = "decode"
  /\ index <= Len(stream) /\ index % CellBits = 1
  /\ stream' = SubSeq(stream, 1, index - 1)
  /\ lost' = TRUE
  /\ UNCHANGED <<image, pixels, phase, block, symbols, coder, decoding>>

Step ==
  WriteHeader \/ BeginBlock \/ EncodeSymbol \/ EndBlock \/ EndImage
    \/ ReadHeaderByte \/ DecodeBit \/ Return

\* A run that stops anywhere else is a deadlock.
Done == phase = "done" /\ UNCHANGED vars

Next == Step \/ LoseEnd \/ Done

\* One thread and no waiting: weak fairness of Step, with what ENABLED Step comes
\* to written out, since TLC evaluates no tree twice that way.
Fairness == []<>(phase = "done") \/ []<><<Step>>_vars

Spec == Init /\ [][Next]_vars /\ Fairness

-----------------------------------------------------------------------------
(***************************************************************************)
(* Properties.                                                             *)
(***************************************************************************)
Bits == Seq({0, 1})

Coder == [tree : Tree, nyt : Node, cache : [Value -> Node \cup {Null}]]

Context ==
  [state : {"ImageHeader", "BlockHeader", "Tree", "Value"},
   header : Seq(0..(2 ^ CellBits - 1)), bitsRead : 0..3, methodBits : [1..3 -> {0, 1}],
   blockIndex : Nat, symbolCounter : 0..(BlockSize - 1),
   lastVal : Value, isFirstBlock : BOOLEAN]

\* The types of the variables.
TypeOK ==
  /\ image \in Images /\ pixels \in Seq(Value) /\ result \in Seq(Value)
  /\ phase \in {"start", "block", "scan", "decode", "done"}
  /\ block \in Nat /\ index \in Nat
  /\ symbols \in Seq(Value)
  /\ coder \in Coder /\ decoder \in Coder
  /\ stream \in Bits /\ literal \in Bits
  /\ node \in Node
  /\ ctx \in Context
  /\ ScanTypeOK
  /\ stopped \in BOOLEAN /\ lost \in BOOLEAN

\* The image in whole rows: the data, then whatever was behind it in memory up to
\* the end of the last row.  Of an image too high for its field of the header
\* only the first rows are kept, as many as the narrowed height says.
WholeRows == SubSeq(pixels, 1, image.width * RowsKept(ImageHeight))

\* Every pixel is the one of the image or has never been written.
PartlyDrawn(drawn, whole) ==
  \/ drawn = <<>>
  \/ /\ DOMAIN drawn = DOMAIN whole
     /\ \A a \in DOMAIN whole : drawn[a] \in {whole[a], 0}

Codec == INSTANCE LosslessCodec
  WITH Message <- Seq(Value),
       Defined <- LAMBDA m : TRUE,
       Remains <- PartlyDrawn,
       message <- WholeRows,
       readable <- TRUE,
       status <- IF phase = "done" THEN "returned" ELSE "busy",
       decoded <- IF phase = "done" THEN result ELSE <<>>

\* The codec is lossless: what it decodes is the image in whole rows, and of a file
\* cut short anywhere an image of the same size whose pixels are right or zero.
\* Every call returns.
ImplementsCodec == Codec!Spec

\* The decoder uses its scan as BlockScan has it used: it neither moves behind the
\* end of a block nor leaves a block before its end, so that what is said there
\* of the scan is true of the decoder's.
ScansBlocks == ScanSpec

\* Position p of the image belongs to one of the first n blocks.
InFirstBlocks(p, n) ==
  \E b \in 0..(n - 1) :
    LET start == StartPosForBlock(b, FieldWidth)
    IN p.x - start.x \in 0..(BlockWidth - 1) /\ p.y - start.y \in 0..(BlockHeight - 1)

\* Between two blocks the pixels of the blocks read are those of the image and
\* all others are still zero: no block spills into another, wherever its scan
\* has led and however much of it lies outside.
BlocksRestored ==
  phase = "decode" /\ ctx.state = "BlockHeader" =>
    \A x \in 0..(FieldWidth - 1), y \in 0..(FieldHeight - 1) :
      LET p == At(x, y)
          a == Address(p, FieldWidth)
      IN result[a] = IF InFirstBlocks(p, ctx.blockIndex) THEN pixels[a] ELSE 0

\* Between two blocks nothing is left of the last one: the walk is back at the
\* root, no bit of a literal is pending, the scan is at its end, and the bits
\* of the next scan method start from zeros.
CleanBetweenBlocks ==
  ctx.state = "BlockHeader" /\ ctx.bitsRead = 0 =>
    /\ node = Root /\ literal = <<>>
    /\ ctx.symbolCounter = 0 /\ ctx.methodBits = NoBits
    /\ ctx.blockIndex > 0 => scan.index = BlockSize

\* The end mark is recognised, by the decoder that has read as many blocks as
\* were written, and only zeros that fill a cell are behind it.
StopsAtEndMark ==
  /\ phase = "done" /\ ~lost => stopped
  /\ stopped => ctx.blockIndex = block /\ Len(stream) - index < CellBits - 1
=============================================================================
