# A verification project for kko_grayscale_compression

The repository is a command line program that compresses grayscale images with
Huffman codes: a static coder, an adaptive one, and an adaptive one that walks
the image in blocks. This directory holds TLA+ models of its core, the TLC
configurations that check them and proofs that TLAPS checks. Source lines are
quoted as `src/<file>:<line>`.

## 1. The system

| component | state | operations | interacts with |
|---|---|---|---|
| coding tree nodes (`Tree.h`, `EncodingTreeData.h`) | nodes owned by `unique_ptr` from the parent, a raw parent pointer, weight, order, NYT mark, value | `makeLeft`, `makeRight`, `swapNodes` | called by the tree update |
| adaptive tree update (`adaptive_common.h`) | tree, NYT node, `symbolNodes` (a raw pointer to the leaf of each value) | `updateTree`, `slideAndIncrement`, `findNodeForSwap` | called by the adaptive and the block codec after every symbol |
| adaptive codec (`adaptive_encoding.h`, `adaptive_decoding.h`) | a tree on each side; the decoder's node, state and bits of the current literal | `encodeAdaptive`, `decodeAdaptive` | model, bit writer, tree update |
| static codec (`static_encoding.h`, `static_decoding.h`, `constants.h`) | histogram, heap, codes, header; the decoder's tables | `encodeStatic`, `decodeStatic` | model, bit writer |
| preprocessing models (`models.h`) | the last value | `apply`, `revert` | every codec |
| bit writer (`BinaryEncoder.h`) | cells and a count of bits | `pushBack`, `setBitValue`, `resize`, `addPadding`, `releaseData` | every encoder |
| bit and heap utilities (`utils.h`) | none | conversions between values and bits, heap helpers, minmax | every codec |
| image traversal (`image_traversal.h`) | none | zig-zag, rows, columns, Hilbert, Morton | image scanner |
| image scanner (`AdaptiveImageScanner.h`, `View2D.h`, `block_scorers.h`) | position, block, model | the scan of a block by the best-scored method | block codec |
| block codec (`adaptive_blocks_encoding.h`, `adaptive_blocks_decoding.h`) | as the adaptive codec, and the scan method of every block | `encodeImageAdaptiveBlocks` and its decoder of four states | scanner, tree update |
| program (`main.cpp`), reader (`RawGrayscaleImageDataReader.h`) and argument checks (`args/`) | the files of the user; arguments, data read, result | check the arguments, read the input, truncate the output, run a codec, write the result | codecs, files |
| benchmark driver (`bench.cpp`) | the files read, the copy given to a coder, the lines printed | `testValidity`: every file through six coders and back | codecs |
| manual test (`test.cpp`), third-party code (`libs/`) | | | |

The program is sequential: there are no threads, callbacks that re-enter, or
messages. What is hard about it is of another kind.

* **Long legal sequences.** The adaptive tree is restructured by local swaps for
  as long as there is input. Whether the code is right after a million symbols
  depends on invariants the source never states (the sibling property), and the
  search for a swap partner looks at the *candidate of the moment*
  (`src/adaptive_common.h:33`), `swapNodes` may silently refuse
  (`src/Tree.h:152`) and the orders are exchanged in either case
  (`src/adaptive_common.h:50`).
* **Stale pointers.** `symbolNodes` and `nytNode` are raw pointers into a tree
  that is rearranged all the time.
* **Two machines in step.** Encoder and decoder never exchange their trees. One
  update more or less, or one bit attributed to the wrong state of the decoder,
  and everything behind it is garbage.
* **Boundaries.** Orders are unsigned and count down to 0 with the 256th value;
  differences wrap around; 256 codes of length 8 are written as the byte 0; a
  full last cell has "8 bits of padding", which are shifted out of the byte.
* **Files and faults.** The output is truncated before the codec runs
  (`src/main.cpp:191`), it may be the input, and nobody looks at the result of a
  write (`src/main.cpp:196`): a run that is killed, or finds no room, leaves a part
  of a file behind, or an empty one, which a later run decodes. Nobody looks whether
  the input could be opened either (`src/RawGrayscaleImageDataReader.h:70`).
* **Undefined corners.** Data of no samples, and codes as long as an `int`, have no
  meaning in the static coder, nor has a file without a byte in its decoder
  (`src/static_decoding.h:33`); which inputs lead there has to be known.
* **Nondeterminism of the library.** Which of several lightest trees a heap
  yields, and how `std::sort` orders codes of one length, is not specified.

What makes each component correct:

* *tree update*: links stay a tree; weights add up; orders rank the nodes and
  follow the weights; the tree is a Huffman tree of the counts after every
  symbol; the cache is current; every call ends.
* *adaptive codec*: what is decoded is what was encoded, at the end and at
  every bit before it, and both trees are equal at the end.
* *static codec*: lossless, whichever way ties are broken; the codes are a
  complete prefix code of the least total length; the decoder accepts what the
  coder writes and never indexes behind its tables.
* *bit writer*: it is a sequence of bits, released in whole cells, with zeros
  behind the last bit.
* *traversal*: a scan visits every position of a block once, and the decoder,
  which moves step by step, is where the encoder's iterator is, which computes
  its position from an index.
* *block codec*: lossless for images of any size the header can hold; a block
  leaves nothing behind that the next one reads; the end mark is told from a
  scan method.
* *every codec*: a file that has lost its end is rejected or decoded to a part of
  what was encoded, and every call returns; but the static decoder is not defined
  for a file of which nothing is left.
* *program*: but for a run that was killed, could not read or could not write, the
  output is the input converted as the options say, even if both are one file; no other file is
  touched; every run ends.
* *benchmark driver*: what it prints about the coders is true of them.

## 2. The modules

The modules come in three layers: values without state (`HuffmanTree`,
`CodingTree`, `Preprocessing`, `BitConversions`, `ImageTraversal`, `ImageBlocks`),
machines built from them (`TreeUpdate`, `BinaryEncoder`, `BlockScan`, the three
codecs), and the programs that call codecs (`App`, `Validation`). Four abstract
specifications say what a layer promises to the one above, and the layer is shown
to implement it: `FrequencyTable` (the tree), `BitString` (the writer),
`LosslessCodec` (each codec) and `FileConversion` (the program). `CodecPromise`
states what `LosslessCodec` promises as a function of whole files, for the
programs.

### HuffmanTree - trees as values

A tree is a record of functions over a pool of node identities, numbered in the
order of their allocation: `left`, `right`, `parent` are pointers, `weight`,
`order`, `isNYT`, `value` the fields of `AdaptiveEncodingTreeData`. The root is
node 1 and stays so (nothing swaps the root). The module has no variables; its
operators are the operations of the source: `NewTree` (`makeNYTAdaptive` as a
root), `SplitNYT` (the first half of `updateTree`), `SwapNodes` with its refusal
`CanSwap`, `BetterToSwap` (the condition of `findNodeForSwap`) and `SlideNode`
(swap, exchange of orders, increment).

### TreeInvariants - what is true of a tree

The invariants of a tree as predicates of any tree, NYT node and cache: links, sums
of weights, ranking, sibling property, and so on, also while `slideAndIncrement` is on
its way up. `Built` and `Ranked` are the two bundles of them, `Eligible` and `Leads`
say which node a search may and has to return. `TreeUpdate` states its invariants
with them, and the proofs use them for trees that are not variables.

### TreeUpdate - updateTree, step by step

One call of `updateTree` is a sequence of steps: `UpdateKnown` or `UpdateNew`
starts it, `Visit` is one call of `findNodeForSwap` (the recursion is an explicit
stack `toVisit` of nodes in preorder, `candidate` is `inspectedNode`), and
`Slide` is the rest of `slideAndIncrement`, which then starts over with the
parent. `node = Null` between calls. The steps exist so that invariants can speak
of the states in between, where a child has been incremented and its parent
has not. `FrequencyTable` is what the tree promises to its caller, a table of
counts and a total, and `ImplementsTable` states that the tree implements it
under the mapping "frequency is the weight of the symbol's leaf, total is the
weight of the root". `MCTreeUpdate` compares the weight of the internal nodes, which
is what the paths of the tree cost, with `PrefixCodes` (`CodeIsOptimal`).

### CodingTree and TreeCalls - updateTree as functions

`CodingTree` has the same calls as recursive functions, for modules with several
trees, and `PathTo` (`getPathToSymbol`). `Search` is `findNodeForSwap` as the code
writes it, a function of the node and of the candidate so far; `Turns` are the calls
`slideAndIncrement` makes of itself. `TreeCalls` runs them side by side with
`TreeUpdate`, and `StepsAgree` says that they return the same coder.

### Preprocessing - the models

`Applied` and `Reverted`: differences to the neighbour modulo the number of
values, and their sums, or nothing.

### LosslessCodec - what a codec promises

A caller has a message encoded; the file may lose its end (`LoseEnd`); the call
returns the message, or, if the end was lost, something that `Remains` of it, or
rejects the file; only messages for which the code is not `Defined`, and files that
are no longer `readable`, may come to undefined behaviour; every call ends. The three
codecs implement it (`ImplementsCodec` in each) with parameters of their own:

| codec | `Defined` | `Remains` | `readable` |
|---|---|---|---|
| adaptive | every message | a prefix | always |
| static | at least one sample, and fewer than can make a code of the width of an `int` | a prefix | unless nothing is left of the file |
| block | every image (in whole rows, as high as its header says) | the image with pixels missing, or nothing | always |

### AdaptiveCodec - encodeAdaptive and decodeAdaptive

Phases `apply` (the model), `encode` (one symbol per step, then the end mark and
the zeros that fill the last cell), `decode` (one bit per step, `DecodeLeaf`,
`DecodeNYT` or `DecodeTurn`, states `Tree` and `Value`), `done`. The decoder
begins in state `Value`, at a tree of one NYT node. `LoseEnd` lets the file end
after any cell that the decoder has read. A run that gets stuck anywhere but in
`done` is a deadlock, and deadlock is checked.

### StaticCodec - encodeStatic and decodeStatic

`Merge` takes *any* two lightest trees, `SortCodes` *any* order of codes of one
length: the properties hold for every standard library. A subtree is kept as the
set of its leaves with their depths, since only depths are used. Canonical
codes, the header with its narrowed bytes, the tables `zeros` and `ones` and the
decoding bit by bit follow the source line by line. Phase `undefined` is where C++
gives the code no meaning: the front of an empty heap (`src/static_encoding.h:68`),
a canonical code that does not fit an `int` of `IntBits`
(`src/static_encoding.h:139`), and the first byte of a file that has none
(`ReadNothing`, `src/static_decoding.h:33`). The abstract codec says for which data
alone the first two may happen, none and so many: a Huffman code of *n* bits takes as
many samples as a Fibonacci number says (`FewestSamples`), 5702887 for the 32 bits of an
`int`. `LoseEnd` cuts the file after any of its bytes, or before the first. `MCStaticCodec`
compares the length of the body with
`PrefixCodes` (`ShortestBody`).

### PrefixCodes - how short codes can be

A reference of which the code knows nothing: `PrefixLengths` are the lengths that
satisfy Kraft's inequality, that is those for which there is a prefix code (for TLC,
of at most *n* - 1 bits for *n* > 1 symbols; the proofs first show that a code is the
shortest among those of any length), and `LeastCost` the fewest bits in which symbols
that occur so often can be written.

### BinaryEncoder and BitString

The writer with its cells, count and the loop of `addPadding` (one bit per step,
its bound evaluated again after each), and the sequence of bits it implements.
`resized` remembers a call of `resize`, after which bits behind the end of the data
may be ones (`resize` fills new cells only, and does not clear the rest of the last
one it keeps); no coder calls it. The code writes 8 and 7 where it means the width of a
cell: only with `CellBits` = 8 is the model the program's, the smaller cells of the
`encoder` run are the same machine at a size TLC can exhaust.

### BitConversions

What both adaptive codecs use of `utils.h` and of the writer: the bits of a value
(`TypeToBits`), the value of bits (`BinToIntegral`), and the zeros behind the last
bit of the last cell (`FillCell`).

### ImageTraversal and BlockScan - the order of positions in a block

`ImageTraversal` has no variables. Rows, columns, Hilbert's curve and Morton's are
functions of an index (the Hilbert loop with all its surplus turns); zig-zag is
an automaton with the states of the code. `IteratorPos` is the position of the
encoder's `Block::Iterator`, `ResetScan` and `MoveScan` are `BlockScanData` of the
decoder. `BlockScan` lets the decoder scan block after block by any methods
(`Reset`, `Move`) and keeps the positions visited as a history variable. `BlockCodec`
uses it: its decoder resets (`Restart`) and moves (`Advance`) that scan, and `ScansBlocks`
says that it does so only when `BlockScan` allows it.

### ImageBlocks and BlockCodec - the codec of images

`ImageBlocks` holds the geometry (`BlockCount`, `StartPosForBlock`, `PosInImage`,
rounded up as in the code), the symbols the iterator of a block yields
(`BlockSymbols`: pixels outside of the image are symbols 0 that the model does not
see), the score of a method (`Variation`) and the choice (`BestMethod`, the first of
several best ones). `BlockCodec` composes it with `CodingTree`, `BlockScan` and
`BitConversions`. The encoder's actions are `WriteHeader`, `BeginBlock`,
`EncodeSymbol`, `EndBlock` and `EndImage`; the decoder reads the header a byte at a
time (`ReadHeaderByte`) and everything else bit by bit (`DecodeBit`, that is
`ReadMethodBit` or `ReadSymbolBit`, in the states `ImageHeader`, `BlockHeader`,
`Tree` and `Value`). `ctx` is the source's `DecodeContext`. An incomplete last row is
read from memory behind the data, which `Init` fills with any values; `LoseEnd` is
that of `AdaptiveCodec`. `MCBlockCodec` builds the images.

### CodecPromise - files as the programs see them

A file is known by its history: the coder that made it and of what, or no coder
(an image, or `Other` bytes), and whether its end was lost. `EncodeOutcomes` and
`DecodeOutcomes` are what a call of a coder on such a file may come to: by
`LosslessCodec` the one file it should be, any bytes for a file cut short or of another
coder, an error, which only the static decoder returns, or a crash where the code is
undefined. Widths are abstracted, and images are within the limits of the coders.

### App and FileConversion - main.cpp

`App` is a run of the program as the steps between which a crash matters:
`ParseArgs` (with its ways out `PrintUsage`, for exceptions of the parser, and
`ThrowFromStoi`, for those of `std::stoi`, which nothing catches: `src/main.cpp:65`),
`ReadInput` (`readAllRaw`), `OpenOutput` (which truncates, or fails unseen),
`RunCodec` or `CodecCrash`, then `PrintError` or `WriteOutput`. `EncodeFnc` and
`DecodeFnc` are the choices of `getEncodeFnc` and `getDecodeFnc`. Faults are
`Kill` between any two steps, an input or an output that cannot be opened, and
`LoseWrite`. Runs follow one another on the same files, so that one reads what another
has left. `before` and `fault` are history, for the refinement.

`FileConversion` is what someone sees who looks at the files between two runs: a
request is refused, or its output becomes in one step an outcome of its input (or
empty, if decoding failed), or of no bytes (`Misread`: the input could not be read and
passes for an empty one), or it is spoilt by a fault: left alone, empty, or cut short. A
file that is read or any third one never changes.

### Validation - bench --validate

`ReadFile` adds the files of the folder in any order, `StartFiles` sorts them, and
`Encode` and `Decode` are the two halves of a turn of `testValidity`. `d` is the
copy that coders with a model overwrite (`InPlace`) and `Refilled` the fresh
copy of the next turn.

### The proofs

`CodingTreeProofs` and `TreeUpdateProofs` are about the tree, `AdaptiveCodecProofs`,
`StaticCodecProofs`, `BlockScanProofs`, `BlockCodecProofs`, `WriterProofs` and
`ProgramProofs` (the two programs) about what their names say. `CodingTreeProofs` begins
with what the codecs' proofs share: induction over the naturals, functions by recursion,
powers of two and binary digits, sums, and Huffman's theorem. They are described in
section 5.

## 3. The runs

| run | what it checks | bounds |
|---|---|---|
| `tree_update` | all invariants of `TreeUpdate`, the optimality of the code between calls, and agreement with the recursive functions | 5 symbols, 8 observations, symmetry in the symbols other than `Zero` |
| `tree_live` | every call returns; the tree implements the frequency table, its fairness included | 3 symbols, 6 observations, no symmetry |
| `tree_vitter` | *violated*: the tree is not Vitter's | 3 symbols, 4 observations |
| `adaptive_codec` | implements `LosslessCodec`; equal trees, parked at NYT at the end | 2-bit samples, inputs of 0 to 6, the file cut at any cell |
| `adaptive_eof` | *violated*: the decoder never sees an end mark | 2-bit samples, inputs of 0 to 2 |
| `static_codec` | implements `LosslessCodec`; complete prefix code, tables large enough and padding exact, body of the least length | 2-bit samples, inputs of 0 to 5, all ties, an `int` of 3 bits, the file cut after any byte or to none |
| `block_scan` | every position visited once, by decoder and encoder at the same index; zig-zag and Hilbert never jump | blocks of 8 by 8, as in the code, any sequence of methods |
| `block_codec` | implements `LosslessCodec`, block by block; nothing left between blocks; stops at the end mark; scans blocks as `BlockScan` says | blocks of 4 by 4, 2-bit pixels, cells of 3 bits, the images of `MCImages`, the file cut at any cell |
| `app` | implements `FileConversion` | two files, which may be one, two runs with all options, any fault |
| `validation` | the report is true, complete when it ends, and it ends | three files, six coders, any order of reading |
| `encoder` | the writer implements `BitString`; cells match the count | cells of 4 bits, up to 12 bits, all operations |
| `encoder_padding` | *violated*: `addPadding` does not align | cells of 8 bits, up to 8 bits |

Why the bounds are enough to be interesting. Five symbols make trees of eleven nodes and
`RootOrder` is exactly twice their number, as 512 is for `uint8_t`, so that the order of
NYT reaches 0. Eight observations give all shapes of five leaves, swaps of a leaf with
an internal node, swaps of siblings, the case in which the block leader is the parent of
the sliding node and is passed over, and chains of swaps up to the root. Two-bit samples
keep the proportions that matter: a literal is one bit longer than a sample and than a
cell, the wrap around happens, a header byte is as wide as a sample and holds the
padding and the shortest length with one bit each, as eight bits hold them with three
and five. An `int` of three bits overflows with five samples and not with four, so that
both sides of the bound that `Defined` draws are met. With five samples of two bits the
case of four codes of length two occurs (256 codes of length eight in the code: the
count that is narrowed to 0), and so do the single symbol with its dummy leaf, also when
the symbol is 0, and the full last cell. In `block_codec` a dimension has two cells of
three bits in the header, so that an image of 68 rows shows what 65544 rows do (its
height is read as 4, that is one row of blocks). `MCImages` holds images within one
block, complete or not, in which all methods are chosen (two values, the second from
some index of the method on); pairs of blocks side by side and above each other with a
method each, and a column or row missing; four blocks of which three are incomplete; the
empty image; and last rows that end behind the data. Two runs of `app` are enough for a
file to be made, or half made, and read again by any coder, and two files for the input
to be the output or not. `MaxWeight`, `MaxLength`, `MaxBits` and `MaxRuns` bound the
models, not the code; they stand in guards or in the sets of inputs only.

`CHECK_DEADLOCK FALSE` is set where the model stops at its bound (`MaxWeight`) or
at the end of an encoder's life (`releaseData`). All others check deadlock: their
machines stutter in their final states (`Done`, `Rest`) and nowhere else.

**Fairness.** The program has one thread and never waits, so that a call goes on
until it returns: `Visit` and `Slide`, `PadBit` and `EndPadding`, and the `Step` of
`StaticCodec`, `App` and `Validation` are weakly fair. In `AdaptiveCodec` and
`BlockCodec` the same is written as `[]<>(phase = "done") \/ []<><<Step>>_vars`:
`Step` is enabled exactly until `done` (that is what the check of deadlock says),
and TLC would evaluate the trees of each step again for `ENABLED`. Nothing else is
fair: nobody has to call `updateTree`, to start a run, to lose the end of a file
or to kill the program.

**Faults.** `LoseEnd` of the codecs is what `LoseWrite` of `App` does to a file seen
from the next run, one that is left empty included. The runs under them need no property of their own: the
abstract specifications say what a fault may do.

## 4. What the runs found

* *Vitter or FGK.* `src/adaptive_encoding.h:54` speaks of Vitter's algorithm. The
  code is the older FGK: no step separates leaves from internal nodes of one
  weight, and `VitterInvariant` fails after two different symbols. The tree is
  optimal all the same (`CodeIsOptimal`).
* *End mark.* `src/adaptive_encoding.h:84` says that a PSEUDO_EOF is added. What is
  added is the path to NYT with nothing behind it; `PSEUDO_EOF` is `~T{0}`, an
  `int` of -1 that no sample equals. The decoder stops because its input does,
  and `ParkedAtNYT` is why that is safe: the bits left over are too few for a
  literal. (A `PSEUDO_EOF` of type `uint8_t` would have been a bug: the sample 255
  would have ended the decoding.)
* *addPadding.* The bound of its loop shrinks while it pushes
  (`src/BinaryEncoder.h:160`), so that it leaves the size unaligned against its
  comment. No coder calls it.

Four further observations have no run of their own. `decodeStatic` is documented to
return "unexpected when error occurs" (`src/static_decoding.h:25`), but it takes the
first byte (`src/static_decoding.h:33`) before it looks at the size
(`src/static_decoding.h:35`): for an empty file, which is what a run that was killed
leaves behind (`src/main.cpp:191`), it has no meaning, while any other incomplete
header is an error. `static_codec` reaches it (`ReadNothing`), and `Lossless` shows
that it is the only file cut short for which this is so. An input that exists but cannot
be opened passes for an empty one, and the run ends with status 0 (`Misread`). The
handler of `parseArgs` catches
`std::runtime_error` (`src/main.cpp:72`), but the exceptions of `std::stoi`
(`src/main.cpp:65`) are `std::logic_error`s: a width that is no number ends the
program through `std::terminate`. `App` shows that no file has been touched by then.
And `deepCopy` copies the left child twice (`src/Tree.h:34`); nothing in the build
copies a tree, so that this stays latent.

## 5. What is proved

**The coding tree.** For every finite set of symbols, every `Zero` in it and every
`RootOrder` of at least twice its size (the assumptions of `HuffmanTree`; 512 for 256
values), and for any number of observations: the bound `MaxWeight` is an arbitrary
natural. Every property that `tree_update` checks is proved:

| module | theorem | statement |
|---|---|---|
| `TreeUpdateProofs` | `Inductive` | the inductive invariant `IInv` holds in every reachable state |
| | `TypeCorrect` | `TypeOK`: nodes and orders suffice, no order wraps below 0 |
| | `LinksCorrect` | `LinksAgree`: children and parent pointers are inverse |
| | `WeightsCorrect` | `WeightsAddUp`, in intermediate states too |
| | `OrdersCorrect` | `OrdersFormRanking`: no ties, no gaps |
| | `CacheCorrect` | `CacheIsCurrent`: `symbolNodes` is never stale |
| | `SiblingInductive` | the inductive invariant `SiblingInv` of the sibling property |
| | `ParentsRankHigher` | `ParentRanksHigher`: no node outranks its parent |
| | `RanksFollowWeights` | `HeavierRanksHigher`: what weighs more ranks higher |
| | `SiblingsRankTogether` | `SiblingsAdjacent`: siblings have neighbouring ranks |
| | `NYTRemainsLast` | `NYTLast`: NYT is a leaf of no weight in the last rank |
| | `SearchFindsLeader` | `LeaderFound`: a finished search has the leader of the block |
| | `SwapsAreReal` | `SwapIsReal`: `swapNodes` never refuses what `updateTree` asks for |
| | `TreeImplementsTable` | the tree implements the safety part of `FrequencyTable` |
| | `CallsAgree` | `StepsAgree`: a call in steps is the recursive function |
| | `TreeStaysOptimal` | `CodeIsOptimal`: between calls no prefix code costs less |

Behind the general facts, `CodingTreeProofs` has what is true of the operations for any tree: a
new tree, a split and a slide keep `Built`, and a slide with the leader keeps `Ranked`.
`TreeUpdateProofs` takes it from there for a tree that is a variable, the rest of
`CodingTreeProofs` for the trees that the functions return.

None of the invariants is inductive alone. `TypeOK` needs to know that orders and
nodes are left when a symbol is new; this comes from counting
(`TwoPerSymbol`: two nodes per cached symbol and one; with `FS_AddElement` and
`FS_Subset` a symbol not yet seen leaves room) and from the rank of NYT
(`RanksLast`), which in turn is kept only because a search never chooses NYT:
it may weigh what a new leaf weighs, but a candidate ranks above the node it was
sought for (`Eligible`) and nothing ranks below NYT (`Ranking`).
`WeightsAddUp` needs that both nodes of a swap weigh the same (`Eligible`
again), that links are inverse, and that no node is its own parent
(`Loopless`, where `CanSwap` is what keeps it). `Blank` and `InnerRoot` say
what a split finds and what the root is.

The proof of a slide rests on one observation: whether `swapNodes` swaps or
refuses, there is an involution of the nodes that fixes `Null` and the root
and keeps weights, and `left`, `right` and `parent` are carried along by it, while
orders are permuted by `Exchange` (`SlideStep`). Every conjunct is then a few lines.
The other actions are `SplitStep` (field by field) and `VisitStep`. `IInv` itself has
been checked by TLC on four symbols before it was proved.

The sibling property is what makes a code tree a Huffman tree, and its parts hold
together or not at all: a search finds the leader only in a ranked tree, and only
an exchange with the leader leaves the tree ranked. So `SiblingInv` is `IInv` and
two more invariants, of the tree (`Ranked`) and of the search (`SearchCovers`).

* `Ranked` is `ParentsAbove`, `HeavierAbove`, `Adjacent` and `Marked`,
  and that nothing weighs nothing but NYT and, while it is their turn, a new leaf
  and its parent (`Weightless`). From the last follows `EqualParent`: a node can
  weigh as much as its parent only if its sibling weighs nothing, that is beside
  NYT. This is the one case in which the leader of a block is the parent of the
  sliding node, and the reason for the test that passes it over.
* `SearchCovers` says that there is a set of nodes not looked at yet, each of which
  waits in `toVisit` or below another of the set, and that no other node is better
  than the candidate. When the queue is empty that set is empty too, because
  each of its members has its parent in it, and ranks, which grow towards the root,
  end there (`NoEndlessAscent`, by the pigeonhole principle). Hence `LeaderFound`.
  `VisitCovers` is the step: what a visit passes over, as lighter, ranking lower or
  being the parent of the candidate of the moment, need not be come back to when
  the candidate changes.
* The slide: `CandidateSwappable` says that neither of the two nodes is above the
  other, so that `RankedSlide` may take the swap as done. It changes the ranks of two
  nodes of one weight, and the increment afterwards raises the leader of its
  block, which keeps `HeavierRanksHigher` (`SlideKeepsHeavier`). NYT's sibling may be
  swapped away, but its parent stays where it is (`NYTParentStays`).

For `TreeImplementsTable` a `Slide` is `Observe` at a leaf, `Settle` at the root and a
stutter in between, and every other step is a stutter; the leaf's symbol is unique by
`CacheIsCurrent`.

That rest says of the functions what `TreeUpdateProofs` says of the steps. A recursive
function `f[x] == e` is some `f` with `f = [x |-> e]`, if there is one: `Iterates`
builds one by induction, and `Induction` is that principle itself, for sets of numbers
(the library's takes an operator, which the provers cannot instantiate), by the
pigeonhole principle. `SearchEnds` and `PathsEnd` apply it to recursion down the levels
of the tree, `TurnsEnd` to the climb of `slideAndIncrement`, which ends because ranks
grow and there are only so many. `SearchFindsLeaderOf` is `LeaderFound` for the code's
own recursion: each call keeps the nodes settled that are, and settles those below its
node (`Advances`). `UpdateTreeKeepsSound` and `PathFound` are what a codec needs: after
every symbol the tree is `Sound`, and `getPathToSymbol` finds its node. For `CallsAgree`
the order of visits does not matter: both searches find *the* leader, since ranks have
no ties, so that a `Slide` is one turn of the recursion (`SlideIsTurn`).

**The adaptive codec.** For any width of the values, of a literal (wider than a value
and than a cell: `WidthAssumption`) and of a cell, with and without the model, for
inputs of any length, and for a file cut short after any cell:

| theorem | statement |
|---|---|
| `SpecInvariant` | the inductive invariant holds in every reachable state |
| `TypeCorrect` | `TypeOK`: the walk stays in the tree, what is decoded are values |
| `TreesEndAlike` | `SameTree`: both coders end with the same tree |
| `EndsParked` | `ParkedAtNYT`: the end mark and the bits behind it are no symbol |
| `EofNeverSeen` | the decoder never stops at an end mark, for no input |
| `Lossless` | the safety part of `ImplementsCodec` |

`SameTree` and `ParkedAtNYT` speak of the end only and `ImplementsCodec` of nothing but
the result, so nearly all of the invariant is the strengthening. `Encoding(d)` is
what the encoder has after each symbol of the data, coder and stream, as a function of
the data alone, and `Written(d)` the whole file. While the decoder reads, after *k*
symbols and *at* bits, its coder is `Encoding(d)[k].coder` and (`Position`)

* in state `Tree`, some path from its node to its goal (the leaf of the next symbol if
  that has one, otherwise NYT) is what comes next in the file (`OnPath`);
* in state `Value`, its node is its goal, NYT, and the bits since it came there are
  the literal so far (`InLiteral`).

`BitOnPath` and `BitInLiteral` are the steps. A symbol that is known ends the path at
its leaf, and a literal is complete with its last bit (`GoalReached`); then the tree is
updated as the encoder updated it, and, as NYT is not the root any more, the next
path is not empty (`PathStarts`; at the very first symbol it is, which is why the
decoder begins in state `Value`, `LiteralStarts`). At the end the goal is NYT and less
than a cell is left, which is less than a literal: `StreamOver` makes `ParkedAtNYT` of
it, and `BitInLiteral` that no symbol comes of it. `LiteralRead` and `ModelReverted` say
that `binToIntegral` and `revert` undo `typeToBits` and `apply`, where the prover has to
be told what a power of two is (`PowersOfTwo`, by counting subsets) and the sums of the
decoder wrap around. A file that is cut short is a beginning of `Written(d)`, and the
same invariant holds up to its end. TLC has checked the invariant on inputs of up to
four samples before it was proved.

**The bit writer.** For cells of any number of bits, and any bound on their number:

| theorem | statement |
|---|---|
| `CellsAreEnough` | `CellsMatchSize`: the vector has the cells that the bits in use need, never one more or less, and each is one |
| `WriterIsBitString` | `ImplementsBitString`: to its callers the writer is a sequence of bits |

`CellsHold` and `CellsUnique` are the arithmetic: `Cells(n)` is the one number whose
cells hold n bits and waste less than a cell. `pushBit` compares the size with the
capacity of the cells, so that `CellsOfNext` decides whether it grows the vector.
The refinement needs that the bits behind the size are zero (`ZerosBehind`), since
`pushBit` of a zero leaves the bit as it is; after a `resize` that need not hold,
and the abstract sequence leaves those bits open. `PaddingFits` keeps
`addPadding` within the model's bound.

**The program.** For any files, images, options and faults, and any number of runs:
`AppConverts` shows that `App` implements the safety part of `FileConversion`. The
invariant relates the phase of a run to the files it has touched: none before the
output is opened, then the output only, which is empty until the run ends; what
has been read is the input as it was when the run began, which matters where
input and output are one file, or nothing, in a run that has failed to read it; and what
is about to be written is an outcome of the codec the options name (`Makes`).
`StepImplements` has one step per action: the last one of
a run is a step of `FileConversion`, all before it are stutters.

**The validation.** For folders of any size, read in any order, `ReportStaysTrue` proves
`LinesAreTrue` at all times, of which `ReportIsTrue` speaks at the end. It is not
inductive: it says nothing of the copy the coders overwrite nor of what is encoded.
`TurnsOK` (`ValidationInvariant`) adds that file and coder of a turn follow from the
number of lines alone, that the copy is the file whenever a coder gets it, and that what
is decoded has been encoded in the same turn from that file; `TurnOutcome` says for each
coder and content what then comes out. The proof needs that the marks `"crash"` and
`"rejected"` are no images, which `ImageAssumption` says.

**The scan of a block.** For blocks of any width and height of at least two, and for any
sequence of methods:

| theorem | statement |
|---|---|
| `ScanInductive` | where the decoder is and what it has visited are functions of the method and the number of moves |
| `PositionsAgree` | `SamePosition`: the decoder is where the encoder's iterator is |
| `NeverJumps` | `StaysNear`: zig-zag goes to one of eight neighbours, Hilbert's curve to one of four |
| `VisitsAreNew` | `VisitsNew`: every symbol but the last of a block goes to a position of the block none has gone to |
| `BlocksAreCovered` | `CoversBlock`: at the end of a block all of it has been visited |
| `ScanTypeCorrect` | `ScanTypeOK`: no coordinate wraps around below 0, not even behind the last position |
| `SquareBlocks` | the last three for all methods, in square blocks whose side is a power of two |

The first three hold for every block. The next three are about blocks whose methods suit
them (`[]Suits(scan.scanMethod)`): every block suits rows, columns and zig-zag, but
Morton's order, which lays quadruples out row by row, needs a square of even side, and
Hilbert's curve one whose side is a power of two. In the code all blocks are 8 by 8,
to which `SquareBlocks` applies, with no assumption about methods.

The invariant is that `scan` is `ScanAfter(method, index)`, the reset scan after so many
moves, and `visited` the positions up to there. With it everything is a matter of the
methods as functions of an index. `Scans` says that such a function finds a position
of the block for every index and no position twice; as there are as many positions as
indices (`PositionCount`), it then finds them all (`ScansCover`, by the pigeonhole
principle). Each method scans for a reason of its own.

* *Rows and columns* are division with remainder (`DivisionUnique`), and *Morton's order*
  is the same for quadruples, with a bit of either coordinate in the place of a
  quadruple (`MortonPlaces`).
* *Zig-zag* is an automaton. `Trail(n)` says that the positions passed are the complete
  diagonals behind the position and the part of its own diagonal on the side the
  automaton comes from, which depends on its state, and that there are n + 1 of
  them. A new position is one that is not yet among them, so that the automaton is at
  the far corner when the count is full and not before. The turns at the corners, where
  one border test hides the other, are the cases of `ZigZagStep` and `ZigZagEnd`.
* *Hilbert's curve* is a recursion over the base-4 digits of the index, which the code
  unfolds from the lowest digit. After k turns the position lies in a square of side
  2^k (`CurveInSquare`), tells the last k digits (`CurveUnique`), is at an end of
  the first row for the first and the last index (`CurveEnds`) and next to
  that of the next index (`CurveNear`): four inductions over k, in which the four
  quadrants, two of them turned, meet at their ends (`QuadrantsMeet`). The loop runs
  for as many turns as the size of the block has binary digits behind the first
  (`Log2Is`), twice as many as the block has levels. A surplus turn only exchanges
  the coordinates (`CurveStays`), and as their number is the same for all indices
  of a block, neighbours remain neighbours.

**The block codec.** For any width of the values, of a literal and of a cell, for square
blocks whose side is a power of two, with and without the model, for every image whose
width fits its field (and whose height does, or is narrowed to whole blocks), whatever
is in memory behind the data, and for a file cut short after any cell:

| theorem | statement |
|---|---|
| `SpecInvariant` | the inductive invariant holds in every reachable state |
| `TypeCorrect` | `TypeOK`: values, nodes and counts stay in their ranges |
| `BlocksAreRestored` | `BlocksRestored`: between two blocks the blocks read are drawn and nothing else |
| `NothingIsLeft` | `CleanBetweenBlocks`: the context is reset completely |
| `EndMarkStops` | `StopsAtEndMark`: the end mark is recognised, there and nowhere else |
| `ScanIsBlockScan` | `ScansBlocks`: the decoder uses its scan as `BlockScan` does |
| `Lossless` | the safety part of `ImplementsCodec` |

The plan is that of `AdaptiveCodec`, but the image has a structure the stream must be
read by. `Source` is the image with its memory; everything else is a function of it:
how many blocks it has, where each one starts, its best method and its symbols. Symbols
are numbered through all blocks (`Number(b, j)`: symbol *j* of block *b*), so that
`Encoding(f)` is one recursion over them, with the three bits of a method in front of
the first symbol of a block. `HeaderBits`, `SymbolBits` and `HeadingBits` say of every
place of the stream what it means, and the invariant says at which of them the
decoder is:

* `AtHeader`: so many bytes of the header have been read, and they are the header's;
* `AtMethod`: between two blocks, so many bits of a method have been read. Their
  number is never 7 but at the end mark (`BestType`), so that the decoder stops when the
  blocks are over (`StoppedIsDone`, `EndReached`);
* `AtSymbol`: in block *b* after *j* symbols, the scan is at index *j* of the method that
  the encoder chose, and the path or literal is as in `AdaptiveCodec`. `CodeInStream`,
  `OnWay` and the lemmas about them are shared, in `CodingTreeProofs`.

In all of them the coder is that of the encoder after `Number(b, j)` symbols, and
`Drawn` says of every pixel that it is the image's if it is `Covered` (in a block before
*b*, or in *b* at one of the first *j* places of the scan) and zero if not. That a
symbol draws the right pixel takes `Modelled`: the model's last value is the encoder's,
although neither sees the places outside of the image (`SymbolReverted`). This is where
a narrowed height matters: the decoder's image has `RowsKept` rows, the encoder's all of
them, and they agree on what lies outside only for the images `KeepsBlocks` admits
(`SameRows`). That a block is complete after its last symbol is `ScansCover`
(`DrawnBlock`), that all pixels are drawn after the last block `EveryPixelInBlock`
(`AllDrawn`), and that no pixel is drawn over another `SameAddress`. `Returned` puts
them together.

**The static codec.** For values, paddings and an `int` of any width (`WidthAssumption`
says when the fields of the header are wide enough), with and without the model, for
data of any length, whichever way heap and sort break ties, and for a file cut short
after any byte or left empty:

| theorem | statement |
|---|---|
| `SpecInvariant` | the inductive invariant holds in every reachable state |
| `TypeCorrect` | `TypeOK`: symbols, bits and results stay in their ranges |
| `PrefixCodeComplete` | `CompletePrefixCode`: every sequence of bits begins with exactly one code |
| `TablesSuffice` | `TablesCoverCodes`: tables long enough, padding exact |
| `ErrorsAreReal` | the decoder reports no error of a complete file |
| `ShortestCodes` | `ShortestBody`: no prefix code gives fewer bits |
| `Lossless` | the safety part of `ImplementsCodec`; its exceptions are no data, so much that a code may not fit an `int`, and a file of which nothing is left |

The invariant follows the data from one representation to the next.

* *The heap* (`HeapOK`). Its trees are over disjoint sets of symbols, weigh together what
  there are samples, and the leaves of each share out the sequences of bits: for every
  depth at least as great as theirs, each sequence has exactly one leaf above it. A
  merge keeps that (`MergedHeapOK`), so that the last tree has the equality of
  Kraft's inequality (`LastTree`). All sums are counted as cardinalities of sets of
  units (`SumCounts`), which needs no induction over the fold that `SumFunction` is.
* *The codes* (`CodesOK`). Sorted by length, each canonical code takes the next share of
  the numbers of as many bits as the longest code has (`CodesFromLeaves`). Shares
  do not overlap, so that no code is the beginning of another, and they are all
  there are (`CodeIsComplete`).
* *The width of int*. A tree whose leaf is n deep weighs at least Fibonacci's number
  n + 2, because two trees are merged only when no other is lighter (`Heavy`). This is
  why a code overflows an `int` for no fewer samples than `FewestSamples` says, and why
  `Defined` in `ImplementsCodec` is as it is.
* *The file* (`FileOK`). It is a beginning of what was written and has at least the
  first byte; only before it is read may there be nothing (`FileInv`,
  `ReadNothingLost`). `WrittenFields`, `LengthsRead` and `HeaderRead` show that the
  header is read back: of its fields only a count can be narrowed, from 256 to 0, and
  then all codes are as long as a value, which is what `indexLength` tests. A full
  last cell makes a padding of a whole cell, which is narrowed to 0 (`PaddingByte`).
* *The decoder*. `zeros` counts the shares up to a length and `ones` the codes
  (`TablesCount`, `TablesFollow`), so that the comparison of a prefix with `zeros`
  says whether it is a code (`PrefixGrows`) and the difference is its place among
  the symbols. `DecoderAt` says that the bits read are the codes of the samples decoded
  and the first bits of the next one's; `OneBitRead` is the step.

The attempt to prove `Lossless` found an earlier `WidthAssumption` too weak: it allowed a
value of 6 bits with a padding of three, where the padding of a full last cell is not
narrowed to 0 and the last byte is lost. That the code is right here rests on
8 = 2^(8 - 5), that is, on `PADDING_SHIFT` being 5 and nothing less. An `int` of one bit,
which was allowed too, overflows with a single sample.

**Optimality.** Both trees are Huffman's, and neither statement about them
(`ShortestCodes`, `TreeStaysOptimal`) mentions a tree to compare with: they range over
all lengths that satisfy Kraft's inequality. `Kraft(g, S, D)` are such lengths of at
most *D*, and `CostOf` is what they cost. The step is Huffman's own, with no trees in
it. A symbol that alone is the longest can be a bit shorter (`Shorten`), so that for any
lengths there are some of no greater cost in which two are the longest (`TwoLongest`),
and then the two lightest are (`LightestLongest`, by `SwapLengths`). One symbol of their
joint weight, a bit shorter, takes their place at a cost that is less by that weight
(`MergeLowers`), and the other way round (`SplitRaises`). What differs is how the two
codecs come to take the lightest.

* *The static codec* takes them from its heap. `Shallow` says that whatever lengths the
  symbols are given, there are lengths for the trees of the heap which, with the depths
  of the symbols in them, cost no more. A merge keeps it (`MergedShallow`), and of
  the last tree (`LastShallow`) it says that the depths themselves are best. Sorting and
  numbering the codes keeps their lengths (`Coded`), so that `ShortInv` comes to
  `ShortestBody`. A single symbol, which has a second leaf beside it, is a case of
  its own (`OneSymbolBest`).
* *The adaptive codec* never merges anything, and has no heap. But ranks follow
  weights and siblings are neighbours in rank, so that from the lowest rank up the
  tree consists of pairs, and joining these in the order of their ranks is
  Huffman's algorithm: each pair is the two lightest that are left (`PairExists`,
  `LowestPair`, `PairMerges`). `TreeOptimal` is an induction over the nodes from some rank
  on (`Upper`), and `SiblingInv` is all it needs, between two calls, when every
  inner node weighs what its children do. Before the first symbol the tree is NYT alone,
  whose path is empty where `PrefixCodes` asks for one bit; it weighs nothing
  (`TreeIsShortest`).

**Only model-checked.**

* Liveness is outside of the prover's reach: `Terminates`, the liveness in
  `FrequencyTable`, `FileConversion` and `LosslessCodec`, and that a report comes at
  all (`ReportIsTrue`).

## 6. Not modelled

* *Third-party libraries* in `src/libs` (fmt, spdlog, nanobench, argparse, expected,
  more than 43000 of the 46000 lines) are copied into the repository and are not
  its work. What the program relies on is modelled where it is used: exceptions
  and exit statuses of the argument parser in `App`, `std::stoi`, the heap functions,
  streams. Of the project's own 2600 lines the map covers about half; the rest is
  declarations, logging and statistics, and the items below.
* *Operations no coder calls*: `findNode`, `countNodes`, `deepCopy` and the comparisons of
  `Tree` and its data; `readAll2D` and the iterators of the reader;
  `SameNeighborsScorer`; `reserve`, `shrinkToFit` and `capacity` of the writer, which do
  not change its bits.
* *Undefined or out of reach*: use of an encoder after `releaseData`; files no coder
  wrote, but for ones that were cut short; in the block codec, widths of 65536 and
  more (the decoder would divide by a width narrowed to 0), heights of 65536 and more
  of which the rows kept end within a block (`KeepsBlocks`: encoder and decoder disagree
  on which pixels of that block the model passes over and part there, so that the rest of
  its pixels is wrong; `src/adaptive_blocks_encoding.h:51`), products of width and
  height that overflow `int` (`src/adaptive_blocks_decoding.h:152`) and sums of scores
  above 2^24, where floats are no longer exact. A build that copies trees would
  meet `src/Tree.h:34`; GCC elides the only copy.
* *Timings* in `bench.cpp`, which change nothing, and `test.cpp`, a scratch program
  whose checks are those of `Validation`.

## 7. Plan

The tree came first, since every codec but the static one rests on it, then the
codecs, the traversal and the block codec that composes them, then the programs
around them; proofs followed the same order. Every safety invariant and action property
the passing runs check is proved, and so is the safety part of the temporal ones; what is
left is liveness, which stays with TLC.
