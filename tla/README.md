# A TLA+ model of zxing-cpp

This directory holds TLA+ specifications of parts of the barcode library in this
repository, the configurations with which TLC checks them on small instances,
and theorems about them that TLAPS checks for all values of their constants.
Every definition is translated from the C++ source; `PROJECT.json` maps each
one to the lines it stands for. Paths below are relative to `core/src/`.

1. [The system](#the-system)
2. [Modules](#modules)
3. [What is checked](#what-is-checked)
4. [What is proved](#what-is-proved)
5. [Where code and documentation disagree](#where-code-and-documentation-disagree)
6. [What is not modelled](#what-is-not-modelled)
7. [Plan](#plan)

## The system

`ReadBarcodes(image, options)` finds the barcodes on an image and returns them
as a list. It is a sequential function: one call runs on the thread of its
caller. It looks at the image again and again, scaled down, inverted and
morphologically closed, and asks a list of readers, one for each family of
symbologies, what they see. A matrix reader detects a symbol, samples its
modules, corrects errors with Reed-Solomon and decodes a bit stream into a
`Content`; the linear reader scans rows. The caller may join symbols of a
structured append sequence afterwards. Wrappers make all this available in
other languages; the one for Qt adds threads.

| Component | Its state | Operations | Interacts with |
|---|---|---|---|
| Search loop (`ReadBarcode.cpp`, `MultiFormatReader.cpp`) | layer, closing and inversion of the current pass, the readers still to ask, two symbol budgets, the result list | one pass of all readers over a bitmap; merging its results; the overlap filter | changes the shared bitmap, calls the readers |
| Binary bitmap (`BinaryBitmap.cpp`) | the matrix cached behind a `once_flag`, the flags `_inverted` and `_closed` | `getBitMatrix`, `invert`, `close` | shared by all readers of a layer and by the search loop |
| Linear scan (`oned/ODReader.cpp`) | row counter, pending check rows, results with line counts, the decoding states of DataBar | read a row in both directions, merge readings, filter, rotate the image | row readers, the luminance buffer of the bitmap |
| Matrix readers (QR Code, Data Matrix, Aztec, PDF417, MaxiCode) | local to a call | detect, sample, correct, decode | the cached matrix; they fill a `Content` |
| Row readers (`oned/OD*Reader.cpp`) | local to a call, except DataBar | recognise the characters of a symbol, check and translate them | called by the linear scan |
| Content (`Content.cpp`) | bytes, positions where the encoding changes, whether there is an ECI | `push_back`, `switchEncoding`, `append`, `erase`, `insert`, `bytesECI`, rendering | filled by decoders, joined by structured append |
| Barcode (`Barcode.cpp`, `BarcodeData.h`) | a pointer to data that all copies share | equality, merging of sequences | returned to the caller |
| Asynchronous reader (`ZXingQt.h`) | options, a thread pool and its queue | setters, `read`, `readAsync`, `tryReadAsync`, destructor | calls `ReadBarcodes` on several threads, emits signals |
| QR Code encoder and decoder (`qrcode/`) | local to a call: bits, blocks, modules, position in the stream | choose mode and version, terminate, interleave, mask, place; read format and version, unmask, separate and correct blocks, read segments | the tables of versions, Reed-Solomon, a `Content` |
| Data Matrix encoder and decoder (`datamatrix/`) | local to a call: the encoder's context with the symbol looked up last; the decoder's first and second attempt | choose encodations, fill up a symbol, interleave, place; separate, correct, read segments, try again | tables of symbols, Reed-Solomon, a `Content` |
| Aztec encoder and decoder (`aztec/`) | local to a call: a list of possible encodings; the words of a mode message | search for the shortest encoding, stuff, choose a size, write the mode message; read it, correct, unstuff, read codes | Reed-Solomon, a `Content` |
| PDF417 encoder and decoder (`pdf417/`) | local to a call: columns of codewords, votes for each place, values still ambiguous | compact, choose a size, add error correction; read columns, number rows, vote, correct, read compactions | error correction modulo 929, a `Content` |
| DataBar readers (`oned/ODDataBar*.cpp`) | halves or pairs seen so far, kept over calls, rows and directions | recognise finder and data characters, combine halves or find a sequence of pairs, translate the bits | called by the linear scan, which keeps their state |
| Linear writers (`oned/OD*Writer.cpp`) | local to a call: code set and position | check, complete and encode a text | inverse of the row readers |
| Reed-Solomon (`GenericGF*.cpp`, `ReedSolomon*.cpp`, `pdf417/PDFModulus*.cpp`) | tables of the field | encode, correct | matrix codes |
| C API, other wrappers | the last error message of each thread | handles | call `ReadBarcodes` |

What makes this code hard to test is seldom a single function. The passes of a
search share one bitmap whose cache is filled by whichever reader looks first;
budgets are counted down on three levels; a reading can hide another one on a
later pass; rows are visited in an order that comes from a counter that is
turned back; results share their data with what they were made from; positions
in a byte string must follow every change of it; a decoder must stop where an
encoder stopped, by counts and widths that each computes for itself, and know the
state of shifts and latches the encoder left; an encoder takes back what it has
written when the symbol turns out to have room; a second attempt starts from what the
first one left; and Qt runs reads on threads while the reader is reconfigured
and destroyed. The list `hazards` in
`PROJECT.json` names each of these at the line where it bites, with the
properties that would notice it going wrong.

What is expected of each component:

- **Search loop**: it terminates, returns no more barcodes than asked for, no
  default-constructed ones and none in error unless wanted; it reports every
  symbol that some pass can decode; the polarity it reports is that of the
  symbol; overlapping readings are resolved in favour of the valid one.
- **Binary bitmap**: what the readers are shown is what its flags claim.
- **Linear scan**: it terminates and keeps the limit; every row of an image is
  looked at once; a result counts different lines; a symbol that lies free is
  found in its whole extent whatever the order its rows are read in.
- **Content**: each byte is read in the encoding that was switched to before it,
  also after text in front of it was removed or inserted and after contents were
  appended; the positions are in order and the ECI protocol can be undone, unless a
  header with a switch inside was removed.
- **QR Code**: the smallest version that has room is chosen; the blocks of the
  encoder and of the decoder are the same; every module goes where it is read
  from; format information is told right or not at all while it is
  unambiguous; what the decoder reads is what was written, up to the first
  fault; decoding ends whatever the bits are.
- **Data Matrix, Aztec, PDF417**: a text the encoder accepts is read back, in the
  smallest symbol; a symbol of any other encoder says what its segments mean, or
  is an error of the right kind; every layout is a permutation; the size and the
  rows of a symbol are recovered from damaged indicators; a second attempt does not
  suffer from the first.
- **Linear codes**: a text that a writer accepts is read back in the format it was
  written in; shifts, latches and function characters of other encoders
  are understood; where a check character protects a symbol, one misread character
  is noticed.
- **DataBar**: what is reported was printed, and what the lines show completely is
  reported, although halves and pairs of several symbols and of several rows come together in
  one state.
- **Structured append**: exactly the complete sequences come out, in order.
- **Asynchronous reader**: every accepted image is answered once, by a signal of
  an existing reader; the destructor returns; signals come in order as long as
  there is one thread.

## Modules

### `ReadBarcodes`, `BinaryBitmap`

`ReadBarcodes` is `ReadBarcodes()` together with `MultiFormatReader::read()`,
which it calls in the innermost of its three loops. `pc` is the place in the
code: `"layer"` before the next layer, `"read"` inside `read()`, `"merge"` in
the loop over the barcodes it returned, `"filter"` in the overlap filter.
`layer`, `close` and `invert` are the loop variables, `budget` is the parameter
of `read()` and `maxSymbols` the local variable of the caller. One action is one
round of a loop: `NextLayer`, `AskReader(k)`, `Merge(r)`, `InvertPass`,
`ClosePass`, `FilterPair`, ...

The image is a set of symbols with a reader family, a polarity and the cells of
their bounding box. A *scene* says for every layer, with and without closing,
whether its reader decodes the symbol, decodes it with an error or does not see
it, and on which layers the binarizer finds enough contrast. Which
of its barcodes a reader returns when its limit is smaller than their number is
left open. Symbols are numbered in the order of their positions, the order
`read()` sorts by. The options are part of the initial state, so that one run covers
several.

`BinaryBitmap` has no behaviour of its own: its operators are the three methods,
and the state is a variable of the module that uses them. What it keeps is whether the cache
is unset, null or filled, the two flags, and, separately, whether the *bits* have
been flipped and filtered. That the two agree is a property and not an
assumption: `invert()` changes the bits only if they are cached already.

### `ContentStream`, `Content`

`Content` has one operator for each method that changes a `Content` and one for
`ForEachECIBlock`, `asView` and `bytesECI`; its actions are the calls decoders make (an FNC1 is
erased at the start, after one letter or after two digits; the Aztec
structured append header is at the start, and may have a switch between its characters; MaxiCode
inserts at the start, where there may be no text, or at a place behind the prefix it looked at, which may be the end of
the text or beyond). `merged` is the content of the sequence that
`MergeStructuredAppendSequence` appends to. The history variable `cut` says which of the two contents had a header
removed with a switch inside: this makes the position of the switch negative
(`aztec/AZDecoder.cpp:246`), and it is the only call that puts positions out of order.

`ContentStream` is what a `Content` promises: a sequence of bytes that carry
their encoding with them, so that nothing has to be moved. `Content` is shown to
implement it under the mapping that marks each byte with the last switch at or
before it. Removing a header with a switch inside is no exception: read by positions, every byte
that remains keeps its encoding. What does not implement it are two calls, which `ImplementsStream` names: the insertion
past the end (`PastEnd`, undefined behaviour, after which the bytes may be any), and the merging of a cut
content behind other bytes (`MergeCut`), among which its negative position then lies. The users of the blocks, which
take the list to be in order, are right only where it is: `ProtocolRoundTrip` says nothing of cut contents. Designators of ECIs contain no backslash (`EncodingsAssumption`: they are numbers), and
`Parse` reads the protocol back.

### `StructuredAppend`

The heap `data` of `BarcodeData`, the list `found` of addresses that the caller
has collected, and the two merge functions. What a decoder makes of the header
fields (an index counted down in one symbology, a count that is off by one in
another) is translated for five symbologies. A list of barcodes is a set of places of `found`;
`Sorted` gives it the order of `std::list::sort`, which is stable (`Before`). Copying a
`Barcode` copies its address. `PrintedAssumption` says what a writer prints on the symbols of one
message, and that the fields of symbols that belong to no complete message do not claim one.

### `AsyncReads`, `QtReader`

`QtReader` is `BarcodeReader` of `ZXingQt.h` with the `QThreadPool` it owns. Qt
is external: the pool is modelled as its documentation and its use here describe it
(one thread runs whatever the limit, a finished thread takes the next runnable
from the queue, `waitForDone` waits for both). A runnable reads the options of
the reader and not a copy; one Boolean option stands for all. The owner's
thread makes any sequence of calls. Frames of a `QVideoSink` are left out: `setVideoSink` connects
`tryReadAsync` directly, so that a frame sent by another thread (`ZXingQt.h:526`) runs it there, beside whatever
the owner calls. `AsyncReads` is the abstract reader: it
accepts an image, answers it once, and closes only when nothing is pending.

### `LinearScan`

`OneD::Reader::read` and the two calls of `DoDecode` it makes. `NextRow` and
`NextCheckRow` are the head of the loop over rows, `Merge(c)` and `AddNew(c)` the body
of the loop over what a row reader reports, in the order of `ReadNext`. Then `Drop` erases what has
too few lines, `FilterPair` and `FilterNext` are the two loops of the overlap filter with its
iterators `a` and `b`, and `Erase` removes what the filter has blanked.
`Rotate` and `Return` are the code after the two calls. A reading is a number with a format, a
direction, an orientation and the columns it covers; the scene says in which
rows it is made. Positions are kept as rows of the first and the last two
corners, as far as `DoDecode` itself changes them. A result starts with the line count of one reading, as
the row readers without state return it; the count that DataBar estimates from its pairs
(`oned/ODDataBarCommon.cpp:165`) is left out, and no property depends on it. `scanned` and the field
`lines` are history: nothing reads them except properties.

### `QRVersions`, `QRBitStream`, `QRCode`, `QRMatrix`

`QRVersions` has what is computed from them: the widths of the fields, what fits
into a version and which one is chosen, and the blocks, once as the encoder computes their
sizes and interleaves them and once as `GetDataBlocks` separates them. The table
is a constant of this module (`QRMatrix` holds the four tables of `QRVersion.cpp`, row by row),
with three assumptions: its rows have five
entries and leave room for data, capacities grow with the version, and blocks differ by
one data codeword and have parity.
`QRBitStream` translates texts to bits and back.

`QRCode` is one symbol from its text to the result of `Decode`. `Encode` is
`QRCode::Encode` up to the matrix; `PrintSymbol` stands for another encoder, which
may write any sequence of segments into a symbol of any of the four kinds.
Both leave `bytes`, the data codewords, and `codewords`, the order in which data
and parity of all blocks are printed. A codeword is a pair of block and place in it, so
that a wrong order shows even where the contents are equal. `CorrectErrors` is
the body of `Decode` up to the bit stream. From then on one action is one round of the
loop of `DecodeBitStream`: `EndOfStream`, `InvalidMode`, or one segment. An
exception of `BitSource` or of a segment is `Fail`, after which what was read
before stays. The operators of `Content` are instantiated for `switchEncoding`.

Reed-Solomon is what it promises here: a block with at most half as many wrong as
parity codewords is restored, and any other is reported as lost (the
code can also restore a wrong word then). Which codewords are damaged is a pattern that depends on
`damage`: as many of each block as can be restored, or one more in the first.
A text is the sequence of its bytes in the character set, and `level` counts
from 1. Of Shift JIS it is assumed that the second byte of a pair is one (`IsShiftJIS`), as
`TextEncoder` gives no others.

`QRMatrix` puts the codewords between encoder and decoder into modules and takes
them out again; `SpecWithMatrix` is the composition. `BuildMatrix` is `QRMatrixUtil.cpp`
(function patterns, words of format and version information, `EmbedDataBits`, mask), or
the same for a symbol of another encoder; `ReadFormatInformation` is `QRFormatInformation.cpp`,
`ReadVersionInformation` the choice between both copies of the version, and `ReadCodewords`
`QRBitMatrixParser.cpp`. A module is `<<k, b>>`: bit number k of the codewords, inverted if
b is 1, or with k = 0 one of another pattern with the colour b. In this way one pass
over a symbol tells for every bit where it went, whatever its value. Any mask is
printed; the penalty that chooses one is left out.

### `DMSymbols`, `DMPlacement`, `DMHighLevelEncoder`, `DMDecoder`, `DataMatrix`

`DMSymbols` holds the two tables from which the writer and the reader know the
symbols, `Lookup`, and the interleaving of both sides with the two orders of the error
correction of 144x144 symbols. `DMPlacement` is `VisitMatrix`: a state machine
whose state is a row, a column and the direction of the sweep, and the modules visited so far.
`DMHighLevelEncoder` has the characters of the encodations, their values,
`LookAheadTest` with the rounding of its floats, and the loop of `Encode`: `EncodeASCII`, C40 and its kin,
EDIFACT and Base 256, each action one round, then its `HandleEOD`. `context`
is the `EncoderContext`, including `symbol`, which is looked up for a number of codewords and
stays until it is reset. What one side writes into the other's hands is a
sequence of codewords, not bits.

`DataMatrix` composes them. `attempt` is the first or the second, mirrored call of `DoDecode`,
`fix259` whether the second order of blocks is tried; `CorrectErrors` asks which blocks
are separated right in this state, and `Parse` is `DecodedBitStreamParser::Decode` one
codeword or segment at a time. Inputs are texts with the shape and the sizes asked for, symbols
with segments of other encoders, and areas whose modules are visited. `FaultFree`
excludes the texts that meet one of two faults of the encoder, the wrong backtracking `dm_readback`
shows (`history.lost`) and the omitted unlatch (`history.omittedAt`, see the list at the end), by what the encoder
did and not by what they look like.

### `ReedSolomon`, `AZEncoder`, `AZDecoder`, `Aztec`

`ReedSolomon` is the code itself: `GenericGF`, polynomials, encoder, Euclidean algorithm, Chien
search and Forney's formula. `Aztec` uses it for the mode message, the runes, and words of 6 and
8 bits; for the larger fields of symbols with more than eight layers TLC would take too
long, and symbols of this size are only printed without errors.

`AZEncoder` keeps the list of states as `Encode` of the high level encoder does: one action extends
every state by the next character (or pair), and drops those that another one
is better than. Tokens are kept as a sequence. It also has the sizes, stuffing, the
mode message and the coordinates of all layers; `AZDecoder` the tables and
the loop of `DecodeContent`, as a state that is advanced by one code. `Aztec` composes
them: `Encode`, `PrintText`, `PrintRune`, `PrintSegments`, `PrintMode`, then `Detect` (the mode
message and its second reading as a rune), `CorrectBits` and `ReadContent`.

### `PDFArithmetic`, `PDFHighLevelEncoder`, `PDFDecoder`, `PDFRows`, `PDF417`

`PDFArithmetic` has numbers in base 900 (which `DataBar` uses for its products, too), the size, the
error correction and the rows of a symbol, and the decoder's code modulo 929 with erasures.
`PDFHighLevelEncoder` compacts runs of text, digits and bytes. The decoder repairs the codewords
in place, so that a correction that fails leaves its traces. `PDFDecoder` is `Decode`: one
operator for each compaction, the ECIs and the macro block, and a loop over
latches.

`PDFRows` is what happens between codewords that were seen in an image and the
matrix: a column is a sequence with a codeword or nothing for each line of
the image. `GetBarcodeMetadata` is the vote of a row indicator, the `Adjust...` operators number
the rows of codewords, `CreateBarcodeMatrix` collects votes.
`PDF417` composes all: a symbol of the encoder or of another one is handed over as its codewords
(`ReadPure`) or as an image with lines of a height, a skew in each column, cut off above and
below, and with codewords misread. `Locate`, `GetRowIndicatorColumns`,
`Merge`, `ReadColumns`, `AdjustIndicatorColumns`, `AdjustRows`, `CreateDecoderResult` and `Try` follow
`ScanningDecoder::Decode`; the last is one round over the combinations of ambiguous
values.

### `LinearCodes`

Six writers and their readers. The characters of a symbol are the places in
the tables of patterns; the widths of their bars are left out. Code 128 is a loop on both
sides: `SwitchCodeSet` and `EncodeCharacter` write one code, `NextCode` reads
one, and `Stop` takes the check character off again. The state `raw` is that of `Raw2TxtDecoder`.
The other codes are translated as a whole by `Write` and `Read`. Code 39
tries to be Code 32 and PZN as well, UPC/EAN has numbers without their zeros, digits that
only parities carry, and add-ons. `PrintSymbol` is another encoder, and `See`
misreads one character.

### `DataBarCharacters`, `DataBar`

Here the widths of bars are the input. `DataBarCharacters` reads a finder pattern and a data character
from widths in pixels, with the rounding of the code, and has the decoder of the compressed
fields of DataBar Expanded. `DataBar` is `decodePattern` of the three readers: a step is one call at a
place of the row, and the state holds what they keep, halves with their positions for DataBar, and
the list of pairs with rows and line counts for DataBar Expanded, with `InsertExpanded` and its
search for a legal sequence. An input is a list of lines across printed symbols.
`DoDecode` around the calls is in `LinearScan`.

## What is checked

The modules named `MC...` define the instances. Every property has a mutant in
`PROJECT.json`, a plausible mistake in a definition that the run detects.

| Run | Question | Instance |
|---|---|---|
| `read_barcodes` | Does a search report everything, keep the limit over readers, passes and layers, report the right polarity, resolve overlaps, read what a pure image shows, and end? | 3 symbols (linear and QR Code touching, an inverted Data Matrix), 2 layers, every reading each may yield on each, first layer with or without contrast; errors without a limit or with one of 1 for two symbols, at most 2 valid symbols, or a pure image with and without errors; `tryHarder`, `tryInvert`, `tryDenoise` |
| `content` | Do positions follow bytes, does the ECI protocol round-trip, is the stream implemented, where the calls let it? | 2 bytes (one is the backslash), 2 ECIs, 2 character sets, up to 4 bytes and 3 switches over two contents; a header of 2 bytes with and without a switch inside; insertions at the start, at the end and one byte past it (a prefix of 1 byte and the place 2 stand for 7 and 9) |
| `sa_merge` | Do exactly the complete sequences come out, does no result mix two? | two-part messages in five symbologies, one with contradictory fields and one truncated symbol; lists of up to 4, two calls |
| `qt_reader` | Is every image answered once and before the reader is gone, in order, with the options set? Does the destructor return? | 4 images, limits 0 to 2 |
| `linear_scan` | Is every row read once, is a symbol found in its full extent, do edges stay in order, is the limit kept over both directions, does the scan end? | 7 rows, 4 readings (two overlapping, one upright, one DataBar), six option sets |
| `qr_code` | Is the smallest version chosen, are blocks and modules read where they were written, is format information told right, is every symbol read as it was meant? | the tables of the source; the longest text of six versions and one letter more, in all modes and levels; all 160 versions and levels; four kinds of symbols with 30 orders of segments, cut, with stray bits, damaged; symbols of every size, mask and level, upright and mirrored, and every format word with up to three wrong bits in several patterns |
| `datamatrix` | Is a text read back, from the smallest symbol, are the blocks and the modules of all sizes those of both sides, is a symbol of another encoder read as it was meant? | about 2700 texts that lead into each encodation and end in every pair of ten characters, or fill a symbol of limited size; all 48 symbols; damage, mirrored, the other order of error correction; all layouts |
| `aztec` | The same, and is the mode message read with errors, and is no module used twice? | every combination of modes, binary shifts of every length at which a header changes, symbols with the segments of other encoders and wrong words, mode messages with errors, all 256 runes, all 36 layouts |
| `pdf417` | The same, and are rows and ambiguous values found? | about 3700 inputs: texts through submodes and compactions, symbols with macro blocks, ECIs, shifts, reserved codes and wrong counts, images with rows of one to four lines, skewed, cut off, without a side, with each codeword misread in every way and with row indicators that lie |
| `linear_codes` | Is a text read back, are shifts and function characters understood, is a misread character noticed? | texts that make every writer switch, pair, complete or refuse; symbols of other encoders with every order of shifts, latches and function characters; each character misread as every other |
| `databar` | Was everything reported printed, and is everything reported that the lines show? | symbols of the three kinds, of every group of characters, finder and sequence of finders; two symbols side by side and above each other, with halves torn apart, stacked, upside down, with displaced edges of bars; modules of 2 and 3 pixels |

The run `dm_readback` shows a disagreement, see below.

**Why the bounds suffice.** Two layers let a symbol be read with an error first
and without one later, be seen only after inversion on a later layer, or be found
twice; three symbols are one more than the limit, and two of them
touch. Three switches allow one on either side of an edited range and an
ECI after a character set, and two contents are enough for an append because the
result is appended to again. In `sa_merge`, four barcodes are two interleaved
sequences or one with a duplicate. In `qt_reader`, the second thread is running
while two images wait when the limit is lowered. Seven rows allow a symbol above,
below and across the middle with room for check rows on both sides; the
quotients 512, 256 and 32 of the code are constants, scaled down with the height.

The codes use the constants and tables of the source; only the inputs are bounded.
Texts are enumerated around the places where a decision of an encoder depends on
what follows: a beginning leads into a mode, and all short endings follow. Lengths lie at
the ends of the ranges in which a count has a width (1 and 2 bytes, 5 and 16 bits, the three
classes of versions) and where symbols are full. Symbols of other encoders are sequences of
segments in orders the encoder of this library never writes, cut in every field. Tables and
layouts are covered whole.

**Deadlock** is checked in `qr_code`, `datamatrix`, `aztec`, `pdf417` and
`linear_codes`, where one of the actions must be able to handle whatever codewords
come; their final states (`Returned`, `AllDone`, `Refused`) stutter. Elsewhere it
is not: those programs stop when a call has returned or a bound is reached.

**Fairness.** `ReadBarcodes` and `LinearScan` are sequential code that waits for
nothing, hence weak fairness of `Next`. In `QtReader` each running thread makes
progress (weak fairness of its step), `read()` returns and the destructor goes
on once it no longer has to wait; nothing is assumed about the owner's calls,
which need not be made. The other modules state no liveness: they are loops over finite
input, and TLC shows with the absence of deadlock and a finite state graph without cycles but those of final states that each
input is answered; what the answers are the invariants tell at the end of each.

## What is proved

| Theorem | Statement |
|---|---|
| `ReadBarcodesProofs!TypeCorrect` | `Spec => []TypeOK` |
| `ReadBarcodesProofs!CountBounded` | unless PDF417 is enabled, `Spec => []CountBound` |
| `ReadBarcodesProofs!PolarityCorrect` | with `tryHarder`, `Spec => [](PolarityReported /\ MatrixMatchesFlags)` |
| `ReadBarcodesProofs!OverlapsAreResolved` | `Spec => []OverlapsResolved` |
| `ReadBarcodesProofs!SearchIsComplete` | if `INT_MAX` is more than three times the number of barcodes, `Spec => []SearchComplete` |
| `ContentProofs!ContentInOrder` | `Spec => [](TypeOK /\ EncodingsInOrder)`: no switch behind the bytes, and all in order unless a header with a switch inside was removed |
| `ContentProofs!StreamImplemented` | `Spec => ImplementsStream`: `Content` implements `ContentStream`, but for `PastEnd` and `MergeCut` |
| `ContentProofs!ProtocolRoundTrips` | `Spec => []ProtocolRoundTrip`, for contents that are not cut |
| `StructuredAppendProofs!ListKeepsBarcodes` | `Spec => []MergeInv` |
| `StructuredAppendProofs!MergesAreExact` | `Spec => MergedExactly`, an action property |
| `QtReaderProofs!NoImageStranded` | `Spec => []NoneStranded` |
| `QtReaderProofs!SignalsInOrder` | `Spec => []InOrderOfCalls` |
| `QtReaderProofs!OptionsReachThreads` | `Spec => []OptionsTakeEffect` |
| `QtReaderProofs!ReadsImplemented` | `Spec` implies the initial condition and every step of `AsyncReads` |
| `LinearScanProofs!ScanTypeCorrect` | `Spec => []TypeOK` |
| `LinearScanProofs!EdgesNeverCross` | `Spec => []EdgesInOrder` |
| `LinearScanProofs!LimitIsKept` | `Spec => []LimitKept` |
| `LinearScanProofs!WholeImageRead` | `Spec => WholeImage`, an action property |
| `LinearScanProofs!SymbolsAreFound` | if a symbol is at least four pixels wide, `Spec => []SymbolsFound` |
| `QRCodeProofs!VersionIsSmallest` | `Spec => []SmallestVersion` |
| `QRCodeProofs!RecommendedExists` | if a version has room for a text, `RecommendVersion` returns one |
| `QRCodeProofs!BlocksAreOriginal` | `Spec => []OriginalBlocks` |
| `QRReadingProofs!TextIsReadAsMeant` | `Spec => [](input.kind = "text" => ReadAsMeant)` |
| `QRReadingProofs!LossIsReported` | `Spec => [](input.damage = "beyond" => ReadAsMeant)` |
| `QRReadingProofs!DamageIsRepaired` | `Spec => [][DamageRepaired]_vars`: correction gives the data of all blocks without an error |

All hold for every value of the constants that satisfies the `ASSUME`s of the
modules: any number of images, rows, symbols, layers or bytes.

*The limit.* `CountBound` says nothing of the readers that still may report
something. The invariant is `Accounting`: reported plus remaining is constant
over a search, and what a pass has collected plus what it may still collect is at
most what remains. A reader that ignores its limit breaks it, which is why PDF417
is excluded: its budget may become negative, see below.

*The polarity.* A bitmap that is inverted before its matrix is cached never shows
the inverted image although its flag says so. The invariant `PolarityInv` says
why this does not happen with `tryHarder`: the linear reader, which alone does
not fill the cache, is the last to be asked, and as long as the cache is unset no
reader that an inverted pass would ask has been asked, or none is enabled
(`CacheBeforeInvert`). Without `tryHarder` the linear reader comes first and the
property is false.

*The overlaps.* At `FilterPair` the pairs before the iterators, in the order of the two loops, are
resolved (`PairsResolved`); a barcode that is blanked later does not unresolve them, because a
blank one is in error only if the other is, and erasing the blank ones keeps the others. The
loops change `res` at one place, so that every pair has one case. A search that reaches its limit
skips the filter; the invariant needs `maxSymbols > 0` there.

*What is found.* `SearchIsComplete` is about every set of symbols, every scene and every choice of
readers. The argument follows a symbol from the pass that shows it to the result. What the readers are
shown is what the flags claim (`CacheCurrent`, which needs the place of the bitmap in the loops,
`LoopPosition`); the budgets cannot run out, since what is taken from them was
reported and a search reports each barcode at most once in each of three passes that change
anything (`BudgetLasts`, hence the assumption); so a reader that is asked returns the symbol
(`VisibleIsShown`, `ReaderFindsAll`), the loop over its results keeps it or something equal
(`ReadingsShown`), and when the pass is over it is reported (`PastPassesFound`). Then it has to
survive the filter: what hides it, or is blanked with it, is in error or lies at the origin
(`ExpectedKept`). For a pure image, the readers before the right one return
nothing (`PureSound`). TLC showed that three restrictions are necessary, which `NothingHides` and
`Alone` state: a second MaxiCode, a reading of the same symbol in error, and a barcode at the origin.

*The encodings.* That no switch lies behind the bytes (`NoneBehind`) is preserved by every call; that all are in order
(`InOrder`) by every call but the removal of a header with a switch inside, and by merging only
if both contents are in order. With the types and `cut` this is inductive. The library's theorems on concatenation,
wrapped for bytes and encodings, carry the proof.

*The stream.* The mapping marks a byte with the last switch at or before it, found by counting, so that it
means something of a list out of order too. The proof compares the sets that are
counted: two contents have the same mark where the same switches are at or before the place (`SameMark`, `PrefixMark`
with more switches behind it, `LaterMark` with all of another list before it, by a bijection). With this
there is one lemma for each operation, which says that the stream of the new content is the
operation of `ContentStream` on the stream of the old one. None of them needs the order: `EraseStream` holds of a header with a
switch inside, since nothing is left before it whose mark could change; `InsertStream` of the end of the text;
`MergeStream` joins two lists, if nothing is in front or no position of the second is negative, hence the exception.

*The protocol.* Blocks of a content with the same encoding form a chain from its first byte to its
last (`BlocksChain`); the text for a block takes the parser from its first byte to its end
(`BlockRun`), whatever bytes it has, as a doubled backslash is read as one and no byte of
a designator is a backslash; runs that follow each other join (`RunJoined`). Both are
recursive functions, hence induction on the number of blocks or bytes. The module `Recursions`
states what this needs without an operator as parameter: what holds of 0 and of successors below N
holds up to N (`Induct`, for a set), and the function that an iteration defines exists (`Recursion`). It takes both from
the well-foundedness of the natural numbers.

*Structured append.* The contents of a barcode belong to the id it is reported with, unless it is in error and was
joined from barcodes of different ids, which are all in the list still (`MergeInv`). So a valid
result of any call, also of a second one on barcodes the first has changed, joins symbols of one
id. For the first call, the barcodes of an id are the symbols seen of a message (`ListsParts`); `Sorted`
numbers them by their ranks (`Ranks`, `SortedIs`); the count of every symbology, once translated,
is the number of symbols (`FieldsTell`); and a list whose length is this count is the
complete message: its indices grow and there are as many as values, so each symbol is at
the place of its number (`GrowingIsIdentity`, `MatchingIsComplete`, `CompleteIsMatching`). What
comes out is the sequence of the texts (`FlattenSingles`). With `MergeStructuredAppendSequences` the
results of two ids share no barcode (`HeadsOfLists`), so that no merge disturbs another.

*The pool.* `NoneStranded` alone is not inductive: an image could wait behind a queue that
holds another one twice, or nothing. The invariant says what the queue is: the
images in state "queued", in the order of their numbers, each once, and below every image that is
still new; that `running` is the set of the threads' images; and that, unless
the limit has been changed, one thread runs at most, and everything that is answered is below
everything that is not. From this follow the order of the signals and that a thread is
there before every queued image, also while the destructor waits
with a limit of 0. For the refinement, each action is shown to be a step of `AsyncReads` or a
stutter under the mapping of the module; `Closed` needs that nothing is pending, which is the
same invariant.

*The edges.* A row is merged into the nearer of the two edges, and a tie is
broken by the order of the edges in a rotated image. The property is inductive with the
types, which need in turn that a row is read only while the loop has lines left (`TypeInv`).

*The limit of the linear scan.* `LimitInv` says how the bound moves: while rows are read, fewer symbols than
the limit of the call have enough lines (a reading changes one entry, hence the number by at most
one, and the loop is left at equality); when the others are erased, as many entries are left; the
filter makes them fewer; and the limit of the second call is what the first one left.

*The whole image.* With a step of one row, the rows read before line `n` are the interval `Covered(n)`
around the middle; the next row is just above or below it, lies in the image while
`n < Height`, and the interval is the whole image at `n = Height`. As no check rows are scheduled,
each row of the interval was read once (`ScannedInv`).

*Symbols in full.* `FoundInv` relates the entry of a symbol to the rows it was seen in: no entry before the
first, then exactly one, with these rows as its lines, their number as line count and their extent
as its position. It is inductive because the rows seen form an interval that grows at an end
(`SeenEnds`), so that the next reading is near enough to be taken for the same symbol and moves
the right edge (`NextRowMerged`); because entries of other symbols do not overlap it
(`EntriesInv`, `Undisturbed`); because the filter never compares an entry with itself (`PairInv`)
and prefers it to a blank one at the origin, which has no lines; and because the negative limit of the second call is
never reached (`LimitInv`). The theorem assumes that half of a symbol's length is more than one
row: the code takes two readings for the same when they are nearer than that.

*The version.* `RecommendVersion` says of itself "I am still not sure this works
in 100% of cases". It does. The width of the count never differs by more than
8 bits between two versions, so that a text never needs more than one byte more
than guessed with version 1; and every version has at least one byte more than
the one before it (`GrowingAssumption`, which TLC evaluates for the table). If
the second search returns a version beyond the guess, that byte is there; and a
version it skips is too small also with its own width of the count, because widths
do not shrink. The
lemma `RecommendedIsSmallest` is this argument, for any table and any
limits of the classes; the invariant adds that texts come to the blocks only
through `Encode`.

*The blocks.* The encoder gets the sizes of blocks by division, the decoder takes them from the table
(`EncoderBlocks`); the encoder prints in rows over the blocks and leaves out those that are full, the
decoder computes where a codeword must be. Both are shown to agree by a description of
the symbol between them (`Places`): rows of as many codewords as there are blocks, one row
of the longer blocks only, rows of parity. `InterleavedIs` proves by induction over rows and
blocks that the loops print this, and `InterleavedFound` that `GetDataBlocks` reads it;
for Model 1, which prints blocks behind each other, `ConcatenatedFound`. All that is assumed of a table is that the blocks of the
second kind have one data codeword more than the others and that the levels of a version
have the same number of codewords (`BlocksAssumption`; of another encoder's symbol, that its blocks
are not more than the whole, `Printable`), which TLC evaluates for the tables of the source.

*What is read.* A text that `Encode` writes is read by `Decode` as this text, whatever its
bytes, its mode and the table. `ReadAsMeant` is not inductive: at the end of the stream it needs to
know what every step before has read, and where. The proof goes from the bits up.
A number written with n bits is read with n bits; a group of digits, letters or a pair
of bytes comes back from its number (`PieceRead`), and a text from its groups (`DataRead`). What the
decoder joins from the blocks is what the encoder has divided (`BytesRestored`), since the blocks are
the original ones (`BlocksAreOriginal`, an invariant this one uses) and damage is within the
reach of the correction. `StreamIsLaid` says where the header, the count, the text and the terminator lie
in the bytes, for every combination of an ECI and FNC1, and that there is room for them;
padding begins behind the terminator, or the stream ends before one fits. `ReadingInv` then has a stage
for each of these places: `pos` is at one of them, and `content` and the flags are what
the fields before it mean (`ECIStep`, `FNC1Step`, `TextStep`, `EndStep`). Nothing throws, because each
field that is read lies within the stream. `ReadFully` compares what is there
at the end with `Meaning`. If a block is lost the invariant is that the error stays
(`ErrorStays`). Three guards of the encoder that no earlier property needed came to light here and
were added to the model: an empty text is written in bytes, a pair of bytes outside the table
of Kanji throws, and no block is without parity.

The blocks are treated for all symbols at once, also those of Micro QR, rMQR and Model 1 that other
encoders print (`BlocksOfAll`): `DamageIsRepaired` says that correction gives the data
that were put into the blocks, `LossIsReported` that a lost block shows in the result whatever the
segments are. Both need that the printed segments are bits (`SegmentsAssumption`) and that M1 and M3, whose half
codeword counts as one more that is wrong, have two parity codewords or more (`Printable`); the
numbers of wrong codewords are bounded in `NoneLost` and `FirstLost`. `CorrectionsInv` collects what
is known up to there.

The theorems about QR Code are about `Spec`; that a symbol gives back the same codewords when it goes through its
modules is `ModulesReadBack`, which is only checked.

Only model-checked: liveness (`Termination`, `Destroyed`, and the fairness of
`AsyncReads` within `ImplementsReads`), and `ENABLED`, which are out of the prover's reach;
and what the codes promise (`ReadBack`, `ReadAsMeant` except of the texts of QR Code,
`FormatRead`, `ModulesReadBack`, ...), which are statements
about folds over sequences and about finite tables. Of QR Code, `ReadAsMeant` of what other encoders
print, with any segments in any order, cut or with stray bits, is only checked unless a block is
lost; for texts with a
percent sign in GS1 mode it says nothing (see the next section). The modules of Data Matrix, Aztec, PDF417, DataBar and the
linear codes have no theorems for this reason; several of them use `RECURSIVE` operators.
`Accounting`, `VersionInv`, `ReaderInv`, `PastPassesFound`, `FoundInv`, `BlocksInv`, `ReadingInv`, `PrintedInv`, `CorrectionsInv` and `MergeInv` are invariants of proofs only.

## Where code and documentation disagree

With a run that shows it (`findings` in `PROJECT.json` quotes the lines):

- `dm_readback`: where C40 or Text ends with a character of another size than the one
  before it, `BacktrackOneCharacter` cuts its buffer at the wrong place and the text read back
  lacks or repeats characters (`datamatrix/DMHighLevelEncoder.cpp:410`). In the run a text that ends in
  `AbA` and an e with acute accent loses its first `A` in a rectangular symbol.

Observed in the source while it was modelled, without a run of their own.

*Search and scan*

- Without `tryHarder` an inverted pass may come before the matrix is cached; a barcode may then be
  reported with the wrong `isInverted()` (`BinaryBitmap.cpp:62`).
- When the limit is reached, `ReadBarcodes` returns past the filter that removes
  overlapping readings in error (`ReadBarcode.cpp:303`); `OverlapsResolved` says nothing of a search
  with errors that ends at its limit.
- With `isPure` and `returnErrors`, a QR Code or PDF417 reader that finds
  nothing returns a barcode without a format, which uses up the budget of one
  (`qrcode/QRReader.cpp:72`). `SearchComplete` says nothing of this combination.
- The PDF417 reader ignores `maxSymbols` (`pdf417/PDFReader.cpp:328`); more
  symbols than asked for may be returned.
- Duplicates of what an earlier layer found use up the budget of a pass
  (`MultiFormatReader.cpp:88`), so that a limited search may miss symbols.
- A blanked barcode of the overlap filter lies at the origin and counts as
  overlapping what is there (`ReadBarcode.cpp:313`).
- MaxiCode returns one symbol of a pass; a reading in error that hides a symbol from a later pass may
  itself be removed for the sake of a third barcode, and then neither is reported. `NothingHides`
  excludes both.
- A matrix code read with an error on one layer is equal to a later valid reading
  of the same place, which is dropped (`ReadBarcode.cpp:295`).
- `isPure` returns a list with one invalid barcode if there is none
  (`ReadBarcode.cpp:261`).
- Merging a sequence changes the barcodes in the caller's list, which share their
  data (`Barcode.cpp:221`); a symbol read twice makes its sequence incomplete
  (`Barcode.cpp:228`), and an error of any but the first part does not make the result one.
- Neighbours of a check row are read twice, so that `minLineCount` can be
  satisfied by one line (`oned/ODReader.cpp:121`).
- On a pure image only row 0 of the scan asks stateless row readers, and empty rows
  count (`oned/ODReader.cpp:158`). Check rows still pending when the scan reaches the
  edge are dropped (`oned/ODReader.cpp:114`).
- `setFormats` of the Qt reader assigns a vector that a running read may iterate over
  (`ZXingQt.h:444`).

*Contents*

- The structured append header of Aztec is removed without looking for an ECI between its characters
  (`aztec/AZDecoder.cpp:246`). Its position becomes negative (`Content.cpp:84`), and `ForEachECIBlock` calls
  its function for the default encoding with a negative end, which `asView` takes for unlimited, and for the ECI with a
  negative begin, for which it returns nothing: `bytesECI` gives all bytes the default encoding, and those
  behind a later switch twice. When such a symbol is merged, its ECI applies from the last bytes of the symbol before it
  on. `EncodingsInOrder` and `ProtocolRoundTrip` except contents so cut, `ImplementsStream` their merging.
- MaxiCode tests 7 bytes for the ANSI prefix and inserts the address at 9 (`maxicode/MCDecoder.cpp:279`). A message of
  7 or 8 bytes is inserted into past its end, which is undefined: built with libstdc++, `insert` crashes or
  leaves other bytes than either text. `InsertedPastEnd` keeps the new size only, and `ImplementsStream` excepts the call.

*QR Code*

- Version 14-Q of Model 1 has five blocks of 60 + 62 codewords, one more than the symbol has
  according to level L (`qrcode/QRVersion.cpp:600`); version 13 has 542 by the table and 540 in
  the matrix, so that it is never readable (`qrcode/QRVersion.cpp:591`,
  `qrcode/QRBitMatrixParser.cpp:193`); from version 7 on Model 1 carries no version
  information and is discarded (`qrcode/QRDetector.cpp:399`). Eight entries (7-H, 8-H, 10-Q,
  10-H, 11-H, 12-H, 14-M, 14-H) leave codewords unused.
- `qrcode/QRFormatInformation.h:41` says that the Hamming distance of the masked codes is 7. As
  mirrored words and three masks are tried, the distance between two readings is
  3 or even 2, two words without a mask are read as not mirrored even intact, and with two
  equal wrong bits in both copies some are read wrong. `Tolerated` states what remains.
- The half codeword of M1 and M3 is read into the lower half of a byte
  (`qrcode/QRBitMatrixParser.cpp:231`), while the parity covers it in the upper half
  (the sample `microqrcode-1/M1-Numeric.png` shows this): unless it is 0, reading it right
  takes one error correction.
- `Encode` with `useGs1Format` does not double percent signs, which the decoder then
  reads as separators (`qrcode/QREncoder.cpp:506`, `qrcode/QRDecoder.cpp:154`);
  `ReadAsMeant` leaves these texts out (`HasPercent`).

*Data Matrix*

- Texts that could be encoded are refused as "Illegal character" when X12 or EDIFACT was chosen and
  a character outside of it follows; others are refused at the largest size although
  ASCII would fit.
- EDIFACT and X12 omit their unlatch for the room of a symbol that then grows
  (`datamatrix/DMHighLevelEncoder.cpp:701`): six `A`, a hyphen, an asterisk and an e with acute accent are not read
  back. `FaultFree` excludes these texts too.
- `readBits` throws `std::out_of_range` for truncated Base 256, ECI and structured
  append, which `Decode` does not catch (`datamatrix/DMDecoder.cpp:355`); `MultiFormatReader` does not
  either. The model calls this state "leaked".
- The error of a rectangular symbol is replaced by the format error of the mirrored attempt
  (`datamatrix/DMDecoder.cpp:455`).

*Aztec*

- A wrong word in a symbol with a single check word makes `Decode` throw: Euclid's algorithm is
  to go on until the degree is below 0 (`ReedSolomonDecoder.cpp:55`). The outcome "thrown"
  stands for it.
- The loop at `aztec/AZEncoder.cpp:319` counts in modules without the lines of the grid, so that
  symbols of 12 and 27 layers lack the marks of the outermost line.
- A rune with two wrong words is corrected from words that the failed first
  attempt has changed (`aztec/AZDetector.cpp:316`).
- An empty text is printed with a mode message of -1 words and cannot be read. A rune asked for with a longer
  text takes its first character. The quotation mark is missing from the encoder's table of
  punctuation.
- `IsBetterThanOrEqualTo` may drop the state that ends shorter (50 instead of 49 bits for the bytes
  `\x81,B:5`), although a comment says otherwise.
- A structured append header that fills exactly 20 bits is read as text.

*PDF417*

- With the default of two rows and no error correction, tiny texts make symbols of two rows, which
  the reader refuses (`MIN_ROWS_IN_BARCODE` is 3).
- A correction that fails leaves its repairs for the next combination of ambiguous values
  (`pdf417/PDFScanningDecoder.cpp:609`).
- Where a symbol is bent by a row, so that both row indicators lie above or below a column, the
  column is numbered wrong (`pdf417/PDFDetectionResult.cpp:42`); `Gentle` states the limit.
- `EncodeText` looks ahead with `startpos + idx + 1 < count`, which mixes a position in the
  message with one in the run (`pdf417/PDFHighLevelEncoder.cpp:267`). `EncodeBinary` collects six bytes in a
  `long`, which has 32 bits on some platforms. Forced compactions are not validated, and
  forced text reads `msg[0]` of an empty one.
- An ECI within a batch of five codewords of mode 901 is read as data. The codeword with the count
  is not trusted: a wrong one is replaced.

*Linear codes*

- A check character of value 96 is taken for FNC3 and sets `readerInit`
  (`oned/ODCode128Reader.cpp:220`).
- A check character of value 102 acts as FNC1, and one of 98 as a shift (`ChecksumActs`). Each
  FNC1 in a place that marks the symbol is taken for the first (`MarkedOnce`). An FNC4 before digits stays
  pending over code set C (`ModifierStays`).
- Code 39 without a check character: where the second letter of a shifted pair is the check
  character of what is before it, the text is reported without translation, for example `C+A` for
  `Ca` (`CheckedByChance`).
- A NUL among standard characters of Code 39 is found behind the last entry of the alphabet, and
  the encoding read from beyond the table (`oned/ODCode39Writer.cpp:136`). An asterisk ends the
  symbol early.
- ITF of fewer than six digits and Codabar of fewer than four characters are written but not read.
- Add-ons of UPC/EAN that are rejected leave their digits in the result
  (`oned/ODMultiUPCEANReader.cpp:322`).

*DataBar*

- In the stacked branch, the second of two DataBar symbols side by side in a row is not read: after a
  right half, `next.shift(FULL_PAIR_SIZE + 2)` (`oned/ODDataBarReader.cpp:205`) changes the parity, and left halves are
  looked for on bars. `PrintedRead` expects such a symbol only where another row or direction shows it.
- A pair of DataBar Expanded that was rejected for its missing guard is kept, and taken if no other
  pair follows (`oned/ODDataBarExpandedReader.cpp:198`).
- The groups of inside and expanded characters have more patterns than the standard uses; they are
  read as values of the next group.
- With modules of two pixels and bars that are one pixel thinner, or a narrow element of a
  finder displaced by a third of a module, some printed symbols are not read.
- `DataBarLimited` asserts that the value of a symbol is in range; only debug builds notice.

## What is not modelled

Pixels: binarizers, detectors, samplers and the matching of bar widths are
arithmetic on data, and enter the models as what a reader sees. Formatting:
human readable text, GTIN, JSON and symbology identifiers. Vendored libraries
and the encoding tables, a third of all lines. Wrappers other than Qt, which translate between
languages. The accesses of two threads to the options inside one read, which
have no defined outcome. What remains of the core logic is in the plan.

## Plan

Done so far, in this order: the search loop with its bitmap, contents, structured append, the linear
scan and the Qt reader; then the codes, each as writer and reader with the symbol between them.
What is left, in the order of what matters to the result of a read:

1. MaxiCode: code sets with shifts and latches, primary and secondary messages.
2. `LumImagePyramid` of `ReadBarcode.cpp`: sizes of layers against the assertions of
   `close()` and the factor that scales positions back; composed with
   `ReadBarcodes`.
3. `GuessTextEncoding` and the C API.
4. Proofs: that a layout visits each module once, from the
   tables for all sizes; that the segments of other encoders are read as they are meant, from
   the lemmas on bits and groups in `QRReadingProofs`.
