# xz-jni: specification, model checking and proofs

xz-jni gives random access to the contents of two block-wise compressed file
formats: concatenated `.xz` streams (through liblzma) and the project's own
"indexed deflate" format (through zlib). This directory specifies the reading
core, the tools and the Java binding in TLA+, checks them with TLC on small files,
and proves with TLAPS, for files and buffers of every size, the safety properties
that hold.

## 1. The system

| component | state it keeps | operations | what makes it correct |
|---|---|---|---|
| `IFile` (`lib/file.h`) | none; the caller keeps a `FileReaderState*` | `read`, `readInto`, `finish`, `filesize` | an answer is an error or the file's bytes at the offset; `readInto` delivers all of them |
| `FileReader` (`lib/file.h`) | file, state pointer, next offset, remaining length | `seek`, `read`, `readInto`, `release`, `close`, copy | reads go through its part in order; a state is finished by the file that made it |
| `NormalFile`, `MMappedFile` (`lib/file.cpp`) | descriptor, size; per state a buffer or a mapping | as `IFile` | a range is checked before it is read; the data returned lives until the next call |
| `XZFile` reader state (`lib/xz-file.cpp`) | `position`, decoder, index iterator, current buffer, input, a `FileReader` | `selectDefaultBuffer`, `selectBuffer`, `fill_input_buffer`, `discard_output`, `loadBlock`, `seekBlockFor`, `decode`, `decodeFillBuffer` | the parts of the state belong together before every decoding step |
| `XZFile` (`lib/xz-file.cpp`) | file, `lzma_index` | `read`, `readInto`, `finish`, `read_index` | implements `IFile` |
| `IndexedDeflateFile` (`lib/idx-defl-file.cpp`) | file, table of block offsets | the same, a second copy of the code | implements `IFile` |
| JNI layer, `XZInputStream` | one `FileReader` per Java object | `openFile`, `readInt`, `closeFile` | the array receives the right integers; no use after close |
| tools `idx-deflate`, `idx-inflate`, `xz-inflate` | loop position | one pass over a file | the output is the whole file; what is written can be read back |

`XZFile` and `IndexedDeflateFile` sit on top of an OS file, through a
`FileReader` in each reader state. The JNI layer and the tools sit on top of
them through another `FileReader`. Results are pointers into buffers of the
state; nothing is copied on `read`.

What is hard: a reader state is *reused*. It survives calls that ended in the
middle of a block, calls that failed anywhere, calls that left the caller's own
storage behind as the output buffer, and reads that stop with decoded bytes
nobody asked for yet. The next call decides from `position` and the iterator
alone whether to continue, to restart the block or to look up another one.
Each turn of a decoding loop meets a file that may deliver little or fail and
a library that may make as little or as much progress as it likes, and both
have boundaries (end of input chunk, of output buffer, of block, of block
trailer, of the file) that can fall together in any combination.

## 2. Modules

```
IFile             the abstract promise               (INSTANCEd by BlockReader)
ReaderState       the reader state object: pure operators, one per method
BlockReader       read, readInto, finish and their callers    EXTENDS ReaderState
BlockReaderInv    the invariants behind it                    EXTENDS BlockReader
XzIndex           the walk over an lzma_index
IdxIndex          the index iterator of the indexed-deflate format
IndexedDeflateFile the second copy of the reader     EXTENDS BlockReader, IdxIndex
PrefixSums        sums of the numbers a sequence begins with
XzIndexParse      read_index: the index of an .xz file        EXTENDS PrefixSums
MCXzFile          TLC instance: .xz           EXTENDS BlockReaderInv, XzIndex
MCIdxFile         TLC instance: idxdefl       EXTENDS IndexedDeflateFile, BlockReaderInv
MCXzIndexParse    TLC instance: files to parse          EXTENDS XzIndexParse
PrefixSumsProofs  induction over numbers, and lemmas about sums    EXTENDS PrefixSums
XzIndexParseProofs the theorems about read_index
                  EXTENDS XzIndexParse, PrefixSumsProofs
BlockReaderProofs the reader's methods, and the theorems about any caller
                  EXTENDS BlockReaderInv
ContractProofs    the theorems about the repository's callers   EXTENDS BlockReaderProofs
IdxIndexParse     read_index of the indexed-deflate format    EXTENDS PrefixSums
ReaderPart        the arithmetic of a FileReader's part: pure operators
IdxArchive        idx-deflate, read_index and idx-inflate in a row
                  EXTENDS IdxIndexParse, ReaderPart; INSTANCEs IdxIndex
MCIdxArchive      TLC instance: inputs and archives       EXTENDS IdxArchive
IdxIndexProofs    the arithmetic of the index, proved           EXTENDS IdxIndex
IdxArchiveProofs  the theorems about archives
                  EXTENDS IdxArchive, PrefixSumsProofs; INSTANCEs IdxIndexProofs
FileReader        readers over plain, mapped and compressed files  EXTENDS ReaderPart
MCFileReader      TLC instance                            EXTENDS FileReader
FileReaderProofs  the theorems about readers              EXTENDS FileReader
XZInputStream     the Java object and its native methods  EXTENDS ReaderPart
MCXZInputStream   TLC instance                            EXTENDS XZInputStream
XZInputStreamProofs the theorems about the Java object    EXTENDS XZInputStream
```

**ReaderState** is `class XZFileReaderState` as a record and an operator per
method, in the order of the source. A method that can fail or depends on the
outside is the *set* of its outcomes `[status, s]`. `position` is the field of
that name; `iter` the entry the index iterator stands on; `dec` the decoder in
`strm` (the block it was started for, how much of its input it has used and how
many bytes it has made); `in` what `next_in/avail_in` point at; `reader` where
the `FileReader` stands; `buf`/`size` are `currentBuffer`/`currentBufferSize`
(`"default"`, `"caller"`, and `"stale"` once the call that passed the storage has
returned); `out` is what `currentBuffer` holds before `next_out`.

A byte of the contents is represented by its offset, so "the right bytes" are
consecutive numbers, and a duplicated, lost or shifted byte shows. Compressed
data is counted in units. The header, data and trailer of a block are not told
apart, except that the trailer keeps a decoder from finishing its input before
its output. `lzma_code` and `inflate` (`Code`) are the libraries' contract:
given input and room they make some progress, never more than there is, and
report the end of the stream exactly when the block's input is used up; input
from another place is rejected; in a damaged block any call may be the one that
reports it.

**BlockReader** gives a call the steps it has in the code: its entry
(`StartRead`, `StartReadInto`: allocation, `selectDefaultBuffer`,
`seekBlockFor`), then one step per turn of the loops of `decode` (`Decode`) and
`decodeFillBuffer` (`FillBuffer`), each including everything up to the next turn
(loading the next block, ending the skip, returning). A single thread runs a
call; a step is the smallest unit another part of the system can influence.
`SpecAny` lets the caller do any calls in any order. `Spec` is restricted to what
the callers in the repository do: sequential reads from a block's start as the
tools make them, and readIntos as `FileReader::readInto` makes them, of any range:
it does not limit them to the file, and `XZInputStream.readInt` passes on what Java
asks for. After a readInto that left the file or failed the callers get a new
state, as `seek` releases the old one.

**IFile** only knows calls and replies, and how a reply must relate to its call.
`ImplementsIFile` is `Contract!Spec` for the same `call` and `reply`
variables: every step of the code is a step of the contract or a stutter.
`RefusesOutside` says whether the file is one that answers a `readInto` over its end
with an error, as `lib/file.h` promises. `BlockReader` sets it to `IndexEnds`: an .xz
index ends with the file, an indexed-deflate index only if its last block is full.
Where it does not end, the contract only asks for an answer of the right length
(`ReadIntoSucceedsOutside`); what it is then is said by `OverEndRepeats` and
`OverEndRefused`.

**XzIndex** and **IdxIndex** define `Start`, `USize`, `NextEntry` and `Locate`
for the two formats. For `.xz` the iterator is external code, modelled from its
documentation and from how `lib/xz-file.cpp` calls it; an index entry may be a
stream without blocks, at which `LZMA_INDEX_ITER_ANY` stops too.

**IndexedDeflateFile** is the second copy of the code, line for line the same
except for the four differences its header names.

**XzIndexParse** is `read_index` of `lib/xz-file.cpp`, which collects the indexes
of all streams from the end of the file to its start. A file is a sequence of
words of four bytes, each known by the part it belongs to: a parser that looks
at a wrong place finds words it does not expect there. What liblzma decodes is
external: a footer or header is recognised when its words are read whole, in
order and with readable flags, and an index when all its words were given to
the decoder in order. The variables are the function's locals; one step is one
turn of its loops or one stretch between two reads. An index that ends before the
footer says so is `cur_index` until it is refused (`RefuseLeftover`). `alive` counts the indexes
that liblzma has allocated and nobody has released. `At(p, n)` is what
`readInto` delivers; that the parser reads whole words holds in the code as all
its steps are multiples of four bytes, so a file that is not is one whose words
are all unknown. What stands in `XzIndex` as the entries of an index is what
this module collects in `col`.

**IdxIndexParse** is `read_index` of `lib/idx-defl-file.cpp`. An archive is a
record of what the function looks at: its size, the four footer numbers, the
numbers the index holds and how long it is compressed. The widths of the
integers are constants: `Product` says what `full_blocks * block_size` may be
when it does not fit an `int32_t` (signed overflow is undefined, so the wrapped
and the widened value are both possible). `inflate` consumes and makes any
amount up to the end of a buffer or of the stream (`InflateOutcomes`), so that
the ends of the input chunk, of `intbuf`, of a number and of the stream fall
together in every way. `decoder = "garbage"` is `strm` before anything was
written to it: a jump to `failed` from there lets `inflateEnd` look at
uninitialised memory, and `Fail` may then return or crash. When there is no memory
for the table `new` throws, which nothing in the repository catches: the program
ends (`NoTable`).

**IdxArchive** puts three programs in a row. `idx-deflate` (`WriteHeader`,
`StoreBlock`, `StoreIndex`, `DoWrite`, `WriteFooter`) writes an archive, one turn
of `dowrite` at a time, of which `write` takes any part; the result, `Written`,
or any archive from elsewhere is opened by `ReadIndex`, which is the whole of
`IdxIndexParse`; and `idx-inflate` (`Start`, `InflateTurn`, `End`) reads the
contents through a `FileReader` and writes them out. Where an offset lies is
asked of `Index`, the module `IdxIndex` with the footer's numbers, and what is
found there is the block written at that place: if header, table, index and
footer do not agree, the output shows it.

**ReaderPart** has what `fixLength`, `read` and `readInto` do to `m_offset` and
`m_length`. The tools, the JNI layer and the module FileReader share it.

**FileReader** is `class FileReader` over the files it is used with. A method is
one step, as it works on the reader's own state only. Reader states are
addresses in `heap`, with the file that made them and what they hold, and `maps`
counts the process's mappings. `NormalFile` and `MMappedFile` are modelled from
`lib/file.cpp` (`ReadNormal`, `ReadMapped`); of a compressed file only the
promise of `IFile` is kept, including an answer of more than was asked for.

**XZInputStream** is the Java object from its constructor (`OpenArchive`,
`SetFields`) to its finalizer (`TakePtr`, `DeleteReader`) and `readInt`, cut where
another thread or the array can interfere: entry, `seek`, `readInto`, the
conversion and the release of the array. `GetIntArrayElements` gives a copy or
the array itself. Java calls the finalizer only when no native method of the
object runs, since the method holds a reference to it (`Drop`). `closeFile` does
nothing when it does not find the field; the reader then stays (`TakePtr`).

Memory is bytes there. A byte of the archive is its place in the contents, a byte
that was in the array before is a negative number, and byte `b` belongs to int
`b \div 4`, so a half-read int and one with its bytes in the wrong order both show.
A `readInto` that fails may have stopped after any byte (`Read`), as
`decodeFillBuffer` does. `last` says what kind of archive it is: `NoMore` for one
whose index ends with the contents (.xz, or an indexed-deflate archive with a full
last block), or where the last block starts, at which such an archive goes on
behind its end, over and over (`Place`); an empty last block (`last = Length`) leads
to itself, so a call over the end never returns. `Reaches` and `GivesUp` say how far
a call gets and where it must or may fail. The processor is taken as little-endian,
so that `htonl` swaps an int's bytes (`Mirror`), and the archive's index as right.

## 3. Properties

* `AnswersExact`: what a successful call returned are the bytes at its offset.
* `ErrorsHaveCauses`: no spurious failure. "data" and "eof" only in a damaged
  block, "range" and "end" only for a range that leaves the file. Both speak of
  calls whose answer the code can be held to (`Promised`): all but a `readInto` over
  the end of an indexed-deflate file that does not refuse it.
* `OverEndRepeats` (IndexedDeflateFile): such a `readInto`, when it succeeds, delivers
  the contents up to the end and then the last block over and over, without a byte
  of another place or a shift. `IdxRepliesRight` is this and `ErrorsHaveCauses`, of the
  second copy. `OverEndRefused` is what `lib/file.h` promises instead.
* `ImplementsIFile`: both, as a refinement of the contract.
* `CallsReturn`: every call ends, whatever fails.
* `InputInSync`: the decoder only sees the compressed data it needs next.
* `NoStaleWrite`: nothing is decoded into storage of an earlier call.
* `ReadStaysInBuffer`: the size computed from `position` never reaches behind
  what the decoder has written.
* `ReuseInv`, `CallInv` (BlockReaderInv): the inductive invariants of section 5.
* `IndexTilesFile` (XzIndexParse): the streams collected, laid out as their
  indexes say, cover the end of the file without a gap, each with its header,
  index, footer and padding in its place; a returned index covers all of it. It
  does not say that the blocks are there, which nobody looks at: an index that
  claims the stream before it as its own blocks is accepted (one of the files).
* `WellFormedAccepted`, and `AlignedAccepted` for the files it holds of: a sound
  file is accepted, with all streams and paddings in order.
* `IndexesOwned`: no error path loses an index or releases it twice. The equation
  has one exception, which is how the code is: `col_index` is forgotten when
  `lzma_index_cat` fails.
* `ReadsInside`, `MemBounded`, `Terminates`: the parser stays inside the file and
  the memory limit, and returns, whatever the file holds.
* `StaysInside` (IdxIndexParse): no number of the archive makes `read_index` ask
  for bytes outside of the file or store behind its table.
* `OffsetsTile`: a returned table covers the archive from the header to the index.
* `WellFormedAccepted`: what the format document allows is opened, however the
  index falls into chunks.
* `ResourcesReturned`: every error path frees the table and ends the decoder, and
  the program only ends in `read_index` at a header or footer that is refused, with the
  uninitialised `strm`, or without memory for the table.
* `RoundTrip`: what `idx-deflate` wrote is opened and `idx-inflate` gives the input
  back, whatever `write` does short of failing. The header is the exception:
  `idx-deflate` does not look at what became of its write.
* `OffsetsFound`: table, footer and `Iter::seek` divide the contents alike. It holds
  of archives with `last_block <= block_size`, which the format document demands
  and nobody checks.
* `AllEnd`: the three programs end.
* `StatesOwned`, `MapsOwned`, `DataStands`, `PartDelivered` (FileReader): a state has
  one reader and goes back to the file that made it; each `mmap` is undone once;
  what a read returned stays in place until the reader's next call; the part is
  delivered in order, each byte once, and only a `readInto` leaves it.
* `IntsDelivered` (XZInputStream): a `readInt` that returns has filled its range with the
  converted integers at its offset. A range that leaves the contents is answered only
  by an archive whose index goes on there, with bytes of its last block.
* `RestKept`: one that throws has put the bytes from its offset on, not swapped and in
  their order, into its range, up to any byte, in the middle of an int too; behind it,
  and outside of the range, the array is as it was. A negative length
  has no range: the code does not refuse it, and four times it may wrap around to a
  positive number of bytes.
* `ReaderOwned`: the native reader lives while a call uses it or the object refers to
  it, and outside of `openFile` and `closeFile` none is left that the object does not
  refer to. (An object keeps its reader for ever when `closeFile` does not find the field.)
* `CrashesOnlyUnfit`: only a negative length, or one of more bytes than an `int`
  counts, can fail an assertion or leave the array.
* `TypeOK` (`ArchiveTypeOK`): one per state machine; in the reader it includes the assertion in `decode` that
  the decoder has room.

## 4. Runs

| run | specification | instance | shows |
|---|---|---|---|
| `xz_contract` | `Spec` | blocks of 5, 2, 1 bytes, the second damaged, one failure | the contract for the repository's callers |
| `idx_contract` | `IdxSpec` | blocks of 4, 4, 2 bytes, the second damaged, one failure | the same for the second copy, its state discipline and ranges over the end included |
| `xz_reuse` | `SpecAny` | blocks of 3, 2 bytes, the second damaged, one failure | state discipline for *any* sequence of calls |
| `xz_empty_stream` | `Spec` | blocks of 2, an empty stream, 2 | violated: bytes delivered twice |
| `idx_past_end` | `IdxSpec` | blocks of 3 and 0 bytes | violated: a range over the end is not refused, the call never ends |
| `xz_parse` | `Spec` | some 4500 files of up to three streams, sound or damaged; any call fails | the parser's properties |
| `xz_padding` | `Spec` | sound files with paddings of 0 to 7 words | violated: a sound file is refused |
| `idx_archive` | `ArchiveSpec` | inputs of 0 to 4 blocks with short and failing writes; some 130 archives from elsewhere, sound or damaged; any read or allocation fails | the round trip and the parser's properties |
| `idx_large` | `ArchiveSpec` | inputs around and above what an `int` counts | violated: the opened archive has another size |
| `file_reader` | `Spec` | two readers, four files, failing `pread`, `mmap` and reads | ownership and delivery |
| `input_stream` | `Spec` | two threads taking turns, arguments inside and outside of array and contents, archives that end and that go on | `readInt` and the object's life |
| `stream_threads` | `SpecAny` | the same threads at the same time | violated: they share a FileReader |

The runs marked violated are the disagreements between the code and its
comments or documentation; PROJECT.json lists each under `findings` with the
lines. `read` also never looks at its length parameter: it answers with all that is
buffered behind the offset, and `FileReader::read` cuts that down (`lib/file.h:177`).

Two of them concern usual files and uses. An `.xz` archive padded to a multiple of
four bytes but not of twelve cannot be opened (`xz_padding`), and an
indexed-deflate archive of 2 GiB or more gets a wrong size wherever the product
wraps around (`idx_large`). Threads that share an `XZInputStream` (`stream_threads`)
read each other's integers: `seek` and `readInto` of the two calls interleave. An
empty stream between others is rare (`xz_empty_stream`), and a range over the end of
an archive is a caller's mistake that should be answered by an error. `readInt` passes
it on, and an indexed-deflate archive answers it with bytes of its last block
(`OverEndRepeats`) or, when its contents are a multiple of the block size, so that the
last block is empty, never (`idx_past_end`).

Why `Spec` restricts the callers of the reader: for other sequences of calls the
contract does not hold. `read` answers from `position` on and not from its offset
unless the two agree; a `readInto` after a `read` that left decoded bytes in the
buffer skips too much; and after a buffer filled across a block's end `position`
is too large. `FileReader` makes none of these calls: the tools read
sequentially with room for all that is buffered, and the JNI layer starts every
call with a new state. What it does make is a `readInto` over the end of the file.
With an empty last block it runs forever, as a plain `read` at exactly the file's
size would, which no caller makes; `idx_contract` shows that with a short last block
every call returns. `SpecAny`, with any calls, is what `xz_reuse` checks and
`ReuseCorrect` proves: the state stays sound, whatever is answered. The second
copy's state discipline is checked for the repository's callers (`ReuseInv` in
`idx_contract`); `ReuseCorrect` is about its actions too, as they are
the same definitions.

**Bounds.** Output buffers hold 2 bytes and input chunks 2 units (4096 in the
code); a block has 2 units. That makes every boundary meet every other:
blocks longer than, as long as and shorter than a buffer, of odd and of even
length, input chunks that end with the block (idx) or reach past it (xz), calls
that start, cross and end at block boundaries, that skip more and less than a
buffer, and that leave the file on both sides (`Offsets` includes -1 and
`FileSize + 1`). `MaxFaults = 1` bounds the failures of the file below and of
memory; the state after a failure does not remember how many there were, so
one failure at every place and calls before and after it are enough. Since
bytes are offsets no symmetry is used. A damaged block has only one of its two
units: reading past the end of the data is among the failures checked.

The files of `xz_parse` have blocks and indexes shorter and longer than the
buffer (3 words), paddings of 0, 3 and 6 words (and 1, 2, 4, which only
`AlignedAccepted` leaves out), each damage alone or beside a sound or another
damaged stream, and in front of them nothing, one word, or enough zeros or other
words to look for another footer in. Two streams meet every way in which one
turn of the outer loop depends on the one before; a third is there for the
concatenation of what was concatenated.

In `idx_archive` blocks have 3 bytes, input chunks 3, `intbuf` two numbers and
`int32_t` six bits, so that inputs of 0, 1, 3, 7 and 10 bytes are none, less than a
block, a whole one, and two and three with a rest, and every size and number the
footer may hold meets its limit (`MaxInt - 16`, `MaxBlocks`, the product). The index is
compressed into less than, exactly or more than one chunk. In `idx_large` `MaxInt`
is 63 and inputs reach past it once and twice. `MaxLong` bounds `int64_t`, which no
footer that passes the other checks can exceed: of the two types the constants only
keep that the sum of two `int32_t` fits an `int64_t` (`MaxLong >= 2 * MaxInt`).
`SmallInputsFit` evaluates the hypothesis of the theorem about the round trip: all
inputs of `idx_archive` are among those it speaks of.

`file_reader` has buffers and pages of 2 bytes and files of 3 and 4, requests
shorter and longer than a buffer, parts inside, at the end of and behind the
file, answers up to `MaxAnswer` = 3 bytes, and as many state addresses as readers. The readers are symmetric
(no liveness is checked, and nothing names one of them).

`input_stream` has arrays of six ints and contents of two ints and a byte, of an archive
that ends there, goes on with its last four bytes or has an empty last block (`Lasts`).
Offsets begin, cross and lie behind the end, and are negative. `MaxInt`
= 11: four times three or four wraps around to a negative number, four times six to
zero and four times minus five to four, which are the cases of `ByteCounts`. The
threads are symmetric: no property names one of them and there is no liveness.

**Fairness.** `WF_vars(Step)` and nothing else: a call runs on its caller's
thread and does not wait for anything, so a step that can be taken is taken.
Callers need not call. That the library makes progress is part of its
contract (`Progress`) and not an assumption of fairness.

For `XzIndexParse` it is the steps in which no call fails that are fair, so that
`Terminates` does not rest on a failure coming to the rescue; the same goes for
the programs of `IdxArchive`. `FileReader` and `XZInputStream` have no fairness: nobody
has to call, and what could be said to happen eventually is the single call,
which is the business of the reader below.

**Deadlock** is checked wherever there are calls: a caller can always make another
one. `read_index` runs once and is over, programs end, a finalized object is not called
any more and a failed assertion ends the process, so the runs of `XzIndexParse`,
`IdxArchive` and `XZInputStream` do not check it.

Every property of a passing run has a mutant, an operator that changes a
definition the way a slip in the code would (a missing reset, `>=` for `>`, a
forgotten end-of-file test), and for which TLC finds the property violated.

## 5. Proofs

The assumptions are those of the modules: `ReaderAssumption` (types and
positive sizes of the constants), `IndexAssumption` (the index describes the
file), `CallsAssumption`, `IdxAssumption`, `IdxParseAssumption`,
`ArchiveAssumption`, `FileReaderAssumption`, `StreamAssumption` and `ParseAssumption`.
Nothing is bounded: any number of blocks of any size, any buffer and chunk size, any
set of offsets and calls, any bound on failures. Two theorems have a hypothesis of their own,
`NextContinues` and `InputsFit`, which are explained where they appear and which TLC
evaluates for the instances.

What sequences add up to is defined recursively, by the recursive functions in
`Sums` and `FlattenSeq`. The library's induction theorems cannot be used, as they
take an operator as a parameter; `AllNumbers` (PrefixSumsProofs) says the same of a
*set* of numbers, which needs none, and `SumsRecursion`, `SumsPrepend`, `Flattening` and
`Layout` rest on it: where a part of a file lies is the sum of the lengths before it.

* `ReuseCorrect == SpecAny => []ReuseInv`. `ReuseInv` is inductive. Its core is
  `Sound(state)`: while `position >= 0`, the decoder belongs to the iterator's
  block, the input it is given next and the place the `FileReader` stands at are
  those of that block (`Decoding`, `Fed`, `InSync`), and the trailer is not used
  up before the data. Away from it, the state is only typed: `position = -1` is
  how a failed `loadBlock` disowns everything else. `Stage` adds what each loop
  finds at its top: room for output, in the right buffer. The three properties
  alone are not inductive, since between calls nothing forces the leftovers to
  be right except `Sound`.
* `InputStaysInSync == SpecAny => []InputInSync` and
  `NoStaleWrites == SpecAny => []NoStaleWrite` follow from it.

* `AnswersCorrect == ASSUME NextContinues PROVE Spec => []AnswersExact`, for the
  callers of the repository, their ranges over the end included (`FillCallerOutside`,
  `SkipLoopOutside`, `OutsideCall` keep such a call apart from the others).
  `NextContinues` says of the index that `next()`
  goes on where a block ends. It holds of every indexed-deflate archive and of an
  .xz file without empty streams, which TLC evaluates for each instance
  (`XzContinues`, `IdxContinues`); `xz_empty_stream` shows what happens without it.
  `AnswersExact` speaks of replies only, so the induction needs to know what
  every stage of a call relies on. That is `CallInv`, inductive together with
  `ReuseInv`: while `read` runs, the buffer holds the bytes at `position`, the
  decoder stands right behind them (`Tracks`) and the offset is at one of the two
  ends (`ReadyToRead`); while `readInto` skips, the buffer is never larger than
  what is left to skip, so the skip ends exactly at the offset (`SkipReady`) and
  inside the offset's block; while it fills, the storage holds the bytes from the
  offset on (`FillReady`). Between calls it says in which states the object may
  be left (`BetweenCalls`). `position` is *not* right in all of them: after a
  `readInto` that crossed blocks it is too large, and the proof rests on its never
  being too small, so that the next call reloads the block.
* `ReadsStayInBuffer` and `TypeCorrect` follow from the same invariant, which is itself
  `CallInvariant == ASSUME NextContinues PROVE Spec => []CallInv`.
* `ErrorsCaused == ASSUME NextContinues PROVE Spec => []ErrorsHaveCauses`. The cause
  is recorded when the call fails: `FailCall` asks for it, and each of its uses gets it
  from what `CallInv` knows of that stage and from the lemma about the method that
  failed. Data is rejected or runs out only in a damaged block; "end" from a position
  inside the file cannot happen, because the block there is found.
* `ContractImplemented == ASSUME NextContinues PROVE Spec => ImplementsIFile`: a step
  that begins a call is the contract's call, one that ends it with what
  `AnswersExact` or `ErrorsHaveCauses` says of the reply is the contract's return
  (`SuccessAllowed`, `FailureAllowed`), and every other step is a stutter.

**BlockReaderProofs** has one lemma per method of the reader state, saying what it
returns, preserves and bounds, about any sound state. It lifts
them to soundness, has a lemma per way a step can end (`ReturnReuse`,
`FailReuse`, `ContinueReuse`), one per loop head (`ReadLoopReuse`,
`SkipLoopReuse`, `FillCallerReuse`) and one per action. **ContractProofs** has the
same lemmas for `CallInv` (`ReturnCall`, `FailCall`, `ContinueCall`,
`ReadLoopCall`, `SkipLoopCall`, ...), and those about the bytes: a turn of the
decoder continues what the buffer holds (`TurnAppends`), and the block found at
another block's end begins there (`LocatedAtEnd`).

* `SeekFinds`, `BlocksDisjoint` and `NextGoesOn` (IdxIndexProofs) say that the
  indexed-deflate index is what the reader assumes of an index: they are the parts
  of `IndexAssumption` that concern it, and `NextContinues`, for blocks of any size
  and number. `LastLeadsToItself` says what comes behind the last block: itself, unless
  it is full. It is why the contract cannot ask for an error there.

* `ParserStaysInside == ArchiveSpec => []StaysInside` and `ParserTiles == ArchiveSpec
  => []OffsetsTile` (IdxArchiveProofs), for archives of any size and content,
  written by `idx-deflate` or not, and buffers of any size. Neither is inductive.
  `IndexInv` adds that what is left of the index lies right in front of the footer
  (`pos + indexSize`), that every byte made of it is either in `intbuf` or a quarter
  of an offset (`made`), from which it follows that the next number exists, and that
  the table so far begins behind the header and never goes back (`Table`). For the
  archives that are written here it needs to know that they are archives at all:
  `WriterInv` says that a footer is only written after a block.
* `EveryOffsetFound == ArchiveSpec => []OffsetsFound`: the same invariant gives the
  number of blocks, and `SeekFinds`, for the footer's numbers, the rest.
* `NothingLeaks == ArchiveSpec => []ResourcesReturned`, from `Tidy`, which says what
  `read_index` holds at each place.
* `ArchiveTypes == ArchiveSpec => []ArchiveTypeOK`, with `TypeInv` for the places where
  the types of the decoder's numbers depend on how far it is.
* `WellFormedIsAccepted == ArchiveSpec => []WellFormedAccepted`. `Accepting` says that
  a sane archive with its index in its place goes on (`Goes`): at each place of
  `read_index` it knows what is left of the compressed and of the decompressed index
  and that the table is the prefix sums of the lengths in the index, so that each check
  that could refuse compares what is equal. There is one lemma per action.
* `WrittenIsRestored == ASSUME InputsFit PROVE ArchiveSpec => []RoundTrip`. `RoundInv`
  follows an input through the three programs: where each block was written and from
  where in the input (`Laid`), that what is written ends in the index and its footer
  (`Ending`), that `read_index` gets from this the same lengths (`Ready`), and that the
  output so far is the input so far (`Restores`). `InputsFit` says that the block size, the
  compressed index, the number of blocks and the size of the full ones are within
  `read_index`'s limits. Without it the theorem is
  false: `idx_large` shows what happens to an input whose size does not fit.

* `StatesHaveOneOwner == Spec => []StatesOwned`, `MappingsHaveOneOwner == Spec =>
  []MapsOwned`, `AnswersStand == Spec => []DataStands` and `PartsDelivered == Spec =>
  []PartDelivered` (FileReaderProofs), for any number of readers, files of any
  size, buffers, pages and parts of any size. Two invariants that do not need each
  other but for a type: `OwnerInv` says that a state is pointed to by one reader,
  whose file made it and maps memory only if it is an `MMappedFile` (`Owned`), that
  the mappings there are were counted (`Counted`), and that what a call returned is
  what the reader's own state holds (`Stands`), which is why no other reader can
  take it away. `DeliveryInv` says that what was read and what is left make up the
  part (`Delivered`). Every action is one of three things to the first (`FinishKeeps`,
  `HoldsKeeps`, `KeepsStateKeeps`) and to the second (`SetUpKeeps`, `GoesOnKeeps`,
  `SamePartKeeps`). If the copy constructor took the state along, as
  `CopySharesState` does, the lemma about `Copy` would not be provable.
* `TypeCorrect == Spec => []TypeOK`, for which the heap must be known to be typed
  (`HeapTyped`): the page arithmetic of `MMappedFile::read` never maps before its file,
  and no `munmap` is without its `mmap`.

* `ReaderHasOwner == SpecAny => []ReaderOwned`, `FitCallsDoNotCrash == SpecAny =>
  []CrashesOnlyUnfit` and `StreamTypes` (XZInputStreamProofs), for any number of
  threads that call at any time: `Lifetime` says between which of the object's states
  the reader exists, and `Checked` that a call which works on the array has passed
  the range check.
* `IntsAreDelivered == Spec => []IntsDelivered` and `RestIsKept == Spec =>
  []RestKept`, for threads that take turns, and archives, arrays and arguments of any size.
  `Stage` says what the bytes are in each place of a call: as before, filled,
  converted, or filled up to some byte. With `SpecAny` it is not inductive: another thread's
  `seek` moves the part, which is what `stream_threads` shows.

* `ParserReadsInside == Spec => []ReadsInside`, `IndexesHaveOneOwner == Spec =>
  []IndexesOwned` and `ParserTypes` (XzIndexParseProofs), for files of any number of
  streams, whatever their footers and indexes claim, buffers of any size and calls that
  fail in any place. `Placed` is what the checks in the code add up to: a footer has its
  room behind `pos`, and while an index is decoded `pos + index_size` stays in front
  of the footer and a header's room behind the footer's `backward`. `Owned` says that
  `cur_index` is held from its end to `lzma_index_cat` only.
* `IndexesFitTheLimit == Spec => []MemBounded`: each decoder gets what the collected
  indexes leave of the limit, and the memory of the concatenation is the sum
  (`MemPrepend`).
* `TheIndexTilesTheFile == Spec => []IndexTilesFile`. `TileInv` is inductive: the
  collected streams tile the file from `Edge` on (`Tiled`), and each place of the loop
  knows what lies at `pos` (`AtPlace`): zeros between a possible footer and `Edge` while
  one is looked for (`EndsAt`), then the footer, then that what the decoder was fed is
  what lies before the footer. The step that needs most is the end of an
  index: the decoder only says that it saw *an* index, and `read_index` takes the
  flags and the length from the footer. That it is the footer's own stream is a property of
  files, `Orderly`: an index is followed by its own footer or by none. It is shown of
  every file from the way files are built (`StreamOrderly`, `OrderlyJoin`, `ContentsOrderly`).
* `AlignedFilesAccepted == Spec => []AlignedAccepted`: no check in the loop refuses a
  well-formed file whose paddings are whole headers, of any number of streams. The
  invariant is `AcceptInv`. `K`, the number of streams not yet collected, is the stream
  that the loop is in: `Collected` says that what is collected are the streams behind
  `K` with their paddings, that they begin where the lengths of the first `K` streams
  end, and that they take what the first `K` leave of the memory. `Layout` and
  `LiesPlace` say where the parts of stream `K` lie in such a file, so each check is
  met (`Now`); `GoesOn` says what each place has found of it so far. For
  paddings that are no whole headers the search for the footer ends inside the padding, and
  the proof fails where the code does (`xz_padding`).
* `EveryTurnDescends == Spec => [][Descends]_vars`: every step of `read_index` goes
  down in the lexicographic order of three natural numbers. This is what can be proved of
  `Terminates`; that the step is taken is fairness.

Proved are all the invariants that the passing runs check, but for `OverEndRepeats`
in `IdxRepliesRight`, and the refinement. Only model-checked are `OverEndRepeats`, which
is about the second copy alone, and the liveness properties, `CallsReturn`, `Terminates` and
`AllEnd`, since liveness under fairness is out of the prover's reach. The theorems
speak of `Spec` and `SpecAny`. The actions of `IndexedDeflateFile` are the same
definitions, so the proofs are about the second copy too, but no theorem is stated
of `IdxSpec` yet (§6).

## 6. What is not modelled, and the plan

Left out of `XzIndexParse`: the reader state that `read_index` hands to the file
below, the second turn without input that `LZMA_BUF_ERROR` ends, and the 16 MiB
limit's value.

Left out of the modelled components: the `valid()` test at the entry of each
call (a caller with an unopened file gets "Invalid file" and no state), wording of
errors, freeing of filters and of the decoder's memory (a failed allocation is the
status "mem"), and calls of length 0, which `FileReader` answers itself. An
index is assumed to describe its file (`IndexAssumption`): blocks do not overlap
and an intact block is complete. How an index comes to be right is the business
of the parsers below. In an indexed-deflate archive a block whose data is
shorter or longer than the index says is not considered.

Left out of `IdxIndexParse` and `IdxArchive`: the contents of archives from
elsewhere (they are opened, not read), an archive that `idx-deflate` leaves half
written when it gives up (its footer is missing, which makes it an archive from
elsewhere without a readable footer), a `write` that returns 0, for which `dowrite`
tries again, the reader state that `read_index` hands to the file below, and files
that change while they are read. `footer.last_block` larger than `block_size` is
accepted by the code; `OffsetsFound` excludes it, and what seeks behind the last
block then do is not modelled.

Left out of `FileReader`: opening (a file is opened or is not: `Opened`), a `read` after a
`readInto` that has left the part, which asks for a negative length and which nobody
does, and two threads in one method of one reader, which `lib/file.h:75` forbids.

Left out of `XZInputStream`: what two threads do *inside* one `FileReader` (a data
race), one Java array shared by two threads (copies that overwrite each other), and
how the archive below comes by its bytes: which of them a call delivers, where it
stops and where it may fail is what `BlockReader` and `OverEndRepeats` allow. `stream_threads`
shows that two calls can be in one reader at the same time, no more.

Two files are not covered beyond that: error wording and logging are layout, and
the vendored headers and build files hold no behaviour.

The plan for what is left, proofs all of it:

1. The numbers that go down in the loops of `decode`, `decodeFillBuffer` and of
   `IdxArchive`, as `EveryTurnDescends` has them for `XzIndexParse`.
2. What the lemmas of `BlockReaderProofs` and `ContractProofs` show of the second
   copy, as theorems about `IdxSpec`.

Not planned: build files, the vendored toolchain file, logging, and the
insides of liblzma and zlib.
