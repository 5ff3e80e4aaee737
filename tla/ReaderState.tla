----------------------------- MODULE ReaderState -----------------------------
(***************************************************************************)
(* The object behind a FileReaderState* of a compressed file: class        *)
(* XZFileReaderState of lib/xz-file.cpp, of which                          *)
(* IndexedDeflateFileReaderState of lib/idx-defl-file.cpp is a second copy.*)
(*                                                                         *)
(* The object is one record and every method is an operator on it.  A      *)
(* method that can fail, or whose effect depends on the outside (the file, *)
(* the decompression library), is the SET of its possible outcomes.        *)
(*                                                                         *)
(* Data: a byte of the uncompressed contents is identified by its offset,  *)
(* so a buffer is a sequence of offsets and "the right bytes" are          *)
(* consecutive offsets.  Compressed data is counted in units.              *)
(***************************************************************************)
EXTENDS Integers, Sequences

CONSTANTS
  NumEntries,  \* the entries an index iterator can stand on are 1..NumEntries
  FileSize,    \* uncompressed size of the file
  Start,       \* Start[e]: the block's first uncompressed offset at entry e
  USize,       \* USize[e]: its uncompressed size
  CSize,       \* CSize[e]: compressed units of the block, trailer included
  InLen,       \* InLen[e]: units the FileReader delivers once sought to e
  NextEntry,   \* NextEntry[e]: where the iterator's next() goes, 0 at the end
  Offsets,     \* the offsets callers ask for
  Locate(_),   \* Locate(o): the entry of the block containing o, 0 if none
  ResetsSize,  \* does selectDefaultBuffer also compare the buffer's size?
  HasHeader,   \* does loadBlock decode a block header before the data?
  Damaged,     \* entries whose block the decoder rejects at some point
  BufSize,     \* sizeof(defaultOutputBuffer), 4096 in the code
  InChunk      \* the most one reader.read() returns, 4*1024 in the code

Entries == 1..NumEntries

ASSUME ReaderAssumption ==
  /\ NumEntries \in Nat /\ FileSize \in Nat
  /\ BufSize \in Nat \ {0} /\ InChunk \in Nat \ {0}
  /\ Start \in [Entries -> Nat] /\ USize \in [Entries -> Nat]
  /\ CSize \in [Entries -> Nat \ {0}] /\ InLen \in [Entries -> Nat]
  /\ NextEntry \in [Entries -> 0..NumEntries]
  /\ ResetsSize \in BOOLEAN /\ HasHeader \in BOOLEAN /\ Damaged \subseteq Entries
  /\ Offsets \subseteq Int

(***************************************************************************)
(* The index is sound where it is used: blocks lie inside the file and do  *)
(* not overlap, the compressed range of an intact block is complete, and a *)
(* locate lands in the block that holds the offset.                        *)
(***************************************************************************)
BlockEnd(e) == Start[e] + USize[e]

ASSUME IndexAssumption ==
  /\ \A e \in Entries : BlockEnd(e) <= FileSize
  /\ \A e, f \in Entries :
        Start[e] < BlockEnd(f) /\ Start[f] < BlockEnd(e) =>
          Start[e] = Start[f] /\ USize[e] = USize[f]
  /\ \A e \in Entries \ Damaged : InLen[e] >= CSize[e]
  /\ \A o \in Offsets : Locate(o) \in 0..NumEntries
  /\ \A o \in Offsets : 0 <= o /\ o < FileSize =>
        Locate(o) # 0 /\ Start[Locate(o)] <= o /\ o < BlockEnd(Locate(o))

(* next() continues the contents at every entry before the end of the file *)
NextContinues ==
  \A e \in Entries : BlockEnd(e) < FileSize =>
     NextEntry[e] # 0 /\ Start[NextEntry[e]] = BlockEnd(e)

(* The index ends where the file does: next() goes forward or reports the  *)
(* end, also from the last block on, and no offset outside is found.       *)
IndexEnds ==
  /\ \A e \in Entries : NextEntry[e] # 0 => Start[NextEntry[e]] = BlockEnd(e)
  /\ \A o \in Offsets : Locate(o) # 0 => 0 <= o /\ o < FileSize

Bytes(o, n) == [i \in 1..n |-> o + i - 1]   \* n bytes of the contents from o

Smaller(a, b) == IF a <= b THEN a ELSE b

-----------------------------------------------------------------------------
(* The record. "reader" is the FileReader over the compressed file, "in"   *)
(* is strm.next_in/avail_in, "dec" the decoder inside strm, "buf"/"size"   *)
(* are currentBuffer/currentBufferSize and "out" what currentBuffer holds  *)
(* before strm.next_out.  blk is the entry a stream of units belongs to.   *)

NoDecoder == [blk |-> 0, used |-> 0, made |-> 0, bad |-> FALSE]

NewState == [position |-> -1, iter |-> 0, dec |-> NoDecoder,
             reader |-> [blk |-> 0, pos |-> 0],
             in     |-> [blk |-> 0, pos |-> 0, n |-> 0],
             buf |-> "default", size |-> BufSize, out |-> << >>]

BufferKinds == {"default", "caller", "stale"}

StateType ==
  [position : Int, iter : 0..NumEntries,
   dec    : [blk : 0..NumEntries, used : Nat, made : Nat, bad : BOOLEAN],
   reader : [blk : 0..NumEntries, pos : Nat],
   in     : [blk : 0..NumEntries, pos : Nat, n : Nat],
   buf : BufferKinds, size : Nat, out : Seq(Nat)]

AvailableBytes(s) == Len(s.out)
AvailOut(s) == s.size - Len(s.out)

(* next_out goes back to the start of currentBuffer; position follows *)
DiscardOutputKeepsPosition(s) == [s EXCEPT !.out = << >>]
DiscardOutput(s) ==
  [s EXCEPT !.position = IF @ >= 0 THEN @ + AvailableBytes(s) ELSE @,
            !.out = << >>]

SelectBuffer(s, buf, size) ==
  LET t == IF s.position >= 0 THEN DiscardOutput(s) ELSE s
  IN  [t EXCEPT !.buf = buf, !.size = size, !.out = << >>]

SelectDefaultBufferSkipped(s) == s
SelectDefaultBuffer(s) ==
  IF s.buf # "default" \/ (ResetsSize /\ s.size # BufSize)
  THEN SelectBuffer(s, "default", BufSize)
  ELSE s

-----------------------------------------------------------------------------
(* Methods that can fail: outcomes [status, s]. "ok" and "streamEnd" are   *)
(* success, the others stand for the error messages:                       *)
(*   io    reader.read failed          mem   the decoder's setup failed    *)
(*   eof   "Unexpected end of file"    data  the decoder rejected the data *)
(*   range "couldn't find offset in index"                                 *)
(*   end   "Unexepected end of file": no block follows                     *)

Outcome(status, s) == [status |-> status, s |-> s]
Faults == {"io", "mem"}
Failures == Faults \union {"eof", "data", "range", "end"}

Remaining(s) == InLen[s.reader.blk] - s.reader.pos

FilledInput(s) ==
  LET n == Smaller(InChunk, Remaining(s))
  IN  [s EXCEPT !.in = [blk |-> s.reader.blk, pos |-> s.reader.pos, n |-> n],
                !.reader.pos = @ + n]

(* At the end of its range reader.read returns no data and touches no file *)
FillInputBuffer(s, mayFault) ==
  IF s.in.n # 0 THEN {Outcome("ok", s)}
  ELSE {Outcome("ok", FilledInput(s))} \union
       (IF mayFault /\ Remaining(s) > 0 THEN {Outcome("io", s)} ELSE {})

SoughtKeepsInput(s) ==
  [s EXCEPT !.position = -1, !.reader = [blk |-> s.iter, pos |-> 0]]
Sought(s) ==   \* clearFilters, reader.seek, strm.avail_in = 0
  [s EXCEPT !.position = -1, !.reader = [blk |-> s.iter, pos |-> 0],
            !.in = [blk |-> s.iter, pos |-> 0, n |-> 0]]

(* The header stands inside the first unit.  That of a damaged block may   *)
(* be incomplete or wrong.                                                 *)
BadHeader(e) == IF HasHeader /\ e \in Damaged THEN {"eof", "data"} ELSE {}

Started(s) ==
  [s EXCEPT !.dec = [blk |-> s.iter, used |-> 0, made |-> 0, bad |-> FALSE],
            !.position = Start[s.iter]]

LoadBlock(s, mayFault) ==
  UNION { IF r.status # "ok" THEN {r}
          ELSE IF r.s.in.n = 0 THEN {Outcome("eof", r.s)}
          ELSE {Outcome("ok", Started(r.s))} \union
               { Outcome(bad, r.s) : bad \in BadHeader(s.iter) } \union
               (IF mayFault
                THEN {Outcome("mem", [r.s EXCEPT !.dec = NoDecoder])} ELSE {})
        : r \in FillInputBuffer(Sought(s), mayFault) }

InBlock(s, offset) ==
  s.position >= 0 /\ offset >= Start[s.iter] /\ offset < BlockEnd(s.iter)

SeekBlockForContinues(s, offset, mayFault) ==
  CASE InBlock(s, offset) -> {Outcome("ok", s)}
    [] ~InBlock(s, offset) /\ Locate(offset) = 0 ->
         {Outcome("range", [s EXCEPT !.position = -1])}
    [] OTHER -> LoadBlock(DiscardOutput([s EXCEPT !.position = -1,
                                                  !.iter = Locate(offset)]),
                          mayFault)
SeekBlockFor(s, offset, mayFault) ==
  CASE InBlock(s, offset) /\ s.position <= offset -> {Outcome("ok", s)}
    [] InBlock(s, offset) /\ s.position > offset ->
         LoadBlock(DiscardOutput(s), mayFault)
    [] ~InBlock(s, offset) /\ Locate(offset) = 0 ->
         {Outcome("range", [s EXCEPT !.position = -1])}
    [] OTHER -> LoadBlock(DiscardOutput([s EXCEPT !.position = -1,
                                                  !.iter = Locate(offset)]),
                          mayFault)

(* iter.next() and, if there is a next block, loadBlock *)
LoadNextBlock(s, mayFault) ==
  IF NextEntry[s.iter] = 0 THEN {Outcome("end", s)}
  ELSE LoadBlock([s EXCEPT !.iter = NextEntry[s.iter]], mayFault)

-----------------------------------------------------------------------------
(* The decompression library: lzma_code(&strm, LZMA_RUN) and               *)
(* inflate(&strm, Z_SYNC_FLUSH).  Given input and room for output it makes *)
(* some progress, never reads past its block, and does not finish the      *)
(* input (the trailer) before the output.  Input of another place is       *)
(* rejected, and a decoder that rejected its data stays in that state.     *)

InSync(s) == s.in.blk = s.dec.blk /\ s.in.pos = s.dec.used

Consumed(s, i, o) ==
  [s EXCEPT !.in.pos = @ + i, !.in.n = @ - i,
            !.dec.used = @ + i, !.dec.made = @ + o,
            !.out = @ \o Bytes(Start[s.dec.blk] + s.dec.made, o)]

Progress(s) ==
  { io \in (0..Smaller(s.in.n, CSize[s.dec.blk] - s.dec.used))
            \X (0..Smaller(AvailOut(s), USize[s.dec.blk] - s.dec.made)) :
      /\ io[1] + io[2] > 0 \/ s.dec.used = CSize[s.dec.blk]
      /\ s.dec.made + io[2] < USize[s.dec.blk] =>
           s.dec.used + io[1] < CSize[s.dec.blk] }

Code(s) ==
  IF s.dec.bad \/ ~InSync(s)
  THEN {Outcome("data", [s EXCEPT !.dec.bad = TRUE])}
  ELSE LET steps == { Consumed(s, io[1], io[2]) : io \in Progress(s) }
       IN  { Outcome(IF t.dec.used = CSize[t.dec.blk] THEN "streamEnd" ELSE "ok", t)
               : t \in steps } \union
           (IF s.dec.blk \in Damaged
            THEN { Outcome("data", [t EXCEPT !.dec.bad = TRUE]) : t \in steps }
            ELSE {})

(* One turn of the loops of decode and decodeFillBuffer: fill, then code *)
FillAndCodeIgnoresEof(s, mayFault) ==
  UNION { IF r.status # "ok" \/ r.s.in.n = 0 THEN {r} ELSE Code(r.s)
        : r \in FillInputBuffer(s, mayFault) }
FillAndCode(s, mayFault) ==
  UNION { IF r.status # "ok" THEN {r}
          ELSE IF r.s.in.n = 0 THEN {Outcome("eof", r.s)}
          ELSE Code(r.s)
        : r \in FillInputBuffer(s, mayFault) }

=============================================================================
