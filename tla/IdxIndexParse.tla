--------------------------- MODULE IdxIndexParse ---------------------------
(***************************************************************************)
(* read_index of lib/idx-defl-file.cpp: header and footer of an archive    *)
(* are checked and its index is inflated into the table of block offsets.  *)
(*                                                                         *)
(* Of an archive only what read_index looks at is kept: whether it begins  *)
(* with the magic bytes, the footer's numbers, and what inflating from the *)
(* place on where the footer puts the index gives.                         *)
(***************************************************************************)
EXTENDS Integers, Sequences, PrefixSums

CONSTANTS
  Archives,   \* the archives to open
  Chunk,      \* sizeof(buf), 4096 in the code
  IntBytes,   \* sizeof(intbuf), 256 in the code
  MaxBlocks,  \* memlimit / 8 - 256
  MaxInt,     \* the largest int32_t
  MaxLong,    \* the largest int64_t
  Faults      \* kinds of calls that may fail: "read", "mem"

HeaderBytes == 8
FooterBytes == 16

Numbers == {"index_size", "block_size", "full_blocks", "last_block"}

(* An archive: its size, whether the magic bytes are there, the footer, the *)
(* whole numbers in the inflated index (lens), the bytes after them (tail), *)
(* the length of the compressed index (clen), and whether it is intact.     *)
ArchiveSet ==
  [size : Nat, magic : BOOLEAN, footer : [Numbers -> Nat], lens : Seq(Nat),
   tail : 0..3, clen : Nat \ {0}, intact : BOOLEAN]

ASSUME IdxParseAssumption ==
  /\ Archives \subseteq ArchiveSet
  /\ Chunk \in Nat \ {0} /\ IntBytes \in Nat \ {0} /\ IntBytes % 4 = 0
  /\ MaxBlocks \in Nat /\ MaxInt \in Nat /\ MaxInt >= 16
  /\ MaxLong \in Nat /\ MaxLong >= 2 * MaxInt
  /\ Faults \subseteq {"read", "mem"}

VARIABLES
  file,       \* the archive
  pos,        \* where the index is read next
  indexSize,  \* index_size: what of the index is still to be read
  usize,      \* uncompressed_size
  offsets,    \* the compressed_offsets stored so far, Len(offsets) is idx
  allocated,  \* compressed_offsets # nullptr
  availIn,    \* strm.avail_in
  used,       \* bytes of the index the decoder has consumed
  made,       \* bytes it has made of them
  out,        \* bytes in intbuf, sizeof(intbuf) - strm.avail_out
  decoder,    \* strm: "garbage" until it is set, "none", "open"
  asked,      \* the last range read
  fault,      \* the kind of call that failed, "none" while none did
  pc          \* where read_index is; "ok", "failed" or "crashed" at its end

parseVars == <<file, pos, indexSize, usize, offsets, allocated, availIn, used,
               made, out, decoder, asked, fault, pc>>
streamVars == <<availIn, used, made, out>>
work == <<pos, indexSize, usize, offsets, availIn, used, made, out>>

-----------------------------------------------------------------------------
ParseInit(pc0) ==
  /\ pos = 0 /\ indexSize = 0 /\ usize = 0 /\ offsets = << >>
  /\ allocated = FALSE /\ availIn = 0 /\ used = 0 /\ made = 0 /\ out = 0
  /\ decoder = "garbage" /\ asked = [pos |-> 0, n |-> 0] /\ fault = "none"
  /\ pc = pc0

Init == file \in Archives /\ ParseInit("header")

(* The label failed.  inflateEnd looks at strm: while it was never written, *)
(* what it finds there may make it return or crash.                         *)
FailLeavesOpen ==
  /\ pc' = "failed" /\ allocated' = FALSE
  /\ UNCHANGED <<file, work, decoder>>
Fail ==
  /\ pc' \in IF decoder = "garbage" THEN {"failed", "crashed"} ELSE {"failed"}
  /\ allocated' = FALSE
  /\ decoder' = IF decoder = "open" THEN "none" ELSE decoder
  /\ UNCHANGED <<file, work>>

Reject == Fail /\ UNCHANGED <<asked, fault>>

(* file->readInto: the file refuses a range that is not inside it *)
Inside(p, n) == p >= 0 /\ p + n <= file.size
Reads(p, n) == asked' = [pos |-> p, n |-> n]
ReadFails(p, n) ==
  /\ Reads(p, n) /\ Fail
  /\ IF Inside(p, n) THEN "read" \in Faults /\ fault' = "read" ELSE UNCHANGED fault
ReadSucceeds(p, n) == Reads(p, n) /\ Inside(p, n)

-----------------------------------------------------------------------------
(* Header and footer *)

CheckHeader ==
  /\ pc = "header"
  /\ IF file.size < HeaderBytes + FooterBytes THEN Reject
     ELSE \/ ReadFails(0, HeaderBytes)
          \/ /\ ReadSucceeds(0, HeaderBytes)
             /\ IF file.magic
                THEN pc' = "footer" /\ UNCHANGED <<file, work, allocated, decoder, fault>>
                ELSE Fail /\ UNCHANGED fault

(* full_blocks * block_size is a product of two int32_t.  When it does not  *)
(* fit, the build may have wrapped it around or computed it in 64 bits.     *)
Wrap(n) == LET width == 2 * (MaxInt + 1)
           IN  ((n + MaxInt + 1) % width) - (MaxInt + 1)
Product(m, n) == IF m * n <= MaxInt THEN {m * n} ELSE {m * n, Wrap(m * n)}

(* max - uncompressed_size does not fit either when the product is negative *)
LastBlockFits(size, last) ==
  IF size >= 0 THEN {last <= MaxLong - size} ELSE BOOLEAN

SizesUnchecked(f, at) ==
  /\ \A n \in Numbers : f[n] <= MaxInt - 16
  /\ f.block_size # 0
  /\ f.full_blocks <= MaxBlocks
Sizes(f, at) ==
  /\ \A n \in Numbers : f[n] <= MaxInt - 16
  /\ at - HeaderBytes >= f.index_size
  /\ f.block_size # 0
  /\ f.full_blocks <= MaxBlocks
  /\ f.full_blocks > 0 => f.block_size <= MaxLong \div f.full_blocks

(* The footer is good: the table is allocated and the decoder set up,       *)
(* without a look at whether inflateInit2 succeeded.                        *)
StartIndex(size, at) ==
  LET f == file.footer
  IN  /\ usize' = size + f.last_block
      /\ pos' = at - f.index_size /\ indexSize' = f.index_size
      /\ allocated' = TRUE /\ offsets' = <<HeaderBytes>>
      /\ \/ decoder' = "open" /\ UNCHANGED fault
         \/ "mem" \in Faults /\ decoder' = "none" /\ fault' = "mem"
      /\ pc' = "inflate" /\ UNCHANGED <<file, streamVars>>

(* There is no memory for the table: new throws, and nobody catches it *)
NoTable == "mem" \in Faults /\ fault' = "mem" /\ Fail /\ pc' = "crashed"

CheckFooter ==
  /\ pc = "footer"
  /\ LET f == file.footer
         at == file.size - FooterBytes
     IN  \/ ReadFails(at, FooterBytes)
         \/ /\ ReadSucceeds(at, FooterBytes)
            /\ IF ~Sizes(f, at) THEN Fail /\ UNCHANGED fault
               ELSE \E size \in Product(f.full_blocks, f.block_size) :
                      \E fits \in LastBlockFits(size, f.last_block) :
                        IF fits THEN StartIndex(size, at) \/ NoTable
                                ELSE Fail /\ UNCHANGED fault

-----------------------------------------------------------------------------
(* The index *)

Total == 4 * Len(file.lens) + file.tail
More == availIn > 0 \/ indexSize > 0
BufferFull == out = IntBytes

(* inflate, with avail bytes of input: it goes on until one of the buffers  *)
(* or the stream ends, and the stream ends with all its output made.        *)
InflateOutcomes(avail) ==
  { r \in [c : 0..avail, p : 0..(IntBytes - out)] :
      /\ used + r.c <= file.clen /\ made + r.p <= Total
      /\ used + r.c = file.clen => made + r.p = Total /\ file.intact
      /\ r.c = avail \/ r.p = IntBytes - out \/ used + r.c = file.clen }

(* One turn of the inner loop: input if there is none, and inflate *)
Inflate ==
  /\ pc = "inflate" /\ More /\ ~BufferFull
  /\ LET want  == IF indexSize < Chunk THEN indexSize ELSE Chunk
         read  == IF availIn = 0 THEN want ELSE 0
         avail == availIn + read
         rest  == indexSize - read
     IN  \/ availIn = 0 /\ ReadFails(pos, want)
         \/ /\ IF availIn = 0 THEN ReadSucceeds(pos, want) ELSE UNCHANGED asked
            /\ UNCHANGED fault
            /\ \/ (decoder = "none" \/ ~file.intact) /\ Fail
               \/ decoder = "open" /\ \E r \in InflateOutcomes(avail) :
                    IF used + r.c = file.clen /\ avail - r.c + rest > 0
                    THEN Fail
                    ELSE /\ pos' = pos + read /\ indexSize' = rest
                         /\ availIn' = avail - r.c /\ used' = used + r.c
                         /\ made' = made + r.p /\ out' = out + r.p
                         /\ UNCHANGED <<file, usize, offsets, allocated, decoder, pc>>

(* The inner loop ends *)
CheckWhole ==
  /\ pc = "inflate" /\ (~More \/ BufferFull)
  /\ IF out % 4 # 0 THEN Reject
     ELSE pc' = "entries" /\ UNCHANGED <<file, work, allocated, decoder, asked, fault>>

(* One number of intbuf becomes an offset *)
Current == offsets[Len(offsets)]
Store ==
  /\ out' = out - 4
  /\ offsets' = Append(offsets, Current + file.lens[Len(offsets)])
  /\ UNCHANGED <<file, pos, indexSize, usize, allocated, availIn, used, made,
                 decoder, asked, fault, pc>>

TakeEntryLate ==
  /\ pc = "entries" /\ out > 0
  /\ IF Len(offsets) > file.footer.full_blocks + 2 THEN Reject ELSE Store
TakeEntryStrict ==
  /\ pc = "entries" /\ out > 0
  /\ IF Len(offsets) >= file.footer.full_blocks THEN Reject ELSE Store
TakeEntry ==
  /\ pc = "entries" /\ out > 0
  /\ IF Len(offsets) > file.footer.full_blocks THEN Reject ELSE Store

(* All of intbuf is stored: the outer loop goes on or the table is complete *)
IndexOffset == file.size - FooterBytes - file.footer.index_size

Complete ==
  /\ offsets' = Append(offsets, IndexOffset) /\ decoder' = "none" /\ pc' = "ok"
  /\ UNCHANGED <<file, pos, indexSize, usize, allocated, streamVars, asked, fault>>

EndTurnUnchecked ==
  /\ pc = "entries" /\ out = 0
  /\ IF More
     THEN pc' = "inflate" /\ UNCHANGED <<file, work, allocated, decoder, asked, fault>>
     ELSE IF Len(offsets) # file.footer.full_blocks + 1 THEN Reject ELSE Complete
EndTurn ==
  /\ pc = "entries" /\ out = 0
  /\ IF More
     THEN pc' = "inflate" /\ UNCHANGED <<file, work, allocated, decoder, asked, fault>>
     ELSE IF \/ Len(offsets) # file.footer.full_blocks + 1
             \/ Current > IndexOffset
          THEN Reject ELSE Complete

ParseNext == CheckHeader \/ CheckFooter \/ Inflate \/ CheckWhole \/ TakeEntry \/ EndTurn

(* read_index is one function that nothing interrupts: it goes on, but no   *)
(* call has to fail.                                                        *)
ParseStep == ParseNext /\ UNCHANGED fault
Spec == Init /\ [][ParseNext]_parseVars /\ WF_parseVars(ParseStep)

-----------------------------------------------------------------------------
(* Properties *)

Parsed == pc \in {"ok", "failed", "crashed"}

(* Every variable has its type. *)
ParseTypeOK ==
  /\ file \in ArchiveSet
  /\ pos \in Nat /\ indexSize \in Nat /\ usize \in Int /\ offsets \in Seq(Nat)
  /\ allocated \in BOOLEAN /\ availIn \in Nat /\ out \in 0..IntBytes
  /\ used \in 0..file.clen /\ made \in 0..Total
  /\ decoder \in {"garbage", "none", "open"}
  /\ fault \in Faults \cup {"none"}

(* No number in the archive makes read_index ask for bytes outside of it    *)
(* or store behind the table it allocated for full_blocks + 2 offsets.      *)
StaysInside ==
  /\ Inside(asked.pos, asked.n)
  /\ allocated => Len(offsets) <= file.footer.full_blocks + 2

(* A returned table tiles the compressed part of the archive: full_blocks   *)
(* + 1 blocks from behind the header to the index, none of negative length, *)
(* whatever the archive says.                                               *)
OffsetsTile ==
  pc = "ok" =>
    /\ Len(offsets) = file.footer.full_blocks + 2
    /\ offsets[1] = HeaderBytes
    /\ \A k \in 1..(Len(offsets) - 1) : offsets[k] <= offsets[k + 1]
    /\ offsets[Len(offsets)] = IndexOffset /\ IndexOffset <= file.size

(* What doc/indexed-deflate-format.txt allows, as far as the memory limit   *)
(* and 32 bits for the full blocks' size go *)
WellFormed(a) ==
  LET f == a.footer
  IN  /\ a.magic /\ a.intact /\ a.tail = 0
      /\ \A n \in Numbers : f[n] <= MaxInt - 16
      /\ f.block_size > 0 /\ f.last_block <= f.block_size
      /\ f.index_size = a.clen /\ f.full_blocks = Len(a.lens)
      /\ HeaderBytes + SumOf(a.lens) + a.clen + FooterBytes <= a.size
      /\ f.full_blocks <= MaxBlocks /\ f.full_blocks * f.block_size <= MaxInt

(* A well-formed archive is not refused when no call fails, however the     *)
(* index is cut into chunks and numbers, and gets its size.                 *)
WellFormedAccepted ==
  Parsed /\ fault = "none" /\ WellFormed(file) =>
    /\ pc = "ok"
    /\ usize = file.footer.full_blocks * file.footer.block_size + file.footer.last_block

(* Whatever fails, the table is freed or returned and no decoder stays      *)
(* open.  The program can only end before the table and the decoder: at a   *)
(* header or footer that is refused or cannot be read, with the strm never  *)
(* written, or when there is no memory for the table.                       *)
ResourcesReturned ==
  Parsed => /\ decoder # "open" /\ allocated = (pc = "ok")
            /\ pc = "crashed" => decoder = "garbage" /\ offsets = << >>

(* Whatever the archive holds, read_index returns. *)
ParseTerminates == <>Parsed
=============================================================================
