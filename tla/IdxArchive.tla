----------------------------- MODULE IdxArchive -----------------------------
(***************************************************************************)
(* An indexed-deflate archive from one end to the other: main of           *)
(* tools/idx-deflate.cpp writes it, read_index opens it, and main of       *)
(* tools/idx-inflate.cpp writes its contents out again.  Any archive from  *)
(* elsewhere may be opened instead of a written one.                       *)
(*                                                                         *)
(* A byte of the input is represented by its offset.  What is written is   *)
(* counted; a block or the index is known by where it begins.              *)
(***************************************************************************)
EXTENDS IdxIndexParse, ReaderPart

CONSTANTS
  Inputs,     \* the sizes of the files to compress
  BlockSize,  \* blocksize, 64 KiB in the code
  CompLens,   \* what deflate may make of a block
  IndexLens,  \* what deflate may make of the index
  OutBytes,   \* what idx-inflate asks for at a time, 4096 in the code
  IoFaults    \* calls of the tools that may fail: "header", "write", "read"

ASSUME ArchiveAssumption ==
  /\ Inputs \subseteq Nat /\ BlockSize \in Nat \ {0} /\ OutBytes \in Nat \ {0}
  /\ CompLens \subseteq Nat \ {0} /\ IndexLens \subseteq Nat \ {0}
  /\ IoFaults \subseteq {"header", "write", "read"}

VARIABLES
  input,   \* the size of idx-deflate's input
  source,  \* its reader's part of the input
  end,     \* the bytes written so far
  toWrite, \* datalen of dowrite
  blocks,  \* the blocks written: where, from which input offset, how much
  lens,    \* index: the lengths of all blocks but the last
  index,   \* where the compressed index was written, and indexsize
  header,  \* how much of the header was written
  stage,   \* which program runs, or how the last one ended
  sink,    \* idx-inflate's reader's part of the archive's contents
  output   \* what idx-inflate has written, as input offsets

writeVars == <<input, source, end, toWrite, blocks, lens, index, header>>
readVars  == <<sink, output>>
vars == <<parseVars, writeVars, stage, readVars>>

Ends == {"aborted", "gave up", "restored"}
Stages == {"deflate", "opened", "elsewhere", "inflate"} \cup Ends

NoFile == [size |-> 0, magic |-> FALSE, footer |-> [n \in Numbers |-> 0],
           lens |-> << >>, tail |-> 0, clen |-> 1, intact |-> FALSE]
NoPart == [offset |-> 0, length |-> 0]

ArchiveInit ==
  /\ \/ file = NoFile /\ ParseInit("start") /\ input \in Inputs /\ stage = "deflate"
     \/ file \in Archives /\ ParseInit("header") /\ input = 0 /\ stage = "elsewhere"
  /\ source = FixLength(input, 0, ToEnd)
  /\ end = 0 /\ toWrite = 0 /\ blocks = << >> /\ lens = << >>
  /\ index = [at |-> 0, n |-> 0] /\ header = 0
  /\ sink = NoPart /\ output = << >>

-----------------------------------------------------------------------------
(* idx-deflate *)

(* The exit(1) of the tools *)
GiveUp(kind) ==
  /\ kind \in IoFaults /\ stage' = "gave up"
  /\ UNCHANGED <<parseVars, writeVars, readVars>>

Writing(at) == stage = "deflate" /\ pc = at
KeepsParse  == UNCHANGED <<file, work, allocated, decoder, asked, fault, readVars>>

(* ceil(filesize / blocksize); the index has one number less *)
Blocks == (input + BlockSize - 1) \div BlockSize

(* The header is one write whose result nobody looks at.  An empty input    *)
(* has no block: the index of Blocks - 1 numbers cannot be allocated.       *)
WriteHeader ==
  /\ Writing("start")
  /\ header' \in IF "header" \in IoFaults THEN 0..HeaderBytes ELSE {HeaderBytes}
  /\ end' = header' /\ pc' = "blocks"
  /\ stage' = IF Blocks = 0 THEN "aborted" ELSE stage
  /\ KeepsParse /\ UNCHANGED <<input, source, toWrite, blocks, lens, index>>

(* A turn of the loop over the blocks: the input, which is mapped, delivers *)
(* all that is asked for, store compresses it into c bytes, and all lengths *)
(* but the last are kept                                                    *)
KeepLengthAlways(n, c) == Append(lens, c)
KeepLength(n, c) ==
  IF source.offset + n < input THEN Append(lens, c) ELSE lens

StoreBlock ==
  /\ Writing("blocks") /\ toWrite = 0 /\ source.offset < input
  /\ \/ GiveUp("read")
     \/ /\ LET n == Want(source, BlockSize)
           IN  /\ source' = Advance(source, n)
               /\ \E c \in CompLens :
                    /\ toWrite' = c /\ lens' = KeepLength(n, c)
                    /\ blocks' = Append(blocks, [at |-> end, from |-> source.offset, n |-> n])
        /\ UNCHANGED <<parseVars, readVars, stage, input, end, index, header>>

StoreIndex ==
  /\ Writing("blocks") /\ toWrite = 0 /\ source.offset = input
  /\ \E c \in IndexLens : toWrite' = c /\ index' = [at |-> end, n |-> c]
  /\ pc' = "index" /\ KeepsParse
  /\ UNCHANGED <<input, source, end, blocks, lens, header, stage>>

(* One turn of dowrite: write may take any part of what is left *)
DoWriteOnce ==
  /\ stage = "deflate" /\ toWrite > 0
  /\ \/ GiveUp("write")
     \/ /\ \E r \in 1..toWrite : end' = end + r
        /\ toWrite' = 0
        /\ UNCHANGED <<parseVars, readVars, stage, input, source, blocks, lens, index, header>>
DoWrite ==
  /\ stage = "deflate" /\ toWrite > 0
  /\ \/ GiveUp("write")
     \/ /\ \E r \in 1..toWrite : end' = end + r /\ toWrite' = toWrite - r
        /\ UNCHANGED <<parseVars, readVars, stage, input, source, blocks, lens, index, header>>

(* The footer, all of it or none, ends the archive, which is opened next.   *)
(* It gives the size of the last block that was read.                       *)
Written ==
  [size |-> end + FooterBytes, magic |-> header = HeaderBytes,
   footer |-> [index_size |-> index.n, block_size |-> BlockSize,
               full_blocks |-> Blocks - 1, last_block |-> blocks[Len(blocks)].n],
   lens |-> lens, tail |-> 0, clen |-> index.n, intact |-> index.at + index.n = end]

WriteFooter ==
  /\ Writing("index") /\ toWrite = 0
  /\ \/ GiveUp("write")
     \/ /\ file' = Written /\ end' = end + FooterBytes
        /\ stage' = "opened" /\ pc' = "header"
        /\ UNCHANGED <<work, allocated, decoder, asked, fault, readVars, input,
                       source, toWrite, blocks, lens, index, header>>

-----------------------------------------------------------------------------
(* idx-inflate *)

ReadIndex ==
  /\ stage \in {"opened", "elsewhere"} /\ ParseNext
  /\ UNCHANGED <<writeVars, stage, readVars>>

Start ==
  /\ stage = "opened" /\ pc = "ok"
  /\ sink' = FixLength(usize, 0, ToEnd) /\ stage' = "inflate"
  /\ UNCHANGED <<parseVars, writeVars, output>>

(* The archive's IFile, as it promises: from an offset on it reads in the   *)
(* block that the index finds there, if one has been written at that place. *)
Index == INSTANCE IdxIndex WITH BlockSize   <- file.footer.block_size,
                                FullBlocks  <- file.footer.full_blocks,
                                LastBlock   <- file.footer.last_block

From(o, n) ==
  LET e == Index!IdxSeek(o)
      skip == o - Index!IdxStart[e]
      holding == { b \in 1..Len(blocks) :
                     blocks[b].at = offsets[e] /\ skip + n <= blocks[b].n }
  IN  IF e = 0 THEN {}
      ELSE { [k \in 1..n |-> blocks[b].from + skip + k - 1] : b \in holding }

(* A turn of the loop; a read may answer more than is asked for.  Writing   *)
(* the output goes as in DoWrite.                                           *)
InflateTurn ==
  /\ stage = "inflate" /\ sink.length > 0
  /\ \/ GiveUp("read") \/ GiveUp("write")
     \/ /\ \E m \in 1..(Want(sink, OutBytes) + 1) :
             LET n == Clamp(sink, OutBytes, m)
             IN  /\ \E bytes \in From(sink.offset, n) : output' = output \o bytes
                 /\ sink' = Advance(sink, n)
        /\ UNCHANGED <<parseVars, writeVars, stage>>

End ==
  /\ stage = "inflate" /\ sink.length <= 0
  /\ stage' = "restored"
  /\ UNCHANGED <<parseVars, writeVars, readVars>>

-----------------------------------------------------------------------------
Next == \/ WriteHeader \/ StoreBlock \/ StoreIndex \/ DoWrite \/ WriteFooter
        \/ ReadIndex \/ Start \/ InflateTurn \/ End

(* Programs go on, and no call has to fail *)
Step == Next /\ UNCHANGED fault /\ stage' # "gave up"
ArchiveSpec == ArchiveInit /\ [][Next]_vars /\ WF_vars(Step)

Over == stage \in Ends \/ (Parsed /\ pc # "ok") \/ (pc = "ok" /\ stage = "elsewhere")

-----------------------------------------------------------------------------
(* Properties *)

(* Every variable has its type. *)
ArchiveTypeOK ==
  /\ ParseTypeOK /\ stage \in Stages
  /\ input \in Inputs \cup {0} /\ end \in Nat /\ toWrite \in Nat
  /\ blocks \in Seq([at : Nat, from : Nat, n : Nat]) /\ lens \in Seq(Nat)
  /\ index \in [at : Nat, n : Nat] /\ header \in 0..HeaderBytes
  /\ source \in [offset : Nat, length : Nat]
  /\ sink.offset \in Nat /\ sink.length \in Int /\ output \in Seq(Nat)

(* What read_index takes of idx-deflate's archives and idx-deflate does not *)
(* check: sizes, and the number and product of the full blocks, that fit.   *)
InputsFit ==
  /\ BlockSize <= MaxInt - 16 /\ \A c \in IndexLens : c <= MaxInt - 16
  /\ \A n \in Inputs : \A full \in 0..n :
       full * BlockSize < n =>
         full <= MaxBlocks /\ full <= MaxInt - 16 /\ full * BlockSize <= MaxInt

(* What idx-deflate writes and reports as done can be opened, and           *)
(* idx-inflate gives back the input, however write splits the archive, into *)
(* which chunks the index falls and in which pieces it is read again; unless*)
(* a call failed that read_index noticed, or the header's write, which      *)
(* idx-deflate does not look at.                                            *)
RoundTrip ==
  stage \in {"opened", "inflate", "restored"} /\ fault = "none" /\ header = HeaderBytes =>
    /\ pc \notin {"failed", "crashed"}
    /\ pc = "ok" => usize = input
    /\ output = [k \in 1..Len(output) |-> k - 1]
    /\ stage = "restored" => Len(output) = input

(* The size of an opened archive is what doc/indexed-deflate-format.txt     *)
(* says: full_blocks * block_size + last_block.                             *)
SizeAsDocumented ==
  pc = "ok" => usize = file.footer.full_blocks * file.footer.block_size
                         + file.footer.last_block

(* In an opened archive every offset of the contents is found in the block  *)
(* that holds it, provided that the size did not overflow and the last      *)
(* block is not larger than the others, which read_index does not check.    *)
OffsetsFound ==
  /\ pc = "ok" /\ stage \in {"opened", "elsewhere"}
  /\ usize = Index!IdxFileSize /\ file.footer.last_block <= file.footer.block_size
  => \A o \in 0..(usize - 1) :
       LET e == Index!IdxSeek(o)
       IN  /\ e \in 1..(Len(offsets) - 1)
           /\ Index!IdxStart[e] <= o /\ o < Index!IdxStart[e] + Index!IdxUSize[e]

(* All three programs come to an end. *)
AllEnd == <>Over
=============================================================================
