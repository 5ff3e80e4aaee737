---------------------------- MODULE XzIndexParse ----------------------------
(***************************************************************************)
(* read_index of lib/xz-file.cpp: the indexes of all streams of an .xz     *)
(* file are read from its end to its start and concatenated.               *)
(*                                                                         *)
(* A file is a sequence of words of four bytes (LZMA_STREAM_HEADER_SIZE is *)
(* three of them, stream padding a number of them).  A word is known by    *)
(* the part it belongs to, so that a parser that looks at a wrong place    *)
(* sees it.                                                                *)
(***************************************************************************)
EXTENDS Integers, Sequences, SequencesExt, PrefixSums

CONSTANTS
  Files,     \* the files: [junk, streams]
  BufWords,  \* the words read at a time, 1024 in the code
  MemLimit,  \* the memory the indexes may take
  Faults     \* kinds of calls that may fail: "read", "mem", "cat"

(* A stream: the lengths of its parts, what its footer says of the index's *)
(* length (backward) and its index of the blocks' (total), the memory its  *)
(* index takes, and the flags of header and footer, "bad" if unreadable.   *)
Lengths == {"blocks", "index", "gap", "padding", "backward", "total", "mem"}

Zero == [part |-> "zero", of |-> 0, no |-> 0]
Junk == [part |-> "junk", of |-> 0, no |-> 0]

ASSUME ParseAssumption ==
  /\ BufWords \in Nat \ {0} /\ MemLimit \in Nat
  /\ Faults \subseteq {"read", "mem", "cat"}
  /\ \A f \in Files :
       /\ f.junk \in Seq({Zero, Junk})
       /\ Len(f.streams) \in Nat /\ DOMAIN f.streams = 1..Len(f.streams)
       /\ \A i \in DOMAIN f.streams : LET s == f.streams[i] IN
            /\ \A l \in Lengths : s[l] \in Nat
            /\ s.index > 0 /\ s.backward > 0

H == 3   \* LZMA_STREAM_HEADER_SIZE

VARIABLES
  file,     \* the file read, one of Files
  pos,      \* the position, going backwards from stream to stream
  padding,  \* stream_padding
  buf,      \* the words buf holds
  footer,   \* the stream whose footer was decoded, 0 if none
  left,     \* index_size: what of the index is still to be read
  fed,      \* the words the index decoder has been given
  cur, col, \* cur_index and col_index: << >> for nullptr, else the streams
            \* of the index, each with its padding
  alive,    \* the number of indexes allocated and not released
  asked,    \* the last range read
  fault,    \* the kind of call that failed, "none" while none did
  pc        \* where read_index is; "ok" and "failed" when it has returned

vars == <<file, pos, padding, buf, footer, left, fed, cur, col, alive, asked,
          fault, pc>>

-----------------------------------------------------------------------------
(* The file *)

Words(part, i, n) == [k \in 1..n |-> [part |-> part, of |-> i, no |-> k]]

Header(i) == Words("header", i, H)
Footer(i) == Words("footer", i, H)
Index(f, i) == Words("index", i, f.streams[i].index)

StreamWords(f, i) ==
  LET s == f.streams[i]
  IN  Header(i) \o Words("blocks", i, s.blocks) \o Index(f, i)
        \o Words("gap", i, s.gap) \o Footer(i) \o [k \in 1..s.padding |-> Zero]

Contents(f) ==
  f.junk \o FlattenSeq([i \in DOMAIN f.streams |-> StreamWords(f, i)])

Size(f) == Len(Contents(f))
At(p, n) == SubSeq(Contents(file), p + 1, p + n)

Mem(f, index) == SumOf([k \in 1..Len(index) |-> f.streams[index[k].stream].mem])

-----------------------------------------------------------------------------
Init ==
  /\ file \in Files /\ pos = Size(file)
  /\ padding = 0 /\ buf = << >> /\ footer = 0 /\ left = 0 /\ fed = << >>
  /\ cur = << >> /\ col = << >> /\ alive = 0
  /\ asked = [pos |-> 0, n |-> 0] /\ fault = "none" /\ pc = "stream"

(* The label failed: the indexes that are still held are released.  What   *)
(* the other variables hold is of no use any more.                          *)
Count(index) == IF index # << >> THEN 1 ELSE 0
Held == Count(cur) + Count(col)

FailForgetsCur ==
  /\ pc' = "failed" /\ cur' = << >> /\ col' = << >>
  /\ alive' = alive - Count(col)
  /\ UNCHANGED <<file, pos, padding, buf, footer, left, fed>>
Fail ==
  /\ pc' = "failed" /\ cur' = << >> /\ col' = << >>
  /\ alive' = alive - Held
  /\ UNCHANGED <<file, pos, padding, buf, footer, left, fed>>

Reject == Fail /\ UNCHANGED <<asked, fault>>
FaultIn(kind) == kind \in Faults /\ fault' = kind /\ Fail

(* file->readInto: the file refuses a range that is not inside it *)
Inside(p, n) == p >= 0 /\ p + n <= Size(file)
Reads(p, n) == asked' = [pos |-> p, n |-> n]
ReadFails(p, n) ==
  /\ Reads(p, n)
  /\ IF Inside(p, n) THEN FaultIn("read") ELSE Fail /\ UNCHANGED fault
ReadSucceeds(p, n) == Reads(p, n) /\ Inside(p, n)

-----------------------------------------------------------------------------
(* The loop over the streams *)

NextStreamUnchecked ==
  /\ pc = "stream"
  /\ pos' = pos - H /\ padding' = 0 /\ pc' = "footer"
  /\ UNCHANGED <<file, buf, footer, left, fed, cur, col, alive, asked, fault>>
NextStream ==
  /\ pc = "stream"
  /\ \/ pos < 2 * H /\ Reject
     \/ /\ pos >= 2 * H
        /\ pos' = pos - H /\ padding' = 0 /\ pc' = "footer"
        /\ UNCHANGED <<file, buf, footer, left, fed, cur, col, alive, asked, fault>>

(* The words of the buffer are compared from its end.  The first that is   *)
(* not zero ends the search, with pos moved but the buffer as it is.       *)
ZeroTail(w) == CHOOSE n \in 0..H : /\ \A k \in 1..H : k > H - n => w[k] = Zero
                                   /\ n < H => w[H - n] # Zero

FindFooterStuck ==
  /\ pc = "footer"
  /\ \/ pos < H /\ Reject
     \/ pos >= H /\ ReadFails(pos, H)
     \/ /\ pos >= H /\ ReadSucceeds(pos, H)
        /\ buf' = At(pos, H)
        /\ LET n == ZeroTail(buf') % H IN pos' = pos - n /\ padding' = padding + n
        /\ pc' = IF ZeroTail(buf') = H THEN "footer" ELSE "index"
        /\ UNCHANGED <<file, footer, left, fed, cur, col, alive, fault>>
FindFooter ==
  /\ pc = "footer"
  /\ \/ pos < H /\ Reject
     \/ pos >= H /\ ReadFails(pos, H)
     \/ /\ pos >= H /\ ReadSucceeds(pos, H)
        /\ buf' = At(pos, H)
        /\ LET n == ZeroTail(buf') IN pos' = pos - n /\ padding' = padding + n
        /\ pc' = IF ZeroTail(buf') = H THEN "footer" ELSE "index"
        /\ UNCHANGED <<file, footer, left, fed, cur, col, alive, fault>>

(* lzma_stream_footer_decode, and where it says the index is *)
FooterOf(w) == { i \in DOMAIN file.streams :
                   w = Footer(i) /\ file.streams[i].footer # "bad" }

(* lzma_index_decoder for the words from p - size on, or no memory for it *)
StartDecoder(i) ==
  LET size == file.streams[i].backward
  IN  \/ FaultIn("mem") /\ UNCHANGED asked
      \/ /\ pos' = pos - size /\ left' = size /\ fed' = << >>
         /\ footer' = i /\ pc' = "decode"
         /\ UNCHANGED <<file, padding, buf, cur, col, alive, asked, fault>>

DecodeFooterUnchecked ==
  /\ pc = "index"
  /\ \/ FooterOf(buf) = {} /\ Reject
     \/ \E i \in FooterOf(buf) : StartDecoder(i)
DecodeFooter ==
  /\ pc = "index"
  /\ \/ FooterOf(buf) = {} /\ Reject
     \/ \E i \in FooterOf(buf) :
          IF \/ pos < file.streams[i].backward + H
             \/ Mem(file, col) > MemLimit
          THEN Reject ELSE StartDecoder(i)

(* lzma_code: what the index decoder makes of the words it was given.  It   *)
(* refuses an index that takes more than it may; it asks for more words of  *)
(* one that is not complete, and in vain when there are none (the code's    *)
(* second turn without input, which LZMA_BUF_ERROR ends, is left out).      *)
DecoderLimitWhole == MemLimit
DecoderLimit == MemLimit - Mem(file, col)
Begun(w) == { i \in DOMAIN file.streams : IsStrictPrefix(w, Index(file, i)) }
Decoded(w) == { i \in DOMAIN file.streams :
                  IsPrefix(Index(file, i), w) /\ file.streams[i].mem <= DecoderLimit }

(* One turn of the loop that feeds the decoder.  The index must end where   *)
(* the footer says, with nothing left to read and nothing left over.        *)
Want == IF left < BufWords THEN left ELSE BufWords

EndsLax(w, rest) == Decoded(w)
Ends(w, rest) == { i \in Decoded(w) : rest = 0 /\ Len(w) = file.streams[i].index }

(* The decoder made an index of what it was given *)
IndexMade(i, next) ==
  /\ pos' = pos + Want /\ left' = left - Want /\ fed' = fed \o At(pos, Want)
  /\ cur' = << [stream |-> i, padding |-> 0] >> /\ alive' = alive + 1 /\ pc' = next
  /\ UNCHANGED <<file, padding, buf, footer, col, fault>>

DecodeIndex ==
  /\ pc = "decode"
  /\ \/ ReadFails(pos, Want)
     \/ /\ ReadSucceeds(pos, Want)
        /\ LET seen == fed \o At(pos, Want)
               rest == left - Want
               more == Want > 0 /\ Begun(seen) # {}
           IN  \/ FaultIn("mem")
               \/ /\ more
                  /\ pos' = pos + Want /\ left' = rest /\ fed' = seen
                  /\ UNCHANGED <<file, padding, buf, footer, cur, col, alive, fault, pc>>
               \/ \E i \in Ends(seen, rest) : IndexMade(i, "header")
               \/ /\ ~more /\ Ends(seen, rest) = {}
                  /\ \/ Decoded(seen) = {} /\ Fail /\ UNCHANGED fault
                     \/ \E i \in Decoded(seen) : IndexMade(i, "leftover")

RefuseLeftover == pc = "leftover" /\ Reject

(* The header before the blocks must be one of the footer's flags; the      *)
(* index gets the padding and the earlier indexes are appended to it.       *)
(* lzma_index_cat takes them over; when it fails nobody holds them.         *)
HeaderOf(w) == { j \in DOMAIN file.streams :
                   /\ w = Header(j) /\ file.streams[j].header # "bad"
                   /\ file.streams[j].header = file.streams[footer].footer }

CatFails ==
  /\ col # << >> /\ "cat" \in Faults /\ fault' = "cat"
  /\ pc' = "failed" /\ cur' = << >> /\ col' = << >>
  /\ alive' = alive - Count(cur)
  /\ UNCHANGED <<file, pos, padding, buf, footer, left, fed>>

Cat(p) ==
  /\ col' = << [cur[1] EXCEPT !.padding = padding] >> \o col
  /\ cur' = << >> /\ alive' = alive - Count(col)
  /\ pos' = p /\ pc' = IF p > 0 THEN "stream" ELSE "ok"
  /\ UNCHANGED <<file, padding, buf, footer, left, fed, fault>>

(* The header at p is read and decides *)
CheckHeader(p) ==
  \/ ReadFails(p, H)
  \/ /\ ReadSucceeds(p, H)
     /\ IF HeaderOf(At(p, H)) = {} THEN Fail /\ UNCHANGED fault
        ELSE CatFails \/ Cat(p)

Blocks == pos - (file.streams[footer].backward + H)
Total == file.streams[cur[1].stream].total

DecodeHeaderOffByOne ==
  /\ pc = "header"
  /\ IF Blocks <= Total THEN Reject ELSE CheckHeader(Blocks - Total)
DecodeHeader ==
  /\ pc = "header"
  /\ IF Blocks < Total THEN Reject ELSE CheckHeader(Blocks - Total)

Next == NextStream \/ FindFooter \/ DecodeFooter \/ DecodeIndex \/ RefuseLeftover \/ DecodeHeader

(* read_index is one function that nothing interrupts: it goes on, but no   *)
(* call has to fail.                                                        *)
Spec == Init /\ [][Next]_vars /\ WF_vars(Next /\ UNCHANGED fault)

-----------------------------------------------------------------------------
(* Properties *)

Done == pc \in {"ok", "failed"}
Entries == [stream : DOMAIN file.streams, padding : Nat]

(* Every variable has its type; pos is never before the file's start. *)
TypeOK ==
  /\ file \in Files
  /\ pos \in Nat /\ padding \in Nat /\ left \in Nat /\ alive \in 0..3
  /\ footer \in 0..Len(file.streams)
  /\ cur \in Seq(Entries) /\ Len(cur) <= 1 /\ col \in Seq(Entries)
  /\ fault \in Faults \cup {"none"}
  /\ pc \in {"stream", "footer", "index", "decode", "leftover", "header", "ok", "failed"}

(* The index of a stream and its padding say how much of the file it takes *)
Extent(e) == LET s == file.streams[e.stream]
             IN  H + s.total + s.index + H + e.padding

(* The collected index tiles the end of the file: each of its streams, laid *)
(* out as the index says, has a header, its index, its footer of the same   *)
(* flags and its padding at the places where the lengths before and after   *)
(* put them, in the file's order.  A returned index tiles all of it.        *)
IndexTilesFile ==
  LET extents  == [k \in 1..Len(col) |-> Extent(col[k])]
      start(k) == Size(file) - (SumOf(extents) - Sums(extents)[k - 1])
  IN  /\ \A k \in DOMAIN col :
           LET e == col[k]
               s == file.streams[e.stream]
           IN  /\ \E j \in DOMAIN file.streams :
                    /\ At(start(k), H) = Header(j)
                    /\ file.streams[j].header = s.footer /\ s.footer # "bad"
               /\ At(start(k) + H + s.total, s.index + H + e.padding)
                    = Index(file, e.stream) \o Footer(e.stream)
                        \o [n \in 1..e.padding |-> Zero]
      /\ pc = "stream" => pos = start(1)
      /\ pc = "ok" => col # << >> /\ start(1) = 0

(* What the format allows and the memory limit has room for *)
WellFormed(f) ==
  /\ f.junk = << >> /\ Len(f.streams) > 0
  /\ \A i \in DOMAIN f.streams : LET s == f.streams[i] IN
       /\ s.gap = 0 /\ s.backward = s.index /\ s.total = s.blocks
       /\ s.header = s.footer /\ s.footer # "bad"
  /\ SumOf([i \in DOMAIN f.streams |-> f.streams[i].mem]) <= MemLimit

(* A well-formed file whose reads and allocations succeed is not refused,   *)
(* and its index is that of all its streams with their paddings.            *)
WellFormedAccepted ==
  Done /\ fault = "none" /\ WellFormed(file) =>
    /\ pc = "ok"
    /\ col = [i \in DOMAIN file.streams |->
                [stream |-> i, padding |-> file.streams[i].padding]]

(* The same for the files whose paddings are multiples of a header's size,  *)
(* between which FindFooter never leaves the search with a moved position.  *)
AlignedAccepted ==
  (\A i \in DOMAIN file.streams : file.streams[i].padding % H = 0)
    => WellFormedAccepted

(* Whatever fails, no index is lost or released twice: those alive are the  *)
(* ones held.  The one exception is the code's: col_index is forgotten when *)
(* lzma_index_cat fails.                                                    *)
IndexesOwned == alive = Held + (IF fault = "cat" THEN 1 ELSE 0)

(* No length in the file makes read_index ask for bytes outside of it. *)
ReadsInside == Inside(asked.pos, asked.n)

(* The indexes of all streams together never take more than the limit. *)
MemBounded == Mem(file, cur) + Mem(file, col) <= MemLimit

(* Whatever the file holds, read_index returns. *)
Terminates == <>Done
=============================================================================
