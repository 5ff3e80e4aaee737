-------------------------- MODULE IdxArchiveProofs --------------------------
(***************************************************************************)
(* What read_index of lib/idx-defl-file.cpp keeps to, whatever an archive   *)
(* of any size holds, whether idx-deflate wrote it or not: it reads inside  *)
(* the file, stores inside its table, the table it returns tiles the        *)
(* compressed blocks, and every offset is found in it.  It accepts what the *)
(* format allows, and of what idx-deflate wrote idx-inflate restores the    *)
(* input.                                                                   *)
(***************************************************************************)
EXTENDS IdxArchive, PrefixSumsProofs, TLAPS

Blockwise == INSTANCE IdxIndexProofs WITH BlockSize   <- file.footer.block_size,
                                          FullBlocks  <- file.footer.full_blocks,
                                          LastBlock   <- file.footer.last_block

Working == {"inflate", "entries"}
Before  == {"start", "blocks", "index", "header", "footer"}

(* The table so far: it begins behind the header and does not go back *)
Table ==
  /\ offsets \in Seq(Nat) /\ Len(offsets) >= 1
  /\ offsets[1] = HeaderBytes
  /\ \A k \in 1..(Len(offsets) - 1) : offsets[k] <= offsets[k + 1]

(* While the index is inflated: what is left of it lies in front of the     *)
(* footer, and every byte made of it is in intbuf or has become an offset.  *)
Indexing ==
  /\ Table /\ Len(offsets) <= file.footer.full_blocks + 1
  /\ pos \in Nat /\ indexSize \in Nat /\ availIn \in Nat
  /\ pos + indexSize = file.size - FooterBytes
  /\ IndexOffset \in Nat
  /\ out \in 0..IntBytes /\ made = out + 4 * (Len(offsets) - 1) /\ made <= Total
  /\ pc = "entries" => out % 4 = 0

IndexInv ==
  /\ file \in ArchiveSet
  /\ pc \in Before \cup Working \cup {"ok", "failed", "crashed"}
  /\ Inside(asked.pos, asked.n)
  /\ allocated => Len(offsets) <= file.footer.full_blocks + 2
  /\ pc \in Before => /\ ~allocated /\ availIn = 0 /\ made = 0 /\ out = 0
  /\ pc = "footer" => file.size >= HeaderBytes + FooterBytes
  /\ pc \in Working => Indexing
  /\ pc \in Working \cup {"ok"} => file.footer.block_size # 0
  /\ OffsetsTile

-----------------------------------------------------------------------------
(* A number of four bytes is taken whole *)
LEMMA WholeNumber ==
  ASSUME NEW n \in Nat, n % 4 = 0, n > 0
  PROVE  n >= 4 /\ (n - 4) % 4 = 0
  BY SMT

(* A table goes on with a later offset *)
LEMMA TableGrows ==
  ASSUME NEW t \in Seq(Nat), Len(t) >= 1, t[1] = HeaderBytes,
         \A k \in 1..(Len(t) - 1) : t[k] <= t[k + 1],
         NEW o \in Nat, t[Len(t)] <= o
  PROVE  /\ Append(t, o) \in Seq(Nat) /\ Len(Append(t, o)) = Len(t) + 1
         /\ Append(t, o)[1] = HeaderBytes
         /\ Append(t, o)[Len(t) + 1] = o
         /\ \A k \in 1..Len(t) : Append(t, o)[k] <= Append(t, o)[k + 1]
<1> DEFINE u == Append(t, o)
<1>1. u \in Seq(Nat) /\ Len(u) = Len(t) + 1
      /\ u[Len(t) + 1] = o /\ \A k \in 1..Len(t) : u[k] = t[k]
  OBVIOUS
<1>2. ASSUME NEW k \in 1..Len(t)  PROVE u[k] <= u[k + 1]
  <2>1. CASE k = Len(t)
    BY <1>1, <2>1
  <2>2. CASE k < Len(t)
    BY <1>1, <2>2
  <2> QED  BY <2>1, <2>2
<1> QED  BY <1>1, <1>2

(* The label failed leaves nothing behind that the invariant is about *)
LEMMA FailKeeps ==
  ASSUME IndexInv, Fail, Inside(asked.pos, asked.n)'
  PROVE  IndexInv'
<1>1. pc' \in {"failed", "crashed"} /\ ~allocated' /\ file' = file
  BY DEF Fail
<1> QED  BY <1>1 DEF IndexInv, OffsetsTile, Before, Working

-----------------------------------------------------------------------------
LEMMA ArchiveNumbers ==
  ASSUME NEW a \in ArchiveSet
  PROVE  /\ a.size \in Nat /\ a.lens \in Seq(Nat) /\ a.tail \in 0..3
         /\ a.clen \in Nat /\ \A n \in Numbers : a.footer[n] \in Nat
         /\ a.footer.index_size \in Nat /\ a.footer.full_blocks \in Nat
  BY DEF ArchiveSet, Numbers

LEMMA InitKeeps ==
  ASSUME file \in ArchiveSet, NEW pc0 \in Before \ {"footer"}, ParseInit(pc0)
  PROVE  IndexInv
  BY ArchiveNumbers DEF IndexInv, ParseInit, Inside, Before, Working, OffsetsTile

LEMMA CheckHeaderKeeps ==
  ASSUME IndexInv, CheckHeader  PROVE IndexInv'
<1>0. file.size \in Nat /\ file \in ArchiveSet
  BY ArchiveNumbers DEF IndexInv
<1>1. CASE Reject
  BY <1>1, FailKeeps DEF Reject, IndexInv, Inside, Fail
<1>2. ASSUME file.size >= HeaderBytes + FooterBytes, Reads(0, HeaderBytes), file' = file
      PROVE  Inside(asked.pos, asked.n)'
  BY <1>0, <1>2 DEF Reads, Inside, HeaderBytes, FooterBytes
<1>3. CASE file.size >= HeaderBytes + FooterBytes /\ Reads(0, HeaderBytes) /\ Fail
  BY <1>2, <1>3, FailKeeps DEF Fail
<1>4. CASE /\ file.size >= HeaderBytes + FooterBytes /\ Reads(0, HeaderBytes)
           /\ pc = "header" /\ pc' = "footer"
           /\ UNCHANGED <<file, work, allocated, decoder>>
  BY <1>0, <1>2, <1>4 DEF IndexInv, Before, Working, OffsetsTile, work, HeaderBytes, FooterBytes
<1> QED
  BY <1>0, <1>1, <1>3, <1>4 DEF CheckHeader, ReadFails, ReadSucceeds, HeaderBytes, FooterBytes

LEMMA CheckFooterKeeps ==
  ASSUME IndexInv, CheckFooter  PROVE IndexInv'
<1> DEFINE f == file.footer  at == file.size - FooterBytes
<1>0. /\ file \in ArchiveSet /\ pc = "footer" /\ file.size \in Nat
      /\ file.size >= HeaderBytes + FooterBytes
  BY ArchiveNumbers DEF IndexInv, CheckFooter
<1>1. ASSUME Reads(at, FooterBytes), file' = file
      PROVE  Inside(asked.pos, asked.n)'
  BY <1>0, <1>1 DEF Reads, Inside, HeaderBytes, FooterBytes
<1>2. CASE Reads(at, FooterBytes) /\ Fail
  BY <1>1, <1>2, FailKeeps DEF Fail
<1>3. ASSUME Sizes(f, at), Reads(at, FooterBytes), NEW size, StartIndex(size, at)
      PROVE  IndexInv'
  <2>1. /\ file' = file /\ offsets' = <<HeaderBytes>> /\ pc' = "inflate"
        /\ pos' = at - f.index_size /\ indexSize' = f.index_size
        /\ availIn' = availIn /\ made' = made /\ out' = out
    BY <1>3 DEF StartIndex, streamVars
  <2>2. availIn = 0 /\ made = 0 /\ out = 0
    BY <1>0 DEF IndexInv, Before
  <2>3. /\ f.index_size \in Nat /\ f.full_blocks \in Nat
        /\ f.index_size <= at - HeaderBytes
    BY <1>0, <1>3, ArchiveNumbers DEF Sizes, HeaderBytes, FooterBytes
  <2>4. Table' /\ Len(offsets') = 1
    BY <2>1 DEF Table, HeaderBytes
  <2>5. Total \in Nat
    BY <1>0, ArchiveNumbers DEF Total
  <2>6. Indexing'
    BY <1>0, <2>1, <2>2, <2>3, <2>4, <2>5, IdxParseAssumption
       DEF Indexing, IndexOffset, Total, HeaderBytes, FooterBytes
  <2>7. f.block_size # 0
    BY <1>3 DEF Sizes
  <2> QED
    BY <1>0, <1>1, <1>3, <2>1, <2>3, <2>4, <2>6, <2>7
       DEF IndexInv, Before, Working, OffsetsTile
<1> QED
  BY <1>2, <1>3 DEF CheckFooter, ReadFails, ReadSucceeds, NoTable

LEMMA InflateKeeps ==
  ASSUME IndexInv, Inflate  PROVE IndexInv'
<1> DEFINE want  == IF indexSize < Chunk THEN indexSize ELSE Chunk
           read  == IF availIn = 0 THEN want ELSE 0
           avail == availIn + read
<1>0. file \in ArchiveSet /\ Indexing /\ pc = "inflate" /\ file.size \in Nat
  BY ArchiveNumbers DEF IndexInv, Inflate, Working
<1>1. /\ want \in 0..indexSize /\ read \in 0..indexSize
      /\ avail \in Nat /\ avail = availIn + read
  BY <1>0, IdxParseAssumption DEF Indexing
<1> HIDE DEF want, read, avail
<1>2. ASSUME Reads(pos, want), file' = file
      PROVE  Inside(asked.pos, asked.n)'
  BY <1>0, <1>1, <1>2 DEF Reads, Inside, Indexing, FooterBytes
<1>3. ASSUME asked' = asked, file' = file
      PROVE  Inside(asked.pos, asked.n)'
  BY <1>3 DEF IndexInv, Inside
<1>4. CASE Fail /\ (Reads(pos, want) \/ asked' = asked)
  BY <1>2, <1>3, <1>4, FailKeeps DEF Fail
<1>5. ASSUME NEW r \in InflateOutcomes(avail),
             Reads(pos, want) \/ asked' = asked,
             pos' = pos + read, indexSize' = indexSize - read,
             availIn' = avail - r.c, made' = made + r.p, out' = out + r.p,
             UNCHANGED <<file, offsets, allocated, pc>>
      PROVE  IndexInv'
  <2>1. /\ r.c \in 0..avail /\ r.p \in 0..(IntBytes - out)
        /\ made + r.p <= Total
    BY <1>5 DEF InflateOutcomes
  <2>2. Total' = Total /\ IndexOffset' = IndexOffset /\ Table'
    BY <1>0, <1>5 DEF Total, IndexOffset, Table, Indexing
  <2>3. Len(offsets) \in Nat
    BY <1>0 DEF Indexing, Table
  <2>4. /\ pos' \in Nat /\ indexSize' \in Nat /\ availIn' \in Nat
        /\ pos' + indexSize' = file.size - FooterBytes
    <3>1. pos \in Nat /\ indexSize \in Nat /\ availIn \in Nat
      BY <1>0 DEF Indexing
    <3>2. pos' = pos + read /\ indexSize' = indexSize - read /\ availIn' = avail - r.c
      BY <1>5
    <3>3. pos + indexSize = file.size - FooterBytes
      BY <1>0 DEF Indexing
    <3>4. pos' + indexSize' = pos + indexSize
      BY <1>1, <3>1, <3>2
    <3>5. pos' \in Nat /\ indexSize' \in Nat
      BY <1>1, <3>1, <3>2
    <3>6. availIn' \in Nat
      BY <1>1, <2>1, <3>2
    <3> QED
      BY <3>3, <3>4, <3>5, <3>6
  <2>5. /\ out' \in 0..IntBytes /\ made' <= Total
        /\ made' = out' + 4 * (Len(offsets) - 1)
    <3>1. out \in 0..IntBytes /\ made = out + 4 * (Len(offsets) - 1) /\ IntBytes \in Nat
      BY <1>0, IdxParseAssumption DEF Indexing
    <3>2. made' = made + r.p /\ out' = out + r.p
      BY <1>5
    <3> QED
      BY <2>1, <2>3, <3>1, <3>2
  <2>6. Indexing'
    BY <1>0, <1>5, <2>2, <2>4, <2>5 DEF Indexing
  <2> QED
    BY <1>0, <1>2, <1>3, <1>5, <2>6 DEF IndexInv, Before, Working, OffsetsTile
<1> QED
  BY <1>4, <1>5 DEF Inflate, ReadFails, ReadSucceeds, want, read, avail

LEMMA CheckWholeKeeps ==
  ASSUME IndexInv, CheckWhole  PROVE IndexInv'
<1>1. CASE Reject
  BY <1>1, FailKeeps DEF Reject, IndexInv, Inside, Fail
<1>2. CASE /\ out % 4 = 0 /\ pc = "inflate" /\ pc' = "entries"
           /\ UNCHANGED <<file, work, allocated, asked>>
  <2>1. Indexing'
    BY <1>2 DEF IndexInv, Working, Indexing, Table, Total, IndexOffset, work
  <2> QED
    BY <1>2, <2>1 DEF IndexInv, Before, Working, OffsetsTile, Inside, work
<1> QED
  BY <1>1, <1>2 DEF CheckWhole

LEMMA TakeEntryKeeps ==
  ASSUME IndexInv, TakeEntry  PROVE IndexInv'
<1>0. file \in ArchiveSet /\ Indexing /\ pc = "entries" /\ out > 0
  BY DEF IndexInv, TakeEntry, Working
<1>1. CASE Reject
  BY <1>1, FailKeeps DEF Reject, IndexInv, Inside, Fail
<1>2. CASE Len(offsets) <= file.footer.full_blocks /\ Store
  <2> DEFINE n == Len(offsets)
  <2>1. /\ offsets \in Seq(Nat) /\ n \in Nat \ {0} /\ out \in Nat
        /\ out % 4 = 0 /\ IntBytes \in Nat
    BY <1>0, IdxParseAssumption DEF Indexing, Table
  <2>2. out >= 4 /\ (out - 4) % 4 = 0
    BY <1>0, <2>1, WholeNumber
  <2>3. n <= Len(file.lens) /\ file.lens[n] \in Nat
    <3>1. file.lens \in Seq(Nat) /\ file.tail \in 0..3
      BY <1>0, ArchiveNumbers
    <3>2. out + 4 * (n - 1) <= 4 * Len(file.lens) + file.tail
      BY <1>0 DEF Indexing, Total
    <3>3. n <= Len(file.lens)
      BY <2>1, <2>2, <3>1, <3>2
    <3> QED
      BY <2>1, <3>1, <3>3
  <2> DEFINE o == Current + file.lens[n]
  <2>4. Current \in Nat /\ o \in Nat /\ Current <= o
    BY <2>1, <2>3 DEF Current
  <2>5. /\ offsets' = Append(offsets, o) /\ Table'
        /\ Len(offsets') = n + 1
    <3>1. offsets' = Append(offsets, o)
      BY <1>2 DEF Store
    <3>2. /\ Append(offsets, o) \in Seq(Nat) /\ Len(Append(offsets, o)) = n + 1
          /\ Append(offsets, o)[1] = HeaderBytes
          /\ \A k \in 1..n : Append(offsets, o)[k] <= Append(offsets, o)[k + 1]
      BY <1>0, <2>1, <2>4, TableGrows DEF Indexing, Table, Current
    <3> QED
      BY <2>1, <3>1, <3>2 DEF Table
  <2>6. /\ UNCHANGED <<file, pos, indexSize, allocated, availIn, made, asked, pc>>
        /\ out' = out - 4 /\ Total' = Total /\ IndexOffset' = IndexOffset
    BY <1>2 DEF Store, Total, IndexOffset
  <2>7. /\ out' \in 0..IntBytes /\ out' % 4 = 0
        /\ made = out' + 4 * (Len(offsets') - 1)
    BY <1>0, <2>1, <2>2, <2>5, <2>6 DEF Indexing
  <2>8. Len(offsets') <= file.footer.full_blocks + 1
    BY <1>0, <1>2, <2>1, <2>5, ArchiveNumbers
  <2>9. Indexing'
    BY <1>0, <2>5, <2>6, <2>7, <2>8 DEF Indexing
  <2> QED
    BY <1>0, <2>1, <2>5, <2>6, <2>8, <2>9, ArchiveNumbers
       DEF IndexInv, Before, Working, OffsetsTile, Inside
<1> QED
  BY <1>0, <1>1, <1>2, ArchiveNumbers DEF TakeEntry, Indexing, Table

LEMMA EndTurnKeeps ==
  ASSUME IndexInv, EndTurn  PROVE IndexInv'
<1>0. file \in ArchiveSet /\ Indexing /\ pc = "entries" /\ out = 0
  BY DEF IndexInv, EndTurn, Working
<1>1. CASE Reject
  BY <1>1, FailKeeps DEF Reject, IndexInv, Inside, Fail
<1>2. CASE pc' = "inflate" /\ UNCHANGED <<file, work, allocated, asked>>
  <2>1. Indexing'
    BY <1>0, <1>2 DEF Indexing, Table, Total, IndexOffset, work
  <2> QED
    BY <1>0, <1>2, <2>1 DEF IndexInv, Before, Working, OffsetsTile, Inside, work
<1>3. CASE /\ Len(offsets) = file.footer.full_blocks + 1 /\ Current <= IndexOffset
           /\ Complete
  <2>1. /\ offsets \in Seq(Nat) /\ Len(offsets) \in Nat \ {0} /\ IndexOffset \in Nat
        /\ file.footer.index_size \in Nat /\ file.size \in Nat
    BY <1>0, ArchiveNumbers DEF Indexing, Table
  <2>2. /\ Append(offsets, IndexOffset) \in Seq(Nat)
        /\ Len(Append(offsets, IndexOffset)) = Len(offsets) + 1
        /\ Append(offsets, IndexOffset)[1] = HeaderBytes
        /\ Append(offsets, IndexOffset)[Len(offsets) + 1] = IndexOffset
        /\ \A k \in 1..Len(offsets) :
             Append(offsets, IndexOffset)[k] <= Append(offsets, IndexOffset)[k + 1]
    BY <1>0, <1>3, <2>1, TableGrows DEF Indexing, Table, Current
  <2>3. /\ offsets' = Append(offsets, IndexOffset) /\ pc' = "ok"
        /\ UNCHANGED <<file, allocated, asked>> /\ IndexOffset' = IndexOffset
    BY <1>3 DEF Complete, IndexOffset
  <2>4. Len(offsets') = file.footer.full_blocks + 2
    BY <1>0, <1>3, <2>1, <2>2, <2>3, ArchiveNumbers
  <2>5. IndexOffset <= file.size
    BY <2>1 DEF IndexOffset, FooterBytes
  <2>6. OffsetsTile'
    BY <2>1, <2>2, <2>3, <2>4, <2>5 DEF OffsetsTile
  <2> QED
    BY <1>0, <2>3, <2>4, <2>6 DEF IndexInv, Before, Working, Inside
<1>4. Current > IndexOffset \/ Current <= IndexOffset
  BY <1>0 DEF Indexing, Table, Current
<1> QED
  BY <1>0, <1>1, <1>2, <1>3, <1>4 DEF EndTurn

-----------------------------------------------------------------------------
(* Every step of read_index *)
LEMMA ParseKeeps ==
  ASSUME IndexInv, ParseNext  PROVE IndexInv'
BY CheckHeaderKeeps, CheckFooterKeeps, InflateKeeps, CheckWholeKeeps,
   TakeEntryKeeps, EndTurnKeeps DEF ParseNext

LEMMA UnchangedKeeps ==
  ASSUME IndexInv, UNCHANGED parseVars  PROVE IndexInv'
BY DEF parseVars, IndexInv, Indexing, Table, Total, IndexOffset, OffsetsTile,
       Inside, Before, Working

-----------------------------------------------------------------------------
(* idx-deflate: what it has counted are numbers, its reader and the input   *)
(* agree, and there is a block before there is an index.                    *)
WriterInv ==
  /\ input \in Nat /\ end \in Nat /\ toWrite \in Nat /\ lens \in Seq(Nat)
  /\ blocks \in Seq([at : Nat, from : Nat, n : Nat])
  /\ source \in [offset : Nat, length : Nat]
  /\ source.offset + source.length = input
  /\ source.offset > 0 => Len(blocks) > 0
  /\ stage = "deflate" =>
       /\ pc \in {"start", "blocks", "index"}
       /\ asked.pos = 0 /\ asked.n = 0
       /\ pc # "start" => input > 0
       /\ pc = "index" => Len(blocks) > 0 /\ index.n \in Nat \ {0}

ArchiveInv == IndexInv /\ WriterInv

LEMMA SourceStarts ==
  ASSUME NEW n \in Nat
  PROVE  FixLength(n, 0, ToEnd) = [offset |-> 0, length |-> n]
BY DEF FixLength, ToEnd

LEMMA ArchiveInitHolds == ArchiveInit => ArchiveInv
<1> SUFFICES ASSUME ArchiveInit  PROVE ArchiveInv
  OBVIOUS
<1>1. input \in Nat
  <2>1. input \in Inputs \/ input = 0
    BY DEF ArchiveInit
  <2>2. Inputs \subseteq Nat /\ 0 \in Nat
    BY ArchiveAssumption
  <2> QED
    BY <2>1, <2>2
<1>2. source = [offset |-> 0, length |-> input]
  BY <1>1, SourceStarts DEF ArchiveInit
<1>3. NoFile \in ArchiveSet
  BY DEF NoFile, ArchiveSet, Numbers
<1>4. IndexInv
  BY <1>3, InitKeeps, IdxParseAssumption DEF ArchiveInit, Before
<1>5. WriterInv
  BY <1>1, <1>2 DEF ArchiveInit, WriterInv, ParseInit
<1> QED
  BY <1>4, <1>5 DEF ArchiveInv

(* A step of idx-deflate that leaves the archive to come as it is *)
LEMMA WriterKeepsIndex ==
  ASSUME IndexInv, pc \in Before, pc' \in Before \ {"footer"},
         UNCHANGED <<file, work, allocated, asked>>
  PROVE  IndexInv'
BY DEF IndexInv, work, Before, Working, Inside, OffsetsTile

(* The blocks of an input, and none of no input *)
LEMMA BlocksOfInput ==
  ASSUME input \in Nat
  PROVE  Blocks \in Nat /\ (input > 0 => Blocks - 1 \in Nat) /\ (input = 0 => Blocks = 0)
<1> DEFINE o == input + BlockSize - 1  q == o \div BlockSize
<1>1. BlockSize \in Nat \ {0} /\ o \in Nat
  BY ArchiveAssumption
<1>2. q \in Nat /\ q * BlockSize <= o /\ o < q * BlockSize + BlockSize
  BY <1>1, Blockwise!Division
<1>3. Blocks = q
  BY DEF Blocks
<1> HIDE DEF q
<1>4. ASSUME input > 0  PROVE q # 0
  BY <1>1, <1>2, <1>4
<1>5. ASSUME input = 0, q >= 1  PROVE FALSE
  <2>1. 1 * BlockSize <= q * BlockSize
    BY <1>1, <1>2, <1>5, Blockwise!Monotone
  <2> QED
    BY <1>1, <1>2, <1>5, <2>1
<1> QED
  BY <1>2, <1>3, <1>4, <1>5

LEMMA WriteHeaderKeeps ==
  ASSUME ArchiveInv, WriteHeader  PROVE ArchiveInv'
<1>1. IndexInv'
  BY WriterKeepsIndex DEF ArchiveInv, WriteHeader, Writing, KeepsParse, Before
<1>2. header' \in 0..HeaderBytes
  BY DEF WriteHeader, HeaderBytes
<1>3. input = 0 => Blocks = 0
  BY BlocksOfInput DEF ArchiveInv, WriterInv
<1>4. WriterInv'
  BY <1>2, <1>3 DEF ArchiveInv, WriterInv, WriteHeader, Writing, KeepsParse, work, HeaderBytes
<1> QED
  BY <1>1, <1>4 DEF ArchiveInv

LEMMA GiveUpKeeps ==
  ASSUME ArchiveInv, NEW kind, GiveUp(kind)  PROVE ArchiveInv'
<1>1. IndexInv'
  BY UnchangedKeeps DEF ArchiveInv, GiveUp
<1>2. WriterInv'
  BY DEF ArchiveInv, WriterInv, GiveUp, writeVars
<1> QED
  BY <1>1, <1>2 DEF ArchiveInv

(* What a turn of a loop over a part takes leaves the rest of it *)
LEMMA TurnTakes ==
  ASSUME NEW p \in [offset : Nat, length : Nat], NEW m \in Nat \ {0}
  PROVE  /\ Want(p, m) \in 0..p.length
         /\ p.length > 0 => Want(p, m) > 0
         /\ Advance(p, Want(p, m)) \in [offset : Nat, length : Nat]
         /\ Advance(p, Want(p, m)).offset = p.offset + Want(p, m)
         /\ Advance(p, Want(p, m)).length = p.length - Want(p, m)
BY DEF Want, Advance

LEMMA StoreBlockKeeps ==
  ASSUME ArchiveInv, StoreBlock  PROVE ArchiveInv'
<1> DEFINE n == Want(source, BlockSize)
<1>1. CASE GiveUp("read")
  BY <1>1, GiveUpKeeps
<1>2. ASSUME NEW c \in CompLens, source' = Advance(source, n), toWrite' = c,
             lens' = KeepLength(n, c),
             blocks' = Append(blocks, [at |-> end, from |-> source.offset, n |-> n]),
             UNCHANGED <<parseVars, readVars, stage, input, end, index, header>>
      PROVE  ArchiveInv'
  <2>1. IndexInv'
    BY <1>2, UnchangedKeeps DEF ArchiveInv
  <2>2. /\ BlockSize \in Nat \ {0} /\ c \in Nat /\ input \in Nat /\ end \in Nat
        /\ source \in [offset : Nat, length : Nat] /\ lens \in Seq(Nat)
        /\ source.offset + source.length = input
        /\ blocks \in Seq([at : Nat, from : Nat, n : Nat])
    BY ArchiveAssumption DEF ArchiveInv, WriterInv
  <2>3. /\ n \in Nat /\ source' \in [offset : Nat, length : Nat]
        /\ source'.offset + source'.length = input
    <3>1. /\ n \in 0..source.length /\ Advance(source, n) \in [offset : Nat, length : Nat]
          /\ Advance(source, n).offset = source.offset + n
          /\ Advance(source, n).length = source.length - n
      BY <2>2, TurnTakes
    <3> QED
      BY <1>2, <2>2, <3>1
  <2>4. lens' \in Seq(Nat)
    BY <1>2, <2>2 DEF KeepLength
  <2>5. blocks' \in Seq([at : Nat, from : Nat, n : Nat]) /\ Len(blocks') > 0
    <3>1. [at |-> end, from |-> source.offset, n |-> n] \in [at : Nat, from : Nat, n : Nat]
      BY <2>2, <2>3
    <3> HIDE DEF n
    <3> QED
      BY <1>2, <2>2, <3>1
  <2>6. WriterInv'
    BY <1>2, <2>2, <2>3, <2>4, <2>5 DEF ArchiveInv, WriterInv, parseVars
  <2> QED
    BY <2>1, <2>6 DEF ArchiveInv
<1> QED
  BY <1>1, <1>2 DEF StoreBlock

LEMMA StoreIndexKeeps ==
  ASSUME ArchiveInv, StoreIndex  PROVE ArchiveInv'
<1>1. IndexInv'
  BY WriterKeepsIndex DEF ArchiveInv, StoreIndex, Writing, KeepsParse, Before
<1>2. index'.n \in Nat \ {0} /\ toWrite' \in Nat
  BY ArchiveAssumption DEF StoreIndex
<1>3. source.offset = input /\ pc = "blocks" /\ stage = "deflate"
  BY DEF StoreIndex, Writing
<1>4. Len(blocks) > 0
  BY <1>3 DEF ArchiveInv, WriterInv
<1>5. WriterInv'
  BY <1>2, <1>3, <1>4 DEF ArchiveInv, WriterInv, StoreIndex, KeepsParse
<1> QED
  BY <1>1, <1>5 DEF ArchiveInv

LEMMA DoWriteKeeps ==
  ASSUME ArchiveInv, DoWrite  PROVE ArchiveInv'
<1>1. CASE GiveUp("write")
  BY <1>1, GiveUpKeeps
<1>2. ASSUME NEW r \in 1..toWrite, end' = end + r, toWrite' = toWrite - r,
             UNCHANGED <<parseVars, readVars, stage, input, source, blocks, lens,
                         index, header>>
      PROVE  ArchiveInv'
  <2>1. IndexInv'
    BY <1>2, UnchangedKeeps DEF ArchiveInv
  <2>2. end' \in Nat /\ toWrite' \in Nat
    BY <1>2 DEF ArchiveInv, WriterInv
  <2>3. WriterInv'
    BY <1>2, <2>2 DEF ArchiveInv, WriterInv, parseVars
  <2> QED
    BY <2>1, <2>3 DEF ArchiveInv
<1> QED
  BY <1>1, <1>2 DEF DoWrite

LEMMA LastOf ==
  ASSUME NEW S, NEW s \in Seq(S), Len(s) > 0
  PROVE  s[Len(s)] \in S
<1>1. Len(s) \in 1..Len(s)
  OBVIOUS
<1> QED
  BY <1>1

(* What idx-deflate has written is an archive *)
LEMMA WrittenIsArchive ==
  ASSUME ArchiveInv, stage = "deflate", pc = "index"
  PROVE  Written \in ArchiveSet
<1>1. /\ end \in Nat /\ lens \in Seq(Nat) /\ input \in Nat /\ input > 0
      /\ blocks \in Seq([at : Nat, from : Nat, n : Nat]) /\ Len(blocks) > 0
      /\ index.n \in Nat \ {0} /\ BlockSize \in Nat
  BY ArchiveAssumption DEF ArchiveInv, WriterInv
<1>2. blocks[Len(blocks)].n \in Nat
  <2>1. blocks[Len(blocks)] \in [at : Nat, from : Nat, n : Nat]
    BY <1>1, LastOf
  <2>2. \A b \in [at : Nat, from : Nat, n : Nat] : b.n \in Nat
    OBVIOUS
  <2> QED
    BY <2>1, <2>2
<1>3. Blocks - 1 \in Nat
  BY <1>1, BlocksOfInput
<1>4. [index_size |-> index.n, block_size |-> BlockSize, full_blocks |-> Blocks - 1,
       last_block |-> blocks[Len(blocks)].n] \in [Numbers -> Nat]
  BY <1>1, <1>2, <1>3 DEF Numbers
<1>5. end + FooterBytes \in Nat
  BY <1>1 DEF FooterBytes
<1> QED
  BY <1>1, <1>4, <1>5 DEF Written, ArchiveSet

LEMMA WriteFooterKeeps ==
  ASSUME ArchiveInv, WriteFooter  PROVE ArchiveInv'
<1>1. CASE GiveUp("write")
  BY <1>1, GiveUpKeeps
<1>2. CASE /\ stage = "deflate" /\ pc = "index"
           /\ file' = Written /\ end' = end + FooterBytes
           /\ stage' = "opened" /\ pc' = "header"
           /\ UNCHANGED <<work, allocated, decoder, asked, fault, readVars, input,
                          source, toWrite, blocks, lens, index, header>>
  <2>1. file' \in ArchiveSet /\ file'.size \in Nat
    BY <1>2, WrittenIsArchive, ArchiveNumbers
  <2>2. asked'.pos = 0 /\ asked'.n = 0
    BY <1>2 DEF ArchiveInv, WriterInv
  <2>3. IndexInv'
    BY <1>2, <2>1, <2>2 DEF ArchiveInv, IndexInv, work, Before, Working, Inside, OffsetsTile
  <2>4. WriterInv'
    BY <1>2 DEF ArchiveInv, WriterInv, FooterBytes
  <2> QED
    BY <2>3, <2>4 DEF ArchiveInv
<1> QED
  BY <1>1, <1>2 DEF WriteFooter, Writing

-----------------------------------------------------------------------------
(* The other programs *)
LEMMA ReadIndexKeeps ==
  ASSUME ArchiveInv, ReadIndex  PROVE ArchiveInv'
<1>1. IndexInv'
  BY ParseKeeps DEF ArchiveInv, ReadIndex
<1>2. WriterInv'
  BY DEF ArchiveInv, WriterInv, ReadIndex, writeVars
<1> QED
  BY <1>1, <1>2 DEF ArchiveInv

LEMMA ReaderKeeps ==
  ASSUME ArchiveInv, stage' # "deflate", UNCHANGED <<parseVars, writeVars>>
  PROVE  ArchiveInv'
<1>1. IndexInv'
  BY UnchangedKeeps DEF ArchiveInv
<1>2. WriterInv'
  BY DEF ArchiveInv, WriterInv, writeVars
<1> QED
  BY <1>1, <1>2 DEF ArchiveInv

(* All three programs keep to the invariant, which is what read_index       *)
(* relies on in every step and what idx-deflate knows of its archive.       *)
THEOREM ArchiveInvariant == ArchiveSpec => []ArchiveInv
<1>1. ArchiveInv /\ [Next]_vars => ArchiveInv'
  <2> SUFFICES ASSUME ArchiveInv, [Next]_vars  PROVE ArchiveInv'
    OBVIOUS
  <2>1. CASE WriteHeader
    BY <2>1, WriteHeaderKeeps
  <2>2. CASE StoreBlock
    BY <2>2, StoreBlockKeeps
  <2>3. CASE StoreIndex
    BY <2>3, StoreIndexKeeps
  <2>4. CASE DoWrite
    BY <2>4, DoWriteKeeps
  <2>5. CASE WriteFooter
    BY <2>5, WriteFooterKeeps
  <2>6. CASE ReadIndex
    BY <2>6, ReadIndexKeeps
  <2>7. CASE Start
    BY <2>7, ReaderKeeps DEF Start
  <2>8. CASE InflateTurn
    BY <2>8, ReaderKeeps, GiveUpKeeps DEF InflateTurn
  <2>9. CASE End
    BY <2>9, ReaderKeeps DEF End
  <2>10. CASE UNCHANGED vars
    <3>1. IndexInv'
      BY <2>10, UnchangedKeeps DEF ArchiveInv, vars
    <3>2. WriterInv'
      BY <2>10 DEF ArchiveInv, WriterInv, vars, writeVars, parseVars
    <3> QED
      BY <3>1, <3>2 DEF ArchiveInv
  <2> QED
    BY <2>1, <2>2, <2>3, <2>4, <2>5, <2>6, <2>7, <2>8, <2>9, <2>10 DEF Next
<1> QED
  BY <1>1, ArchiveInitHolds, PTL DEF ArchiveSpec

(* No archive, of whatever size and content, makes read_index read outside  *)
(* of the file or store behind the table it allocated.                      *)
THEOREM ParserStaysInside == ArchiveSpec => []StaysInside
<1>1. ArchiveInv => StaysInside
  BY DEF ArchiveInv, IndexInv, StaysInside
<1> QED
  BY <1>1, ArchiveInvariant, PTL

(* Of no archive does read_index return a table that does not tile it.      *)
THEOREM ParserTiles == ArchiveSpec => []OffsetsTile
<1>1. ArchiveInv => OffsetsTile
  BY DEF ArchiveInv, IndexInv
<1> QED
  BY <1>1, ArchiveInvariant, PTL

(* Once an archive is open, Iter::seek finds every offset of its contents   *)
(* in the block that holds it, if its size did not overflow and its last    *)
(* block is not larger than the others.                                     *)
THEOREM EveryOffsetFound == ArchiveSpec => []OffsetsFound
<1>1. ArchiveInv => OffsetsFound
  <2> SUFFICES ASSUME ArchiveInv, pc = "ok", usize = Index!IdxFileSize,
                      file.footer.last_block <= file.footer.block_size,
                      NEW o \in 0..(usize - 1)
               PROVE  LET e == Index!IdxSeek(o)
                      IN  /\ e \in 1..(Len(offsets) - 1)
                          /\ Index!IdxStart[e] <= o
                          /\ o < Index!IdxStart[e] + Index!IdxUSize[e]
    BY DEF OffsetsFound
  <2>1. /\ file.footer.block_size \in Nat \ {0} /\ file.footer.full_blocks \in Nat
        /\ file.footer.last_block \in Nat
    BY ArchiveNumbers DEF ArchiveInv, IndexInv, Working, Numbers
  <2>2. Blockwise!IdxAssumption
    BY <2>1 DEF Blockwise!IdxAssumption
  <2>3. /\ Index!IdxFileSize = Blockwise!IdxFileSize
        /\ Index!IdxSeek(o) = Blockwise!IdxSeek(o)
        /\ Index!IdxStart = Blockwise!IdxStart /\ Index!IdxUSize = Blockwise!IdxUSize
    BY DEF Index!IdxFileSize, Index!IdxSeek, Index!IdxStart, Index!IdxUSize, Index!IdxEntries,
           Blockwise!IdxFileSize, Blockwise!IdxSeek, Blockwise!IdxStart,
           Blockwise!IdxUSize, Blockwise!IdxEntries
  <2>4. o \in 0..(Blockwise!IdxFileSize - 1)
    BY <2>3
  <2>5. Len(offsets) - 1 = Blockwise!IdxEntries
    BY <2>1 DEF ArchiveInv, IndexInv, OffsetsTile, Blockwise!IdxEntries
  <2> QED
    BY <2>2, <2>3, <2>4, <2>5, Blockwise!SeekFinds
<1> QED
  BY <1>1, ArchiveInvariant, PTL

-----------------------------------------------------------------------------
(* What read_index holds at each place: strm is unwritten until the table   *)
(* is there, and from then on both are, until the end.                      *)
Tidy ==
  /\ pc \in Before \cup Working \cup {"ok", "failed", "crashed"}
  /\ allocated \in BOOLEAN
  /\ pc \in Before  => decoder = "garbage" /\ allocated = FALSE /\ offsets = << >>
  /\ pc \in Working => decoder \in {"open", "none"} /\ allocated = TRUE
  /\ ResourcesReturned

(* The label failed is a way out from everywhere *)
LEMMA FailTidies ==
  ASSUME Tidy, Fail, pc \in Before \cup Working  PROVE Tidy'
<1>1. CASE pc \in Before
  BY <1>1 DEF Tidy, Fail, work, Before, Working, ResourcesReturned, Parsed
<1>2. CASE pc \in Working
  BY <1>2 DEF Tidy, Fail, work, Before, Working, ResourcesReturned, Parsed
<1> QED
  BY <1>1, <1>2

(* A step that goes on inside of a part of read_index *)
LEMMA StaysTidy ==
  ASSUME Tidy, UNCHANGED <<allocated, decoder>>,
         \/ pc \in Working /\ pc' \in Working
         \/ pc \in Before /\ pc' \in Before /\ UNCHANGED offsets
  PROVE  Tidy'
BY DEF Tidy, Before, Working, ResourcesReturned, Parsed

LEMMA ParseTidy ==
  ASSUME Tidy, ParseNext  PROVE Tidy'
<1>1. CASE CheckHeader
  <2>1. pc \in Before
    BY <1>1 DEF CheckHeader, Before
  <2>2. CASE Fail
    BY <2>1, <2>2, FailTidies
  <2>3. CASE pc' = "footer" /\ UNCHANGED <<work, allocated, decoder>>
    BY <2>1, <2>3, StaysTidy DEF Before, work
  <2> QED
    BY <1>1, <2>2, <2>3 DEF CheckHeader, ReadFails, Reject
<1>2. CASE CheckFooter
  <2>1. pc \in Before
    BY <1>2 DEF CheckFooter, Before
  <2>2. CASE Fail
    BY <2>1, <2>2, FailTidies
  <2>3. CASE allocated' = TRUE /\ decoder' \in {"open", "none"} /\ pc' = "inflate"
    BY <2>3 DEF Tidy, Before, Working, ResourcesReturned, Parsed
  <2> QED
    BY <1>2, <2>2, <2>3 DEF CheckFooter, ReadFails, StartIndex, NoTable
<1>3. CASE Inflate
  <2>1. pc \in Working
    BY <1>3 DEF Inflate, Working
  <2>2. CASE Fail
    BY <2>1, <2>2, FailTidies
  <2>3. CASE UNCHANGED <<allocated, decoder, pc>>
    BY <2>1, <2>3, StaysTidy
  <2> QED
    BY <1>3, <2>2, <2>3 DEF Inflate, ReadFails
<1>4. CASE CheckWhole
  <2>1. pc \in Working
    BY <1>4 DEF CheckWhole, Working
  <2>2. CASE Fail
    BY <2>1, <2>2, FailTidies
  <2>3. CASE pc' = "entries" /\ UNCHANGED <<allocated, decoder>>
    BY <2>1, <2>3, StaysTidy DEF Working
  <2> QED
    BY <1>4, <2>2, <2>3 DEF CheckWhole, Reject
<1>5. CASE TakeEntry
  <2>1. pc \in Working
    BY <1>5 DEF TakeEntry, Working
  <2>2. CASE Fail
    BY <2>1, <2>2, FailTidies
  <2>3. CASE UNCHANGED <<allocated, decoder, pc>>
    BY <2>1, <2>3, StaysTidy
  <2> QED
    BY <1>5, <2>2, <2>3 DEF TakeEntry, Reject, Store
<1>6. CASE EndTurn
  <2>1. pc \in Working
    BY <1>6 DEF EndTurn, Working
  <2>2. CASE Fail
    BY <2>1, <2>2, FailTidies
  <2>3. CASE pc' = "inflate" /\ UNCHANGED <<allocated, decoder>>
    BY <2>1, <2>3, StaysTidy DEF Working
  <2>4. CASE Complete
    BY <2>1, <2>4 DEF Complete, Tidy, Before, Working, ResourcesReturned, Parsed
  <2> QED
    BY <1>6, <2>2, <2>3, <2>4 DEF EndTurn, Reject
<1> QED
  BY <1>1, <1>2, <1>3, <1>4, <1>5, <1>6 DEF ParseNext

(* A step of another program *)
LEMMA OthersTidy ==
  ASSUME Tidy, [WriteHeader \/ StoreBlock \/ StoreIndex \/ DoWrite \/ WriteFooter
                \/ Start \/ InflateTurn \/ End]_vars
  PROVE  Tidy'
<1>1. CASE UNCHANGED parseVars
  BY <1>1 DEF Tidy, parseVars, ResourcesReturned, Parsed
<1>2. CASE pc \in Before /\ pc' \in Before /\ UNCHANGED <<work, allocated, decoder>>
  BY <1>2, StaysTidy DEF work
<1> QED
  BY <1>1, <1>2 DEF WriteHeader, StoreBlock, StoreIndex, DoWrite, WriteFooter, Start,
     InflateTurn, End, GiveUp, Writing, KeepsParse, vars, Before

(* On every path out of read_index, whatever failed, the table is returned  *)
(* or freed and the decoder ended, and only an archive whose header or      *)
(* footer is refused, or cannot be read, leads to the unwritten strm.       *)
THEOREM NothingLeaks == ArchiveSpec => []ResourcesReturned
<1>1. ArchiveInit => Tidy
  BY DEF ArchiveInit, ParseInit, Tidy, Before, Working, ResourcesReturned, Parsed
<1>2. Tidy /\ [Next]_vars => Tidy'
  BY ParseTidy, OthersTidy DEF Next, ReadIndex
<1>3. Tidy => ResourcesReturned
  BY DEF Tidy
<1> QED
  BY <1>1, <1>2, <1>3, PTL DEF ArchiveSpec

-----------------------------------------------------------------------------
(* Types.  ParseTypeOK and what else read_index's variables are.            *)
ParseTypes ==
  /\ ParseTypeOK
  /\ pc \in Before => used = 0

(* The label failed, whatever failed before it *)
LEMMA FailTypes ==
  ASSUME ParseTypes, Fail, fault' \in Faults \cup {"none"}
  PROVE  ParseTypes'
BY DEF Fail, ParseTypes, ParseTypeOK, work, Total, Before

LEMMA ReadFailsTypes ==
  ASSUME ParseTypes, NEW p, NEW n, ReadFails(p, n)
  PROVE  ParseTypes'
<1>1. Fail /\ (fault' = fault \/ (fault' = "read" /\ "read" \in Faults))
  BY DEF ReadFails
<1>2. fault \in Faults \cup {"none"}
  BY DEF ParseTypes, ParseTypeOK
<1> QED
  BY <1>1, <1>2, FailTypes

(* A failure that the archive is to blame for *)
LEMMA RefusesTypes ==
  ASSUME ParseTypes, Fail, UNCHANGED fault
  PROVE  ParseTypes'
BY FailTypes DEF ParseTypes, ParseTypeOK

LEMMA CheckFooterTypes ==
  ASSUME IndexInv, ParseTypes, CheckFooter
  PROVE  ParseTypes'
<1> DEFINE f == file.footer  at == file.size - FooterBytes
<1>1. ASSUME NEW size \in Int, Sizes(f, at), StartIndex(size, at)
      PROVE  ParseTypes'
  <2>1. /\ f.index_size \in Nat /\ f.last_block \in Nat /\ file.size \in Nat
        /\ at - HeaderBytes >= f.index_size
    BY <1>1, ArchiveNumbers DEF IndexInv, Sizes, Numbers
  <2>2. at - f.index_size \in Nat
    BY <2>1 DEF HeaderBytes, FooterBytes
  <2>3. /\ file' = file /\ usize' = size + f.last_block /\ pos' = at - f.index_size
        /\ indexSize' = f.index_size /\ allocated' = TRUE /\ offsets' = <<HeaderBytes>>
        /\ decoder' \in {"open", "none"} /\ pc' = "inflate"
        /\ fault' = fault \/ (fault' = "mem" /\ "mem" \in Faults)
        /\ UNCHANGED <<availIn, used, made, out>>
    BY <1>1 DEF StartIndex, streamVars
  <2> HIDE DEF f, at
  <2>4. usize' \in Int /\ pos' \in Nat /\ indexSize' \in Nat /\ offsets' \in Seq(Nat)
    BY <1>1, <2>1, <2>2, <2>3 DEF HeaderBytes
  <2> QED
    BY <2>3, <2>4 DEF ParseTypes, ParseTypeOK, Total, Before
<1>2. ASSUME Sizes(f, at), NEW size \in Product(f.full_blocks, f.block_size)
      PROVE  size \in Int
  <2>1. f.full_blocks \in Nat /\ f.block_size \in Nat
    BY ArchiveNumbers DEF IndexInv, Numbers
  <2>2. f.full_blocks * f.block_size \in Int
    BY <2>1
  <2>3. \A n \in Int : Wrap(n) \in Int
    BY IdxParseAssumption DEF Wrap
  <2> QED
    BY <2>2, <2>3 DEF Product
<1>3. CASE NoTable
  BY <1>3, FailTypes DEF NoTable, ParseTypes, ParseTypeOK
<1> QED
  BY <1>1, <1>2, <1>3, ReadFailsTypes, RefusesTypes DEF CheckFooter

LEMMA InflateTypes ==
  ASSUME IndexInv, ParseTypes, Inflate
  PROVE  ParseTypes'
<1> DEFINE want  == IF indexSize < Chunk THEN indexSize ELSE Chunk
           read  == IF availIn = 0 THEN want ELSE 0
           avail == availIn + read
<1>1. indexSize \in Nat /\ pos \in Nat /\ availIn \in Nat
      /\ used \in Nat /\ made \in Nat /\ out \in Nat /\ IntBytes \in Nat
  BY IdxParseAssumption DEF ParseTypes, ParseTypeOK
<1>2. want \in Nat /\ read \in 0..indexSize /\ avail \in Nat
  BY <1>1, IdxParseAssumption
<1> HIDE DEF want, read, avail
<1>3. ASSUME NEW r \in InflateOutcomes(avail), pc = "inflate",
             pos' = pos + read, indexSize' = indexSize - read,
             availIn' = avail - r.c, used' = used + r.c,
             made' = made + r.p, out' = out + r.p,
             UNCHANGED <<file, usize, offsets, allocated, decoder, pc, fault>>
      PROVE  ParseTypes'
  <2>1. /\ r.c \in 0..avail /\ r.p \in 0..(IntBytes - out)
        /\ used + r.c <= file.clen /\ made + r.p <= Total
    BY <1>3 DEF InflateOutcomes
  <2>2. file.clen \in Nat /\ Total \in Nat
    BY ArchiveNumbers DEF IndexInv, Total
  <2>3. pos' \in Nat /\ indexSize' \in Nat /\ availIn' \in Nat
    BY <1>1, <1>2, <1>3, <2>1
  <2>4. used' \in 0..file.clen /\ made' \in 0..Total /\ out' \in 0..IntBytes
    BY <1>1, <1>3, <2>1, <2>2
  <2>5. Total' = Total
    BY <1>3 DEF Total
  <2> QED
    BY <1>3, <2>3, <2>4, <2>5 DEF ParseTypes, ParseTypeOK, Before
<1> QED
  BY <1>3, ReadFailsTypes, RefusesTypes DEF Inflate, want, read, avail

LEMMA TakeEntryTypes ==
  ASSUME IndexInv, IndexInv', ParseTypes, TakeEntry
  PROVE  ParseTypes'
<1>1. CASE Reject
  BY <1>1, RefusesTypes DEF Reject
<1>2. CASE Store
  <2>1. UNCHANGED <<file, pos, indexSize, usize, allocated, availIn, used, made,
                    decoder, asked, fault, pc>> /\ pc = "entries"
    BY <1>2 DEF Store, TakeEntry
  <2>2. Total' = Total
    BY <2>1 DEF Total
  <2>3. offsets' \in Seq(Nat) /\ out' \in 0..IntBytes
    BY <2>1 DEF IndexInv, Working, Indexing, Table
  <2> QED
    BY <2>1, <2>2, <2>3 DEF ParseTypes, ParseTypeOK
<1> QED
  BY <1>1, <1>2 DEF TakeEntry

LEMMA ParseKeepsTypes ==
  ASSUME IndexInv, ParseTypes, ParseNext
  PROVE  ParseTypes'
<1>1. CASE CheckHeader
  <2>1. CASE pc' = "footer" /\ pc = "header" /\ UNCHANGED <<file, work, allocated, decoder, fault>>
    BY <2>1 DEF ParseTypes, ParseTypeOK, work, Total, Before
  <2> QED
    BY <1>1, <2>1, ReadFailsTypes, RefusesTypes DEF CheckHeader, Reject
<1>2. CASE CheckFooter
  BY <1>2, CheckFooterTypes
<1>3. CASE Inflate
  BY <1>3, InflateTypes
<1>4. CASE CheckWhole
  <2>1. CASE pc' = "entries" /\ UNCHANGED <<file, work, allocated, decoder, asked, fault>>
    BY <2>1 DEF ParseTypes, ParseTypeOK, work, Total, Before
  <2> QED
    BY <1>4, <2>1, RefusesTypes DEF CheckWhole, Reject
<1>5. CASE TakeEntry
  BY <1>5, TakeEntryTypes, ParseKeeps
<1>6. CASE EndTurn
  <2>1. CASE pc' = "inflate" /\ UNCHANGED <<file, work, allocated, decoder, asked, fault>>
    BY <2>1 DEF ParseTypes, ParseTypeOK, work, Total, Before
  <2>2. CASE Complete /\ pc = "entries"
    <3>1. IndexOffset \in Nat /\ offsets \in Seq(Nat)
      BY <2>2 DEF IndexInv, Working, Indexing, Table
    <3>2. offsets' \in Seq(Nat)
      BY <2>2, <3>1 DEF Complete
    <3> QED
      BY <2>2, <3>2 DEF Complete, ParseTypes, ParseTypeOK, streamVars, Total, Before
  <2> QED
    BY <1>6, <2>1, <2>2, RefusesTypes DEF EndTurn, Reject
<1> QED
  BY <1>1, <1>2, <1>3, <1>4, <1>5, <1>6 DEF ParseNext

-----------------------------------------------------------------------------
(* Types of the tools' variables.  idx-inflate runs on an opened archive.   *)
TypeInv ==
  /\ ParseTypes
  /\ stage \in Stages /\ input \in Inputs \cup {0}
  /\ index \in [at : Nat, n : Nat] /\ header \in 0..HeaderBytes
  /\ sink.offset \in Nat /\ sink.length \in Int /\ output \in Seq(Nat)
  /\ stage = "inflate" => pc = "ok"

(* A step of idx-deflate that read_index's variables do not notice *)
LEMMA WriterKeepsParseTypes ==
  ASSUME ParseTypes, pc \in Before, pc' \in Before,
         UNCHANGED <<work, allocated, decoder, fault>>,
         file' = file \/ (file' \in ArchiveSet /\ made = 0)
  PROVE  ParseTypes'
<1>1. CASE file' = file
  BY <1>1 DEF ParseTypes, ParseTypeOK, work, Total
<1>2. CASE file' \in ArchiveSet /\ made = 0
  <2>1. used' = 0 /\ made' = 0
    BY <1>2 DEF ParseTypes, work
  <2>2. file'.clen \in Nat /\ Total' \in Nat
    BY <1>2, ArchiveNumbers DEF Total
  <2>3. used' \in 0..file'.clen /\ made' \in 0..Total'
    BY <2>1, <2>2
  <2> QED
    BY <1>2, <2>1, <2>3 DEF ParseTypes, ParseTypeOK, work
<1> QED
  BY <1>1, <1>2

LEMMA SameParseTypes ==
  ASSUME ParseTypes, UNCHANGED parseVars
  PROVE  ParseTypes'
BY DEF ParseTypes, ParseTypeOK, parseVars, Total

LEMMA GiveUpTypes ==
  ASSUME TypeInv, NEW kind, GiveUp(kind)
  PROVE  TypeInv'
<1>1. ParseTypes'
  BY SameParseTypes DEF TypeInv, GiveUp
<1> QED
  BY <1>1 DEF TypeInv, GiveUp, Stages, Ends, writeVars, readVars

LEMMA DeflateTypes ==
  ASSUME ArchiveInv, TypeInv,
         WriteHeader \/ StoreBlock \/ StoreIndex \/ DoWrite \/ WriteFooter
  PROVE  TypeInv'
<1>1. CASE WriteHeader
  <2>1. ParseTypes'
    BY <1>1, WriterKeepsParseTypes
       DEF TypeInv, WriteHeader, Writing, KeepsParse, work, Before
  <2>2. header' \in 0..HeaderBytes
    BY <1>1 DEF WriteHeader, HeaderBytes
  <2>3. stage' \in {"aborted", "deflate"} /\ UNCHANGED <<input, index, sink, output>>
    BY <1>1 DEF WriteHeader, Writing, KeepsParse, readVars
  <2> QED
    BY <2>1, <2>2, <2>3 DEF TypeInv, Stages, Ends
<1>2. CASE StoreBlock
  <2>1. CASE UNCHANGED <<parseVars, readVars, stage, input, end, index, header>>
    BY <2>1, SameParseTypes DEF TypeInv, readVars, parseVars
  <2> QED
    BY <1>2, <2>1, GiveUpTypes DEF StoreBlock
<1>3. CASE StoreIndex
  <2>1. ParseTypes'
    BY <1>3, WriterKeepsParseTypes
       DEF TypeInv, StoreIndex, Writing, KeepsParse, work, Before
  <2>2. index' \in [at : Nat, n : Nat]
    BY <1>3, ArchiveAssumption DEF StoreIndex, ArchiveInv, WriterInv
  <2>3. UNCHANGED <<input, header, stage, sink, output>> /\ stage = "deflate"
    BY <1>3 DEF StoreIndex, Writing, KeepsParse, readVars
  <2> QED
    BY <2>1, <2>2, <2>3 DEF TypeInv
<1>4. CASE DoWrite
  <2>1. CASE UNCHANGED <<parseVars, readVars, stage, input, source, blocks, lens,
                         index, header>>
    BY <2>1, SameParseTypes DEF TypeInv, readVars, parseVars
  <2> QED
    BY <1>4, <2>1, GiveUpTypes DEF DoWrite
<1>5. CASE WriteFooter
  <2>1. CASE /\ file' = Written /\ stage' = "opened" /\ pc' = "header"
             /\ stage = "deflate" /\ pc = "index"
             /\ UNCHANGED <<work, allocated, decoder, asked, fault, readVars, input,
                            source, toWrite, blocks, lens, index, header>>
    <3>1. file' \in ArchiveSet /\ made = 0
      BY <2>1, WrittenIsArchive DEF ArchiveInv, IndexInv, Before
    <3>2. ParseTypes'
      BY <2>1, <3>1, WriterKeepsParseTypes DEF TypeInv, work, Before
    <3> QED
      BY <2>1, <3>2 DEF TypeInv, Stages, readVars
  <2> QED
    BY <1>5, <2>1, GiveUpTypes DEF WriteFooter, Writing
<1> QED
  BY <1>1, <1>2, <1>3, <1>4, <1>5

(* What the archive's IFile answers are numbers: a block begins before the  *)
(* offset it was found for.                                                 *)
LEMMA SeekBehind ==
  ASSUME file \in ArchiveSet, file.footer.block_size # 0, NEW o \in Nat,
         Index!IdxSeek(o) # 0
  PROVE  o - Index!IdxStart[Index!IdxSeek(o)] \in Nat
<1> DEFINE b == file.footer.block_size  q == o \div b
<1>1. b \in Nat \ {0} /\ file.footer.full_blocks \in Nat
  BY ArchiveNumbers DEF Numbers
<1>2. q \in Nat /\ q * b <= o /\ q * b \in Nat
  BY <1>1, Blockwise!Division
<1>3. Index!IdxSeek(o) = q + 1 /\ q < file.footer.full_blocks + 1
  BY <1>1, <1>2 DEF Index!IdxSeek, Index!IdxEntries
<1> HIDE DEF q, b
<1>4. q + 1 \in 1..(file.footer.full_blocks + 1) /\ (q + 1) - 1 = q
  BY <1>1, <1>2, <1>3
<1>5. Index!IdxStart[q + 1] = q * b
  BY <1>4 DEF Index!IdxStart, Index!IdxEntries, b
<1> QED
  BY <1>2, <1>3, <1>5

LEMMA AnswersNumbers ==
  ASSUME ArchiveInv, pc = "ok", NEW o \in Nat, NEW n \in Nat, NEW bytes \in From(o, n)
  PROVE  bytes \in Seq(Nat)
<1> DEFINE e == Index!IdxSeek(o)  skip == o - Index!IdxStart[e]
<1>1. e # 0 /\ skip \in Nat
  <2>1. e # 0
    BY DEF From
  <2>2. file \in ArchiveSet /\ file.footer.block_size # 0
    BY DEF ArchiveInv, IndexInv, Working
  <2> QED
    BY <2>1, <2>2, SeekBehind
<1>2. PICK b \in 1..Len(blocks) :
        bytes = [k \in 1..n |-> blocks[b].from + skip + k - 1]
  BY <1>1 DEF From
<1>3. blocks[b].from \in Nat
  <2>1. blocks[b] \in [at : Nat, from : Nat, n : Nat]
    BY ElementOfSeq DEF ArchiveInv, WriterInv
  <2>2. \A r \in [at : Nat, from : Nat, n : Nat] : r.from \in Nat
    OBVIOUS
  <2> QED
    BY <2>1, <2>2
<1> HIDE DEF skip
<1>4. \A k \in 1..n : blocks[b].from + skip + k - 1 \in Nat
  BY <1>1, <1>3
<1> QED
  BY <1>2, <1>4

LEMMA InflateTurnTypes ==
  ASSUME ArchiveInv, TypeInv, InflateTurn
  PROVE  TypeInv'
<1>1. ASSUME NEW m \in 1..(Want(sink, OutBytes) + 1),
             NEW bytes \in From(sink.offset, Clamp(sink, OutBytes, m)),
             sink' = Advance(sink, Clamp(sink, OutBytes, m)), output' = output \o bytes,
             UNCHANGED <<parseVars, writeVars, stage>>
      PROVE  TypeInv'
  <2> DEFINE n == Clamp(sink, OutBytes, m)
  <2>1. sink.offset \in Nat /\ sink.length \in Int /\ sink.length > 0
        /\ OutBytes \in Nat \ {0} /\ pc = "ok" /\ output \in Seq(Nat)
    BY ArchiveAssumption DEF TypeInv, InflateTurn
  <2>2. n \in Nat
    BY <2>1 DEF Clamp, Want
  <2> HIDE DEF n
  <2>3. bytes \in Seq(Nat)
    BY <2>1, <2>2, AnswersNumbers DEF n
  <2>4. output' \in Seq(Nat)
    BY <1>1, <2>1, <2>3, ConcatProperties
  <2>5. sink'.offset \in Nat /\ sink'.length \in Int
    BY <1>1, <2>1, <2>2 DEF Advance, n
  <2>6. ParseTypes'
    BY <1>1, SameParseTypes DEF TypeInv
  <2> QED
    BY <1>1, <2>4, <2>5, <2>6 DEF TypeInv, writeVars, parseVars
<1> QED
  BY <1>1, GiveUpTypes DEF InflateTurn

(* The types hold in all three programs.                                    *)
THEOREM TypeInvariant == ArchiveSpec => []TypeInv
<1>1. ArchiveInit => TypeInv
  <2> SUFFICES ASSUME ArchiveInit  PROVE TypeInv
    OBVIOUS
  <2>1. file \in ArchiveSet /\ file.clen \in Nat /\ Total \in Nat
    <3>1. NoFile \in ArchiveSet
      BY DEF NoFile, ArchiveSet, Numbers
    <3> QED
      BY <3>1, IdxParseAssumption, ArchiveNumbers DEF ArchiveInit, Total
  <2>2. ParseTypes
    <3>1. /\ pos = 0 /\ indexSize = 0 /\ usize = 0 /\ offsets = << >>
          /\ allocated = FALSE /\ availIn = 0 /\ used = 0 /\ made = 0 /\ out = 0
          /\ decoder = "garbage" /\ fault = "none"
      BY DEF ArchiveInit, ParseInit
    <3>2. 0 \in 0..file.clen /\ 0 \in 0..Total /\ 0 \in 0..IntBytes
      BY <2>1, IdxParseAssumption
    <3>3. << >> \in Seq(Nat)
      OBVIOUS
    <3>4. ParseTypeOK
      <4>1. pos \in Nat /\ indexSize \in Nat /\ usize \in Int /\ availIn \in Nat
        BY <3>1
      <4>2. offsets \in Seq(Nat) /\ out \in 0..IntBytes /\ used \in 0..file.clen
            /\ made \in 0..Total
        BY <3>1, <3>2, <3>3, Zenon
      <4> QED
        BY <2>1, <3>1, <4>1, <4>2, Zenon DEF ParseTypeOK
    <3> QED
      BY <3>1, <3>4 DEF ParseTypes
  <2> QED
    BY <2>2 DEF ArchiveInit, TypeInv, Stages, NoPart, HeaderBytes
<1>2. ArchiveInv /\ TypeInv /\ [Next]_vars => TypeInv'
  <2> SUFFICES ASSUME ArchiveInv, TypeInv, [Next]_vars  PROVE TypeInv'
    OBVIOUS
  <2>1. CASE ReadIndex
    <3>1. ParseTypes'
      BY <2>1, ParseKeepsTypes DEF ReadIndex, ArchiveInv, TypeInv
    <3> QED
      BY <2>1, <3>1 DEF ReadIndex, TypeInv, writeVars, readVars
  <2>2. CASE Start
    <3>1. sink'.offset \in Nat /\ sink'.length \in Int
      BY <2>2 DEF Start, TypeInv, ParseTypes, ParseTypeOK, FixLength, ToEnd
    <3> QED
      BY <2>2, <3>1, SameParseTypes DEF Start, TypeInv, writeVars, parseVars, Stages
  <2>3. CASE End
    BY <2>3, SameParseTypes DEF End, TypeInv, writeVars, readVars, parseVars, Stages, Ends
  <2>4. CASE UNCHANGED vars
    BY <2>4, SameParseTypes DEF vars, TypeInv, writeVars, readVars, parseVars
  <2> QED
    BY <2>1, <2>2, <2>3, <2>4, DeflateTypes, InflateTurnTypes DEF Next
<1> QED
  BY <1>1, <1>2, ArchiveInvariant, PTL DEF ArchiveSpec

(* Every variable of the three programs keeps its type: what read_index     *)
(* computes from any archive are offsets and numbers, also in its failures. *)
THEOREM ArchiveTypes == ArchiveSpec => []ArchiveTypeOK
<1>1. ArchiveInv /\ TypeInv => ArchiveTypeOK
  BY DEF ArchiveInv, WriterInv, TypeInv, ParseTypes, ArchiveTypeOK
<1> QED
  BY <1>1, ArchiveInvariant, TypeInvariant, PTL

-----------------------------------------------------------------------------
(* A good archive: at says where its blocks lie, and the last of them ends  *)
(* before the index.                                                        *)
Whole == file.footer.full_blocks * file.footer.block_size + file.footer.last_block

Sane(a) ==
  /\ a.magic /\ a.intact /\ a.tail = 0
  /\ \A n \in Numbers : a.footer[n] <= MaxInt - 16
  /\ a.footer.block_size > 0
  /\ a.footer.index_size = a.clen /\ a.footer.full_blocks = Len(a.lens)
  /\ a.footer.full_blocks <= MaxBlocks
  /\ a.footer.full_blocks * a.footer.block_size <= MaxInt

Located(a, at) ==
  /\ at[1] = HeaderBytes
  /\ \A k \in 1..Len(a.lens) : at[k + 1] = at[k] + a.lens[k]
  /\ at[Len(a.lens) + 1] \in Nat /\ at[Len(a.lens) + 1] >= HeaderBytes
  /\ at[Len(a.lens) + 1] + a.clen + FooterBytes <= a.size

(* As long as no call fails, read_index goes on with it: what the decoder   *)
(* has consumed, what it has been given and what is left to read are the    *)
(* whole index, of which it makes all numbers; the table has the places of  *)
(* the blocks.                                                              *)
Goes(at) ==
  /\ pc \notin {"failed", "crashed"}
  /\ pc \in Working =>
       /\ decoder = "open" /\ usize = Whole
       /\ used + availIn + indexSize = file.clen
       /\ used = file.clen => made = Total
       /\ \A k \in 1..Len(offsets) : offsets[k] = at[k]
  /\ pc = "ok" =>
       /\ usize = Whole
       /\ \A k \in 1..(Len(offsets) - 1) : offsets[k] = at[k]

Accepting ==
  \A at : Sane(file) /\ Located(file, at) /\ fault = "none" => Goes(at)

GoodNumbers(a) ==
  /\ a.size \in Nat /\ a.clen \in Nat \ {0} /\ a.lens \in Seq(Nat) /\ Len(a.lens) \in Nat
  /\ \A n \in Numbers : a.footer[n] \in Nat
  /\ a.footer.index_size \in Nat /\ a.footer.full_blocks \in Nat
  /\ a.footer.block_size \in Nat \ {0} /\ a.footer.last_block \in Nat

LEMMA GoodArchive ==
  ASSUME NEW a \in ArchiveSet, Sane(a)
  PROVE  GoodNumbers(a)
<1>1. a.size \in Nat /\ a.clen \in Nat \ {0} /\ a.lens \in Seq(Nat)
      /\ a.footer \in [Numbers -> Nat]
  BY DEF ArchiveSet
<1>2. Len(a.lens) \in Nat
  BY <1>1
<1>3. \A n \in Numbers : a.footer[n] \in Nat
  BY <1>1
<1>4. a.footer.block_size > 0
  BY DEF Sane
<1> QED
  BY <1>1, <1>2, <1>3, <1>4 DEF GoodNumbers, Numbers

(* The size of a good archive's contents fits *)
LEMMA SizeFits ==
  ASSUME NEW n \in Nat, NEW b \in Nat \ {0}, n * b <= MaxInt
  PROVE  /\ n > 0 => b <= MaxLong \div n
         /\ Product(n, b) = {n * b}
<1>1. MaxLong \in Nat /\ MaxInt \in Nat /\ MaxInt <= MaxLong /\ n * b \in Nat
  BY IdxParseAssumption
<1>2. ASSUME n > 0  PROVE b <= MaxLong \div n
  <2> DEFINE q == MaxLong \div n
  <2>1. q \in Nat /\ MaxLong < q * n + n
    BY <1>1, <1>2, Blockwise!Division
  <2> HIDE DEF q
  <2>2. ASSUME b >= q + 1  PROVE FALSE
    <3>1. (q + 1) * n <= b * n
      BY <2>1, <2>2, Blockwise!Monotone
    <3>2. (q + 1) * n = q * n + n /\ b * n = n * b
      BY <2>1
    <3>3. q * n \in Nat
      BY <2>1
    <3> QED
      BY <1>1, <2>1, <3>1, <3>2, <3>3
  <2>3. b <= q
    BY <2>1, <2>2
  <2> QED
    BY <2>3 DEF q
<1> QED
  BY <1>1, <1>2 DEF Product

LEMMA FailedBefore ==
  ASSUME NEW p, NEW n, Inside(p, n), ReadFails(p, n)
  PROVE  fault' = "read"
BY DEF ReadFails

LEMMA CheckHeaderGoes ==
  ASSUME IndexInv, Sane(file), NEW at, Located(file, at), fault' = "none", CheckHeader
  PROVE  pc' = "footer"
<1>1. GoodNumbers(file)
  BY GoodArchive DEF IndexInv
<1>2. file.size >= HeaderBytes + FooterBytes
  BY <1>1 DEF Located, HeaderBytes, FooterBytes, GoodNumbers
<1>3. Inside(0, HeaderBytes)
  BY <1>1, <1>2 DEF Inside, HeaderBytes, FooterBytes, GoodNumbers
<1>4. ~ReadFails(0, HeaderBytes)
  BY <1>3, FailedBefore
<1>5. file.size \in Nat /\ HeaderBytes + FooterBytes \in Nat
  BY <1>1 DEF GoodNumbers, HeaderBytes, FooterBytes
<1> QED
  BY <1>2, <1>4, <1>5 DEF CheckHeader, Sane

LEMMA CheckFooterGoes ==
  ASSUME IndexInv, ParseTypes, Sane(file), NEW at, Located(file, at), fault' = "none",
         CheckFooter
  PROVE  Goes(at)'
<1> DEFINE f == file.footer  p == file.size - FooterBytes
<1>1. GoodNumbers(file) /\ file.size >= HeaderBytes + FooterBytes
  BY GoodArchive DEF IndexInv, CheckFooter
<1>2. ~ReadFails(p, FooterBytes)
  <2>1. Inside(p, FooterBytes)
    BY <1>1 DEF Inside, HeaderBytes, FooterBytes, GoodNumbers
  <2> QED
    BY <2>1, FailedBefore
<1>3. Product(f.full_blocks, f.block_size) = {f.full_blocks * f.block_size}
      /\ (f.full_blocks > 0 => f.block_size <= MaxLong \div f.full_blocks)
  BY <1>1, SizeFits DEF Sane, GoodNumbers
<1>4. Sizes(f, p)
  <2>1. p - HeaderBytes >= f.index_size
    BY <1>1 DEF Sane, Located, HeaderBytes, FooterBytes, GoodNumbers
  <2> HIDE DEF p
  <2> QED
    BY <1>3, <2>1 DEF Sane, Sizes
<1> DEFINE size == f.full_blocks * f.block_size
<1>5. size \in Nat /\ size <= MaxInt /\ f.last_block \in Nat /\ f.last_block <= MaxInt - 16
  BY <1>1 DEF GoodNumbers, Sane, Numbers
<1> HIDE DEF size
<1>6. LastBlockFits(size, f.last_block) = {TRUE}
  <2>1. MaxLong \in Nat /\ MaxInt \in Nat /\ MaxLong >= 2 * MaxInt
    BY IdxParseAssumption
  <2>2. size >= 0 /\ f.last_block <= MaxLong - size
    BY <1>5, <2>1
  <2> QED
    BY <2>2 DEF LastBlockFits
<1>7. StartIndex(size, p)
  <2>1. \/ ReadFails(p, FooterBytes)
        \/ IF ~Sizes(f, p) THEN Fail /\ UNCHANGED fault
           ELSE \E sz \in Product(f.full_blocks, f.block_size) :
                  \E fits \in LastBlockFits(sz, f.last_block) :
                    IF fits THEN StartIndex(sz, p) \/ NoTable ELSE Fail /\ UNCHANGED fault
    BY Zenon DEF CheckFooter
  <2>2. Product(f.full_blocks, f.block_size) = {size}
    BY <1>3 DEF size
  <2> HIDE DEF p, f
  <2>3. PICK sz \in {size} : \E fits \in LastBlockFits(sz, f.last_block) :
                    IF fits THEN StartIndex(sz, p) \/ NoTable ELSE Fail /\ UNCHANGED fault
    BY <1>2, <1>4, <2>1, <2>2, Zenon
  <2>4. \E fits \in {TRUE} :
           IF fits THEN StartIndex(size, p) \/ NoTable ELSE Fail /\ UNCHANGED fault
    BY <1>6, <2>3, Zenon
  <2>5. ~NoTable
    BY DEF NoTable
  <2> QED
    BY <2>4, <2>5, Zenon
<1>8. /\ file' = file /\ usize' = size + f.last_block /\ indexSize' = f.index_size
      /\ offsets' = <<HeaderBytes>> /\ decoder' \in {"open", "none"} /\ pc' = "inflate"
      /\ decoder' = "none" => fault' = "mem"
      /\ UNCHANGED <<availIn, used, made, out>>
  BY <1>7 DEF StartIndex, streamVars
<1>9. used = 0 /\ availIn = 0
  BY DEF IndexInv, ParseTypes, CheckFooter, Before
<1>10. used' + availIn' + indexSize' = file'.clen /\ used' # file'.clen
  BY <1>1, <1>8, <1>9 DEF GoodNumbers, Sane
<1>11. usize' = Whole'
  BY <1>8 DEF Whole, size
<1>12. \A k \in 1..Len(offsets') : offsets'[k] = at[k]
  BY <1>8 DEF Located
<1> HIDE DEF p, f
<1> QED
  BY <1>8, <1>10, <1>11, <1>12 DEF Goes, Working

LEMMA InflateGoes ==
  ASSUME IndexInv, ParseTypes, Sane(file), NEW at, Located(file, at), Goes(at),
         fault' = "none", Inflate
  PROVE  Goes(at)'
<1> DEFINE want  == IF indexSize < Chunk THEN indexSize ELSE Chunk
           read  == IF availIn = 0 THEN want ELSE 0
           avail == availIn + read
           rest  == indexSize - read
<1>1. /\ indexSize \in Nat /\ pos \in Nat /\ availIn \in Nat /\ used \in Nat
      /\ pos + indexSize = file.size - FooterBytes /\ pc = "inflate"
      /\ GoodNumbers(file)
  BY GoodArchive DEF IndexInv, Inflate, Working, Indexing, ParseTypes, ParseTypeOK
<1>2. want \in 0..indexSize /\ read \in 0..indexSize
  BY <1>1, IdxParseAssumption
<1>3. /\ decoder = "open" /\ usize = Whole
      /\ used + availIn + indexSize = file.clen
      /\ \A k \in 1..Len(offsets) : offsets[k] = at[k]
  BY <1>1 DEF Goes, Working
<1>4. file.intact
  BY DEF Sane
<1> HIDE DEF want, read
<1>5. avail \in Nat /\ rest \in Nat /\ used + avail + rest = file.clen
  BY <1>1, <1>2, <1>3
<1>6. ~ReadFails(pos, want)
  <2>1. Inside(pos, want)
    BY <1>1, <1>2 DEF Inside, FooterBytes, GoodNumbers
  <2> QED
    BY <2>1, FailedBefore
<1> HIDE DEF avail, rest
<1>7. PICK r \in InflateOutcomes(avail) :
        IF used + r.c = file.clen /\ avail - r.c + rest > 0
        THEN Fail
        ELSE /\ pos' = pos + read /\ indexSize' = rest
             /\ availIn' = avail - r.c /\ used' = used + r.c
             /\ made' = made + r.p /\ out' = out + r.p
             /\ UNCHANGED <<file, usize, offsets, allocated, decoder, pc>>
  BY <1>3, <1>4, <1>6 DEF Inflate, want, read, avail, rest
<1>8. /\ r.c \in 0..avail
      /\ used + r.c = file.clen => made + r.p = Total
  BY <1>7 DEF InflateOutcomes
<1>9. ~(used + r.c = file.clen /\ avail - r.c + rest > 0)
  BY <1>1, <1>5, <1>8
<1>10. /\ indexSize' = rest /\ availIn' = avail - r.c /\ used' = used + r.c
       /\ made' = made + r.p
       /\ UNCHANGED <<file, usize, offsets, allocated, decoder, pc>>
  BY <1>7, <1>9
<1>11. used' + availIn' + indexSize' = file'.clen
  BY <1>1, <1>5, <1>8, <1>10
<1>12. Whole' = Whole /\ Total' = Total
  BY <1>10 DEF Whole, Total
<1>13. used' = file'.clen => made' = Total'
  BY <1>8, <1>10, <1>12
<1> QED
  BY <1>1, <1>3, <1>10, <1>11, <1>12, <1>13 DEF Goes, Working

(* The inner loop ends between two numbers *)
LEMMA WholeNumbers ==
  ASSUME NEW i \in Int, NEW j \in Int
  PROVE  (4 * i - 4 * j) % 4 = 0
  BY SMT

LEMMA CheckWholeGoes ==
  ASSUME IndexInv, ParseTypes, Sane(file), NEW at, Located(file, at), Goes(at), CheckWhole
  PROVE  Goes(at)'
<1>1. /\ indexSize \in Nat /\ availIn \in Nat /\ used \in Nat /\ out \in Nat
      /\ Len(offsets) \in Nat /\ made = out + 4 * (Len(offsets) - 1)
      /\ pc = "inflate" /\ GoodNumbers(file)
  BY GoodArchive
     DEF IndexInv, CheckWhole, Working, Indexing, Table, ParseTypes, ParseTypeOK
<1>2. /\ decoder = "open" /\ usize = Whole
      /\ used + availIn + indexSize = file.clen
      /\ used = file.clen => made = Total
      /\ \A k \in 1..Len(offsets) : offsets[k] = at[k]
  BY <1>1 DEF Goes, Working
<1>3. out % 4 = 0
  <2>1. CASE BufferFull
    BY <2>1, IdxParseAssumption DEF BufferFull
  <2>2. CASE ~More
    <3>1. used = file.clen
      BY <1>1, <1>2, <2>2 DEF More, GoodNumbers
    <3>2. out + 4 * (Len(offsets) - 1) = 4 * Len(file.lens)
      BY <1>1, <1>2, <3>1 DEF Total, Sane, GoodNumbers
    <3>3. Len(file.lens) \in Int /\ Len(offsets) - 1 \in Int
      BY <1>1 DEF GoodNumbers
    <3>4. out = 4 * Len(file.lens) - 4 * (Len(offsets) - 1)
      BY <1>1, <3>2, <3>3
    <3> QED
      BY <3>3, <3>4, WholeNumbers
  <2> QED
    BY <2>1, <2>2 DEF CheckWhole
<1>4. pc' = "entries" /\ UNCHANGED <<file, work, allocated, decoder, asked, fault>>
  BY <1>3 DEF CheckWhole
<1>5. Whole' = Whole /\ Total' = Total
  BY <1>4 DEF Whole, Total
<1> QED
  BY <1>2, <1>4, <1>5 DEF Goes, Working, work

LEMMA TakeEntryGoes ==
  ASSUME IndexInv, ParseTypes, Sane(file), NEW at, Located(file, at), Goes(at), TakeEntry
  PROVE  Goes(at)'
<1> DEFINE n == Len(offsets)
<1>1. /\ out \in Nat /\ offsets \in Seq(Nat) /\ n \in Nat \ {0}
      /\ made = out + 4 * (n - 1) /\ made <= Total
      /\ pc = "entries" /\ out > 0 /\ GoodNumbers(file)
  BY GoodArchive DEF IndexInv, TakeEntry, Working, Indexing, Table
<1>2. /\ decoder = "open" /\ usize = Whole
      /\ used + availIn + indexSize = file.clen
      /\ used = file.clen => made = Total
      /\ \A k \in 1..n : offsets[k] = at[k]
  BY <1>1 DEF Goes, Working
<1>3. n <= Len(file.lens) /\ Len(file.lens) \in Nat /\ file.footer.full_blocks = Len(file.lens)
  BY <1>1 DEF Total, Sane, GoodNumbers
<1>4. Store
  BY <1>1, <1>3 DEF TakeEntry
<1>5. /\ offsets' = Append(offsets, Current + file.lens[n])
      /\ UNCHANGED <<file, indexSize, usize, availIn, used, made, decoder, pc>>
  BY <1>4 DEF Store
<1>6. Current = at[n] /\ at[n + 1] = at[n] + file.lens[n]
  BY <1>1, <1>2, <1>3 DEF Current, Located
<1>7. ASSUME NEW k \in 1..Len(offsets')  PROVE offsets'[k] = at[k]
  <2>1. Len(offsets') = n + 1 /\ offsets'[n + 1] = at[n + 1]
        /\ \A j \in 1..n : offsets'[j] = offsets[j]
    BY <1>1, <1>5, <1>6
  <2>2. CASE k = n + 1
    BY <2>1, <2>2
  <2>3. CASE k \in 1..n
    BY <1>2, <2>1, <2>3
  <2> QED
    BY <1>1, <2>1, <2>2, <2>3
<1>8. Whole' = Whole /\ Total' = Total
  BY <1>5 DEF Whole, Total
<1> QED
  BY <1>1, <1>2, <1>5, <1>7, <1>8 DEF Goes, Working

LEMMA EndTurnGoes ==
  ASSUME IndexInv, ParseTypes, Sane(file), NEW at, Located(file, at), Goes(at), EndTurn
  PROVE  Goes(at)'
<1> DEFINE n == Len(offsets)
<1>1. /\ out = 0 /\ offsets \in Seq(Nat) /\ n \in Nat \ {0}
      /\ made = out + 4 * (n - 1) /\ pc = "entries" /\ GoodNumbers(file)
      /\ indexSize \in Nat /\ availIn \in Nat /\ used \in Nat
  BY GoodArchive
     DEF IndexInv, EndTurn, Working, Indexing, Table, ParseTypes, ParseTypeOK
<1>2. /\ decoder = "open" /\ usize = Whole
      /\ used + availIn + indexSize = file.clen
      /\ used = file.clen => made = Total
      /\ \A k \in 1..n : offsets[k] = at[k]
  BY <1>1 DEF Goes, Working
<1>3. CASE More
  <2>1. pc' = "inflate" /\ UNCHANGED <<file, work, allocated, decoder, asked, fault>>
    BY <1>3 DEF EndTurn
  <2>2. Whole' = Whole /\ Total' = Total
    BY <2>1 DEF Whole, Total
  <2> QED
    BY <1>2, <2>1, <2>2 DEF Goes, Working, work
<1>4. CASE ~More
  <2>1. used = file.clen
    BY <1>1, <1>2, <1>4 DEF More, GoodNumbers
  <2>2. n = Len(file.lens) + 1 /\ n = file.footer.full_blocks + 1
    <3>1. 4 * (n - 1) = 4 * Len(file.lens) /\ Len(file.lens) \in Nat
      BY <1>1, <1>2, <2>1 DEF Total, Sane, GoodNumbers
    <3> QED
      BY <1>1, <3>1 DEF Sane
  <2>3. Current = at[n] /\ Current <= IndexOffset /\ IndexOffset \in Int
    <3>1. Current = at[n]
      BY <1>1, <1>2 DEF Current
    <3>2. at[n] \in Nat /\ at[n] + file.clen + FooterBytes <= file.size
      BY <2>2 DEF Located
    <3>3. IndexOffset = file.size - FooterBytes - file.clen
      BY DEF IndexOffset, Sane
    <3>4. file.size \in Nat /\ file.clen \in Nat
      BY <1>1 DEF GoodNumbers
    <3>5. at[n] <= IndexOffset /\ IndexOffset \in Int
      BY <3>2, <3>3, <3>4 DEF FooterBytes
    <3> QED
      BY <3>1, <3>5
  <2>4. Complete
    <3>1. ~(Current > IndexOffset)
      <4>1. Current \in Nat
        BY <1>1 DEF Current
      <4> QED
        BY <2>3, <4>1
    <3> QED
      BY <1>4, <2>2, <3>1 DEF EndTurn
  <2>5. offsets' = Append(offsets, IndexOffset) /\ pc' = "ok" /\ UNCHANGED <<file, usize>>
    BY <2>4 DEF Complete
  <2>6. Len(offsets') - 1 = n /\ \A k \in 1..n : offsets'[k] = offsets[k]
    BY <1>1, <2>5
  <2> QED
    BY <1>2, <2>5, <2>6 DEF Goes, Working, Whole
<1> QED
  BY <1>3, <1>4

(* Nothing that failed is forgotten *)
LEMMA FaultStays ==
  ASSUME ParseNext, fault' = "none"
  PROVE  fault = "none" /\ file' = file
BY DEF ParseNext, CheckHeader, CheckFooter, Inflate, CheckWhole, TakeEntry, EndTurn,
       Reject, ReadFails, StartIndex, NoTable, Store, Complete, Fail

LEMMA ParseAccepts ==
  ASSUME IndexInv, ParseTypes, Accepting, ParseNext
  PROVE  Accepting'
<1> SUFFICES ASSUME NEW at, Sane(file'), Located(file', at), fault' = "none"
             PROVE  Goes(at)'
  BY DEF Accepting, Sane, Located
<1>1. fault = "none" /\ file' = file
  BY FaultStays
<1>2. Sane(file) /\ Located(file, at)
  BY <1>1
<1>3. Goes(at)
  BY <1>1, <1>2 DEF Accepting
<1>4. CASE CheckHeader
  <2>1. pc' = "footer"
    BY <1>2, <1>4, CheckHeaderGoes
  <2> QED
    BY <2>1 DEF Goes, Working
<1>5. CASE CheckFooter
  BY <1>2, <1>5, CheckFooterGoes
<1>6. CASE Inflate
  BY <1>2, <1>3, <1>6, InflateGoes
<1>7. CASE CheckWhole
  BY <1>2, <1>3, <1>7, CheckWholeGoes
<1>8. CASE TakeEntry
  BY <1>2, <1>3, <1>8, TakeEntryGoes
<1>9. CASE EndTurn
  BY <1>2, <1>3, <1>9, EndTurnGoes
<1> QED
  BY <1>4, <1>5, <1>6, <1>7, <1>8, <1>9 DEF ParseNext

LEMMA NotReadingAccepts ==
  ASSUME pc' \notin Working \cup {"ok", "failed", "crashed"}
  PROVE  Accepting'
BY DEF Accepting, Goes

LEMMA SameAccepts ==
  ASSUME Accepting, UNCHANGED parseVars
  PROVE  Accepting'
BY DEF Accepting, Goes, Sane, Located, Whole, Total, parseVars

(* As long as no call fails, a good archive is not refused, and its table   *)
(* is as it should be.                                                      *)
THEOREM AcceptInvariant == ArchiveSpec => []Accepting
<1>1. ArchiveInit => Accepting
  BY DEF ArchiveInit, ParseInit, Accepting, Goes, Working
<1>2. ArchiveInv /\ TypeInv /\ Accepting /\ [Next]_vars => Accepting'
  <2> SUFFICES ASSUME ArchiveInv, TypeInv, Accepting, [Next]_vars  PROVE Accepting'
    OBVIOUS
  <2>1. CASE ReadIndex
    BY <2>1, ParseAccepts DEF ReadIndex, ArchiveInv, TypeInv
  <2>2. CASE UNCHANGED parseVars
    BY <2>2, SameAccepts
  <2>3. CASE pc' \in {"blocks", "index", "header"}
    BY <2>3, NotReadingAccepts DEF Working
  <2> QED
    BY <2>1, <2>2, <2>3 DEF Next, WriteHeader, StoreBlock, StoreIndex, DoWrite,
       WriteFooter, Start, InflateTurn, End, GiveUp, vars
<1> QED
  BY <1>1, <1>2, ArchiveInvariant, TypeInvariant, PTL DEF ArchiveSpec

(* The places of a well-formed archive's blocks *)
LEMMA WellFormedIsGood ==
  ASSUME NEW a \in ArchiveSet, WellFormed(a)
  PROVE  /\ Sane(a)
         /\ Located(a, [k \in 1..(Len(a.lens) + 1) |-> HeaderBytes + Sums(a.lens)[k - 1]])
<1> DEFINE at == [k \in 1..(Len(a.lens) + 1) |-> HeaderBytes + Sums(a.lens)[k - 1]]
<1>1. a.lens \in Seq(Nat) /\ Len(a.lens) \in Nat /\ a.clen \in Nat /\ a.size \in Nat
  BY DEF ArchiveSet
<1>2. Sane(a)
  BY DEF WellFormed, Sane
<1>3. \A k \in 0..Len(a.lens) : Sums(a.lens)[k] \in Nat
  BY <1>1, SumsType
<1>4. at[1] = HeaderBytes
  BY <1>1, SumsStep DEF HeaderBytes
<1>5. ASSUME NEW k \in 1..Len(a.lens)  PROVE at[k + 1] = at[k] + a.lens[k]
  <2>1. Sums(a.lens)[k] = Sums(a.lens)[k - 1] + a.lens[k]
    BY <1>1, SumsStep
  <2>2. at[k + 1] = HeaderBytes + Sums(a.lens)[k] /\ at[k] = HeaderBytes + Sums(a.lens)[k - 1]
    BY <1>1
  <2>3. k - 1 \in 0..Len(a.lens) /\ a.lens[k] \in Nat
    BY <1>1
  <2>4. Sums(a.lens)[k - 1] \in Nat
    BY <1>3, <2>3
  <2> HIDE DEF at
  <2> QED
    BY <2>1, <2>2, <2>3, <2>4 DEF HeaderBytes
<1>6. at[Len(a.lens) + 1] = HeaderBytes + SumOf(a.lens)
  BY <1>1 DEF SumOf
<1>7. SumOf(a.lens) \in Nat
  BY <1>1, <1>3 DEF SumOf
<1>8. HeaderBytes + SumOf(a.lens) + a.clen + FooterBytes <= a.size
  BY DEF WellFormed
<1> HIDE DEF at
<1>9. Located(a, at)
  BY <1>4, <1>5, <1>6, <1>7, <1>8 DEF Located, HeaderBytes
<1> QED
  BY <1>2, <1>9 DEF at

(* No well-formed archive is refused while no call fails, into whatever     *)
(* chunks and numbers its index falls, and it gets its size.                *)
THEOREM WellFormedIsAccepted == ArchiveSpec => []WellFormedAccepted
<1>1. ArchiveInv /\ Accepting => WellFormedAccepted
  <2> SUFFICES ASSUME ArchiveInv, Accepting, Parsed, fault = "none", WellFormed(file)
               PROVE  /\ pc = "ok"
                      /\ usize = file.footer.full_blocks * file.footer.block_size
                                   + file.footer.last_block
    BY DEF WellFormedAccepted
  <2>1. PICK at : Sane(file) /\ Located(file, at)
    BY WellFormedIsGood DEF ArchiveInv, IndexInv
  <2>2. Goes(at)
    BY <2>1 DEF Accepting
  <2> QED
    BY <2>2 DEF Goes, Parsed, Whole
<1> QED
  BY <1>1, ArchiveInvariant, AcceptInvariant, PTL

-----------------------------------------------------------------------------
(* The whole way of a file.  Block k of it begins at Begin(k).              *)
Begin(k) == (k - 1) * BlockSize

(* What idx-deflate has stored: block k is the input's part of BlockSize    *)
(* bytes from Begin(k) on, or what is left of it, and is written where the  *)
(* blocks before it end.                                                    *)
LaidAt(k) ==
  /\ blocks[k].from = Begin(k)
  /\ blocks[k].from + blocks[k].n
       = IF k = Len(blocks) THEN source.offset ELSE Begin(k + 1)
  /\ blocks[k].at >= header
  /\ \A j \in 1..(k - 1) : blocks[j].at < blocks[k].at
  /\ k < Len(blocks) => blocks[k + 1].at = blocks[k].at + lens[k]

Stored ==
  LET b == Len(blocks)
  IN  /\ b > 0 => /\ blocks[1].at = header
                  /\ Len(lens) = IF source.offset < input THEN b ELSE b - 1
                  /\ Begin(b) < source.offset
                  /\ source.offset <= Begin(b + 1)
      /\ b = 0 => lens = << >>
      /\ source.offset < input => source.offset = Begin(b + 1)

Laid == (\A k \in 1..Len(blocks) : LaidAt(k)) /\ Stored

(* Where the writing of it ends when all of the buffer is written           *)
Reach == end + toWrite
Ending ==
  LET b == Len(blocks)
  IN  /\ pc = "start" => b = 0 /\ Reach = 0 /\ toWrite = 0
      /\ pc = "blocks" =>
           /\ b = 0 => Reach = header /\ toWrite = 0
           /\ b > 0 => /\ blocks[b].at < Reach
                       /\ source.offset < input => Reach = blocks[b].at + lens[b]
      /\ pc = "index" =>
           /\ source.offset = input /\ index.n \in IndexLens
           /\ index.at + index.n = Reach /\ b > 0 /\ blocks[b].at < index.at

(* The archive that it has written                                          *)
Ready ==
  LET b == Len(blocks)
  IN  /\ b > 0 /\ source.offset = input /\ input > 0
      /\ blocks[b].at < index.at /\ index.n \in IndexLens
      /\ file.size = index.at + index.n + FooterBytes
      /\ file.magic = (header = HeaderBytes) /\ file.intact /\ file.tail = 0
      /\ file.lens = lens /\ file.clen = index.n
      /\ file.footer = [index_size |-> index.n, block_size |-> BlockSize,
                        full_blocks |-> b - 1, last_block |-> blocks[b].n]

(* What idx-inflate has written are the bytes before its reader's offset    *)
Restores ==
  /\ sink.length \in Nat /\ sink.offset + sink.length = input
  /\ Len(output) = sink.offset /\ \A k \in 1..Len(output) : output[k] = k - 1

Undamaged == fault = "none" /\ header = HeaderBytes

RoundInv ==
  /\ Laid
  /\ stage = "deflate" => Ending
  /\ stage \in {"deflate", "opened"} => output = << >>
  /\ stage \in {"opened", "inflate", "restored"} => Ready
  /\ stage \in {"inflate", "restored"} /\ Undamaged => pc = "ok" /\ Restores
  /\ stage = "restored" /\ Undamaged => sink.length = 0

LEMMA Begins ==
  /\ Begin(1) = 0
  /\ \A k \in Nat \ {0} : Begin(k) \in Nat /\ Begin(k + 1) = Begin(k) + BlockSize
BY ArchiveAssumption DEF Begin

LEMMA BlockFields ==
  ASSUME blocks \in Seq([at : Nat, from : Nat, n : Nat])
  PROVE  /\ Len(blocks) \in Nat
         /\ \A k \in 1..Len(blocks) :
              blocks[k].at \in Nat /\ blocks[k].from \in Nat /\ blocks[k].n \in Nat
<1>1. \A k \in 1..Len(blocks) : blocks[k] \in [at : Nat, from : Nat, n : Nat]
  BY ElementOfSeq
<1> QED
  BY <1>1

LEMMA StoreBlockLays ==
  ASSUME ArchiveInv, TypeInv, Laid, Ending, pc = "blocks", toWrite = 0,
         source.offset < input, NEW n, n = Want(source, BlockSize), NEW c \in CompLens,
         source' = Advance(source, n), toWrite' = c, lens' = KeepLength(n, c),
         blocks' = Append(blocks, [at |-> end, from |-> source.offset, n |-> n]),
         UNCHANGED <<parseVars, input, end, header>>
  PROVE  Laid' /\ Ending'
<1> DEFINE b == Len(blocks)
<1>1. /\ b \in Nat /\ BlockSize \in Nat \ {0} /\ c \in Nat \ {0} /\ end \in Nat
      /\ header \in Nat /\ input \in Nat /\ lens \in Seq(Nat)
      /\ source \in [offset : Nat, length : Nat] /\ source.offset \in Nat
      /\ source.offset + source.length = input
  BY ArchiveAssumption DEF ArchiveInv, WriterInv, TypeInv, HeaderBytes
<1>2. /\ n \in Nat \ {0} /\ n <= BlockSize /\ n <= source.length
      /\ n < BlockSize => n = source.length
      /\ source'.offset = source.offset + n
  BY <1>1 DEF Want, Advance
<1>3. \A k \in 1..b : blocks[k].at \in Nat /\ blocks[k].from \in Nat /\ blocks[k].n \in Nat
  BY BlockFields DEF ArchiveInv, WriterInv
<1>20. /\ \A k \in 1..b :
            /\ blocks[k].from = Begin(k)
            /\ blocks[k].from + blocks[k].n = IF k = b THEN source.offset ELSE Begin(k + 1)
            /\ blocks[k].at >= header
            /\ \A j \in 1..(k - 1) : blocks[j].at < blocks[k].at
            /\ k < b => blocks[k + 1].at = blocks[k].at + lens[k]
       /\ b > 0 => blocks[1].at = header
       /\ source.offset = Begin(b + 1)
  BY DEF Laid, LaidAt, Stored
<1>21. /\ Begin(b + 1) \in Nat /\ Begin((b + 1) + 1) = Begin(b + 1) + BlockSize
       /\ b > 0 => Begin(b + 1) = Begin(b) + BlockSize /\ Begin(b) \in Nat
  <2>1. b + 1 \in Nat \ {0} /\ (b > 0 => b \in Nat \ {0})
    BY <1>1
  <2> QED
    BY <2>1, Begins
<1>4. /\ Len(blocks') = b + 1
      /\ blocks'[b + 1].at = end /\ blocks'[b + 1].from = source.offset
      /\ blocks'[b + 1].n = n /\ \A k \in 1..b : blocks'[k] = blocks[k]
  BY <1>1 DEF ArchiveInv, WriterInv
<1>5. Len(lens) = b
  BY <1>1 DEF Laid, Stored
<1>6. /\ \A k \in 1..b : lens'[k] = lens[k]
      /\ source'.offset < input => Len(lens') = b + 1 /\ lens'[b + 1] = c
      /\ ~(source'.offset < input) => Len(lens') = b
  BY <1>1, <1>2, <1>5 DEF KeepLength
<1>7. b > 0 => blocks[b].at < end /\ end = blocks[b].at + lens[b]
  BY <1>1 DEF Ending, Reach
<1>8. b = 0 => end = header
  BY <1>1 DEF Ending, Reach
<1>22. header' = header /\ input' = input /\ end' = end /\ pc' = "blocks"
  BY DEF parseVars
<1>23. b \in Nat /\ end \in Nat
  BY <1>1
<1> HIDE DEF b
<1>9. \A k \in 1..b : blocks[k].at < end
  <2> SUFFICES ASSUME NEW k \in 1..b  PROVE blocks[k].at < end
    OBVIOUS
  <2>1. CASE k = b
    BY <1>7, <2>1
  <2>2. CASE k < b
    <3>1. b \in 1..b /\ k \in 1..(b - 1)
      BY <1>1, <2>2
    <3>2. blocks[k].at < blocks[b].at
      BY <1>20, <3>1
    <3>3. blocks[k].at \in Nat /\ blocks[b].at \in Nat /\ blocks[b].at < end
      BY <1>3, <1>7, <1>23, <3>1
    <3> QED
      BY <1>23, <3>2, <3>3
  <2> QED
    BY <1>1, <2>1, <2>2
<1>10. end >= header
  <2>1. CASE b > 0
    <3>1. b \in 1..b
      BY <1>1, <2>1
    <3>2. blocks[b].at >= header
      BY <1>20, <3>1
    <3> QED
      BY <1>1, <1>3, <1>9, <3>1, <3>2
  <2> QED
    BY <1>1, <1>8, <2>1
<1>16. \A k : Begin(k)' = Begin(k)
  BY DEF Begin
<1>11. ASSUME NEW k, k = b + 1  PROVE LaidAt(k)'
  <2>1. \A j \in 1..((b + 1) - 1) : blocks'[j].at < blocks'[b + 1].at
    <3>1. (b + 1) - 1 = b
      BY <1>23
    <3> QED
      BY <1>4, <1>9, <3>1
  <2>2. blocks'[b + 1].from = Begin(b + 1)
    BY <1>4, <1>20
  <2>3. blocks'[b + 1].from + blocks'[b + 1].n = source'.offset
    BY <1>2, <1>4
  <2>4. blocks'[b + 1].at >= header'
    BY <1>4, <1>10, <1>22
  <2>5. ~(b + 1 < Len(blocks'))
    BY <1>4, <1>23
  <2> QED
    BY <1>11, <1>4, <1>16, <2>1, <2>2, <2>3, <2>4, <2>5 DEF LaidAt
<1>12. ASSUME NEW k \in 1..b  PROVE LaidAt(k)'
  <2>1. /\ blocks[k].from = Begin(k)
        /\ blocks[k].from + blocks[k].n = IF k = b THEN source.offset ELSE Begin(k + 1)
        /\ blocks[k].at >= header
        /\ \A j \in 1..(k - 1) : blocks[j].at < blocks[k].at
    BY <1>20
  <2>2. blocks'[k] = blocks[k] /\ k # b + 1 /\ \A j \in 1..(k - 1) : blocks'[j] = blocks[j]
    BY <1>1, <1>4
  <2>3. blocks[k].from + blocks[k].n = Begin(k + 1)
    BY <1>20, <2>1
  <2>4. blocks'[k + 1].at = blocks'[k].at + lens'[k]
    <3>1. CASE k = b
      <4>1. blocks'[b + 1].at = end /\ end = blocks[b].at + lens[b] /\ lens'[b] = lens[b]
        <5>1. b > 0 /\ b \in 1..b
          BY <1>23, <3>1
        <5> QED
          BY <1>4, <1>6, <1>7, <5>1
      <4> QED
        BY <2>2, <3>1, <4>1
    <3>2. CASE k < b
      <4>1. k + 1 \in 1..b /\ blocks'[k + 1] = blocks[k + 1] /\ lens'[k] = lens[k]
        <5>1. k \in 1..b /\ k + 1 \in 1..b
          BY <1>23, <3>2
        <5> QED
          BY <1>4, <1>6, <5>1
      <4>2. blocks[k + 1].at = blocks[k].at + lens[k]
        BY <1>20, <3>2
      <4> QED
        BY <2>2, <4>1, <4>2
    <3> QED
      <4>1. k = b \/ k < b
        BY <1>23
      <4> QED
        BY <3>1, <3>2, <4>1
  <2> QED
    BY <1>4, <1>16, <1>22, <2>1, <2>2, <2>3, <2>4 DEF LaidAt
<1>13. \A k \in 1..(b + 1) : LaidAt(k)'
  <2> SUFFICES ASSUME NEW k \in 1..(b + 1)  PROVE LaidAt(k)'
    OBVIOUS
  <2>1. k = b + 1 \/ k \in 1..b
    BY <1>23
  <2> QED
    BY <1>11, <1>12, <2>1
<1>14. /\ Begin(b + 1) < source'.offset /\ source'.offset <= Begin((b + 1) + 1)
       /\ source'.offset < input => source'.offset = Begin((b + 1) + 1)
  BY <1>1, <1>2, <1>20, <1>21
<1>15. blocks'[1].at = header
  <2>1. CASE b = 0
    BY <1>4, <1>8, <2>1
  <2>2. CASE b > 0
    <3>1. 1 \in 1..b
      BY <1>1, <2>2
    <3> QED
      BY <1>4, <1>20, <2>2, <3>1
  <2> QED
    BY <1>1, <2>1, <2>2
<1>17. (b + 1) - 1 = b /\ b + 1 > 0 /\ b + 1 # 0
  BY <1>1
<1>18. Stored'
  <2>1. Len(lens') = IF source'.offset < input THEN b + 1 ELSE (b + 1) - 1
    BY <1>6, <1>17
  <2> QED
    BY <1>4, <1>14, <1>15, <1>16, <1>17, <1>22, <2>1 DEF Stored
<1>19. Ending'
  <2>1. Reach' = end + c
    BY <1>22 DEF Reach
  <2>2. blocks'[b + 1].at < end + c
    BY <1>1, <1>4
  <2>3. source'.offset < input => end + c = blocks'[b + 1].at + lens'[b + 1]
    BY <1>4, <1>6
  <2> QED
    BY <1>4, <1>17, <1>22, <2>1, <2>2, <2>3 DEF Ending
<1> QED
  BY <1>4, <1>13, <1>18, <1>19 DEF Laid

(* A part of the state that a step leaves alone *)
LEMMA SameLaid ==
  ASSUME Laid, UNCHANGED <<blocks, source, header, lens, input>>
  PROVE  Laid'
BY DEF Laid, LaidAt, Stored, Begin

LEMMA SameReady ==
  ASSUME Ready, UNCHANGED <<blocks, source, header, lens, input, index, file>>
  PROVE  Ready'
BY DEF Ready

LEMMA SameRound ==
  ASSUME RoundInv, UNCHANGED vars
  PROVE  RoundInv'
<1>1. UNCHANGED <<blocks, source, header, lens, input, index, file, stage, output, sink,
                  pc, fault, end, toWrite>>
  BY DEF vars, writeVars, readVars, parseVars
<1>2. Laid'
  BY <1>1, SameLaid DEF RoundInv
<1>3. stage = "deflate" => Ending'
  BY <1>1 DEF RoundInv, Ending, Reach
<1>4. stage \in {"opened", "inflate", "restored"} => Ready'
  BY <1>1, SameReady DEF RoundInv
<1>5. Restores => Restores'
  BY <1>1 DEF Restores
<1> QED
  BY <1>1, <1>2, <1>3, <1>4, <1>5 DEF RoundInv, Undamaged

LEMMA GiveUpRound ==
  ASSUME RoundInv, NEW kind, GiveUp(kind)
  PROVE  RoundInv'
<1>1. Laid' /\ stage' = "gave up"
  BY SameLaid DEF RoundInv, GiveUp, writeVars
<1> QED
  BY <1>1 DEF RoundInv

LEMMA WriteHeaderRound ==
  ASSUME ArchiveInv, TypeInv, RoundInv, WriteHeader
  PROVE  RoundInv'
<1>1. /\ stage = "deflate" /\ pc = "start" /\ Len(blocks) = 0 /\ Laid /\ Ending
      /\ end \in Nat /\ toWrite \in Nat
  BY DEF WriteHeader, Writing, RoundInv, Ending, ArchiveInv, WriterInv
<1>2. /\ UNCHANGED <<input, source, toWrite, blocks, lens, index, output>>
      /\ end' = header' /\ pc' = "blocks" /\ stage' \in {"deflate", "aborted"}
      /\ header' \in Nat
  BY <1>1 DEF WriteHeader, Writing, KeepsParse, readVars, HeaderBytes
<1>3. Laid'
  BY <1>1, <1>2 DEF Laid, Stored, Begin
<1>4. Ending'
  <2>1. toWrite = 0
    BY <1>1 DEF Ending
  <2>2. Reach' = header' /\ toWrite' = 0
    <3>1. toWrite' = 0 /\ end' = header' /\ header' \in Nat
      BY <1>2, <2>1
    <3>2. Reach' = end' + toWrite'
      BY DEF Reach
    <3>3. \A x \in Nat : x + 0 = x
      OBVIOUS
    <3> QED
      BY <3>1, <3>2, <3>3, Zenon
  <2> QED
    BY <1>1, <1>2, <2>2 DEF Ending
<1> QED
  BY <1>1, <1>2, <1>3, <1>4 DEF RoundInv

LEMMA StoreBlockRound ==
  ASSUME ArchiveInv, TypeInv, RoundInv, StoreBlock
  PROVE  RoundInv'
<1>1. CASE GiveUp("read")
  BY <1>1, GiveUpRound
<1>2. ASSUME NEW n, n = Want(source, BlockSize), NEW c \in CompLens,
             source' = Advance(source, n), toWrite' = c, lens' = KeepLength(n, c),
             blocks' = Append(blocks, [at |-> end, from |-> source.offset, n |-> n]),
             UNCHANGED <<parseVars, readVars, stage, input, end, index, header>>
      PROVE  RoundInv'
  <2>1. /\ stage = "deflate" /\ pc = "blocks" /\ toWrite = 0 /\ source.offset < input
        /\ Laid /\ Ending /\ output' = << >> /\ stage' = "deflate"
    BY <1>2 DEF StoreBlock, Writing, RoundInv, readVars
  <2>2. Laid' /\ Ending'
    BY <1>2, <2>1, StoreBlockLays
  <2> QED
    BY <2>1, <2>2 DEF RoundInv
<1> QED
  BY <1>1, <1>2 DEF StoreBlock

LEMMA StoreIndexRound ==
  ASSUME ArchiveInv, TypeInv, RoundInv, StoreIndex
  PROVE  RoundInv'
<1>1. /\ stage = "deflate" /\ pc = "blocks" /\ toWrite = 0 /\ source.offset = input
      /\ Laid /\ Ending /\ end \in Nat /\ input > 0 /\ input \in Nat /\ output = << >>
  BY DEF StoreIndex, Writing, RoundInv, ArchiveInv, WriterInv
<1>2. PICK c \in IndexLens : toWrite' = c /\ index' = [at |-> end, n |-> c]
  BY DEF StoreIndex
<1>3. /\ pc' = "index" /\ stage' = "deflate" /\ output' = << >>
      /\ UNCHANGED <<input, source, end, blocks, lens, header>>
  BY <1>1 DEF StoreIndex, KeepsParse, readVars
<1>4. Len(blocks) > 0 /\ blocks[Len(blocks)].at < end
  <2>1. Len(blocks) > 0
    BY <1>1 DEF ArchiveInv, WriterInv
  <2> QED
    BY <1>1, <2>1 DEF Ending, Reach
<1>5. Laid'
  BY <1>1, <1>3, SameLaid
<1>6. Ending'
  BY <1>1, <1>2, <1>3, <1>4 DEF Ending, Reach
<1> QED
  BY <1>3, <1>5, <1>6 DEF RoundInv

LEMMA DoWriteRound ==
  ASSUME ArchiveInv, TypeInv, RoundInv, DoWrite
  PROVE  RoundInv'
<1>1. CASE GiveUp("write")
  BY <1>1, GiveUpRound
<1>2. ASSUME NEW r \in 1..toWrite, end' = end + r, toWrite' = toWrite - r,
             UNCHANGED <<parseVars, readVars, stage, input, source, blocks, lens,
                         index, header>>
      PROVE  RoundInv'
  <2>1. /\ stage = "deflate" /\ toWrite > 0 /\ toWrite \in Nat /\ end \in Nat
        /\ Laid /\ Ending /\ output' = << >> /\ stage' = "deflate" /\ pc' = pc
        /\ pc \in {"start", "blocks", "index"}
    BY <1>2 DEF DoWrite, RoundInv, ArchiveInv, WriterInv, readVars, parseVars
  <2>2. Laid'
    BY <1>2, <2>1, SameLaid
  <2>3. Reach' = Reach /\ toWrite # 0
    BY <1>2, <2>1 DEF Reach
  <2>4. Ending'
    BY <1>2, <2>1, <2>3 DEF Ending
  <2> QED
    BY <2>1, <2>2, <2>4 DEF RoundInv
<1> QED
  BY <1>1, <1>2 DEF DoWrite

(* The number of blocks is what idx-deflate computes beforehand *)
LEMMA CeilOf ==
  ASSUME NEW b \in Nat \ {0}, NEW s \in Nat \ {0}, NEW i \in Nat,
         (b - 1) * s < i, i <= (b - 1) * s + s
  PROVE  (i + s - 1) \div s = b
<1> DEFINE o == i + s - 1  q == o \div s
<1>1. o \in Nat /\ b - 1 \in Nat
  OBVIOUS
<1>2. q \in Nat /\ q * s <= o /\ o < q * s + s
  BY <1>1, Blockwise!Division
<1> HIDE DEF q
<1>3. (b - 1) * s + s = b * s /\ b * s \in Nat /\ (b - 1) * s \in Nat
  OBVIOUS
<1>4. ASSUME q >= b + 1  PROVE FALSE
  <2>1. (b + 1) * s <= q * s
    BY <1>2, <1>4, Blockwise!Monotone
  <2>2. (b + 1) * s = b * s + s /\ q * s \in Nat
    BY <1>2
  <2> QED
    BY <1>2, <1>3, <2>1, <2>2
<1>5. ASSUME q <= b - 1  PROVE FALSE
  <2>1. q * s <= (b - 1) * s
    BY <1>1, <1>2, <1>5, Blockwise!Monotone
  <2>2. q * s \in Nat
    BY <1>2
  <2> QED
    BY <1>2, <1>3, <2>1, <2>2
<1>6. q = b
  BY <1>2, <1>4, <1>5
<1> QED
  BY <1>6 DEF q

LEMMA WriteFooterRound ==
  ASSUME ArchiveInv, TypeInv, RoundInv, WriteFooter
  PROVE  RoundInv'
<1>1. CASE GiveUp("write")
  BY <1>1, GiveUpRound
<1>2. CASE /\ stage = "deflate" /\ pc = "index" /\ toWrite = 0
           /\ file' = Written /\ stage' = "opened" /\ pc' = "header"
           /\ UNCHANGED <<readVars, input, source, blocks, lens, index, header>>
  <2> DEFINE b == Len(blocks)
  <2>1. /\ Laid /\ Ending /\ output' = << >>
        /\ end \in Nat /\ input \in Nat /\ input > 0 /\ b \in Nat \ {0}
        /\ BlockSize \in Nat \ {0}
    BY <1>2, ArchiveAssumption, BlockFields
       DEF RoundInv, ArchiveInv, WriterInv, readVars
  <2>2. /\ source.offset = input /\ index.n \in IndexLens /\ index.at + index.n = end
        /\ blocks[b].at < index.at
    BY <1>2, <2>1 DEF Ending, Reach
  <2>3. Blocks = b
    <3>1. (b - 1) * BlockSize < input /\ input <= (b - 1) * BlockSize + BlockSize
      <4>1. Begin(b) < input /\ input <= Begin(b + 1)
        BY <2>1, <2>2 DEF Laid, Stored
      <4>2. Begin(b + 1) = Begin(b) + BlockSize
        BY <2>1, Begins
      <4> QED
        BY <4>1, <4>2 DEF Begin
    <3> HIDE DEF b
    <3> QED
      BY <2>1, <3>1, CeilOf DEF Blocks
  <2>4. Laid'
    BY <1>2, <2>1, SameLaid
  <2>5. Ready'
    <3>1. /\ file'.size = index.at + index.n + FooterBytes
          /\ file'.magic = (header = HeaderBytes) /\ file'.intact /\ file'.tail = 0
          /\ file'.lens = lens /\ file'.clen = index.n
          /\ file'.footer = [index_size |-> index.n, block_size |-> BlockSize,
                            full_blocks |-> b - 1, last_block |-> blocks[b].n]
      <4> HIDE DEF b
      <4> QED
        BY <1>2, <2>2, <2>3 DEF Written, b
    <3>2. UNCHANGED <<input, source, blocks, lens, index, header>>
      BY <1>2
    <3> QED
      BY <2>1, <2>2, <3>1, <3>2 DEF Ready
  <2> QED
    BY <1>2, <2>1, <2>4, <2>5 DEF RoundInv
<1> QED
  BY <1>1, <1>2 DEF WriteFooter, Writing

LEMMA ReadIndexRound ==
  ASSUME RoundInv, ReadIndex
  PROVE  RoundInv'
<1>1. /\ file' = file /\ stage \in {"opened", "elsewhere"} /\ stage' = stage
      /\ UNCHANGED <<blocks, source, header, lens, input, index, output>>
  BY DEF ReadIndex, writeVars, readVars, ParseNext, CheckHeader, CheckFooter, Inflate,
         CheckWhole, TakeEntry, EndTurn, Reject, ReadFails, StartIndex, NoTable, Store, Complete, Fail
<1>2. Laid' /\ (stage = "opened" => Ready')
  BY <1>1, SameLaid, SameReady DEF RoundInv
<1> QED
  BY <1>1, <1>2 DEF RoundInv

LEMMA EndRound ==
  ASSUME RoundInv, End
  PROVE  RoundInv'
<1>1. /\ stage = "inflate" /\ stage' = "restored" /\ sink.length <= 0
      /\ UNCHANGED <<blocks, source, header, lens, input, index, output, sink, pc, fault, file>>
  BY DEF End, writeVars, readVars, parseVars
<1>2. Laid' /\ Ready'
  BY <1>1, SameLaid, SameReady DEF RoundInv
<1>3. Undamaged' => pc' = "ok" /\ Restores' /\ sink'.length = 0
  BY <1>1 DEF RoundInv, Undamaged, Restores
<1> QED
  BY <1>1, <1>2, <1>3 DEF RoundInv

-----------------------------------------------------------------------------
(* idx-inflate finds the archive as it was written *)
Places == [k \in 1..Len(blocks) |-> blocks[k].at]

LEMMA WrittenIsGood ==
  ASSUME InputsFit, ArchiveInv, TypeInv, Laid, Ready, header = HeaderBytes
  PROVE  /\ Sane(file) /\ Located(file, Places) /\ Whole = input
         /\ file.footer.block_size = BlockSize
         /\ file.footer.full_blocks = Len(blocks) - 1
<1> DEFINE b == Len(blocks)
<1>1. /\ BlockSize \in Nat \ {0} /\ b \in Nat \ {0} /\ input \in Nat /\ lens \in Seq(Nat)
      /\ input \in Inputs /\ MaxInt \in Nat /\ header \in Nat /\ index.at \in Nat
      /\ index.n \in Nat
  <2>1. input \in Inputs \cup {0} /\ input > 0
    BY DEF TypeInv, Ready
  <2>2. input # 0
    BY <2>1 DEF ArchiveInv, WriterInv
  <2> QED
    BY <2>1, <2>2, ArchiveAssumption, IdxParseAssumption, BlockFields
       DEF ArchiveInv, WriterInv, TypeInv, Ready, HeaderBytes
<1>2. \A k \in 1..b : blocks[k].at \in Nat /\ blocks[k].from \in Nat /\ blocks[k].n \in Nat
  BY BlockFields DEF ArchiveInv, WriterInv
<1>3. /\ source.offset = input /\ blocks[b].at < index.at /\ index.n \in IndexLens
      /\ file.size = index.at + index.n + FooterBytes
      /\ file.magic /\ file.intact /\ file.tail = 0
      /\ file.lens = lens /\ file.clen = index.n
      /\ file.footer = [index_size |-> index.n, block_size |-> BlockSize,
                        full_blocks |-> b - 1, last_block |-> blocks[b].n]
  BY DEF Ready
<1>4. /\ Begin(b) < input /\ input <= Begin(b + 1) /\ Len(lens) = b - 1
      /\ blocks[1].at = HeaderBytes
  BY <1>1, <1>3 DEF Laid, Stored
<1>5. /\ \A k \in 1..b : blocks[k].from = Begin(k) /\ blocks[k].at >= HeaderBytes
      /\ blocks[b].from + blocks[b].n = input
      /\ \A k \in 1..b : k < b => blocks[k + 1].at = blocks[k].at + lens[k]
  <2>1. b \in 1..b
    BY <1>1
  <2> QED
    BY <1>3, <2>1 DEF Laid, LaidAt
<1>6. Begin(b + 1) = Begin(b) + BlockSize /\ Begin(b) \in Nat /\ Begin(b) = (b - 1) * BlockSize
  BY <1>1, Begins DEF Begin
<1> HIDE DEF b
<1>7. b \in 1..b /\ 1 \in 1..b /\ b - 1 \in Nat
  BY <1>1
<1>8. blocks[b].from = Begin(b) /\ blocks[b].n \in Nat /\ Begin(b) + blocks[b].n = input
      /\ blocks[b].at \in Nat /\ blocks[b].at >= HeaderBytes
  BY <1>2, <1>5, <1>7
<1>9. blocks[b].n <= BlockSize
  BY <1>1, <1>4, <1>6, <1>8
<1>10. /\ b - 1 <= MaxBlocks /\ b - 1 <= MaxInt - 16 /\ (b - 1) * BlockSize <= MaxInt
       /\ BlockSize <= MaxInt - 16 /\ index.n <= MaxInt - 16
  <2>1. b - 1 <= input
    <3>1. (b - 1) * 1 <= (b - 1) * BlockSize
      BY <1>1, <1>7
    <3> QED
      BY <1>1, <1>4, <1>6, <1>7, <3>1
  <2>2. b - 1 \in 0..input
    BY <1>1, <1>7, <2>1
  <2> QED
    BY <1>1, <1>3, <1>4, <1>6, <2>2 DEF InputsFit
<1>11. /\ file.footer.index_size = index.n /\ file.footer.block_size = BlockSize
       /\ file.footer.full_blocks = b - 1 /\ file.footer.last_block = blocks[b].n
  BY <1>3
<1>12. Whole = input
  BY <1>6, <1>8, <1>11 DEF Whole
<1>13. Sane(file)
  <2>1. \A n \in Numbers : file.footer[n] <= MaxInt - 16
    <3>1. blocks[b].n <= MaxInt - 16
      BY <1>1, <1>8, <1>9, <1>10
    <3> QED
      BY <1>10, <1>11, <3>1 DEF Numbers
  <2> QED
    BY <1>1, <1>3, <1>4, <1>10, <1>11, <2>1 DEF Sane
<1>14. Located(file, Places)
  <2>1. Len(file.lens) = b - 1 /\ Len(file.lens) + 1 = b
    BY <1>3, <1>4, <1>1
  <2>2. \A k \in 1..b : Places[k] = blocks[k].at
    BY DEF Places, b
  <2>3. Places[1] = HeaderBytes /\ Places[b] = blocks[b].at
    BY <1>4, <1>7, <2>2
  <2>4. ASSUME NEW k \in 1..(b - 1)  PROVE Places[k + 1] = Places[k] + file.lens[k]
    <3>1. k \in 1..b /\ k + 1 \in 1..b /\ k < b
      BY <1>1
    <3>2. blocks[k + 1].at = blocks[k].at + lens[k]
      BY <1>5, <3>1
    <3> QED
      BY <1>3, <2>2, <3>1, <3>2
  <2>5. blocks[b].at + file.clen + FooterBytes <= file.size
    BY <1>1, <1>3, <1>8 DEF FooterBytes
  <2> QED
    BY <1>8, <2>1, <2>3, <2>4, <2>5 DEF Located
<1> QED
  BY <1>11, <1>12, <1>13, <1>14 DEF b

LEMMA OpensIt ==
  ASSUME InputsFit, ArchiveInv, TypeInv, Accepting, Laid, Ready, Undamaged
  PROVE  /\ pc \notin {"failed", "crashed"}
         /\ pc = "ok" => usize = input
  <1>1. Sane(file) /\ Located(file, Places) /\ Whole = input
    BY WrittenIsGood DEF Undamaged
  <1>2. Goes(Places)
    BY <1>1 DEF Accepting, Undamaged
  <1> QED
    BY <1>1, <1>2 DEF Goes

LEMMA StartRound ==
  ASSUME InputsFit, ArchiveInv, TypeInv, Accepting, RoundInv, Start
  PROVE  RoundInv'
<1>1. /\ stage = "opened" /\ pc = "ok" /\ pc' = "ok" /\ stage' = "inflate"
      /\ sink' = FixLength(usize, 0, ToEnd) /\ output = << >> /\ Laid /\ Ready
      /\ UNCHANGED <<blocks, source, header, lens, input, index, output, fault, file>>
  BY DEF Start, writeVars, parseVars, RoundInv
<1>2. Laid' /\ Ready'
  BY <1>1, SameLaid, SameReady
<1>3. ASSUME Undamaged  PROVE Restores'
  <2>1. usize = input /\ input \in Nat
    BY <1>1, <1>3, OpensIt DEF ArchiveInv, WriterInv
  <2>2. sink' = [offset |-> 0, length |-> input]
    BY <1>1, <2>1, SourceStarts
  <2> QED
    BY <1>1, <2>1, <2>2 DEF Restores
<1> QED
  BY <1>1, <1>2, <1>3 DEF RoundInv, Undamaged

(* The entry that an offset is found in *)
LEMMA SeekEntry ==
  ASSUME file \in ArchiveSet, file.footer.block_size # 0, NEW o \in Nat,
         NEW e, e = Index!IdxSeek(o), e # 0
  PROVE  /\ e \in 1..(file.footer.full_blocks + 1)
         /\ Index!IdxStart[e] = (e - 1) * file.footer.block_size
<1> DEFINE q == o \div file.footer.block_size
<1>1. file.footer.block_size \in Nat \ {0} /\ file.footer.full_blocks \in Nat
  BY ArchiveNumbers DEF Numbers
<1>2. q \in Nat
  BY <1>1, Blockwise!Division
<1>3. e = q + 1 /\ q < file.footer.full_blocks + 1
  BY <1>1, <1>2 DEF Index!IdxSeek, Index!IdxEntries
<1> HIDE DEF q
<1>4. e \in 1..(file.footer.full_blocks + 1)
  BY <1>1, <1>2, <1>3
<1> QED
  BY <1>4 DEF Index!IdxStart, Index!IdxEntries

(* Blocks do not lie in the same place *)
LEMMA PlacesDiffer ==
  ASSUME Laid, ArchiveInv, NEW j \in 1..Len(blocks), NEW k \in 1..Len(blocks),
         blocks[j].at = blocks[k].at
  PROVE  j = k
<1>1. Len(blocks) \in Nat /\ blocks[j].at \in Nat /\ blocks[k].at \in Nat
  BY BlockFields DEF ArchiveInv, WriterInv
<1>2. ASSUME j < k  PROVE FALSE
  <2>1. j \in 1..(k - 1)
    BY <1>1, <1>2
  <2>2. blocks[j].at < blocks[k].at
    BY <2>1 DEF Laid, LaidAt
  <2> QED
    BY <1>1, <2>2
<1>3. ASSUME k < j  PROVE FALSE
  <2>1. k \in 1..(j - 1)
    BY <1>1, <1>3
  <2>2. blocks[k].at < blocks[j].at
    BY <2>1 DEF Laid, LaidAt
  <2> QED
    BY <1>1, <2>2
<1> QED
  BY <1>1, <1>2, <1>3

(* What the archive's IFile answers from an offset on is the input's bytes  *)
LEMMA FromIsInput ==
  ASSUME InputsFit, ArchiveInv, TypeInv, Accepting, Laid, Ready, Undamaged, pc = "ok",
         NEW o \in Nat, NEW n \in Nat, NEW bytes \in From(o, n)
  PROVE  bytes = [k \in 1..n |-> o + k - 1]
<1> DEFINE e == Index!IdxSeek(o)  skip == o - Index!IdxStart[e]  b == Len(blocks)
<1>1. e # 0
  BY DEF From
<1>2. PICK h \in 1..b : /\ bytes = [k \in 1..n |-> blocks[h].from + skip + k - 1]
                        /\ blocks[h].at = offsets[e]
  BY <1>1 DEF From
<1>3. /\ Sane(file) /\ Located(file, Places)
      /\ file.footer.block_size = BlockSize /\ file.footer.full_blocks = b - 1
      /\ b \in Nat /\ BlockSize \in Nat \ {0}
  BY WrittenIsGood, ArchiveAssumption, BlockFields DEF Undamaged, ArchiveInv, WriterInv
<1>4. file \in ArchiveSet /\ file.footer.block_size # 0 /\ Len(offsets) - 1 = b
  BY <1>3 DEF ArchiveInv, IndexInv, Working, OffsetsTile
<1>5. e \in 1..b /\ Index!IdxStart[e] = (e - 1) * BlockSize
  <2>1. e \in 1..(file.footer.full_blocks + 1)
        /\ Index!IdxStart[e] = (e - 1) * file.footer.block_size
    BY <1>1, <1>4, SeekEntry
  <2> HIDE DEF e, b
  <2> QED
    BY <1>3, <2>1
<1>6. offsets[e] = blocks[e].at
  <2>1. Goes(Places)
    BY <1>3 DEF Accepting, Undamaged
  <2>2. \A k \in 1..b : offsets[k] = Places[k]
    BY <1>4, <2>1 DEF Goes
  <2> QED
    BY <1>5, <2>2 DEF Places
<1> HIDE DEF e
<1>7. h = e
  BY <1>2, <1>5, <1>6, PlacesDiffer
<1>8. blocks[h].from = (e - 1) * BlockSize
  BY <1>5, <1>7 DEF Laid, LaidAt, Begin
<1>9. ASSUME NEW k \in 1..n  PROVE blocks[h].from + skip + k - 1 = o + k - 1
  <2>1. (e - 1) * BlockSize \in Int
    BY <1>3, <1>5
  <2> QED
    BY <1>5, <1>8, <2>1
<1> QED
  BY <1>2, <1>9

LEMMA InflateTurnRound ==
  ASSUME InputsFit, ArchiveInv, TypeInv, Accepting, RoundInv, InflateTurn
  PROVE  RoundInv'
<1>1. ASSUME NEW m \in 1..(Want(sink, OutBytes) + 1), NEW n, n = Clamp(sink, OutBytes, m),
             NEW bytes \in From(sink.offset, n), output' = output \o bytes,
             sink' = Advance(sink, n), UNCHANGED <<parseVars, writeVars, stage>>
      PROVE  RoundInv'
  <2>1. /\ stage = "inflate" /\ stage' = "inflate" /\ sink.length > 0 /\ Laid /\ Ready
        /\ UNCHANGED <<blocks, source, header, lens, input, index, fault, file, pc>>
    BY <1>1 DEF InflateTurn, RoundInv, writeVars, parseVars
  <2>2. Laid' /\ Ready'
    BY <2>1, SameLaid, SameReady
  <2>3. ASSUME Undamaged  PROVE Restores' /\ pc' = "ok"
    <3>1. /\ pc = "ok" /\ Restores /\ sink.offset \in Nat /\ sink.length \in Nat
          /\ OutBytes \in Nat \ {0} /\ input \in Nat /\ output \in Seq(Nat)
      BY <2>1, <2>3, ArchiveAssumption DEF RoundInv, Restores, TypeInv, ArchiveInv, WriterInv
    <3>2. n \in Nat /\ n <= sink.length
      BY <1>1, <2>1, <3>1 DEF Clamp, Want
    <3>3. bytes = [k \in 1..n |-> sink.offset + k - 1]
      BY <1>1, <2>1, <2>3, <3>1, <3>2, FromIsInput
    <3>4. bytes \in Seq(Nat) /\ Len(bytes) = n
      BY <3>1, <3>2, <3>3
    <3>5. Len(output) = sink.offset /\ \A k \in 1..Len(output) : output[k] = k - 1
      BY <3>1 DEF Restores
    <3>6. /\ Len(output') = sink.offset + n
          /\ \A k \in 1..(sink.offset + n) :
               output'[k] = IF k <= sink.offset THEN output[k] ELSE bytes[k - sink.offset]
      <4>1. /\ Len(output \o bytes) = Len(output) + Len(bytes)
            /\ \A k \in 1..(Len(output) + Len(bytes)) : (output \o bytes)[k] =
                  IF k <= Len(output) THEN output[k] ELSE bytes[k - Len(output)]
        BY <3>1, <3>4, ConcatProperties
      <4> QED
        BY <1>1, <3>4, <3>5, <4>1
    <3>7. ASSUME NEW k \in 1..(sink.offset + n)  PROVE output'[k] = k - 1
      <4>1. CASE k <= sink.offset
        BY <3>1, <3>2, <3>5, <3>6, <4>1
      <4>2. CASE k > sink.offset
        <5>1. k - sink.offset \in 1..n /\ ~(k <= sink.offset)
          BY <3>1, <3>2, <4>2
        <5>2. output'[k] = bytes[k - sink.offset]
          BY <3>6, <5>1
        <5>3. bytes[k - sink.offset] = sink.offset + (k - sink.offset) - 1
          BY <3>3, <5>1
        <5> QED
          BY <3>1, <3>2, <5>2, <5>3
      <4> QED
        BY <3>1, <3>2, <4>1, <4>2
    <3>8. sink'.offset = sink.offset + n /\ sink'.length = sink.length - n
      BY <1>1 DEF Advance
    <3>9. sink'.length \in Nat /\ sink'.offset + sink'.length = input'
      BY <2>1, <3>1, <3>2, <3>8 DEF Restores
    <3> QED
      BY <2>1, <3>1, <3>6, <3>7, <3>8, <3>9 DEF Restores
  <2> QED
    BY <2>1, <2>2, <2>3 DEF RoundInv, Undamaged
<1> QED
  BY <1>1, GiveUpRound DEF InflateTurn

LEMMA RoundInitHolds == ArchiveInit => RoundInv
<1> SUFFICES ASSUME ArchiveInit  PROVE RoundInv
  OBVIOUS
<1>1. /\ end = 0 /\ toWrite = 0 /\ blocks = << >> /\ lens = << >> /\ output = << >>
      /\ stage \in {"deflate", "elsewhere"} /\ (stage = "deflate" => pc = "start")
      /\ input \in Nat /\ source.offset = 0
  BY ArchiveInitHolds DEF ArchiveInit, ParseInit, ArchiveInv, WriterInv, FixLength, ToEnd
<1>2. Laid
  <2>1. Len(blocks) = 0 /\ Begin(0 + 1) = 0
    BY <1>1, Begins
  <2> QED
    BY <1>1, <2>1 DEF Laid, Stored
<1>3. stage = "deflate" => Ending
  BY <1>1 DEF Ending, Reach
<1> QED
  BY <1>1, <1>2, <1>3 DEF RoundInv

(* What idx-deflate, read_index and idx-inflate know of each other's work,  *)
(* from the first block that is written to the last byte that is restored.  *)
THEOREM RoundInvariant ==
  ASSUME InputsFit  PROVE ArchiveSpec => []RoundInv
<1>1. ArchiveInv /\ TypeInv /\ Accepting /\ RoundInv /\ [Next]_vars => RoundInv'
  BY WriteHeaderRound, StoreBlockRound, StoreIndexRound, DoWriteRound, WriteFooterRound,
     ReadIndexRound, StartRound, InflateTurnRound, EndRound, SameRound DEF Next
<1> QED
  BY <1>1, RoundInitHolds, ArchiveInvariant, TypeInvariant, AcceptInvariant, PTL
     DEF ArchiveSpec

(* What idx-deflate wrote of an input that fits can be opened, and          *)
(* idx-inflate gives the input back, of whatever size, however write splits *)
(* the archive and deflate compresses its blocks, unless a call failed that *)
(* read_index noticed or the header's write.                                *)
THEOREM WrittenIsRestored ==
  ASSUME InputsFit  PROVE ArchiveSpec => []RoundTrip
<1>1. ArchiveInv /\ TypeInv /\ Accepting /\ RoundInv => RoundTrip
  <2> SUFFICES ASSUME ArchiveInv, TypeInv, Accepting, RoundInv, Undamaged,
                      stage \in {"opened", "inflate", "restored"}
               PROVE  /\ pc \notin {"failed", "crashed"}
                      /\ pc = "ok" => usize = input
                      /\ output = [k \in 1..Len(output) |-> k - 1]
                      /\ stage = "restored" => Len(output) = input
    BY DEF RoundTrip, Undamaged
  <2>1. Laid /\ Ready
    BY DEF RoundInv
  <2>2. pc \notin {"failed", "crashed"} /\ (pc = "ok" => usize = input)
    BY <2>1, OpensIt
  <2>3. output \in Seq(Nat)
    BY DEF TypeInv
  <2>4. \A k \in 1..Len(output) : output[k] = k - 1
    BY DEF RoundInv, Restores
  <2>5. output = [k \in 1..Len(output) |-> k - 1]
    BY <2>3, <2>4
  <2>6. stage = "restored" => Len(output) = input
    BY DEF RoundInv, Restores, TypeInv
  <2> QED
    BY <2>2, <2>5, <2>6
<1> QED
  BY <1>1, RoundInvariant, ArchiveInvariant, TypeInvariant, AcceptInvariant, PTL
=============================================================================
