------------------------- MODULE IndexedDeflateFile -------------------------
(***************************************************************************)
(* IndexedDeflateFile of lib/idx-defl-file.cpp: the second copy of the     *)
(* reader state and of read, readInto and finish, over its own index.  It  *)
(* differs from the copy in lib/xz-file.cpp in four places: the buffer's   *)
(* size is not compared in selectDefaultBuffer, loadBlock decodes no block *)
(* header, the FileReader below is limited to the block's compressed range *)
(* (InLen), and next() is a seek to the end of the block (IdxNextEntry).   *)
(***************************************************************************)
EXTENDS BlockReader, IdxIndex

IdxResetsSize == FALSE   \* selectDefaultBuffer compares the pointer only
IdxHasHeader  == FALSE   \* loadBlock goes straight to inflateInit2

IdxStartRead     == StartRead
IdxDecode        == Decode
IdxStartReadInto == StartReadInto
IdxFillBuffer    == FillBuffer
IdxFinish        == Finish

IdxStep == IdxStartRead \/ IdxDecode \/ IdxStartReadInto \/ IdxFillBuffer

IdxNext == IdxStep \/ IdxFinish \/ \E c \in Calls : Disciplined(c) /\ Invoke(c)
IdxSpec == Init /\ [][IdxNext]_vars /\ WF_vars(IdxStep)

-----------------------------------------------------------------------------
(* The byte a readInto delivers as that of offset o.  seek(filesize) finds  *)
(* the last block, and so does its next(): behind the end of the contents  *)
(* the last block follows, over and over.                                   *)
LastBlockRepeated(o) ==
  IF o < IdxFileSize THEN o
  ELSE IdxStart[IdxEntries] + ((o - IdxFileSize) % IdxUSize[IdxEntries])

(* A readInto over the end either fails or fills the whole of the caller's  *)
(* storage, with the contents and then the last block over and over, never  *)
(* with bytes of another place or shifted against that (Iter::next, and     *)
(* decodeFillBuffer, which cannot tell the end).                            *)
OverEndRepeats ==
  reply.status = "ok" /\ call.op = "readInto" /\ ~Contract!InFile(call) =>
    reply.data = [i \in 1..call.length |-> LastBlockRepeated(call.offset + i - 1)]

(* What the second copy replies: no error without a cause, whatever failed   *)
(* before and although its FileReader ends with the block (seekBlockFor,    *)
(* loadBlock, decodeFillBuffer), and no other bytes over the end.           *)
IdxRepliesRight == ErrorsHaveCauses /\ OverEndRepeats
=============================================================================
