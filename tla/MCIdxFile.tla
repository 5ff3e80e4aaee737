----------------------------- MODULE MCIdxFile -----------------------------
(* BlockReader on small indexed-deflate files: buffers of 2 bytes, input in *)
(* chunks of 2 units, blocks of 2 units and nothing behind them in range.   *)
EXTENDS IndexedDeflateFile, BlockReaderInv

MCCSize     == [e \in 1..IdxEntries |-> 2]
MCInLen     == [e \in 1..IdxEntries |-> IF e \in Damaged THEN 1 ELSE 2]
MCOffsets   == -1..(IdxFileSize + 1)
MCCalls     == [op : {"read", "readInto"}, offset : MCOffsets, length : 1..IdxFileSize]
MCOverEnd   == { [op |-> "readInto", offset |-> IdxFileSize - 1, length |-> 2] }

(* next() of this format always continues the contents. *)
ASSUME IdxContinues == NextContinues
=============================================================================
