------------------------------ MODULE MCXzFile ------------------------------
(* BlockReader on small .xz files: buffers of 2 bytes, input in chunks of 2 *)
(* units, blocks of 2 units each plus what follows them in the file; a       *)
(* damaged block wants more units than the file has left.                   *)
EXTENDS BlockReaderInv, XzIndex

MCCSize     == [e \in 1..XzEntries |-> 2]
MCInLen     == [e \in 1..XzEntries |-> IF e \in Damaged THEN 1 ELSE 3]
MCOffsets   == -1..(XzFileSize + 1)
MCCalls     == [op : {"read", "readInto"}, offset : MCOffsets, length : 1..XzFileSize]
MCWholeFile == { [op |-> "readInto", offset |-> 0, length |-> XzFileSize] }

ThreeBlocks  == <<5, 2, 1>>
TwoBlocks    == <<3, 2>>
EmptyBetween == <<2, EmptyStream, 2>>

(* Only a stream without blocks keeps next() from continuing the contents. *)
ASSUME XzContinues == (\A e \in 1..XzEntries : IsBlock(e)) => NextContinues
=============================================================================
