------------------------------ MODULE IdxIndex ------------------------------
(***************************************************************************)
(* IndexedDeflateFileIndex and IndexedDeflateFileIndexIter of              *)
(* lib/idx-defl-file.cpp: an index of FullBlocks blocks of BlockSize bytes *)
(* and a last block of LastBlock bytes, which may be empty.  Entry e is    *)
(* the code's block e - 1.                                                 *)
(***************************************************************************)
EXTENDS Integers

CONSTANTS BlockSize, FullBlocks, LastBlock

ASSUME IdxAssumption ==
  /\ BlockSize \in Nat \ {0} /\ FullBlocks \in Nat
  /\ LastBlock \in 0..BlockSize

IdxEntries  == FullBlocks + 1                        \* m_index->blocks
IdxFileSize == FullBlocks * BlockSize + LastBlock    \* uncompressed_size

(* Iter::seek, by the entry it lands on; 0 when it returns false *)
IdxSeekShort(offset) ==
  LET block == offset \div BlockSize
  IN  IF offset < 0 \/ offset > IdxFileSize \/ block + 1 >= IdxEntries
      THEN 0 ELSE block + 1
IdxSeek(offset) ==
  LET block == offset \div BlockSize
  IN  IF offset < 0 \/ offset > IdxFileSize \/ block >= IdxEntries
      THEN 0 ELSE block + 1

(* uncompressed_offset and uncompressed_length after a seek *)
IdxStart == [e \in 1..IdxEntries |-> (e - 1) * BlockSize]
IdxUSize == [e \in 1..IdxEntries |->
               IF e = IdxEntries
               THEN IdxFileSize - (IdxEntries - 1) * BlockSize
               ELSE BlockSize]

(* Iter::next *)
IdxNextEntry == [e \in 1..IdxEntries |-> IdxSeek(IdxStart[e] + IdxUSize[e])]
=============================================================================
