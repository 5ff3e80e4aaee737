------------------------------ MODULE XzIndex ------------------------------
(***************************************************************************)
(* The index of an .xz file as lzma_index_iter walks it, from how          *)
(* lib/xz-file.cpp uses it.  A file is a concatenation of streams, each    *)
(* with any number of blocks, none for empty input.                        *)
(*                                                                         *)
(* lzma_index_iter_next(&iter, LZMA_INDEX_ITER_ANY) goes to the next block *)
(* of the stream or, after its last one, to the next stream "even if it    *)
(* has no Blocks"; iter.block is then undefined, and keeps in fact the     *)
(* values of the block before.  So the walk is a sequence of items.        *)
(***************************************************************************)
EXTENDS Integers, Sequences

CONSTANT Items   \* a block's uncompressed size, or EmptyStream

EmptyStream == -1

XzEntries == Len(Items)
IsBlock(e) == Items[e] # EmptyStream

Size(e) == IF IsBlock(e) THEN Items[e] ELSE 0

(* The uncompressed offset at which item e begins *)
Offset[e \in 1..(XzEntries + 1)] ==
  IF e = 1 THEN 0 ELSE Offset[e - 1] + Size(e - 1)

XzFileSize == Offset[XzEntries + 1]

(* The block iter.block describes when the iterator stands on entry e *)
Shown[e \in 1..XzEntries] ==
  IF IsBlock(e) \/ e = 1 THEN e ELSE Shown[e - 1]

XzStart == [e \in 1..XzEntries |-> Offset[Shown[e]]]
XzUSize == [e \in 1..XzEntries |-> Size(Shown[e])]

(* LZMA_INDEX_ITER_ANY *)
XzNextEntry == [e \in 1..XzEntries |-> IF e < XzEntries THEN e + 1 ELSE 0]

(* lzma_index_iter_locate finds the block that holds the offset, if any does *)
XzBlockAt == [o \in 0..(XzFileSize - 1) |->
                CHOOSE e \in 1..XzEntries : Offset[e] <= o /\ o < Offset[e + 1]]

XzLocate(o) == IF o \in DOMAIN XzBlockAt THEN XzBlockAt[o] ELSE 0
=============================================================================
