----------------------------- MODULE ReaderPart -----------------------------
(***************************************************************************)
(* The part of a file a FileReader (lib/file.h) goes through: the records   *)
(* [offset, length] of m_offset and m_length, and what its methods do to    *)
(* them.  fsize is the file's size, 0 when there is no file.                *)
(***************************************************************************)
EXTENDS Integers

ToEnd == -1   \* the length that stands for all that is left

FixLength(fsize, offset, length) ==
  [offset |-> offset,
   length |-> IF offset > fsize THEN 0
              ELSE IF length > fsize - offset \/ length = ToEnd THEN fsize - offset
              ELSE length]

(* read: how much it asks the file for, and what it makes of an answer of   *)
(* datasize bytes                                                           *)
Want(part, maxBufSize) ==
  IF maxBufSize < part.length THEN maxBufSize ELSE part.length

ClampToRequest(part, maxBufSize, datasize) ==
  IF datasize > maxBufSize THEN maxBufSize ELSE datasize
Clamp(part, maxBufSize, datasize) ==
  IF datasize > Want(part, maxBufSize) THEN Want(part, maxBufSize) ELSE datasize

AdvanceKeepsLength(part, n) == [part EXCEPT !.offset = @ + n]
Advance(part, n) == [offset |-> part.offset + n, length |-> part.length - n]
=============================================================================
