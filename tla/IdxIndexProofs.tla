--------------------------- MODULE IdxIndexProofs ---------------------------
(***************************************************************************)
(* The arithmetic of the indexed-deflate index, for blocks of any size and  *)
(* number: what ReaderState assumes of an index (IndexAssumption,           *)
(* NextContinues) is true of this one.                                      *)
(***************************************************************************)
EXTENDS IdxIndex, TLAPS

(* Division by a block's size *)
LEMMA Division ==
  ASSUME NEW o \in Nat, NEW b \in Nat \ {0}
  PROVE  /\ o \div b \in Nat
         /\ (o \div b) * b <= o /\ o < (o \div b) * b + b
  BY SMT

(* More blocks are not fewer bytes *)
LEMMA Monotone ==
  ASSUME NEW m \in Nat, NEW n \in Nat, NEW b \in Nat, m <= n
  PROVE  m * b \in Nat /\ n * b \in Nat /\ m * b <= n * b
  BY SMT

(* Where the entries begin and end *)
LEMMA Layout ==
  ASSUME NEW e \in 1..IdxEntries
  PROVE  /\ IdxStart[e] = (e - 1) * BlockSize
         /\ IdxStart[e] \in Nat /\ IdxUSize[e] \in Nat
         /\ e <= FullBlocks => IdxStart[e] + IdxUSize[e] = e * BlockSize
         /\ e = IdxEntries => IdxStart[e] + IdxUSize[e] = IdxFileSize
         /\ IdxStart[e] + IdxUSize[e] <= IdxFileSize
<1>1. /\ BlockSize \in Nat \ {0} /\ FullBlocks \in Nat /\ LastBlock \in 0..BlockSize
      /\ e \in Nat /\ e >= 1 /\ e <= FullBlocks + 1
  BY IdxAssumption DEF IdxEntries
<1>2. /\ (e - 1) * BlockSize \in Nat /\ FullBlocks * BlockSize \in Nat
      /\ (e - 1) * BlockSize + BlockSize = e * BlockSize
  BY <1>1
<1>3. IdxStart[e] = (e - 1) * BlockSize
  BY DEF IdxStart
<1>4. CASE e = FullBlocks + 1
  BY <1>1, <1>2, <1>3, <1>4 DEF IdxUSize, IdxEntries, IdxFileSize
<1>5. CASE e <= FullBlocks
  <2>1. e * BlockSize <= FullBlocks * BlockSize
    BY <1>1, <1>5, Monotone
  <2>2. IdxUSize[e] = BlockSize
    BY <1>1, <1>5 DEF IdxUSize, IdxEntries
  <2> QED
    BY <1>1, <1>2, <1>3, <1>5, <2>1, <2>2 DEF IdxEntries, IdxFileSize
<1> QED
  BY <1>1, <1>4, <1>5

-----------------------------------------------------------------------------
(* Iter::seek finds every offset of the contents in the block that holds it.*)
THEOREM SeekFinds ==
  ASSUME NEW o \in 0..(IdxFileSize - 1)
  PROVE  /\ IdxSeek(o) \in 1..IdxEntries
         /\ IdxStart[IdxSeek(o)] <= o
         /\ o < IdxStart[IdxSeek(o)] + IdxUSize[IdxSeek(o)]
<1> DEFINE q == o \div BlockSize
<1>1. /\ BlockSize \in Nat \ {0} /\ FullBlocks \in Nat /\ LastBlock \in 0..BlockSize
      /\ FullBlocks * BlockSize \in Nat /\ o \in Nat
      /\ o < FullBlocks * BlockSize + LastBlock
  BY IdxAssumption DEF IdxFileSize
<1>2. q \in Nat /\ q * BlockSize <= o /\ o < q * BlockSize + BlockSize
  BY <1>1, Division
<1> HIDE DEF q
<1>3. q <= FullBlocks
  <2> SUFFICES ASSUME q >= FullBlocks + 1  PROVE FALSE
    BY <1>1, <1>2
  <2>1. (FullBlocks + 1) * BlockSize <= q * BlockSize
    BY <1>1, <1>2, Monotone
  <2>2. (FullBlocks + 1) * BlockSize = FullBlocks * BlockSize + BlockSize
    BY <1>1
  <2> QED
    BY <1>1, <1>2, <2>1, <2>2
<1>4. IdxSeek(o) = q + 1 /\ q + 1 \in 1..IdxEntries
  BY <1>1, <1>2, <1>3 DEF IdxSeek, IdxEntries, IdxFileSize, q
<1>5. IdxStart[q + 1] = q * BlockSize
  BY <1>2, <1>4 DEF IdxStart
<1>6. o < q * BlockSize + IdxUSize[q + 1]
  <2>1. CASE q = FullBlocks
    BY <1>1, <1>2, <1>4, <2>1 DEF IdxUSize, IdxEntries, IdxFileSize
  <2>2. CASE q # FullBlocks
    BY <1>1, <1>2, <1>4, <2>2 DEF IdxUSize, IdxEntries
  <2> QED
    BY <2>1, <2>2
<1> QED
  BY <1>2, <1>4, <1>5, <1>6

(* The blocks lie inside the contents, and two that share a byte are one.   *)
THEOREM BlocksDisjoint ==
  /\ \A e \in 1..IdxEntries : IdxStart[e] + IdxUSize[e] <= IdxFileSize
  /\ \A e, f \in 1..IdxEntries :
       /\ IdxStart[e] < IdxStart[f] + IdxUSize[f]
       /\ IdxStart[f] < IdxStart[e] + IdxUSize[e]
       => e = f
<1>1. ASSUME NEW e \in 1..IdxEntries, NEW f \in 1..IdxEntries, e < f
      PROVE  IdxStart[e] + IdxUSize[e] <= IdxStart[f]
  <2>1. BlockSize \in Nat /\ FullBlocks \in Nat /\ e \in Nat /\ f \in Nat /\ f <= FullBlocks + 1
    BY IdxAssumption DEF IdxEntries
  <2>2. e <= FullBlocks /\ e <= f - 1 /\ f - 1 \in Nat
    BY <1>1, <2>1
  <2>3. e * BlockSize <= (f - 1) * BlockSize
    BY <2>1, <2>2, Monotone
  <2> QED
    BY <2>2, <2>3, Layout
<1>2. ASSUME NEW e \in 1..IdxEntries, NEW f \in 1..IdxEntries,
             IdxStart[e] < IdxStart[f] + IdxUSize[f],
             IdxStart[f] < IdxStart[e] + IdxUSize[e]
      PROVE  e = f
  <2>1. /\ e \in Int /\ f \in Int
        /\ IdxStart[e] \in Nat /\ IdxUSize[e] \in Nat
        /\ IdxStart[f] \in Nat /\ IdxUSize[f] \in Nat
    BY Layout DEF IdxEntries
  <2>2. ~(e < f)
    BY <1>1, <1>2, <2>1
  <2>3. ~(f < e)
    BY <1>1, <1>2, <2>1
  <2> QED
    BY <2>1, <2>2, <2>3
<1> QED
  BY <1>2, Layout

(* Iter::next goes on where a block ends, if the contents do.               *)
THEOREM NextGoesOn ==
  ASSUME NEW e \in 1..IdxEntries, IdxStart[e] + IdxUSize[e] < IdxFileSize
  PROVE  /\ IdxNextEntry[e] # 0
         /\ IdxStart[IdxNextEntry[e]] = IdxStart[e] + IdxUSize[e]
<1>1. /\ BlockSize \in Nat \ {0} /\ FullBlocks \in Nat /\ LastBlock \in 0..BlockSize
      /\ e \in Nat /\ e >= 1 /\ e <= FullBlocks + 1 /\ IdxFileSize \in Int
  BY IdxAssumption DEF IdxEntries, IdxFileSize
<1>2. e <= FullBlocks /\ IdxStart[e] + IdxUSize[e] = e * BlockSize
  <2>1. e # FullBlocks + 1
    BY <1>1, Layout DEF IdxEntries
  <2> QED
    BY <1>1, <2>1, Layout
<1>3. e * BlockSize \in Nat /\ (e * BlockSize) \div BlockSize = e
  <2> DEFINE o == e * BlockSize  q == o \div BlockSize
  <2>1. o \in Nat
    BY <1>1
  <2>2. q \in Nat /\ q * BlockSize <= o /\ o < q * BlockSize + BlockSize
    BY <1>1, <2>1, Division
  <2> HIDE DEF q
  <2>3. ~(q < e)
    <3> SUFFICES ASSUME q + 1 <= e  PROVE FALSE
      BY <1>1, <2>2
    <3>1. (q + 1) * BlockSize <= e * BlockSize
      BY <1>1, <2>2, Monotone
    <3>2. (q + 1) * BlockSize = q * BlockSize + BlockSize
      BY <1>1, <2>2
    <3> QED
      BY <1>1, <2>1, <2>2, <3>1, <3>2
  <2>4. ~(e < q)
    <3> SUFFICES ASSUME e + 1 <= q  PROVE FALSE
      BY <1>1, <2>2
    <3>1. (e + 1) * BlockSize <= q * BlockSize
      BY <1>1, <2>2, Monotone
    <3>2. (e + 1) * BlockSize = e * BlockSize + BlockSize
      BY <1>1
    <3> QED
      BY <1>1, <2>1, <2>2, <3>1, <3>2
  <2>5. q = e
    BY <1>1, <2>2, <2>3, <2>4
  <2> QED
    BY <2>1, <2>5 DEF q
<1>4. IdxSeek(e * BlockSize) = e + 1
  <2>1. e < IdxEntries /\ ~(e * BlockSize > IdxFileSize) /\ ~(e * BlockSize < 0)
    BY <1>1, <1>2, <1>3 DEF IdxEntries
  <2> QED
    BY <1>1, <1>3, <2>1 DEF IdxSeek, IdxEntries
<1>5. IdxNextEntry[e] = e + 1
  BY <1>2, <1>4 DEF IdxNextEntry
<1>6. IdxStart[e + 1] = e * BlockSize
  BY <1>1, <1>2 DEF IdxStart, IdxEntries
<1> QED
  BY <1>1, <1>2, <1>5, <1>6

(* Iter::next does not end at the last block: unless that one is full, the *)
(* seek to the end of the contents finds it again, so a readInto over the  *)
(* end goes on in it, and never ends when it is empty (OverEndRepeats and  *)
(* OverEndRefused of the readers).                                         *)
THEOREM LastLeadsToItself ==
  IdxNextEntry[IdxEntries] = IF LastBlock < BlockSize THEN IdxEntries ELSE 0
<1> DEFINE o == IdxFileSize  q == o \div BlockSize
<1>1. /\ BlockSize \in Nat \ {0} /\ FullBlocks \in Nat /\ LastBlock \in 0..BlockSize
      /\ FullBlocks * BlockSize \in Nat
      /\ o = FullBlocks * BlockSize + LastBlock /\ o \in Nat
      /\ IdxEntries = FullBlocks + 1 /\ IdxEntries \in 1..IdxEntries
  BY IdxAssumption DEF IdxFileSize, IdxEntries
<1>2. IdxNextEntry[IdxEntries] = IdxSeek(o)
  BY <1>1, Layout DEF IdxNextEntry
<1>3. q \in Nat /\ q * BlockSize <= o /\ o < q * BlockSize + BlockSize
  BY <1>1, Division
<1>4. IdxSeek(o) = IF q >= FullBlocks + 1 THEN 0 ELSE q + 1
  BY <1>1 DEF IdxSeek
<1> HIDE DEF o, q
<1>5. q >= FullBlocks
  <2> SUFFICES ASSUME q + 1 <= FullBlocks  PROVE FALSE
    BY <1>1, <1>3
  <2>1. (q + 1) * BlockSize <= FullBlocks * BlockSize
    BY <1>1, <1>3, Monotone
  <2>2. (q + 1) * BlockSize = q * BlockSize + BlockSize
    BY <1>1, <1>3
  <2> QED
    BY <1>1, <1>3, <2>1, <2>2
<1>6. (FullBlocks + 1) * BlockSize = FullBlocks * BlockSize + BlockSize
  BY <1>1
<1>7. CASE LastBlock < BlockSize
  <2>1. ~(q >= FullBlocks + 1)
    <3> SUFFICES ASSUME FullBlocks + 1 <= q  PROVE FALSE
      BY <1>1, <1>3
    <3>1. (FullBlocks + 1) * BlockSize <= q * BlockSize
      BY <1>1, <1>3, Monotone
    <3> QED
      BY <1>1, <1>3, <1>6, <1>7, <3>1
  <2> QED
    BY <1>1, <1>2, <1>3, <1>4, <1>5, <1>7, <2>1
<1>8. CASE LastBlock = BlockSize
  <2>1. q # FullBlocks
    BY <1>1, <1>3, <1>8
  <2> QED
    BY <1>1, <1>2, <1>3, <1>4, <1>5, <1>8, <2>1
<1> QED
  BY <1>1, <1>7, <1>8
=============================================================================
