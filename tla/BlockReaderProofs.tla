-------------------------- MODULE BlockReaderProofs --------------------------
(***************************************************************************)
(* BlockReader for every file, every buffer size and every sequence of     *)
(* calls: what holds whatever the callers do with their state object, and  *)
(* what holds for the callers of the repository.                           *)
(***************************************************************************)
EXTENDS BlockReaderInv, SequenceTheorems, TLAPS

-----------------------------------------------------------------------------
(* What each method of the reader state does to a sound state.            *)

(* n consecutive bytes are a sequence of n natural numbers. *)
LEMMA BytesType ==
  ASSUME NEW o \in Nat, NEW n \in Nat
  PROVE  /\ Bytes(o, n) \in Seq(Nat) /\ Len(Bytes(o, n)) = n
         /\ \A i \in 1..n : Bytes(o, n)[i] = o + i - 1
<1>1. \A i \in 1..n : o + i - 1 \in Nat  OBVIOUS
<1> QED BY <1>1 DEF Bytes

(* Nothing is the empty sequence. *)
LEMMA BytesNone ==
  ASSUME NEW o \in Int PROVE Bytes(o, 0) = << >> /\ Len(Bytes(o, 0)) = 0
BY DEF Bytes

(* Bytes decoded after others continue them. *)
LEMMA BytesConcat ==
  ASSUME NEW o \in Nat, NEW n \in Nat, NEW m \in Nat
  PROVE  Bytes(o, n) \o Bytes(o + n, m) = Bytes(o, n + m)
<1> DEFINE l == Bytes(o, n)  r == Bytes(o + n, m)  w == Bytes(o, n + m)
<1>1. o + n \in Nat /\ n + m \in Nat  OBVIOUS
<1>2. /\ l \in Seq(Nat) /\ Len(l) = n
      /\ \A i \in 1..n : l[i] = o + i - 1
  BY BytesType
<1>3. /\ r \in Seq(Nat) /\ Len(r) = m
      /\ \A i \in 1..m : r[i] = o + n + i - 1
  BY <1>1, BytesType
<1>4. /\ w \in Seq(Nat) /\ Len(w) = n + m
      /\ \A i \in 1..(n + m) : w[i] = o + i - 1
  BY <1>1, BytesType
<1> HIDE DEF l, r, w
<1> DEFINE lr == l \o r
<1>8. /\ l \o r \in Seq(Nat) /\ Len(l \o r) = Len(l) + Len(r)
      /\ \A i \in 1..(Len(l) + Len(r)) :
            (l \o r)[i] = IF i <= Len(l) THEN l[i] ELSE r[i - Len(l)]
  <2>1. l \in Seq(Nat) /\ r \in Seq(Nat)  BY <1>2, <1>3
  <2> HIDE DEF lr
  <2> QED BY <2>1, ConcatProperties
<1>5. /\ lr \in Seq(Nat) /\ Len(lr) = n + m
      /\ \A i \in 1..(n + m) : lr[i] = IF i <= n THEN l[i] ELSE r[i - n]
  BY <1>2, <1>3, <1>8
<1> HIDE DEF lr
<1>6. ASSUME NEW i \in 1..(n + m) PROVE lr[i] = w[i]
  <2>1. CASE i <= n
    BY <2>1, <1>2, <1>4, <1>5
  <2>2. CASE ~(i <= n)
    <3>1. i - n \in 1..m  BY <2>2
    <3>2. r[i - n] = o + n + (i - n) - 1  BY <3>1, <1>3
    <3>3. lr[i] = r[i - n]  BY <2>2, <1>5
    <3>4. w[i] = o + i - 1  BY <1>4
    <3>5. o + n + (i - n) - 1 = o + i - 1  OBVIOUS
    <3> QED BY <3>2, <3>3, <3>4, <3>5
  <2> QED BY <2>1, <2>2
<1>7. lr = w  BY <1>4, <1>5, <1>6, SeqEqual
<1> QED BY <1>7 DEF lr, l, r, w

-----------------------------------------------------------------------------
(* The parts of the state object *)
SameStream(s, t) ==
  t.iter = s.iter /\ t.dec = s.dec /\ t.reader = s.reader /\ t.in = s.in
SameBuffer(s, t) == t.buf = s.buf /\ t.size = s.size
SameOutput(s, t) == SameBuffer(s, t) /\ t.out = s.out

(* Only the stream decides whether a state object is decoding. *)
LEMMA SameStreamDecoding ==
  ASSUME NEW s, NEW t, SameStream(s, t)
  PROVE  Decoding(t) = Decoding(s) /\ Decoded(t) = Decoded(s)
BY DEF SameStream, Decoding, Decoded, Fed, InSync

(* The fields of a state object are what their types say. *)
LEMMA Fields ==
  ASSUME NEW s \in StateType
  PROVE  /\ s.position \in Int /\ s.iter \in 0..NumEntries
         /\ s.dec.blk \in 0..NumEntries /\ s.dec.used \in Nat
         /\ s.dec.made \in Nat /\ s.dec.bad \in BOOLEAN
         /\ s.reader.blk \in 0..NumEntries /\ s.reader.pos \in Nat
         /\ s.in.blk \in 0..NumEntries /\ s.in.pos \in Nat /\ s.in.n \in Nat
         /\ s.buf \in BufferKinds /\ s.size \in Nat
         /\ s.out \in Seq(Nat) /\ Len(s.out) \in Nat
<1>1. s.out \in Seq(Nat)  BY DEF StateType
<1>2. Len(s.out) \in Nat  BY <1>1, LenProperties
<1> QED BY <1>1, <1>2 DEF StateType

(* discard_output empties the buffer and moves position behind it. *)
LEMMA DiscardOutputFacts ==
  ASSUME NEW s \in StateType
  PROVE  LET t == DiscardOutput(s)
         IN  /\ t \in StateType /\ SameStream(s, t) /\ SameBuffer(s, t)
             /\ t.out = << >> /\ Len(t.out) = 0
             /\ t.position = IF s.position >= 0
                             THEN s.position + Len(s.out) ELSE s.position
<1> DEFINE p == IF s.position >= 0 THEN s.position + Len(s.out) ELSE s.position
           t == [s EXCEPT !.position = p, !.out = << >>]
<1>1. p \in Int  BY Fields
<1>2. << >> \in Seq(Nat) /\ Len(<< >>) = 0  BY EmptySeq
<1>3. t = DiscardOutput(s)  BY DEF DiscardOutput, AvailableBytes
<1>4. p = IF s.position >= 0 THEN s.position + Len(s.out) ELSE s.position
  OBVIOUS
<1> HIDE DEF p
<1>5. /\ t \in StateType /\ t.position = p /\ t.out = << >>
      /\ SameStream(s, t) /\ SameBuffer(s, t)
  BY <1>1, <1>2 DEF StateType, SameStream, SameBuffer
<1> HIDE DEF t
<1> QED BY <1>2, <1>3, <1>4, <1>5

(* selectBuffer discards the output and takes the given storage. *)
LEMMA SelectBufferFacts ==
  ASSUME NEW s \in StateType, NEW b \in BufferKinds, NEW n \in Nat
  PROVE  LET t == SelectBuffer(s, b, n)
         IN  /\ t \in StateType /\ SameStream(s, t)
             /\ t.buf = b /\ t.size = n
             /\ t.out = << >> /\ Len(t.out) = 0
             /\ t.position = IF s.position >= 0
                             THEN s.position + Len(s.out) ELSE s.position
<1> DEFINE u == IF s.position >= 0 THEN DiscardOutput(s) ELSE s
           t == [u EXCEPT !.buf = b, !.size = n, !.out = << >>]
<1>1. << >> \in Seq(Nat) /\ Len(<< >>) = 0  BY EmptySeq
<1>2. /\ u \in StateType /\ SameStream(s, u)
      /\ u.position = IF s.position >= 0
                      THEN s.position + Len(s.out) ELSE s.position
  BY DiscardOutputFacts DEF SameStream
<1> HIDE DEF u
<1>3. /\ t \in StateType /\ SameStream(u, t) /\ t.buf = b /\ t.size = n
      /\ t.out = << >> /\ t.position = u.position
  BY <1>1, <1>2 DEF StateType, SameStream
<1>4. t = SelectBuffer(s, b, n)  BY DEF u, SelectBuffer
<1> HIDE DEF t
<1> QED BY <1>1, <1>2, <1>3, <1>4 DEF SameStream

-----------------------------------------------------------------------------
(* Reading input never runs over the end of the reader's range, and what   *)
(* it brings in begins where the consumed input ended (fill_input_buffer). *)
LEMMA FillInputBufferFacts ==
  ASSUME NEW s \in StateType, Fed(s), NEW f \in BOOLEAN,
         NEW r \in FillInputBuffer(s, f)
  PROVE  /\ r.status \in {"ok", "io"}
         /\ r.status = "io" => f
         /\ r.s \in StateType /\ Fed(r.s) /\ SameOutput(s, r.s)
         /\ r.s.position = s.position /\ r.s.iter = s.iter
         /\ r.s.dec = s.dec
         /\ r.s.in.blk = s.in.blk /\ r.s.in.pos = s.in.pos
         /\ r.status = "ok" /\ r.s.in.n = 0 =>
              r.s.in.pos = InLen[r.s.in.blk]
<1>1. CASE r = Outcome("ok", s) /\ s.in.n # 0
  BY <1>1 DEF Outcome, SameOutput, SameBuffer
<1>2. CASE r = Outcome("io", s) /\ f
  BY <1>2 DEF Outcome, SameOutput, SameBuffer
<1>3. CASE r = Outcome("ok", FilledInput(s)) /\ s.in.n = 0
  <2> DEFINE k == Smaller(InChunk, Remaining(s))
             t == [s EXCEPT !.in = [blk |-> s.reader.blk,
                                    pos |-> s.reader.pos, n |-> k],
                            !.reader.pos = @ + k]
  <2>1. /\ s.reader.blk \in Entries /\ s.reader.pos \in Nat
        /\ InLen[s.reader.blk] \in Nat
        /\ s.reader.pos <= InLen[s.reader.blk]
    BY Fields, ReaderAssumption DEF Fed
  <2>2. k \in Nat /\ s.reader.pos + k <= InLen[s.reader.blk]
        /\ s.reader.pos + k \in Nat
    BY <2>1, ReaderAssumption DEF Remaining, Smaller
  <2>2a. k = 0 => s.reader.pos = InLen[s.reader.blk]
    BY <2>1, ReaderAssumption DEF Remaining, Smaller
  <2>3. t = FilledInput(s)  BY DEF FilledInput
  <2> HIDE DEF k
  <2>4. /\ t \in StateType /\ t.position = s.position /\ t.iter = s.iter
        /\ t.dec = s.dec /\ SameOutput(s, t)
        /\ t.in = [blk |-> s.reader.blk, pos |-> s.reader.pos, n |-> k]
        /\ t.reader.blk = s.reader.blk /\ t.reader.pos = s.reader.pos + k
    BY <2>1, <2>2 DEF StateType, SameOutput, SameBuffer
  <2> HIDE DEF t
  <2>5. s.in.blk = s.reader.blk /\ s.in.pos = s.reader.pos
    BY <1>3, <2>1, Fields DEF Fed
  <2>6. r.status = "ok" /\ r.s = t  BY <1>3, <2>3 DEF Outcome
  <2>7. r.s.in.n = 0 => r.s.in.pos = InLen[r.s.in.blk]
    BY <2>2a, <2>4, <2>6
  <2> QED BY <2>1, <2>2, <2>4, <2>5, <2>6, <2>7 DEF Fed
<1> QED BY <1>1, <1>2, <1>3 DEF FillInputBuffer

(* Loading a block leaves a decoder at the block's start, or no position   *)
(* at all; the output that is already there stays (loadBlock).             *)
LEMMA LoadBlockFacts ==
  ASSUME NEW s \in StateType, s.iter \in Entries,
         s.size > 0, Len(s.out) <= s.size,
         NEW f \in BOOLEAN, NEW r \in LoadBlock(s, f)
  PROVE  /\ r.status \in {"ok", "io", "eof", "data", "mem"}
         /\ r.status \in Faults => f
         /\ Sound(r.s) /\ r.s.iter = s.iter /\ SameOutput(s, r.s)
         /\ r.status = "ok" => /\ r.s.position = Start[s.iter]
                               /\ r.s.dec.blk = s.iter /\ r.s.dec.made = 0
                               /\ Unfinished(r.s)
         /\ r.status # "ok" => r.s.position = -1
         /\ r.status \in {"eof", "data"} => s.iter \in Damaged
<1> DEFINE u == Sought(s)
<1>1. Start[s.iter] \in Nat /\ USize[s.iter] \in Nat
      /\ CSize[s.iter] \in Nat \ {0} /\ InLen[s.iter] \in Nat
      /\ s.iter \in 1..NumEntries /\ s.iter \in 0..NumEntries
      /\ 0 \in 0..NumEntries
  BY ReaderAssumption DEF Entries
<1>2. /\ u \in StateType /\ u.position = -1 /\ u.iter = s.iter
      /\ u.dec = s.dec /\ SameOutput(s, u)
      /\ u.reader = [blk |-> s.iter, pos |-> 0]
      /\ u.in = [blk |-> s.iter, pos |-> 0, n |-> 0]
  <2> DEFINE rd == [blk |-> s.iter, pos |-> 0]
             in == [blk |-> s.iter, pos |-> 0, n |-> 0]
             p == -1
             t == [s EXCEPT !.position = p, !.reader = rd, !.in = in]
  <2>1. /\ rd \in [blk : 0..NumEntries, pos : Nat]
        /\ in \in [blk : 0..NumEntries, pos : Nat, n : Nat]
        /\ p \in Int
    BY <1>1
  <2>2. u = t  BY DEF Sought
  <2> HIDE DEF rd, in, p
  <2>3. /\ t \in StateType /\ t.position = p /\ t.iter = s.iter
        /\ t.dec = s.dec /\ SameOutput(s, t) /\ t.reader = rd /\ t.in = in
    BY <2>1 DEF StateType, SameOutput, SameBuffer
  <2> HIDE DEF t, u
  <2> QED BY <2>2, <2>3 DEF rd, in, p
<1>3. Fed(u)  BY <1>1, <1>2 DEF Fed
<1> HIDE DEF u
<1>4. PICK q \in FillInputBuffer(u, f) :
        r \in IF q.status # "ok" THEN {q}
              ELSE IF q.s.in.n = 0 THEN {Outcome("eof", q.s)}
              ELSE {Outcome("ok", Started(q.s))} \union
                   { Outcome(bad, q.s) : bad \in BadHeader(s.iter) } \union
                   (IF f THEN {Outcome("mem", [q.s EXCEPT !.dec = NoDecoder])}
                         ELSE {})
  BY DEF LoadBlock, u
<1>5. /\ q.status \in {"ok", "io"}
      /\ q.status = "io" => f
      /\ q.s \in StateType /\ Fed(q.s) /\ SameOutput(s, q.s)
      /\ q.s.position = -1 /\ q.s.iter = s.iter
      /\ q.s.in.blk = s.iter /\ q.s.in.pos = 0
      /\ q.status = "ok" /\ q.s.in.n = 0 => InLen[s.iter] = 0
  BY <1>2, <1>3, FillInputBufferFacts DEF SameOutput, SameBuffer
<1>6. Sound(q.s)  BY <1>5 DEF Sound, SameOutput, SameBuffer
<1>7. CASE r = q /\ q.status # "ok"
  BY <1>5, <1>6, <1>7
<1>6a. q.status = "ok" /\ q.s.in.n = 0 => s.iter \in Damaged
  <2>1. s.iter \notin Damaged => InLen[s.iter] >= CSize[s.iter]
    BY IndexAssumption
  <2> QED BY <1>1, <1>5, <2>1
<1>8. CASE /\ r = Outcome("eof", q.s) \/ r = Outcome("data", q.s)
           /\ s.iter \in Damaged
  <2>1. r.status \in {"eof", "data"} /\ r.s = q.s  BY <1>8 DEF Outcome
  <2> QED BY <1>5, <1>6, <1>8, <2>1 DEF Faults
<1>9. CASE r = Outcome("mem", [q.s EXCEPT !.dec = NoDecoder]) /\ f
  <2> DEFINE t == [q.s EXCEPT !.dec = NoDecoder]
  <2>1. NoDecoder \in [blk : 0..NumEntries, used : Nat, made : Nat, bad : BOOLEAN]
    BY <1>1 DEF NoDecoder
  <2>2. /\ t \in StateType /\ t.position = -1 /\ t.iter = s.iter
        /\ SameOutput(q.s, t)
    BY <1>5, <2>1 DEF StateType, SameOutput, SameBuffer
  <2>3. r.status = "mem" /\ r.s = t /\ f  BY <1>9 DEF Outcome
  <2> HIDE DEF t
  <2>4. Sound(t) /\ SameOutput(s, t)
    BY <1>5, <2>2 DEF Sound, SameOutput, SameBuffer
  <2> QED BY <2>2, <2>3, <2>4
<1>10. CASE r = Outcome("ok", Started(q.s))
  <2> DEFINE d == [blk |-> s.iter, used |-> 0, made |-> 0, bad |-> FALSE]
             p == Start[s.iter]
             t == [q.s EXCEPT !.dec = d, !.position = p]
  <2>1. /\ d \in [blk : 0..NumEntries, used : Nat, made : Nat, bad : BOOLEAN]
        /\ p \in Int
        /\ d.blk = s.iter /\ d.used = 0 /\ d.made = 0 /\ ~d.bad
    BY <1>1
  <2>2. r.status = "ok" /\ r.s = t  BY <1>5, <1>10 DEF Outcome, Started
  <2> HIDE DEF d, p
  <2>3. /\ t \in StateType /\ t.position = p /\ t.iter = s.iter /\ t.dec = d
        /\ SameOutput(q.s, t) /\ t.in = q.s.in /\ t.reader = q.s.reader
    BY <1>5, <2>1 DEF StateType, SameOutput, SameBuffer
  <2> HIDE DEF t
  <2>4. Decoding(t)
    <3>1. CSize[s.iter] > 0 /\ 0 <= USize[s.iter]  BY <1>1
    <3>2. Fed(t)  BY <1>5, <2>3 DEF Fed
    <3>3. InSync(t)  BY <1>5, <2>1, <2>3 DEF InSync
    <3> QED BY <1>1, <2>1, <2>3, <3>1, <3>2, <3>3 DEF Decoding
  <2>5. Sound(t) /\ SameOutput(s, t)
    BY <1>1, <1>5, <2>1, <2>3, <2>4 DEF Sound, SameOutput, SameBuffer, p
  <2>6. Unfinished(t)  BY <1>1, <2>1, <2>3 DEF Unfinished
  <2> QED BY <2>1, <2>2, <2>3, <2>5, <2>6 DEF p, Faults
<1>11. ASSUME NEW bad \in BadHeader(s.iter)
       PROVE  /\ Outcome(bad, q.s) \in {Outcome("eof", q.s), Outcome("data", q.s)}
              /\ s.iter \in Damaged
  BY DEF BadHeader
<1>12. CASE q.status # "ok"  BY <1>4, <1>7, <1>12
<1>13. CASE q.status = "ok" /\ q.s.in.n = 0
  <2>1. r = Outcome("eof", q.s)  BY <1>4, <1>13
  <2> QED BY <1>6a, <1>8, <1>13, <2>1
<1>14. CASE q.status = "ok" /\ q.s.in.n # 0
  <2>1. r \in {Outcome("ok", Started(q.s))} \union
             { Outcome(bad, q.s) : bad \in BadHeader(s.iter) } \union
             (IF f THEN {Outcome("mem", [q.s EXCEPT !.dec = NoDecoder])} ELSE {})
    BY <1>4, <1>14
  <2> QED BY <1>8, <1>9, <1>10, <1>11, <2>1
<1> QED BY <1>12, <1>13, <1>14

(* A seek ends at a position not behind the offset: where the state is, or *)
(* at the start of the block that holds it (seekBlockFor).                 *)
LEMMA SeekBlockForFacts ==
  ASSUME NEW s, Sound(s), NEW o \in Offsets,
         NEW f \in BOOLEAN, NEW r \in SeekBlockFor(s, o, f)
  PROVE  /\ r.status \in {"ok", "io", "eof", "data", "mem", "range"}
         /\ r.status \in Faults => f
         /\ Sound(r.s) /\ SameBuffer(s, r.s)
         /\ r.status \notin {"ok", "range"} => r.s.out = << >>
         /\ r.status # "ok" => r.s.position = -1
         /\ r.status = "range" => r.s.out = s.out /\ Locate(o) = 0
         /\ r.status \in {"eof", "data"} => r.s.iter \in Damaged
         /\ r.status = "ok" =>
              \/ r.s = s /\ InBlock(s, o) /\ s.position <= o
              \/ /\ r.s.out = << >> /\ r.s.dec.blk = r.s.iter
                 /\ r.s.dec.made = 0
                 /\ r.s.position = Start[r.s.iter]
                 /\ \/ InBlock(s, o) /\ r.s.iter = s.iter /\ s.position > o
                    \/ ~InBlock(s, o) /\ r.s.iter = Locate(o) /\ Locate(o) # 0
<1>1. s \in StateType /\ s.position \in Int /\ Len(s.out) \in Nat
      /\ s.size \in Nat /\ s.size > 0 /\ Len(s.out) <= s.size
  BY Fields DEF Sound
<1>2. Locate(o) \in 0..NumEntries /\ NumEntries \in Nat
  BY IndexAssumption, ReaderAssumption
<1>3. o \in Int  BY ReaderAssumption
<1>4. ASSUME NEW t, t \in StateType, t.iter \in Entries, SameBuffer(s, t),
             r \in LoadBlock(DiscardOutput(t), f)
      PROVE  /\ r.status \in {"ok", "io", "eof", "data", "mem"}
             /\ r.status \in Faults => f
             /\ Sound(r.s) /\ SameBuffer(s, r.s) /\ r.s.out = << >>
             /\ r.s.iter = t.iter
             /\ r.status # "ok" => r.s.position = -1
             /\ r.status \in {"eof", "data"} => r.s.iter \in Damaged
             /\ r.status = "ok" =>
                  /\ r.s.position = Start[t.iter]
                  /\ r.s.dec.blk = t.iter /\ r.s.dec.made = 0
  <2> DEFINE u == DiscardOutput(t)
  <2>1. /\ u \in StateType /\ u.iter = t.iter /\ SameBuffer(s, u)
        /\ u.out = << >> /\ Len(u.out) = 0
    BY <1>4, DiscardOutputFacts DEF SameStream, SameBuffer
  <2> HIDE DEF u
  <2>2. u.iter \in Entries /\ u.size > 0 /\ Len(u.out) <= u.size
    BY <1>1, <1>4, <2>1 DEF SameBuffer
  <2>3. r \in LoadBlock(u, f)  BY <1>4 DEF u
  <2> QED BY <2>1, <2>2, <2>3, LoadBlockFacts DEF SameOutput, SameBuffer
<1>5. CASE InBlock(s, o) /\ s.position <= o
  <2>1. r = Outcome("ok", s)  BY <1>1, <1>3, <1>5 DEF SeekBlockFor
  <2>2. r.status = "ok" /\ r.s = s  BY <2>1 DEF Outcome
  <2> QED BY <1>5, <2>2 DEF SameBuffer, Sound, Faults
<1>6. CASE InBlock(s, o) /\ s.position > o
  <2>1. r \in LoadBlock(DiscardOutput(s), f)
    BY <1>1, <1>3, <1>6 DEF SeekBlockFor
  <2>2. s.iter \in Entries /\ SameBuffer(s, s)
    BY <1>6 DEF InBlock, Sound, Decoding, SameBuffer
  <2> HIDE DEF SeekBlockFor
  <2> QED BY <1>1, <1>4, <1>6, <2>1, <2>2
<1>7. CASE ~InBlock(s, o) /\ Locate(o) = 0
  <2> DEFINE p == -1
             t == [s EXCEPT !.position = p]
  <2>1. r = Outcome("range", t)  BY <1>7 DEF SeekBlockFor
  <2>2. r.status = "range" /\ r.s = t  BY <2>1 DEF Outcome
  <2>3. p \in Int /\ p = -1  OBVIOUS
  <2> HIDE DEF p
  <2>4. /\ t \in StateType /\ t.position = p /\ SameBuffer(s, t)
        /\ t.out = s.out
    BY <1>1, <2>3 DEF StateType, SameBuffer
  <2> HIDE DEF t
  <2> QED BY <1>1, <1>7, <2>2, <2>3, <2>4 DEF Sound, SameBuffer, Faults
<1>8. CASE ~InBlock(s, o) /\ Locate(o) # 0
  <2> DEFINE p == -1
             b == Locate(o)
             t == [s EXCEPT !.position = p, !.iter = b]
  <2>1. r \in LoadBlock(DiscardOutput(t), f)  BY <1>8 DEF SeekBlockFor
  <2>2. p \in Int /\ b \in 0..NumEntries /\ b \in Entries
    BY <1>2, <1>8 DEF Entries
  <2> HIDE DEF p, b
  <2>3. t \in StateType /\ t.iter = b /\ SameBuffer(s, t)
    BY <1>1, <2>2 DEF StateType, SameBuffer
  <2> HIDE DEF t
  <2>4. /\ r.status \in {"ok", "io", "eof", "data", "mem"}
        /\ r.status \in Faults => f
        /\ Sound(r.s) /\ SameBuffer(s, r.s) /\ r.s.out = << >>
        /\ r.s.iter = b
        /\ r.status # "ok" => r.s.position = -1
        /\ r.status \in {"eof", "data"} => r.s.iter \in Damaged
        /\ r.status = "ok" =>
             /\ r.s.position = Start[b]
             /\ r.s.dec.blk = b /\ r.s.dec.made = 0
    BY <1>4, <2>1, <2>2, <2>3
  <2> QED BY <1>8, <2>4 DEF b
<1> QED BY <1>1, <1>3, <1>5, <1>6, <1>7, <1>8

(* The next block continues in the same buffer (decode, decodeFillBuffer). *)
LEMMA LoadNextBlockFacts ==
  ASSUME NEW s, Sound(s), s.iter \in Entries,
         NEW f \in BOOLEAN, NEW r \in LoadNextBlock(s, f)
  PROVE  /\ r.status \in {"ok", "io", "eof", "data", "mem", "end"}
         /\ r.status \in Faults => f
         /\ Sound(r.s) /\ SameOutput(s, r.s)
         /\ r.status = "ok" =>
              /\ NextEntry[s.iter] # 0 /\ r.s.iter = NextEntry[s.iter]
              /\ r.s.position = Start[r.s.iter]
              /\ r.s.dec.blk = r.s.iter /\ r.s.dec.made = 0
              /\ Unfinished(r.s)
         /\ r.status # "ok" => r.s = s \/ r.s.position = -1
         /\ r.status = "end" => NextEntry[s.iter] = 0
         /\ r.status \in {"eof", "data"} => r.s.iter \in Damaged
<1> DEFINE e == NextEntry[s.iter]
           t == [s EXCEPT !.iter = e]
<1>1. s \in StateType /\ s.size > 0 /\ Len(s.out) <= s.size  BY DEF Sound
<1>2. e \in 0..NumEntries  BY ReaderAssumption
<1>3. CASE e = 0
  <2>1. r = Outcome("end", s)  BY <1>3 DEF LoadNextBlock
  <2>2. r.status = "end" /\ r.s = s  BY <2>1 DEF Outcome
  <2> QED BY <1>3, <2>2 DEF SameOutput, SameBuffer, Faults
<1>4. CASE e # 0
  <2>1. r \in LoadBlock(t, f)  BY <1>4 DEF LoadNextBlock
  <2>2. e \in Entries  BY <1>2, <1>4, ReaderAssumption DEF Entries
  <2> HIDE DEF e
  <2>3. t \in StateType /\ t.iter = e /\ SameOutput(s, t)
    BY <1>1, <1>2 DEF StateType, SameOutput, SameBuffer
  <2> HIDE DEF t
  <2>4. t.size > 0 /\ Len(t.out) <= t.size
    BY <1>1, <2>3 DEF SameOutput, SameBuffer
  <2>5. /\ r.status \in {"ok", "io", "eof", "data", "mem"}
        /\ r.status \in Faults => f
        /\ Sound(r.s) /\ r.s.iter = t.iter /\ SameOutput(t, r.s)
        /\ r.status = "ok" => /\ r.s.position = Start[t.iter]
                              /\ r.s.dec.blk = t.iter /\ r.s.dec.made = 0
                              /\ Unfinished(r.s)
        /\ r.status # "ok" => r.s.position = -1
        /\ r.status \in {"eof", "data"} => t.iter \in Damaged
    BY <2>1, <2>2, <2>3, <2>4, LoadBlockFacts
  <2> QED BY <1>4, <2>3, <2>5 DEF e, SameOutput, SameBuffer
<1> QED BY <1>3, <1>4

-----------------------------------------------------------------------------
(* What the decoder did in one turn: the bytes it appended to the output   *)
(* continue from where it stood, inside its block and inside the buffer.   *)
Appended(s, t) ==
  \E k \in Nat :
    /\ t.out = s.out \o Bytes(Decoded(s), k)
    /\ Len(t.out) = Len(s.out) + k
    /\ Decoded(t) = Decoded(s) + k

(* To decode nothing is to append nothing. *)
LEMMA AppendedNothing ==
  ASSUME NEW s \in StateType, NEW t, s.dec.blk \in Entries,
         t.out = s.out, Decoded(t) = Decoded(s)
  PROVE  Appended(s, t)
<1> DEFINE d == Decoded(s)  w == s.out  n == Len(w)
<1>1. w \in Seq(Nat) /\ n \in Nat /\ s.dec.made \in Nat  BY Fields
<1>2. d \in Nat
  <2>1. Start[s.dec.blk] \in Nat  BY ReaderAssumption
  <2> QED BY <1>1, <2>1 DEF Decoded
<1> HIDE DEF d
<1>3. w \o Bytes(d, 0) = w  BY <1>1, <1>2, BytesNone, ConcatEmptySeq
<1>4. Decoded(t) = d + 0 /\ Len(t.out) = n + 0
  BY <1>1, <1>2 DEF d
<1>5. t.out = w \o Bytes(d, 0)  BY <1>3
<1> HIDE DEF w, n
<1> QED BY <1>4, <1>5 DEF Appended, d, w, n

(* The decoder continues where it stood (lzma_code, inflate). *)
LEMMA CodeFacts ==
  ASSUME NEW s, Sound(s), s.position >= 0, NEW r \in Code(s)
  PROVE  /\ r.status \in {"ok", "streamEnd", "data"}
         /\ Sound(r.s) /\ SameBuffer(s, r.s)
         /\ r.s.position = s.position /\ r.s.iter = s.iter
         /\ Appended(s, r.s)
         /\ r.status = "streamEnd" => r.s.dec.made = USize[s.iter]
         /\ r.status = "ok" => Unfinished(r.s)
         /\ r.status = "data" => s.iter \in Damaged
<1>1. /\ s \in StateType /\ Decoding(s) /\ InSync(s)
      /\ s.size > 0 /\ Len(s.out) <= s.size
  BY DEF Sound, Decoding
<1>2. /\ s.dec.blk = s.iter /\ s.iter \in Entries
      /\ Start[s.iter] \in Nat /\ USize[s.iter] \in Nat
      /\ CSize[s.iter] \in Nat /\ CSize[s.iter] > 0
  BY <1>1, ReaderAssumption DEF Decoding
<1>3. /\ s.dec.used \in Nat /\ s.dec.made \in Nat /\ s.in.n \in Nat
      /\ s.in.pos \in Nat /\ s.size \in Nat
      /\ Len(s.out) \in Nat
  BY <1>1, Fields
<1>3a. s.out \in Seq(Nat) /\ Decoded(s) \in Nat
  BY <1>1, <1>2, Fields DEF Decoded
<1>4. ASSUME NEW io \in Progress(s)
      PROVE  LET t == Consumed(s, io[1], io[2])
             IN  /\ Sound(t) /\ SameBuffer(s, t) /\ t.position = s.position
                 /\ t.iter = s.iter /\ Appended(s, t)
                 /\ t.dec.blk = s.iter
                 /\ t.dec.used = CSize[s.iter] => t.dec.made = USize[s.iter]
                 /\ t.dec.used # CSize[s.iter] => Unfinished(t)
  <2> DEFINE i == io[1]  k == io[2]
             avail == s.in.n   at == s.in.pos
             used == s.dec.used  made == s.dec.made
             room == s.size - Len(s.out)
             csize == CSize[s.iter]  usize == USize[s.iter]
  <2>1. /\ avail \in Nat /\ at \in Nat /\ used \in Nat /\ made \in Nat
        /\ room \in Nat /\ csize \in Nat /\ usize \in Nat
        /\ used <= csize /\ made <= usize
    BY <1>1, <1>2, <1>3 DEF Decoding
  <2>2. /\ io \in (0..Smaller(avail, csize - used))
                  \X (0..Smaller(room, usize - made))
        /\ made + k < usize => used + i < csize
    BY <1>2 DEF Progress, AvailOut
  <2> HIDE DEF avail, at, used, made, room, csize, usize
  <2>3. i \in 0..Smaller(avail, csize - used) /\ k \in 0..Smaller(room, usize - made)
    BY <2>2
  <2> HIDE DEF i, k
  <2>4. /\ i \in Nat /\ i <= avail /\ i <= csize - used
        /\ k \in Nat /\ k <= room /\ k <= usize - made
    BY <2>1, <2>3 DEF Smaller
  <2> DEFINE b == Bytes(Decoded(s), k)
             w == s.out \o b
             n == [s.in EXCEPT !.pos = at + i, !.n = avail - i]
             d == [s.dec EXCEPT !.used = used + i, !.made = made + k]
             t == [s EXCEPT !.in = n, !.dec = d, !.out = w]
  <2>5. t = Consumed(s, i, k)
    BY <1>1 DEF Consumed, Decoded, at, avail, used, made, StateType
  <2>6. b \in Seq(Nat) /\ Len(b) = k  BY <1>3a, <2>4, BytesType
  <2> HIDE DEF b
  <2>7. w \in Seq(Nat) /\ Len(w) = Len(s.out) + k
    BY <1>3a, <2>6, ConcatProperties
  <2>8. /\ at + i \in Nat /\ avail - i \in Nat
        /\ used + i \in Nat /\ made + k \in Nat
        /\ (at + i) + (avail - i) = at + avail
        /\ used + i <= csize /\ made + k <= usize
        /\ used + i = csize => made + k = usize
    BY <2>1, <2>2, <2>4
  <2>9. /\ n \in [blk : 0..NumEntries, pos : Nat, n : Nat]
        /\ n.blk = s.in.blk /\ n.pos = at + i /\ n.n = avail - i
    BY <1>1, <2>8 DEF StateType
  <2>10. /\ d \in [blk : 0..NumEntries, used : Nat, made : Nat, bad : BOOLEAN]
         /\ d.blk = s.dec.blk /\ d.used = used + i /\ d.made = made + k
         /\ d.bad = s.dec.bad
    BY <1>1, <2>8 DEF StateType
  <2> HIDE DEF n, d, w
  <2>11. /\ t \in StateType /\ SameBuffer(s, t) /\ t.position = s.position
         /\ t.iter = s.iter /\ t.in = n /\ t.dec = d /\ t.out = w
         /\ t.reader = s.reader
    BY <1>1, <2>7, <2>9, <2>10 DEF StateType, SameBuffer
  <2> HIDE DEF t
  <2>12. Fed(t)
    <3>1. Fed(s)  BY <1>1 DEF Decoding
    <3>2. s.reader.pos = at + avail  BY <3>1 DEF Fed, at, avail
    <3>3. t.reader.pos = t.in.pos + t.in.n
      BY <2>8, <2>9, <2>11, <3>2
    <3> QED BY <2>9, <2>11, <3>1, <3>3 DEF Fed
  <2>13. InSync(t)
    <3>1. s.in.blk = s.dec.blk /\ at = used  BY <1>1 DEF InSync, at, used
    <3> QED BY <2>9, <2>10, <2>11, <3>1 DEF InSync
  <2>14. /\ t.dec.used <= CSize[s.iter] /\ t.dec.made <= USize[s.iter]
         /\ t.dec.used = CSize[s.iter] => t.dec.made = USize[s.iter]
         /\ t.dec.made < USize[s.iter] => t.dec.used < CSize[s.iter]
         /\ t.dec.used # CSize[s.iter] => t.dec.used < CSize[s.iter]
    BY <2>1, <2>2, <2>4, <2>8, <2>10, <2>11 DEF csize, usize
  <2>15. Decoding(t)
    BY <1>1, <1>2, <2>10, <2>11, <2>12, <2>13, <2>14 DEF Decoding
  <2>16. Sound(t)
    <3>1. Len(w) <= s.size  BY <1>3, <2>4, <2>7 DEF room
    <3>2. s.position >= -1  BY DEF Sound
    <3> QED BY <1>1, <2>11, <2>15, <3>1, <3>2 DEF Sound, SameBuffer
  <2>17. Decoded(t) = Decoded(s) + k
    <3>1. t.dec.blk = s.iter /\ t.dec.made = made + k
      BY <1>2, <2>10, <2>11
    <3>2. Decoded(s) = Start[s.iter] + made  BY <1>2 DEF Decoded, made
    <3> QED BY <1>2, <2>1, <2>4, <3>1, <3>2 DEF Decoded
  <2>18. Appended(s, t)
    BY <2>4, <2>7, <2>11, <2>17 DEF Appended, w, b
  <2> QED BY <1>2, <2>5, <2>10, <2>11, <2>14, <2>16, <2>18
      DEF i, k, Unfinished
<1>5. ASSUME NEW u, Sound(u), SameBuffer(s, u), u.position = s.position,
             u.iter = s.iter, Appended(s, u), s.iter \in Damaged
      PROVE  LET t == [u EXCEPT !.dec.bad = TRUE]
             IN  /\ Sound(t) /\ SameBuffer(s, t) /\ t.position = s.position
                 /\ t.iter = s.iter /\ Appended(s, t)
  <2> DEFINE d == [u.dec EXCEPT !.bad = TRUE]
             t == [u EXCEPT !.dec = d]
  <2>1. u \in StateType  BY <1>5 DEF Sound
  <2>2. /\ d \in [blk : 0..NumEntries, used : Nat, made : Nat, bad : BOOLEAN]
        /\ d.blk = u.dec.blk /\ d.used = u.dec.used /\ d.made = u.dec.made
    BY <2>1 DEF StateType
  <2>3. t = [u EXCEPT !.dec.bad = TRUE]  BY <2>1 DEF StateType
  <2> HIDE DEF d
  <2>4. /\ t \in StateType /\ SameOutput(u, t) /\ t.position = u.position
        /\ t.iter = u.iter /\ t.in = u.in /\ t.dec = d /\ t.reader = u.reader
    BY <2>1, <2>2 DEF StateType, SameOutput, SameBuffer
  <2> HIDE DEF t
  <2>5. Decoding(u) => Decoding(t)
    BY <1>5, <2>2, <2>4 DEF Decoding, Fed, InSync
  <2>6. Sound(t)  BY <1>5, <2>4, <2>5 DEF Sound, SameOutput, SameBuffer
  <2>7. Appended(s, t)
    BY <1>5, <2>2, <2>4 DEF Appended, Decoded, SameOutput
  <2> QED BY <1>5, <2>3, <2>4, <2>6, <2>7 DEF SameOutput, SameBuffer
<1>6. Appended(s, s)  BY <1>1, <1>2, AppendedNothing
<1>7. CASE /\ r = Outcome("data", [s EXCEPT !.dec.bad = TRUE])
           /\ s.iter \in Damaged
  BY <1>5, <1>6, <1>7 DEF Outcome, SameBuffer
<1>8. CASE \E io \in Progress(s) :
             LET t == Consumed(s, io[1], io[2])
             IN  r = Outcome(IF t.dec.used = CSize[t.dec.blk]
                             THEN "streamEnd" ELSE "ok", t)
  BY <1>4, <1>8 DEF Outcome
<1>9. CASE /\ \E io \in Progress(s) :
                LET t == Consumed(s, io[1], io[2])
                IN  r = Outcome("data", [t EXCEPT !.dec.bad = TRUE])
           /\ s.iter \in Damaged
  <2>1. PICK io \in Progress(s) :
           r = Outcome("data", [Consumed(s, io[1], io[2]) EXCEPT !.dec.bad = TRUE])
    BY <1>9
  <2> DEFINE u == Consumed(s, io[1], io[2])
  <2>2. /\ Sound(u) /\ SameBuffer(s, u) /\ u.position = s.position
        /\ u.iter = s.iter /\ Appended(s, u)
    BY <1>4
  <2>3. r.status = "data" /\ r.s = [u EXCEPT !.dec.bad = TRUE]
    BY <2>1 DEF Outcome
  <2> HIDE DEF u
  <2> QED BY <1>5, <1>9, <2>2, <2>3
<1>10. s.dec.bad => s.iter \in Damaged  BY <1>1 DEF Decoding
<1> QED BY <1>1, <1>2, <1>7, <1>8, <1>9, <1>10 DEF Code

(* One turn of a decoding loop. *)
LEMMA FillAndCodeFacts ==
  ASSUME NEW s, Sound(s), s.position >= 0,
         NEW f \in BOOLEAN, NEW r \in FillAndCode(s, f)
  PROVE  /\ r.status \in {"ok", "streamEnd", "io", "eof", "data"}
         /\ r.status \in Faults => f
         /\ Sound(r.s) /\ SameBuffer(s, r.s)
         /\ r.s.position = s.position /\ r.s.iter = s.iter
         /\ Appended(s, r.s)
         /\ r.status = "streamEnd" => r.s.dec.made = USize[s.iter]
         /\ r.status = "ok" => Unfinished(r.s)
         /\ r.status \in {"eof", "data"} /\ Unfinished(s) =>
              s.iter \in Damaged
<1>1. s \in StateType /\ Decoding(s) /\ Fed(s)  BY DEF Sound, Decoding
<1>2. PICK q \in FillInputBuffer(s, f) :
         r \in IF q.status # "ok" THEN {q}
               ELSE IF q.s.in.n = 0 THEN {Outcome("eof", q.s)}
               ELSE Code(q.s)
  BY DEF FillAndCode
<1>3. /\ q.status \in {"ok", "io"}
      /\ q.status = "io" => f
      /\ q.s \in StateType /\ Fed(q.s) /\ SameOutput(s, q.s)
      /\ q.s.position = s.position /\ q.s.iter = s.iter /\ q.s.dec = s.dec
      /\ q.s.in.blk = s.in.blk /\ q.s.in.pos = s.in.pos
      /\ q.status = "ok" /\ q.s.in.n = 0 => q.s.in.pos = InLen[q.s.in.blk]
  BY <1>1, FillInputBufferFacts
<1>4. Decoding(q.s)  BY <1>1, <1>3 DEF Decoding, InSync
<1>5. Sound(q.s) /\ SameBuffer(s, q.s)
  BY <1>3, <1>4 DEF Sound, SameOutput, SameBuffer
<1>6. Decoded(q.s) = Decoded(s) /\ q.s.out = s.out
  BY <1>3 DEF Decoded, SameOutput
<1>7. Appended(s, q.s)  BY <1>1, <1>6, AppendedNothing DEF Decoding
<1>8. CASE q.status # "ok" /\ r = q
  BY <1>3, <1>5, <1>7, <1>8
<1>9. CASE r = Outcome("eof", q.s) /\ q.status = "ok" /\ q.s.in.n = 0
  <2>1. r.status = "eof" /\ r.s = q.s  BY <1>9 DEF Outcome
  <2>2. /\ s.iter \in Entries /\ s.dec.used = InLen[s.iter]
    BY <1>1, <1>3, <1>9 DEF Decoding, InSync
  <2>3. s.iter \notin Damaged => InLen[s.iter] >= CSize[s.iter]
    BY <2>2, IndexAssumption
  <2>4. InLen[s.iter] \in Nat /\ CSize[s.iter] \in Nat
    BY <2>2, ReaderAssumption
  <2>5. Unfinished(s) => s.iter \in Damaged
    BY <2>2, <2>3, <2>4 DEF Unfinished
  <2> QED BY <1>3, <1>5, <1>7, <2>1, <2>5 DEF Faults
<1>10. CASE r \in Code(q.s)
  <2>1. q.s.position >= 0  BY <1>3
  <2>2. /\ r.status \in {"ok", "streamEnd", "data"}
        /\ Sound(r.s) /\ SameBuffer(q.s, r.s)
        /\ r.s.position = q.s.position /\ r.s.iter = q.s.iter
        /\ Appended(q.s, r.s)
        /\ r.status = "streamEnd" => r.s.dec.made = USize[q.s.iter]
        /\ r.status = "ok" => Unfinished(r.s)
        /\ r.status = "data" => q.s.iter \in Damaged
    BY <1>5, <1>10, <2>1, CodeFacts
  <2>3. Appended(s, r.s)  BY <1>6, <2>2 DEF Appended
  <2> QED BY <1>3, <1>5, <2>2, <2>3 DEF SameBuffer, Faults
<1> QED BY <1>2, <1>8, <1>9, <1>10

-----------------------------------------------------------------------------
(* The helpers keep a state object sound.                                  *)

LEMMA SoundFields ==
  ASSUME NEW s, Sound(s)
  PROVE  /\ s \in StateType /\ s.position \in Int /\ s.position >= -1
         /\ s.size \in Nat /\ s.size > 0 /\ Len(s.out) \in Nat
         /\ s.out \in Seq(Nat) /\ Len(s.out) <= s.size
BY Fields DEF Sound

LEMMA NewStateSound ==
  /\ Sound(NewState) /\ NewState.position = -1 /\ NewState.out = << >>
  /\ DefaultBuffer(NewState)
<1>1. NewState \in StateType
  BY ReaderAssumption, EmptySeq
     DEF NewState, StateType, NoDecoder, BufferKinds
<1> QED BY <1>1, ReaderAssumption, EmptySeq DEF NewState, Sound, DefaultBuffer

LEMMA DiscardSound ==
  ASSUME NEW s, Sound(s)
  PROVE  LET t == DiscardOutput(s)
         IN  /\ Sound(t) /\ SameStream(s, t) /\ SameBuffer(s, t)
             /\ t.out = << >> /\ AvailOut(t) > 0
             /\ t.position = IF s.position >= 0
                             THEN s.position + Len(s.out) ELSE s.position
<1> DEFINE t == DiscardOutput(s)
<1>1. /\ s \in StateType /\ s.position \in Int /\ s.position >= -1
      /\ s.size \in Nat /\ s.size > 0 /\ Len(s.out) \in Nat
  BY SoundFields
<1>2. /\ t \in StateType /\ SameStream(s, t) /\ SameBuffer(s, t)
      /\ t.out = << >> /\ Len(t.out) = 0
      /\ t.position = IF s.position >= 0
                      THEN s.position + Len(s.out) ELSE s.position
  BY <1>1, DiscardOutputFacts
<1> HIDE DEF t
<1>3. t.size = s.size  BY <1>2 DEF SameBuffer
<1>4. t.position >= -1 /\ (t.position >= 0 => s.position >= 0)
  BY <1>1, <1>2
<1>5. t.position >= 0 => Decoding(t)
  BY <1>2, <1>4, SameStreamDecoding DEF Sound
<1>6. Sound(t) /\ AvailOut(t) > 0
  BY <1>1, <1>2, <1>3, <1>4, <1>5 DEF Sound, AvailOut
<1> QED BY <1>2, <1>6 DEF t

LEMMA SelectSound ==
  ASSUME NEW s, Sound(s), NEW b \in BufferKinds, NEW n \in Nat, n > 0
  PROVE  LET t == SelectBuffer(s, b, n)
         IN  /\ Sound(t) /\ SameStream(s, t) /\ t.buf = b /\ t.size = n
             /\ t.out = << >> /\ AvailOut(t) > 0
             /\ t.position = IF s.position >= 0
                             THEN s.position + Len(s.out) ELSE s.position
<1> DEFINE t == SelectBuffer(s, b, n)
<1>1. /\ s \in StateType /\ s.position \in Int /\ s.position >= -1
      /\ Len(s.out) \in Nat
  BY SoundFields
<1>2. /\ t \in StateType /\ SameStream(s, t) /\ t.buf = b /\ t.size = n
      /\ t.out = << >> /\ Len(t.out) = 0
      /\ t.position = IF s.position >= 0
                      THEN s.position + Len(s.out) ELSE s.position
  BY <1>1, SelectBufferFacts
<1> HIDE DEF t
<1>3. t.position >= -1 /\ (t.position >= 0 => s.position >= 0)
  BY <1>1, <1>2
<1>4. t.position >= 0 => Decoding(t)
  BY <1>2, <1>3, SameStreamDecoding DEF Sound
<1>5. Sound(t) /\ AvailOut(t) > 0
  BY <1>2, <1>3, <1>4 DEF Sound, AvailOut
<1> QED BY <1>2, <1>5 DEF t

LEMMA SelectDefaultSound ==
  ASSUME NEW s, Sound(s)
  PROVE  LET t == SelectDefaultBuffer(s)
         IN  /\ Sound(t) /\ SameStream(s, t) /\ t.buf = "default"
             /\ \/ t = s /\ s.buf = "default"
                \/ /\ t.out = << >> /\ t.size = BufSize
                   /\ t.position = IF s.position >= 0
                                   THEN s.position + Len(s.out) ELSE s.position
             /\ DefaultBuffer(s) => t = s
             /\ s.buf # "default" => t.out = << >> /\ t.size = BufSize
<1>1. "default" \in BufferKinds /\ BufSize \in Nat /\ BufSize > 0
  BY ReaderAssumption DEF BufferKinds
<1>2. CASE SelectDefaultBuffer(s) = s /\ s.buf = "default"
  BY <1>2 DEF SameStream
<1>3. CASE /\ SelectDefaultBuffer(s) = SelectBuffer(s, "default", BufSize)
           /\ s.buf # "default" \/ s.size # BufSize
  <2> DEFINE t == SelectBuffer(s, "default", BufSize)
  <2>1. /\ Sound(t) /\ SameStream(s, t) /\ t.buf = "default"
        /\ t.size = BufSize /\ t.out = << >>
        /\ t.position = IF s.position >= 0
                        THEN s.position + Len(s.out) ELSE s.position
    BY <1>1, SelectSound
  <2>2. ~DefaultBuffer(s)  BY <1>3 DEF DefaultBuffer
  <2> HIDE DEF t
  <2> QED BY <1>3, <2>1, <2>2 DEF t
<1> QED BY <1>2, <1>3 DEF SelectDefaultBuffer

LEMMA ReleasedSound ==
  ASSUME NEW s, Sound(s)
  PROVE  LET t == Released(s)
         IN  /\ Sound(t) /\ SameStream(s, t) /\ t.size = s.size
             /\ t.out = s.out /\ t.position = s.position
             /\ t.buf = IF s.buf = "caller" THEN "stale" ELSE s.buf
<1>1. s \in StateType  BY DEF Sound
<1>2. CASE s.buf # "caller"
  BY <1>2 DEF Released, SameStream
<1>3. CASE s.buf = "caller"
  <2> DEFINE t == [s EXCEPT !.buf = "stale"]
  <2>1. /\ t \in StateType /\ SameStream(s, t) /\ t.size = s.size
        /\ t.out = s.out /\ t.position = s.position /\ t.buf = "stale"
    BY <1>1 DEF StateType, SameStream, BufferKinds
  <2>2. t = Released(s)  BY <1>3 DEF Released
  <2> HIDE DEF t
  <2>3. Sound(t)  BY <2>1, SameStreamDecoding DEF Sound
  <2> QED BY <1>3, <2>1, <2>2, <2>3
<1> QED BY <1>2, <1>3

-----------------------------------------------------------------------------
(* How a step of a call ends, with any sound object t                      *)

LEMMA ReturnReuse ==
  ASSUME ReuseInv, NEW status, NEW data, NEW t, Sound(t),
         Return(status, data, t)
  PROVE  ReuseInv'
<1>1. state' = Released(t) /\ pc' = "idle" /\ toSkip' = 0
      /\ live' = live /\ call' = call
  BY DEF Return
<1>2. Sound(state')  BY <1>1, ReleasedSound
<1> QED BY <1>1, <1>2 DEF ReuseInv, Stage, Running

LEMMA FailReuse ==
  ASSUME ReuseInv, NEW r, Sound(r.s), Fail(r) PROVE ReuseInv'
BY ReturnReuse DEF Fail

LEMMA ContinueReuse ==
  ASSUME ReuseInv, pc # "idle", NEW at \in Running, NEW skip \in Nat,
         NEW t, Sound(t), Stage(at, t, skip), Continue(at, skip, t)
  PROVE  ReuseInv'
<1>1. state' = t /\ pc' = at /\ toSkip' = skip /\ live' = live /\ call' = call
  BY DEF Continue
<1> QED BY <1>1 DEF ReuseInv, Running

LEMMA CallFields ==
  ASSUME NEW c \in Calls
  PROVE  /\ c.offset \in Offsets /\ c.offset \in Int
         /\ c.length \in Nat /\ c.length > 0
         /\ c.op \in {"read", "readInto"}
BY CallsAssumption, ReaderAssumption

LEMMA MayFaultBoolean == MayFault \in BOOLEAN
BY DEF MayFault

LEMMA ReadLoopReuse ==
  ASSUME ReuseInv, pc # "idle", NEW t, Sound(t), t.position >= 0,
         t.buf = "default", ReadLoop(t)
  PROVE  ReuseInv'
<1> DEFINE u == DiscardOutput(t)
           overlap == t.position + AvailableBytes(t) - call.offset
<1>1. CASE Return("ok", HandedOut(t, overlap), t)
  BY <1>1, ReturnReuse
<1>2. CASE Continue("decode", 0, u)
  <2>1. /\ Sound(u) /\ u.buf = "default" /\ u.out = << >>
        /\ AvailOut(u) > 0 /\ u.position >= 0
    <3>1. t.position \in Int /\ Len(t.out) \in Nat  BY SoundFields
    <3> QED BY <3>1, DiscardSound DEF SameBuffer
  <2> HIDE DEF u
  <2>2. Stage("decode", u, 0)  BY <2>1 DEF Stage
  <2> QED BY <1>2, <2>1, <2>2, ContinueReuse DEF Running
<1> QED BY <1>1, <1>2 DEF ReadLoop

LEMMA FillCallerReuse ==
  ASSUME ReuseInv, pc # "idle", NEW t, Sound(t), t.position >= 0, FillCaller(t)
  PROVE  ReuseInv'
<1> DEFINE u == SelectBuffer(t, "caller", call.length)
<1>1. Continue("fill", 0, u)  BY DEF FillCaller
<1>2. call.length \in Nat /\ call.length > 0  BY CallFields DEF ReuseInv
<1>3. t.position \in Int /\ Len(t.out) \in Nat  BY SoundFields
<1>6. "caller" \in BufferKinds  BY DEF BufferKinds
<1>7. /\ Sound(u) /\ u.buf = "caller" /\ AvailOut(u) > 0
      /\ u.position = IF t.position >= 0
                      THEN t.position + Len(t.out) ELSE t.position
  BY <1>2, <1>6, SelectSound
<1>4. /\ Sound(u) /\ u.buf = "caller" /\ AvailOut(u) > 0
      /\ u.position = t.position + Len(t.out)
  BY <1>7
<1> HIDE DEF u
<1>5. Stage("fill", u, 0)  BY <1>3, <1>4 DEF Stage
<1> QED BY <1>1, <1>4, <1>5, ContinueReuse DEF Running

LEMMA SkipLoopReuse ==
  ASSUME ReuseInv, pc # "idle", NEW t, Sound(t), t.position >= 0,
         t.buf = "default", t.out = << >>, NEW skip \in Int, SkipLoop(t, skip)
  PROVE  ReuseInv'
<1>1. /\ t.position \in Int /\ Len(t.out) \in Nat
      /\ t.size \in Nat /\ t.size > 0 /\ Len(t.out) = 0
  BY SoundFields, EmptySeq
<1>3. ASSUME NEW b \in BufferKinds, NEW n \in Nat, n > 0
      PROVE  LET u == SelectBuffer(t, b, n)
             IN  /\ Sound(u) /\ u.buf = b /\ u.out = << >>
                 /\ AvailOut(u) > 0 /\ u.position >= 0
  BY <1>1, <1>3, SelectSound
<1>4. CASE skip > 0
  <2> DEFINE u == IF AvailOut(t) > skip
                  THEN SelectBuffer(t, "default", skip) ELSE t
  <2>1. Continue("skip", skip, u)  BY <1>4 DEF SkipLoop
  <2>2. /\ Sound(u) /\ u.buf = "default" /\ AvailOut(u) > 0
        /\ u.position >= 0
    BY <1>1, <1>3, <1>4 DEF BufferKinds, AvailOut
  <2> HIDE DEF u
  <2>3. Stage("skip", u, skip) /\ skip \in Nat  BY <1>4, <2>2 DEF Stage
  <2> QED BY <2>1, <2>2, <2>3, ContinueReuse DEF Running
<1>5. CASE ~(skip > 0)  BY <1>5, FillCallerReuse DEF SkipLoop
<1> QED BY <1>4, <1>5

-----------------------------------------------------------------------------
(* Every step of any caller keeps the state object sound.                  *)

LEMMA StartSound ==
  ASSUME ReuseInv, pc = "start",
         NEW r \in SeekBlockFor(SelectDefaultBuffer(state), call.offset, MayFault)
  PROVE  /\ Sound(r.s) /\ r.s.buf = "default"
         /\ r.status = "ok" => r.s.position >= 0
<1> DEFINE d == SelectDefaultBuffer(state)
<1>1. Sound(state) /\ call.offset \in Offsets /\ call.offset \in Int
  BY CallFields DEF ReuseInv
<1>2. Sound(d) /\ d.buf = "default"  BY <1>1, SelectDefaultSound
<1> HIDE DEF d
<1>3. r \in SeekBlockFor(d, call.offset, MayFault)  BY DEF d
<1>4. /\ Sound(r.s) /\ SameBuffer(d, r.s)
      /\ r.status = "ok" =>
           \/ r.s = d /\ InBlock(d, call.offset) /\ d.position <= call.offset
           \/ /\ r.s.out = << >> /\ r.s.dec.blk = r.s.iter
              /\ r.s.dec.made = 0
              /\ r.s.position = Start[r.s.iter]
              /\ \/ /\ InBlock(d, call.offset) /\ r.s.iter = d.iter
                    /\ d.position > call.offset
                 \/ /\ ~InBlock(d, call.offset)
                    /\ r.s.iter = Locate(call.offset) /\ Locate(call.offset) # 0
  BY <1>1, <1>2, <1>3, MayFaultBoolean, SeekBlockForFacts
<1>5. ASSUME r.status = "ok" PROVE r.s.position >= 0
  <2>1. CASE r.s = d /\ InBlock(d, call.offset)
    BY <2>1 DEF InBlock
  <2>2. ASSUME r.s.position = Start[r.s.iter], r.s.iter \in Entries
        PROVE  r.s.position >= 0
    BY <2>2, ReaderAssumption
  <2>3. InBlock(d, call.offset) => d.iter \in Entries
    BY <1>2 DEF InBlock, Sound, Decoding
  <2>4. Locate(call.offset) # 0 => Locate(call.offset) \in Entries
    BY <1>1, IndexAssumption, ReaderAssumption DEF Entries
  <2> QED BY <1>4, <1>5, <2>1, <2>2, <2>3, <2>4
<1> QED BY <1>2, <1>4, <1>5 DEF SameBuffer

LEMMA TurnSound ==
  ASSUME ReuseInv, pc \in Running, NEW r \in FillAndCode(state, MayFault)
  PROVE  /\ Sound(r.s) /\ SameBuffer(state, r.s)
         /\ r.s.position = state.position /\ r.s.position >= 0
         /\ r.s.iter = state.iter /\ r.s.iter \in Entries
<1>1. Sound(state) /\ state.position >= 0
  BY DEF ReuseInv, Stage
<1>2. state.iter \in Entries  BY <1>1 DEF Sound, Decoding
<1> QED BY <1>1, <1>2, MayFaultBoolean, FillAndCodeFacts

LEMMA NextSound ==
  ASSUME NEW s, Sound(s), s.iter \in Entries, NEW n \in LoadNextBlock(s, MayFault)
  PROVE  /\ Sound(n.s) /\ SameOutput(s, n.s)
         /\ n.status = "ok" => n.s.position >= 0
<1>1. /\ Sound(n.s) /\ SameOutput(s, n.s)
      /\ n.status = "ok" => /\ NextEntry[s.iter] # 0
                            /\ n.s.iter = NextEntry[s.iter]
                            /\ n.s.position = Start[n.s.iter]
  BY MayFaultBoolean, LoadNextBlockFacts
<1>2. NextEntry[s.iter] # 0 => NextEntry[s.iter] \in Entries
  <2>1. NextEntry[s.iter] \in 0..NumEntries /\ NumEntries \in Nat
    BY ReaderAssumption
  <2> QED BY <2>1 DEF Entries
<1>3. n.status = "ok" => n.s.position \in Nat
  BY <1>1, <1>2, ReaderAssumption
<1> QED BY <1>1, <1>3

LEMMA InitReuse == Init => ReuseInv
<1> SUFFICES ASSUME Init PROVE ReuseInv  OBVIOUS
<1>1. Sound(state)  BY NewStateSound DEF Init
<1>2. pc = "idle" /\ toSkip = 0 /\ live = FALSE /\ call = Contract!NoCall
  BY DEF Init
<1>3. Stage(pc, state, toSkip)  BY <1>2 DEF Stage, Running
<1>4. live \in BOOLEAN /\ call \in Calls \union {Contract!NoCall}
  BY <1>2
<1>5. pc \in {"idle", "start"} \union Running /\ toSkip \in Nat
  BY <1>2
<1>6. pc # "idle" => call \in Calls
  BY <1>2
<1> QED BY <1>1, <1>3, <1>4, <1>5, <1>6 DEF ReuseInv

LEMMA StartReadReuse == ReuseInv /\ StartRead => ReuseInv'
<1> SUFFICES ASSUME ReuseInv, StartRead PROVE ReuseInv'  OBVIOUS
<1>1. pc = "start" /\ pc # "idle"  BY DEF StartRead
<1>2. PICK r \in SeekBlockFor(SelectDefaultBuffer(state), call.offset, MayFault) :
         Fail(r) \/ (r.status = "ok" /\ ReadLoop(r.s))
  BY DEF StartRead
<1>3. Sound(r.s) /\ r.s.buf = "default" /\ (r.status = "ok" => r.s.position >= 0)
  BY <1>1, StartSound
<1>4. CASE Fail(r)  BY <1>3, <1>4, FailReuse
<1>5. CASE r.status = "ok" /\ ReadLoop(r.s)
  BY <1>1, <1>3, <1>5, ReadLoopReuse
<1> QED BY <1>2, <1>4, <1>5

LEMMA StartReadIntoReuse == ReuseInv /\ StartReadInto => ReuseInv'
<1> SUFFICES ASSUME ReuseInv, StartReadInto PROVE ReuseInv'  OBVIOUS
<1>1. pc = "start" /\ pc # "idle"  BY DEF StartReadInto
<1>2. PICK r \in SeekBlockFor(SelectDefaultBuffer(state), call.offset, MayFault) :
         \/ Fail(r)
         \/ /\ r.status = "ok"
            /\ LET skip == call.offset - r.s.position + AvailableBytes(r.s)
               IN  SkipLoop(IF skip > 0 THEN DiscardOutput(r.s) ELSE r.s, skip)
  BY DEF StartReadInto
<1>3. Sound(r.s) /\ r.s.buf = "default" /\ (r.status = "ok" => r.s.position >= 0)
  BY <1>1, StartSound
<1>4. CASE Fail(r)  BY <1>3, <1>4, FailReuse
<1>5. CASE r.status = "ok" /\ ~Fail(r)
  <2> DEFINE skip == call.offset - r.s.position + AvailableBytes(r.s)
             t == IF skip > 0 THEN DiscardOutput(r.s) ELSE r.s
  <2>1. SkipLoop(t, skip)  BY <1>2, <1>5
  <2>2. call \in Calls  BY <1>1 DEF ReuseInv
  <2>3. call.offset \in Int  BY <2>2, CallFields
  <2>4. r.s.position \in Int /\ Len(r.s.out) \in Nat /\ r.s.out \in Seq(Nat)
    BY <1>3, SoundFields
  <2>5. skip \in Int  BY <2>3, <2>4 DEF AvailableBytes
  <2>6. CASE skip > 0
    <3>1. Sound(t) /\ t.position >= 0 /\ t.buf = "default"
      BY <1>3, <1>5, <2>4, <2>6, DiscardSound DEF SameBuffer
    <3>2. t.out = << >>  BY <1>3, <2>6, DiscardSound
    <3> HIDE DEF t, skip
    <3> QED BY <1>1, <2>1, <2>5, <3>1, <3>2, SkipLoopReuse
  <2>7. CASE ~(skip > 0)
    <3>1. FillCaller(r.s)  BY <2>1, <2>7 DEF SkipLoop
    <3> QED BY <1>1, <1>3, <1>5, <3>1, FillCallerReuse
  <2> QED BY <2>6, <2>7
<1> QED BY <1>2, <1>4, <1>5

LEMMA DecodeReuse == ReuseInv /\ Decode => ReuseInv'
<1> SUFFICES ASSUME ReuseInv, Decode PROVE ReuseInv'  OBVIOUS
<1>1. pc = "decode" /\ pc # "idle" /\ pc \in Running
  BY DEF Decode, Running
<1>2. PICK r \in FillAndCode(state, MayFault) :
         \/ Fail(r)
         \/ /\ r.status = "streamEnd" /\ r.s.out = << >>
            /\ \E n \in LoadNextBlock(r.s, MayFault) :
                  Fail(n) \/ (n.status = "ok" /\ Continue("decode", 0, n.s))
         \/ /\ r.status = "ok" \/ (r.status = "streamEnd" /\ r.s.out # << >>)
            /\ ReadLoop(r.s)
  BY DEF Decode
<1>3. /\ Sound(r.s) /\ r.s.buf = "default" /\ r.s.position >= 0
      /\ r.s.iter \in Entries
  BY <1>1, TurnSound DEF SameBuffer, ReuseInv, Stage
<1>4. CASE Fail(r)  BY <1>3, <1>4, FailReuse
<1>5. CASE /\ r.s.out = << >>
           /\ \E n \in LoadNextBlock(r.s, MayFault) :
                 Fail(n) \/ (n.status = "ok" /\ Continue("decode", 0, n.s))
  <2>1. PICK n \in LoadNextBlock(r.s, MayFault) :
           Fail(n) \/ (n.status = "ok" /\ Continue("decode", 0, n.s))
    BY <1>5
  <2>2. /\ Sound(n.s) /\ SameOutput(r.s, n.s)
        /\ n.status = "ok" => n.s.position >= 0
    BY <1>3, NextSound
  <2>3. CASE Fail(n)  BY <2>2, <2>3, FailReuse
  <2>4. CASE n.status = "ok" /\ Continue("decode", 0, n.s)
    <3>1. n.s.buf = "default" /\ n.s.out = << >>
      BY <1>3, <1>5, <2>2 DEF SameOutput, SameBuffer
    <3>2. AvailOut(n.s) > 0
      BY <2>2, <3>1, SoundFields, EmptySeq DEF AvailOut
    <3>3. Stage("decode", n.s, 0)  BY <2>2, <2>4, <3>1, <3>2 DEF Stage
    <3> QED BY <1>1, <2>2, <2>4, <3>3, ContinueReuse
  <2> QED BY <2>1, <2>3, <2>4
<1>6. CASE ReadLoop(r.s)  BY <1>1, <1>3, <1>6, ReadLoopReuse
<1> QED BY <1>2, <1>4, <1>5, <1>6

LEMMA FillBufferReuse == ReuseInv /\ FillBuffer => ReuseInv'
<1> SUFFICES ASSUME ReuseInv, FillBuffer PROVE ReuseInv'  OBVIOUS
<1>1. pc \in {"skip", "fill"} /\ pc # "idle" /\ pc \in Running
  BY DEF FillBuffer, Running
<1>2. PICK r \in FillAndCode(state, MayFault) :
         \/ Fail(r)
         \/ /\ r.status \in {"ok", "streamEnd"} /\ AvailOut(r.s) = 0
            /\ IF pc = "skip"
               THEN SkipLoop(DiscardOutput(r.s), toSkip - AvailableBytes(r.s))
               ELSE Return("ok", r.s.out, r.s)
         \/ /\ r.status = "streamEnd" /\ AvailOut(r.s) > 0
            /\ \E n \in LoadNextBlock(r.s, MayFault) :
                  Fail(n) \/ (n.status = "ok" /\ Continue(pc, toSkip, n.s))
         \/ /\ r.status = "ok" /\ AvailOut(r.s) > 0
            /\ Continue(pc, toSkip, r.s)
  BY DEF FillBuffer
<1>3. /\ Sound(r.s) /\ SameBuffer(state, r.s) /\ r.s.position >= 0
      /\ r.s.iter \in Entries
  BY <1>1, TurnSound
<1>4. toSkip \in Nat  BY DEF ReuseInv
<1>5. ASSUME NEW t, Sound(t), SameBuffer(state, t), t.position >= 0,
             AvailOut(t) > 0
      PROVE  Stage(pc, t, toSkip)
  BY <1>1, <1>5 DEF ReuseInv, Stage, SameBuffer
<1>6. CASE Fail(r)  BY <1>3, <1>6, FailReuse
<1>7. CASE /\ pc = "skip"
           /\ SkipLoop(DiscardOutput(r.s), toSkip - AvailableBytes(r.s))
  <2> DEFINE t == DiscardOutput(r.s)  skip == toSkip - AvailableBytes(r.s)
  <2>1. r.s.position \in Int /\ Len(r.s.out) \in Nat  BY <1>3, SoundFields
  <2>2. skip \in Int  BY <1>4, <2>1 DEF AvailableBytes
  <2>3. r.s.buf = "default"  BY <1>3, <1>7 DEF ReuseInv, Stage, SameBuffer
  <2>4. /\ Sound(t) /\ t.position >= 0 /\ t.buf = "default" /\ t.out = << >>
    BY <1>3, <2>1, <2>3, DiscardSound DEF SameBuffer
  <2> HIDE DEF t
  <2>5. SkipLoop(t, skip)  BY <1>7 DEF t
  <2> HIDE DEF skip
  <2> QED BY <1>1, <2>2, <2>4, <2>5, SkipLoopReuse
<1>8. CASE Return("ok", r.s.out, r.s)  BY <1>3, <1>8, ReturnReuse
<1>9. CASE /\ AvailOut(r.s) > 0
           /\ \E n \in LoadNextBlock(r.s, MayFault) :
                 Fail(n) \/ (n.status = "ok" /\ Continue(pc, toSkip, n.s))
  <2>1. PICK n \in LoadNextBlock(r.s, MayFault) :
           Fail(n) \/ (n.status = "ok" /\ Continue(pc, toSkip, n.s))
    BY <1>9
  <2>2. /\ Sound(n.s) /\ SameOutput(r.s, n.s)
        /\ n.status = "ok" => n.s.position >= 0
    BY <1>3, NextSound
  <2>3. CASE Fail(n)  BY <2>2, <2>3, FailReuse
  <2>4. CASE n.status = "ok" /\ Continue(pc, toSkip, n.s)
    <3>1. SameBuffer(state, n.s) /\ AvailOut(n.s) > 0
      BY <1>3, <1>9, <2>2 DEF SameOutput, SameBuffer, AvailOut
    <3>2. Stage(pc, n.s, toSkip)  BY <1>5, <2>2, <2>4, <3>1
    <3> QED BY <1>1, <1>4, <2>2, <2>4, <3>2, ContinueReuse
  <2> QED BY <2>1, <2>3, <2>4
<1>10. CASE AvailOut(r.s) > 0 /\ Continue(pc, toSkip, r.s)
  BY <1>1, <1>3, <1>4, <1>5, <1>10, ContinueReuse
<1> QED BY <1>2, <1>6, <1>7, <1>8, <1>9, <1>10

LEMMA CallerReuse ==
  ReuseInv /\ (Finish \/ \E c \in Calls : Invoke(c)) => ReuseInv'
<1>1. ASSUME ReuseInv, Finish PROVE ReuseInv'
  BY <1>1, NewStateSound DEF Finish, ReuseInv, Stage, Running
<1>2. ASSUME ReuseInv, NEW c \in Calls, Invoke(c) PROVE ReuseInv'
  BY <1>2 DEF Invoke, ReuseInv, Stage, Running
<1> QED BY <1>1, <1>2

LEMMA NextReuse == ReuseInv /\ [NextAny]_vars => ReuseInv'
<1> SUFFICES ASSUME ReuseInv, [NextAny]_vars PROVE ReuseInv'  OBVIOUS
<1>1. CASE UNCHANGED vars  BY <1>1 DEF vars, ReuseInv
<1>2. CASE NextAny
  BY <1>2, StartReadReuse, DecodeReuse, StartReadIntoReuse, FillBufferReuse,
     CallerReuse DEF NextAny, Step
<1> QED BY <1>1, <1>2

(* Whatever sequence of calls a caller makes on one state object, however  *)
(* the calls fail: the object stays sound.                                 *)
THEOREM ReuseCorrect == SpecAny => []ReuseInv
BY InitReuse, NextReuse, PTL DEF SpecAny

(* The decoder is never given compressed data of another place.            *)
THEOREM InputStaysInSync == SpecAny => []InputInSync
<1>1. ReuseInv => InputInSync
  <2> SUFFICES ASSUME ReuseInv, pc \in {"decode", "skip", "fill"}
               PROVE  /\ InSync(state) /\ state.dec.blk = state.iter
                      /\ state.reader = [blk |-> state.in.blk,
                                         pos |-> state.in.pos + state.in.n]
    BY DEF InputInSync
  <2>1. Decoding(state) /\ state \in StateType
    BY DEF ReuseInv, Stage, Running, Sound
  <2>2. state.reader \in [blk : 0..NumEntries, pos : Nat]
    BY <2>1 DEF StateType
  <2> QED BY <2>1, <2>2 DEF Decoding, Fed
<1> QED BY <1>1, ReuseCorrect, PTL

(* The decoder never writes into storage of an earlier call.               *)
THEOREM NoStaleWrites == SpecAny => []NoStaleWrite
<1>1. ReuseInv => NoStaleWrite
  BY DEF ReuseInv, Stage, Running, NoStaleWrite
<1> QED BY <1>1, ReuseCorrect, PTL
=============================================================================
