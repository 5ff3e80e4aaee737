--------------------------- MODULE ContractProofs ---------------------------
(***************************************************************************)
(* BlockReader for the callers of the repository: every successful call    *)
(* delivers the bytes at its offset, for every index whose blocks continue *)
(* each other.                                                             *)
(***************************************************************************)
EXTENDS BlockReaderProofs

-----------------------------------------------------------------------------
(* Arithmetic of a sound state inside a block                              *)

(* A decoder stands inside its block, and the block inside the file. *)
LEMMA InsideBlock ==
  ASSUME NEW s, Sound(s), s.position >= 0
  PROVE  /\ s.iter \in Entries /\ s.dec.blk = s.iter
         /\ Start[s.iter] \in Nat /\ USize[s.iter] \in Nat
         /\ s.dec.made \in Nat /\ Decoded(s) \in Nat
         /\ Decoded(s) = Start[s.iter] + s.dec.made
         /\ BlockEnd(s.iter) \in Nat
         /\ BlockEnd(s.iter) = Start[s.iter] + USize[s.iter]
         /\ Start[s.iter] <= Decoded(s) /\ Decoded(s) <= BlockEnd(s.iter)
         /\ FileSize \in Nat /\ BlockEnd(s.iter) <= FileSize
<1>1. /\ s.iter \in Entries /\ s.dec.blk = s.iter
      /\ s.dec.made <= USize[s.iter]
  BY DEF Sound, Decoding
<1>2. s.dec.made \in Nat  BY Fields DEF Sound
<1>3. /\ Start[s.iter] \in Nat /\ USize[s.iter] \in Nat /\ FileSize \in Nat
      /\ BlockEnd(s.iter) <= FileSize
  BY <1>1, ReaderAssumption, IndexAssumption
<1>4. Decoded(s) = Start[s.iter] + s.dec.made  BY <1>1 DEF Decoded
<1>5. BlockEnd(s.iter) = Start[s.iter] + USize[s.iter]  BY DEF BlockEnd
<1> QED BY <1>1, <1>2, <1>3, <1>4, <1>5

(* A located block holds the offset. *)
LEMMA Located ==
  ASSUME NEW o \in Offsets, 0 <= o, o < FileSize
  PROVE  /\ Locate(o) \in Entries /\ Locate(o) # 0
         /\ Start[Locate(o)] <= o /\ o < BlockEnd(Locate(o))
<1>1. /\ Locate(o) # 0 /\ Start[Locate(o)] <= o /\ o < BlockEnd(Locate(o))
      /\ Locate(o) \in 0..NumEntries
  BY IndexAssumption
<1>2. Locate(o) \in Entries  BY <1>1, ReaderAssumption DEF Entries
<1> QED BY <1>1, <1>2

(* Where a block ends and the file does not, the block found there begins. *)
LEMMA LocatedAtEnd ==
  ASSUME NEW e \in Entries, NEW o \in Offsets,
         o = BlockEnd(e), o < FileSize, Start[e] < BlockEnd(e)
  PROVE  Start[Locate(o)] = o
<1> DEFINE f == Locate(o)
           se == Start[e]  sf == Start[f]  be == BlockEnd(e)  bf == BlockEnd(f)
<1>1. se \in Nat /\ USize[e] \in Nat /\ FileSize \in Nat /\ o \in Int
  BY ReaderAssumption
<1>2. be \in Nat /\ be = se + USize[e]  BY <1>1 DEF BlockEnd
<1>3. f \in Entries /\ sf <= o /\ o < bf
  BY <1>1, <1>2, Located
<1>4. sf \in Nat /\ USize[f] \in Nat /\ bf = sf + USize[f]
  BY <1>3, ReaderAssumption DEF BlockEnd
<1>5. se < bf /\ sf < be => se = sf /\ USize[e] = USize[f]
  BY <1>3, IndexAssumption
<1> HIDE DEF f, se, sf, be, bf
<1>6. o = be /\ se < be  BY DEF se, be
<1>7. sf = o  BY <1>1, <1>2, <1>3, <1>4, <1>5, <1>6
<1> QED BY <1>7 DEF sf, f

(* A decoder that stands before the end of its block is not finished. *)
LEMMA UnfinishedInside ==
  ASSUME NEW s, Sound(s), s.position >= 0, Decoded(s) < BlockEnd(s.iter)
  PROVE  Unfinished(s)
<1>1. s.dec.made < USize[s.iter]  BY InsideBlock
<1> QED BY <1>1 DEF Sound, Decoding, Unfinished

(* A call whose range leaves the file on either side is refused for it. *)
LEMMA OutsideFile ==
  ASSUME NEW c \in Calls, Locate(c.offset) = 0
  PROVE  ~Contract!InFile(c)
<1>1. /\ c.offset \in Offsets /\ c.offset \in Int
      /\ c.length \in Nat /\ c.length > 0
  BY CallFields
<1>2. ASSUME Contract!InFile(c) PROVE FALSE
  <2>1. 0 <= c.offset /\ c.offset < FileSize
    BY <1>1, <1>2, ReaderAssumption DEF Contract!InFile
  <2> QED BY <1>1, <2>1, Located
<1> QED BY <1>2

(* The buffer holds the contents from o on, up to where the decoder is. *)
Holds(s, o) == s.out = Bytes(o, Len(s.out)) /\ Decoded(s) = o + Len(s.out)

(* A turn of the decoder appends bytes that continue the contents. *)
LEMMA TurnAppends ==
  ASSUME NEW s, Sound(s), NEW t, Appended(s, t), NEW o \in Nat, Holds(s, o)
  PROVE  Holds(t, o)
<1> DEFINE n == Len(s.out)  d == Decoded(s)
<1>1. n \in Nat  BY SoundFields
<1>2. PICK k \in Nat : /\ t.out = s.out \o Bytes(d, k)
                       /\ Len(t.out) = n + k
                       /\ Decoded(t) = d + k
  BY DEF Appended
<1>3. s.out = Bytes(o, n) /\ d = o + n  BY DEF Holds
<1> HIDE DEF n, d
<1>4. t.out = Bytes(o, n) \o Bytes(o + n, k)  BY <1>2, <1>3
<1>5. t.out = Bytes(o, n + k)  BY <1>1, <1>4, BytesConcat
<1>6. Decoded(t) = o + (n + k)  BY <1>1, <1>2, <1>3
<1>7. Len(t.out) = n + k  BY <1>2
<1> QED BY <1>5, <1>6, <1>7 DEF Holds

(* What is handed out of a buffer that holds no more is its contents. *)
LEMMA HandedOutAll ==
  ASSUME NEW t, Sound(t), NEW o \in Nat, t.out = Bytes(o, Len(t.out))
  PROVE  HandedOut(t, Len(t.out)) = Bytes(o, Len(t.out))
<1> DEFINE n == Len(t.out)
<1>1. n \in Nat  BY SoundFields
<1>2. \A i \in 1..n : t.out[i] = o + i - 1
  <2>1. t.out = Bytes(o, n)  OBVIOUS
  <2> HIDE DEF n
  <2> QED BY <1>1, <2>1, BytesType
<1>3. HandedOut(t, n) = [i \in 1..n |-> IF i <= n THEN t.out[i] ELSE Unwritten]
  BY DEF HandedOut
<1> HIDE DEF n
<1>4. HandedOut(t, n) = [i \in 1..n |-> o + i - 1]  BY <1>1, <1>2, <1>3
<1> QED BY <1>4 DEF Bytes, n

-----------------------------------------------------------------------------
(* How a step of a call ends                                               *)

(* A call ends well if the state is ready for what its caller does next. *)
LEMMA ReturnCall ==
  ASSUME CallInv, pc # "idle", NEW status \in {"ok"} \union Failures,
         NEW data \in Seq(Nat), NEW t, Return(status, data, t),
         status # "ok" => data = << >>,
         status \in Faults => MayFault,
         status = "ok" =>
           /\ call.op = "read" => Len(data) \in 1..call.length
           /\ call.op = "readInto" => Len(data) = call.length,
         status = "ok" /\ Promised(call) =>
           /\ data = Bytes(call.offset, Len(data))
           /\ Contract!InFile([call EXCEPT !.length = Len(data)]),
         call.op = "read" /\ call.offset + Len(data) < FileSize =>
           ReadyToRead(Released(t), call.offset + Len(data)),
         call.op = "readInto" /\ status = "ok" /\ Promised(call) =>
           ReadyToReadInto(Released(t), call.offset + Len(data)),
         status \in {"eof", "data"} /\ Promised(call) => t.iter \in Damaged,
         status \in {"range", "end"} => ~Contract!InFile(call)
  PROVE  CallInv'
<1>1. /\ reply' = [status |-> status, data |-> data] /\ state' = Released(t)
      /\ pc' = "idle" /\ live' = live /\ call' = call
      /\ faults' = IF status \in Faults THEN faults + 1 ELSE faults
  BY DEF Return, Contract!Answer
<1>2. reply'.status = status /\ reply'.data = data
      /\ reply' \in [status : {"none", "pending", "ok"} \union Failures,
                     data : Seq(Nat)]
  BY <1>1
<1>3. live /\ call \in Calls /\ faults \in 0..MaxFaults
  BY DEF CallInv, Replies
<1>4. AtStages'  BY <1>1 DEF AtStages
<1>10. Promised(call') <=> Promised(call)  BY <1>1
<1>5. BetweenCalls'  BY <1>1, <1>2, <1>3, <1>10 DEF BetweenCalls, After
<1>6. faults' \in 0..MaxFaults
  BY <1>1, <1>3, CallsAssumption DEF MayFault
<1>7. Replies'
  BY <1>1, <1>2, <1>3, <1>6 DEF Replies, Failures, Faults
<1>8. AnswersExact'  BY <1>1, <1>2, <1>10 DEF AnswersExact
<1>9. ErrorsHaveCauses'
  <2>1. t.iter = Released(t).iter  BY DEF Released
  <2>2. status \in {"range", "end"} => ~Contract!InFile(call')  BY <1>1
  <2>3. status \in Faults => faults' > 0  BY <1>1, <1>3, CallsAssumption
  <2> QED BY <1>1, <1>2, <1>10, <2>1, <2>2, <2>3 DEF ErrorsHaveCauses
<1> QED BY <1>4, <1>5, <1>7, <1>8, <1>9 DEF CallInv

(* A call may fail where its caller can ask for the same again. *)
LEMMA FailCall ==
  ASSUME CallInv, pc # "idle", NEW r, Fail(r),
         r.status \in Faults => MayFault,
         r.status \in {"eof", "data"} /\ Promised(call) => r.s.iter \in Damaged,
         r.status \in {"range", "end"} => ~Contract!InFile(call),
         call.op = "read" => ReadyToRead(r.s, call.offset)
  PROVE  CallInv'
<1>1. r.status \in Failures /\ Return(r.status, << >>, r.s)  BY DEF Fail
<1>2. call.offset \in Int  BY CallFields DEF CallInv, Replies
<1>3. << >> \in Seq(Nat) /\ Len(<< >>) = 0 /\ call.offset + 0 = call.offset
  BY <1>2, EmptySeq
<1>4. call.op = "read" => ReadyToRead(Released(r.s), call.offset)
  BY DEF Released, ReadyToRead, DefaultBuffer
<1>5. r.status # "ok"  BY <1>1 DEF Failures, Faults
<1> QED BY <1>1, <1>3, <1>4, <1>5, ReturnCall

LEMMA ContinueCall ==
  ASSUME CallInv, pc # "idle", NEW at \in Running, NEW skip, NEW t,
         Continue(at, skip, t),
         at = "decode" => DecodeReady(t),
         at \in {"skip", "fill"} => call.op = "readInto",
         at = "fill" => t.size = call.length,
         Promised(call) =>
           /\ at = "skip" => SkipReady(t, skip)
           /\ at = "fill" => FillReady(t) /\ Unfinished(t)
  PROVE  CallInv'
<1>1. /\ state' = t /\ pc' = at /\ toSkip' = skip
      /\ live' = live /\ call' = call /\ reply' = reply /\ faults' = faults
  BY DEF Continue
<1>2. at \notin {"idle", "start"}  BY DEF Running
<1>3. AtStages'
  <2>1. Promised(call') <=> Promised(call)  BY <1>1
  <2> QED
    BY <1>1, <1>2, <2>1
    DEF AtStages, DecodeReady, SkipReady, FillReady, Unfinished
<1>4. BetweenCalls'  BY <1>1, <1>2 DEF BetweenCalls
<1>5. Replies'  BY <1>1, <1>2 DEF CallInv, Replies
<1>6. AnswersExact'  BY <1>1 DEF CallInv, AnswersExact
<1>7. ErrorsHaveCauses'
  BY <1>1 DEF CallInv, Replies, ErrorsHaveCauses, Faults
<1> QED BY <1>3, <1>4, <1>5, <1>6, <1>7 DEF CallInv

(* The answer of every read is known by its offset. *)
LEMMA ReadsPromised == ASSUME call.op = "read" PROVE Promised(call)
BY DEF Promised

-----------------------------------------------------------------------------
(* read()                                                                  *)

(* What the buffer holds may be handed out when the offset is position. *)
LEMMA AnswerRead ==
  ASSUME CallInv, pc # "idle", call.op = "read", ReadRequest(call),
         NEW t, Sound(t), t.position >= 0, DefaultBuffer(t), Tracks(t),
         t.position = call.offset, Len(t.out) > 0,
         Return("ok", HandedOut(t, Len(t.out)), t)
  PROVE  CallInv'
<1> DEFINE o == call.offset  n == Len(t.out)  data == HandedOut(t, n)
           be == BlockEnd(t.iter)
<1>1. /\ t.position \in Int /\ n \in Nat /\ n > 0 /\ n <= t.size
      /\ t.size = BufSize /\ BufSize \in Nat
  BY SoundFields, ReaderAssumption DEF DefaultBuffer
<1>2. o \in Nat /\ o = t.position  BY <1>1
<1>3. /\ Decoded(t) = o + n /\ Decoded(t) <= be /\ be <= FileSize
      /\ be \in Nat /\ FileSize \in Nat
  BY <1>2, InsideBlock DEF Tracks
<1>4. data = Bytes(o, n)
  BY <1>2, HandedOutAll DEF Tracks
<1>5. data \in Seq(Nat) /\ Len(data) = n  BY <1>1, <1>2, <1>4, BytesType
<1>6. call.length \in Nat /\ call \in Calls
  BY CallFields DEF CallInv, Replies
<1>7. n <= call.length
  <2>1. call.length >= Smaller(BufSize, FileSize - o)  BY DEF ReadRequest
  <2>2. n <= BufSize /\ n <= FileSize - o  BY <1>1, <1>2, <1>3
  <2> QED BY <1>1, <1>2, <1>3, <1>6, <2>1, <2>2 DEF Smaller
<1>8. Contract!InFile([call EXCEPT !.length = n])
  <2>1. call.offset >= 0 /\ call.offset + n <= FileSize
    BY <1>1, <1>2, <1>3
  <2>2. [call EXCEPT !.length = n].offset = call.offset
        /\ [call EXCEPT !.length = n].length = n
    BY <1>6, CallsAssumption
  <2> QED BY <2>1, <2>2 DEF Contract!InFile
<1>9. o + n < FileSize => ReadyToRead(Released(t), o + n)
  <2>1. Released(t) = t  BY DEF Released, DefaultBuffer
  <2>2. 0 <= o + n  BY <1>1, <1>2
  <2> QED BY <1>3, <2>1, <2>2 DEF ReadyToRead
<1>10. n \in 1..call.length  BY <1>1, <1>6, <1>7
<1>11. Return("ok", data, t)  OBVIOUS
<1>12. "ok" \notin Faults \union {"eof", "data", "range", "end"}
  BY DEF Faults
<1> HIDE DEF data, n
<1> QED BY <1>4, <1>5, <1>8, <1>9, <1>10, <1>11, <1>12, ReturnCall DEF o

(* The loop of read hands out what is there or decodes from the offset on. *)
LEMMA ReadLoopCall ==
  ASSUME CallInv, pc # "idle", call.op = "read", ReadRequest(call),
         NEW t, Sound(t), t.position >= 0, DefaultBuffer(t), Tracks(t),
         call.offset \in {t.position, Decoded(t)},
         call.offset < BlockEnd(t.iter), ReadLoop(t)
  PROVE  CallInv'
<1> DEFINE o == call.offset  n == Len(t.out)  u == DiscardOutput(t)
           overlap == t.position + n - o
<1>1. /\ t.position \in Int /\ n \in Nat
      /\ Decoded(t) \in Int /\ Decoded(t) = t.position + n
      /\ o \in {t.position, Decoded(t)} /\ o \in Int
  BY SoundFields DEF Tracks
<1>2. \/ overlap > 0 /\ Return("ok", HandedOut(t, overlap), t)
      \/ ~(overlap > 0) /\ Continue("decode", 0, u)
  BY DEF ReadLoop, AvailableBytes
<1>3. CASE overlap > 0 /\ Return("ok", HandedOut(t, overlap), t)
  <2>1. overlap = n /\ o = t.position /\ n > 0  BY <1>1, <1>3
  <2>2. Return("ok", HandedOut(t, n), t)  BY <1>3, <2>1
  <2> QED BY <2>1, <2>2, AnswerRead
<1>4. CASE ~(overlap > 0) /\ Continue("decode", 0, u)
  <2>1. o = t.position + n /\ o = Decoded(t)  BY <1>1, <1>4
  <2>2. /\ SameStream(t, u) /\ SameBuffer(t, u)
        /\ u.out = << >> /\ u.position = t.position + n
    BY DiscardSound
  <2> HIDE DEF u
  <2>3. u.out = Bytes(o, 0) /\ Len(u.out) = 0  BY <1>1, <2>2, BytesNone
  <2>4. Decoded(u) = o + 0 /\ u.position = o /\ u.iter = t.iter
    BY <1>1, <2>1, <2>2, SameStreamDecoding DEF SameStream
  <2>5. Start[t.iter] <= Decoded(t) /\ Start[t.iter] < BlockEnd(t.iter)
    BY InsideBlock DEF Tracks
  <2>6. Tracks(u)  BY <2>1, <2>3, <2>4, <2>5 DEF Tracks
  <2>7. DefaultBuffer(u)  BY <2>2 DEF DefaultBuffer, SameBuffer
  <2>8. DecodeReady(u)  BY <2>4, <2>6, <2>7 DEF DecodeReady
  <2>9. Continue("decode", 0, u)  BY <1>4
  <2> QED BY <2>8, <2>9, ContinueCall DEF Running
<1> QED BY <1>2, <1>3, <1>4

LEMMA DecodeCall == ReuseInv /\ CallInv /\ Decode => CallInv'
<1> SUFFICES ASSUME ReuseInv, CallInv, Decode PROVE CallInv'  OBVIOUS
<1> DEFINE o == call.offset
<1>1. /\ pc = "decode" /\ pc # "idle"
      /\ DecodeReady(state) /\ Sound(state) /\ state.position >= 0
  BY ReadsPromised DEF Decode, ReuseInv, Stage, Running, CallInv, AtStages
<1>2. PICK r \in FillAndCode(state, MayFault) :
         \/ Fail(r)
         \/ /\ r.status = "streamEnd" /\ r.s.out = << >>
            /\ \E n \in LoadNextBlock(r.s, MayFault) :
                  Fail(n) \/ (n.status = "ok" /\ Continue("decode", 0, n.s))
         \/ /\ r.status = "ok" \/ (r.status = "streamEnd" /\ r.s.out # << >>)
            /\ ReadLoop(r.s)
  BY DEF Decode
<1>3. /\ r.status \in Faults => MayFault
      /\ Sound(r.s) /\ SameBuffer(state, r.s) /\ Appended(state, r.s)
      /\ r.s.position = state.position /\ r.s.iter = state.iter
      /\ r.status = "streamEnd" => r.s.dec.made = USize[state.iter]
      /\ r.status \in {"ok", "streamEnd", "io", "eof", "data"}
      /\ r.status \in {"eof", "data"} /\ Unfinished(state) =>
           state.iter \in Damaged
  BY <1>1, MayFaultBoolean, FillAndCodeFacts
<1>4. /\ call.op = "read" /\ ReadRequest(call)
      /\ DefaultBuffer(state) /\ Tracks(state)
      /\ state.position = o /\ o < BlockEnd(state.iter)
  BY <1>1 DEF DecodeReady
<1>5. o \in Nat /\ r.s.position = o /\ r.s.position >= 0
  BY <1>1, <1>3, <1>4, SoundFields
<1>6. r.s.out = Bytes(o, Len(r.s.out)) /\ Decoded(r.s) = o + Len(r.s.out)
  <2>1. Holds(state, o)  BY <1>4 DEF Tracks, Holds
  <2> HIDE DEF o
  <2>2. Holds(r.s, o)  BY <1>1, <1>3, <1>5, <2>1, TurnAppends
  <2> QED BY <2>2 DEF Holds
<1>7. DefaultBuffer(r.s) /\ Tracks(r.s) /\ o < BlockEnd(r.s.iter)
  BY <1>3, <1>4, <1>5, <1>6 DEF Tracks, DefaultBuffer, SameBuffer
<1>8. /\ BlockEnd(r.s.iter) \in Nat /\ BlockEnd(r.s.iter) <= FileSize
      /\ FileSize \in Nat /\ Decoded(r.s) = Start[r.s.iter] + r.s.dec.made
      /\ BlockEnd(r.s.iter) = Start[r.s.iter] + USize[r.s.iter]
  BY <1>3, <1>5, InsideBlock
<1>9. CASE Fail(r)
  <2>1. 0 <= o /\ o < FileSize  BY <1>5, <1>7, <1>8
  <2>2. ReadyToRead(r.s, o)  BY <1>5, <1>7, <2>1 DEF ReadyToRead
  <2>3. Unfinished(state)
    <3>1. state.out = << >>  BY <1>1 DEF ReuseInv, Stage
    <3>2. Decoded(state) = o
      BY <1>4, <1>5, <3>1, EmptySeq DEF Tracks
    <3> QED BY <1>1, <1>4, <3>2, UnfinishedInside
  <2> QED BY <1>1, <1>3, <1>9, <2>2, <2>3, FailCall
<1>10. CASE r.status = "streamEnd" /\ r.s.out = << >>
  <2>1. Len(r.s.out) = 0  BY <1>10, EmptySeq
  <2>2. Decoded(r.s) = BlockEnd(r.s.iter)  BY <1>3, <1>8, <1>10
  <2> QED BY <1>5, <1>6, <1>7, <1>8, <2>1, <2>2
<1>11. CASE ReadLoop(r.s)
  BY <1>1, <1>3, <1>4, <1>5, <1>7, <1>11, ReadLoopCall
<1> QED BY <1>2, <1>9, <1>10, <1>11

(* A read that leaves its block, or has none yet, starts at a block. *)
LEMMA SeekAwayCall ==
  ASSUME ReuseInv, CallInv, pc # "idle", call.op = "read", ReadRequest(call),
         DefaultBuffer(state), 0 <= call.offset, call.offset < FileSize,
         ~InBlock(state, call.offset),
         Start[Locate(call.offset)] = call.offset,
         NEW r \in SeekBlockFor(state, call.offset, MayFault),
         Fail(r) \/ (r.status = "ok" /\ ReadLoop(r.s))
  PROVE  CallInv'
<1> DEFINE o == call.offset  e == Locate(o)
<1>1. Sound(state) /\ o \in Offsets /\ o \in Int
  BY CallFields DEF ReuseInv
<1>2. /\ e \in Entries /\ e # 0 /\ o < BlockEnd(e)
  BY <1>1, Located
<1>3. /\ r.status \in Faults => MayFault
      /\ Sound(r.s) /\ SameBuffer(state, r.s)
      /\ r.status \notin {"ok", "range"} => r.s.out = << >>
      /\ r.status # "ok" => r.s.position = -1
      /\ r.status = "range" => e = 0
      /\ r.status \in {"eof", "data"} => r.s.iter \in Damaged
      /\ r.status # "end"
      /\ r.status = "ok" =>
           /\ r.s.out = << >> /\ r.s.dec.blk = r.s.iter
           /\ r.s.dec.made = 0 /\ r.s.position = Start[r.s.iter]
           /\ r.s.iter = e
  BY <1>1, MayFaultBoolean, SeekBlockForFacts
<1>4. DefaultBuffer(r.s)  BY <1>3 DEF DefaultBuffer, SameBuffer
<1>5. CASE Fail(r)
  <2>1. r.status # "ok"  BY <1>5 DEF Fail, Failures, Faults
  <2>2. r.s.position = -1 /\ r.s.out = << >>  BY <1>2, <1>3, <2>1
  <2>3. ReadyToRead(r.s, o)  BY <1>4, <2>2 DEF ReadyToRead
  <2> QED BY <1>2, <1>3, <1>5, <2>3, FailCall
<1>6. CASE r.status = "ok" /\ ReadLoop(r.s)
  <2>1. /\ r.s.out = << >> /\ Len(r.s.out) = 0 /\ r.s.dec.blk = e
        /\ r.s.dec.made = 0 /\ r.s.iter = e /\ r.s.position = o
        /\ r.s.position >= 0
    BY <1>3, <1>6, EmptySeq
  <2>2. Decoded(r.s) = o  BY <1>1, <2>1 DEF Decoded
  <2>3. r.s.out = Bytes(o, Len(r.s.out))
    <3>1. Bytes(o, 0) = << >>  BY <1>1, BytesNone
    <3> QED BY <2>1, <3>1
  <2>4. Tracks(r.s)  BY <1>1, <1>2, <2>1, <2>2, <2>3 DEF Tracks
  <2> QED BY <1>2, <1>3, <1>4, <1>6, <2>1, <2>4, ReadLoopCall
<1> QED BY <1>5, <1>6

LEMMA StartReadCall == ReuseInv /\ CallInv /\ StartRead => CallInv'
<1> SUFFICES ASSUME ReuseInv, CallInv, StartRead PROVE CallInv'  OBVIOUS
<1> DEFINE o == call.offset
<1>1. /\ pc = "start" /\ pc # "idle" /\ call.op = "read"
      /\ Sound(state) /\ StartReady(state)
      /\ o \in Offsets /\ o \in Int
  BY CallFields, ReadsPromised DEF StartRead, ReuseInv, CallInv, AtStages
<1>2. ReadRequest(call) /\ ReadyToRead(state, o)
  BY <1>1 DEF StartReady
<1>3. DefaultBuffer(state) /\ 0 <= o /\ o < FileSize
  BY <1>2 DEF ReadyToRead
<1>4. SelectDefaultBuffer(state) = state  BY <1>1, <1>3, SelectDefaultSound
<1>5. PICK r \in SeekBlockFor(state, o, MayFault) :
         Fail(r) \/ (r.status = "ok" /\ ReadLoop(r.s))
  BY <1>4 DEF StartRead
<1>6. CASE state.position = -1 /\ Start[Locate(o)] = o
  <2>1. ~InBlock(state, o)  BY <1>6 DEF InBlock
  <2> QED BY <1>1, <1>2, <1>3, <1>5, <1>6, <2>1, SeekAwayCall
<1>7. CASE state.position >= 0 /\ Tracks(state) /\ o \in {state.position, Decoded(state)}
  <2> DEFINE e == state.iter  se == Start[e]  be == BlockEnd(e)
  <2>1. /\ e \in Entries /\ se \in Nat /\ be \in Nat
        /\ Decoded(state) \in Nat /\ Decoded(state) <= be
    BY <1>1, <1>7, InsideBlock
  <2>2. /\ state.position \in Int /\ Len(state.out) \in Nat
    BY <1>1, SoundFields
  <2>3. /\ Decoded(state) = state.position + Len(state.out)
        /\ se <= state.position /\ se < be
    BY <1>7 DEF Tracks
  <2> HIDE DEF se, be
  <2>4. state.position <= o /\ se <= o /\ o <= be
    BY <1>7, <2>1, <2>2, <2>3
  <2>5. CASE o < be
    <3>1. InBlock(state, o)  BY <1>7, <2>4, <2>5 DEF InBlock, se, be
    <3>2. r = Outcome("ok", state)
      BY <1>1, <2>2, <2>4, <3>1 DEF SeekBlockFor
    <3>3. r.status = "ok" /\ r.s = state  BY <3>2 DEF Outcome
    <3>4. ReadLoop(state)
      BY <1>5, <3>3 DEF Fail, Failures, Faults
    <3> QED BY <1>1, <1>2, <1>3, <1>7, <2>5, <3>4, ReadLoopCall DEF be
  <2>6. CASE o = be
    <3>1. ~InBlock(state, o)  BY <1>1, <2>1, <2>6 DEF InBlock, be
    <3>2. Start[Locate(o)] = o
      BY <1>1, <1>3, <2>1, <2>3, <2>6, LocatedAtEnd DEF se, be
    <3> QED BY <1>1, <1>2, <1>3, <1>5, <3>1, <3>2, SeekAwayCall
  <2> QED BY <1>1, <2>1, <2>4, <2>5, <2>6
<1> QED BY <1>2, <1>6, <1>7 DEF ReadyToRead

-----------------------------------------------------------------------------
(* readInto()                                                              *)

(* With the offset reached, the caller's storage becomes the buffer. *)
LEMMA FillCallerCall ==
  ASSUME CallInv, pc # "idle", call.op = "readInto", Promised(call),
         NEW t, Sound(t), t.position >= 0, t.out = << >>,
         t.position = call.offset, Decoded(t) = call.offset,
         call.offset < BlockEnd(t.iter), FillCaller(t)
  PROVE  CallInv'
<1> DEFINE o == call.offset  u == SelectBuffer(t, "caller", call.length)
<1>1. Continue("fill", 0, u)  BY DEF FillCaller
<1>2. /\ o \in Int /\ call.length \in Nat /\ call.length > 0
  BY CallFields DEF CallInv, Replies
<1>3. "caller" \in BufferKinds  BY DEF BufferKinds
<1>4. /\ Sound(u) /\ SameStream(t, u) /\ u.size = call.length
      /\ u.out = << >>
      /\ u.position = IF t.position >= 0
                      THEN t.position + Len(t.out) ELSE t.position
  BY <1>2, <1>3, SelectSound
<1> HIDE DEF u
<1>5. Len(t.out) = 0 /\ Len(u.out) = 0  BY <1>4, EmptySeq
<1>6. u.position = o  BY <1>2, <1>4, <1>5
<1>7. Decoded(u) = o + Len(u.out) /\ Decoded(u) <= u.position + Len(u.out)
  BY <1>2, <1>4, <1>5, <1>6, SameStreamDecoding
<1>8. u.out = Bytes(o, Len(u.out))
  <2>1. Bytes(o, 0) = << >>  BY <1>2, BytesNone
  <2> QED BY <1>4, <1>5, <2>1
<1>9. FillReady(u)  BY <1>2, <1>4, <1>7, <1>8 DEF FillReady
<1>10. Unfinished(u)
  BY <1>4, UnfinishedInside DEF SameStream, Unfinished
<1> QED BY <1>1, <1>4, <1>9, <1>10, ContinueCall DEF Running

(* The skip never goes past the offset. *)
LEMMA SkipLoopCall ==
  ASSUME CallInv, pc # "idle", call.op = "readInto", Promised(call),
         NEW t, Sound(t), t.position >= 0, t.out = << >>,
         Decoded(t) = t.position, NEW skip \in Nat,
         t.position + skip = call.offset, call.offset < BlockEnd(t.iter),
         SkipLoop(t, skip)
  PROVE  CallInv'
<1>1. /\ t.position \in Int /\ t.size \in Nat /\ Len(t.out) = 0
  BY SoundFields, EmptySeq
<1>2. CASE skip > 0
  <2> DEFINE u == IF AvailOut(t) > skip
                  THEN SelectBuffer(t, "default", skip) ELSE t
  <2>1. Continue("skip", skip, u)  BY <1>2 DEF SkipLoop
  <2>2. CASE AvailOut(t) > skip
    <3>1. "default" \in BufferKinds  BY DEF BufferKinds
    <3>2. /\ SameStream(t, u) /\ u.out = << >> /\ u.size = skip
          /\ u.position = IF t.position >= 0
                          THEN t.position + Len(t.out) ELSE t.position
      BY <1>2, <2>2, <3>1, SelectSound
    <3> HIDE DEF u
    <3>3. Len(u.out) = 0 /\ u.position = t.position
      BY <1>1, <3>2, EmptySeq
    <3>4. Decoded(u) = u.position + Len(u.out) /\ u.iter = t.iter
      BY <1>1, <3>2, <3>3, SameStreamDecoding DEF SameStream
    <3>5. SkipReady(u, skip)  BY <3>2, <3>3, <3>4 DEF SkipReady
    <3> QED BY <2>1, <3>5, ContinueCall DEF Running
  <2>3. CASE ~(AvailOut(t) > skip)
    <3>1. u = t  BY <2>3
    <3>2. t.size <= skip  BY <1>1, <2>3 DEF AvailOut
    <3>3. Decoded(t) = t.position + Len(t.out)  BY <1>1
    <3>4. SkipReady(t, skip)  BY <3>2, <3>3 DEF SkipReady
    <3> QED BY <2>1, <3>1, <3>4, ContinueCall DEF Running
  <2> QED BY <2>2, <2>3
<1>3. CASE ~(skip > 0)
  <2>1. t.position = call.offset  BY <1>1, <1>3
  <2>2. FillCaller(t)  BY <1>3 DEF SkipLoop
  <2> QED BY <2>1, <2>2, FillCallerCall
<1> QED BY <1>2, <1>3

(* A located offset of a call lies in the block that was found. *)
LEMMA IntoLocated ==
  ASSUME CallInv, pc # "idle", call.op = "readInto", Promised(call),
         Locate(call.offset) # 0
  PROVE  /\ Locate(call.offset) \in Entries
         /\ Start[Locate(call.offset)] <= call.offset
         /\ call.offset < BlockEnd(Locate(call.offset))
<1>1. /\ call.offset \in Offsets /\ call.offset \in Int
      /\ call.length \in Nat /\ call.length > 0
  BY CallFields DEF CallInv, Replies
<1>2. 0 <= call.offset /\ call.offset < FileSize
  BY <1>1, ReaderAssumption DEF Promised, IndexEnds, Contract!InFile
<1> QED BY <1>1, <1>2, Located

LEMMA StartReadIntoCall ==
  ASSUME ReuseInv, CallInv, Promised(call), StartReadInto PROVE CallInv'
<1> DEFINE o == call.offset  d == SelectDefaultBuffer(state)
<1>1. /\ pc = "start" /\ pc # "idle" /\ call.op = "readInto"
      /\ Sound(state) /\ StartReady(state)
      /\ o \in Offsets /\ o \in Int
  BY CallFields DEF StartReadInto, ReuseInv, CallInv, AtStages
<1>2. ReadyToReadInto(state, o)
  BY <1>1 DEF StartReady
<1>3. PICK r \in SeekBlockFor(d, o, MayFault) :
         \/ Fail(r)
         \/ /\ r.status = "ok"
            /\ LET skip == o - r.s.position + AvailableBytes(r.s)
               IN  SkipLoop(IF skip > 0 THEN DiscardOutput(r.s) ELSE r.s, skip)
  BY DEF StartReadInto
<1>4. /\ Sound(d) /\ d.out = << >>
      /\ d.position >= 0 => Decoded(d) = o /\ o <= d.position
  <2>1. CASE state = NewState
    <3>1. d = state  BY <1>1, <2>1, NewStateSound, SelectDefaultSound
    <3> QED BY <2>1, <3>1, NewStateSound
  <2>2. CASE /\ state.buf = "stale" /\ state.position >= 0
             /\ Decoded(state) = o /\ o <= state.position + Len(state.out)
    <3>1. state.buf # "default"  BY <2>2
    <3>2. /\ Sound(d) /\ SameStream(state, d) /\ d.out = << >>
          /\ d.position = state.position + Len(state.out)
      BY <1>1, <2>2, <3>1, SelectDefaultSound
    <3> QED BY <2>2, <3>2, SameStreamDecoding
  <2> QED BY <1>2, <2>1, <2>2 DEF ReadyToReadInto
<1> HIDE DEF d
<1>5. /\ r.status \in Faults => MayFault
      /\ Sound(r.s)
      /\ r.status = "range" => Locate(o) = 0
      /\ r.status \in {"eof", "data"} => r.s.iter \in Damaged
      /\ r.status # "end"
      /\ r.status = "ok" =>
           \/ r.s = d /\ InBlock(d, o) /\ d.position <= o
           \/ /\ r.s.out = << >> /\ r.s.dec.blk = r.s.iter
              /\ r.s.dec.made = 0 /\ r.s.position = Start[r.s.iter]
              /\ \/ InBlock(d, o) /\ r.s.iter = d.iter /\ d.position > o
                 \/ ~InBlock(d, o) /\ r.s.iter = Locate(o) /\ Locate(o) # 0
  BY <1>1, <1>4, MayFaultBoolean, SeekBlockForFacts
<1>6. CASE Fail(r)
  <2>1. call \in Calls  BY <1>1 DEF ReuseInv
  <2> QED BY <1>1, <1>5, <1>6, <2>1, OutsideFile, FailCall
<1>7. CASE r.status = "ok" /\ ~Fail(r)
  <2> DEFINE skip == o - r.s.position + AvailableBytes(r.s)
             t == IF skip > 0 THEN DiscardOutput(r.s) ELSE r.s
  <2>1. /\ r.s.out = << >> /\ r.s.position >= 0 /\ r.s.position <= o
        /\ Decoded(r.s) = r.s.position /\ o < BlockEnd(r.s.iter)
    <3>1. CASE r.s = d /\ InBlock(d, o) /\ d.position <= o
      <4>1. d.position \in Int /\ d.position >= 0 /\ o < BlockEnd(d.iter)
        BY <1>4, <3>1, SoundFields DEF InBlock
      <4>2. d.position = o /\ Decoded(d) = o  BY <1>1, <1>4, <3>1, <4>1
      <4> QED BY <1>4, <3>1, <4>1, <4>2
    <3>2. ASSUME r.s.out = << >>, r.s.dec.blk = r.s.iter, r.s.dec.made = 0,
                 r.s.position = Start[r.s.iter], r.s.iter \in Entries,
                 Start[r.s.iter] <= o, o < BlockEnd(r.s.iter)
          PROVE  /\ r.s.out = << >> /\ r.s.position >= 0
                 /\ r.s.position <= o
                 /\ Decoded(r.s) = r.s.position /\ o < BlockEnd(r.s.iter)
      <4>1. Start[r.s.iter] \in Nat  BY <3>2, ReaderAssumption
      <4>2. Decoded(r.s) = Start[r.s.iter] + 0  BY <3>2 DEF Decoded
      <4> QED BY <3>2, <4>1, <4>2
    <3>3. InBlock(d, o) => /\ d.iter \in Entries /\ Start[d.iter] <= o
                           /\ o < BlockEnd(d.iter)
      BY <1>1, <1>4 DEF InBlock, Sound, Decoding
    <3>4. Locate(o) # 0 => /\ Locate(o) \in Entries /\ Start[Locate(o)] <= o
                           /\ o < BlockEnd(Locate(o))
      BY <1>1, <1>2, IntoLocated
    <3> QED BY <1>5, <1>7, <3>1, <3>2, <3>3, <3>4
  <2>2. SkipLoop(t, skip)  BY <1>3, <1>7
  <2>3. r.s.position \in Int /\ Len(r.s.out) = 0
    BY <1>5, <2>1, SoundFields, EmptySeq
  <2>4. skip \in Nat /\ r.s.position + skip = o
    BY <1>1, <2>1, <2>3 DEF AvailableBytes
  <2> HIDE DEF skip
  <2>5. /\ Sound(t) /\ t.position = r.s.position /\ t.out = << >>
        /\ Decoded(t) = Decoded(r.s) /\ t.iter = r.s.iter
    <3>1. CASE skip > 0
      <4>1. /\ Sound(t) /\ SameStream(r.s, t) /\ t.out = << >>
            /\ t.position = r.s.position + Len(r.s.out)
        BY <1>5, <2>1, <3>1, DiscardSound
      <4> QED BY <2>3, <4>1, SameStreamDecoding DEF SameStream
    <3>2. CASE ~(skip > 0)  BY <1>5, <2>1, <3>2
    <3> QED BY <3>1, <3>2
  <2> HIDE DEF t
  <2> QED BY <1>1, <1>2, <2>1, <2>2, <2>4, <2>5, SkipLoopCall
<1> QED BY <1>3, <1>6, <1>7

(* A turn that leaves the buffer with room while the skip goes on. *)
LEMMA SkipTurnCall ==
  ASSUME ReuseInv, CallInv, pc = "skip",
         Promised(call), NEW r \in FillAndCode(state, MayFault)
  PROVE  /\ call.op = "readInto"
         /\ Sound(r.s) /\ r.s.position >= 0 /\ r.s.iter = state.iter
         /\ SkipReady(r.s, toSkip)
         /\ toSkip \in Nat
         /\ AvailOut(r.s) > 0 => r.status # "streamEnd"
         /\ r.status \in {"eof", "data"} => r.s.iter \in Damaged
         /\ r.status \notin {"range", "end"}
<1>1. /\ pc \in Running /\ SkipReady(state, toSkip)
      /\ Sound(state) /\ state.position >= 0 /\ toSkip \in Nat
      /\ AvailOut(state) > 0
  BY DEF Running, CallInv, AtStages, ReuseInv, Stage
<1>2. /\ Sound(r.s) /\ SameBuffer(state, r.s) /\ Appended(state, r.s)
      /\ r.s.position = state.position /\ r.s.iter = state.iter
      /\ r.status = "streamEnd" => r.s.dec.made = USize[state.iter]
      /\ r.status \in {"ok", "streamEnd", "io", "eof", "data"}
      /\ r.status \in {"eof", "data"} /\ Unfinished(state) =>
           state.iter \in Damaged
  BY <1>1, MayFaultBoolean, FillAndCodeFacts
<1>3. /\ call.op = "readInto"
      /\ Decoded(state) = state.position + Len(state.out)
      /\ state.position + toSkip = call.offset
      /\ call.offset < BlockEnd(state.iter) /\ state.size <= toSkip
  BY <1>1 DEF SkipReady
<1>4. /\ state.position \in Int /\ Len(state.out) \in Nat
      /\ r.s.size = state.size /\ r.s.size \in Nat /\ Len(r.s.out) \in Nat
  BY <1>1, <1>2, SoundFields DEF SameBuffer
<1>5. Decoded(r.s) = r.s.position + Len(r.s.out)
  <2>1. PICK k \in Nat : /\ Len(r.s.out) = Len(state.out) + k
                         /\ Decoded(r.s) = Decoded(state) + k
    BY <1>2 DEF Appended
  <2> QED BY <1>2, <1>3, <1>4, <2>1
<1>6. SkipReady(r.s, toSkip)  BY <1>2, <1>3, <1>4, <1>5 DEF SkipReady
<1>7. ASSUME AvailOut(r.s) > 0 PROVE r.status # "streamEnd"
  <2>1. Len(r.s.out) < toSkip  BY <1>1, <1>3, <1>4, <1>7 DEF AvailOut
  <2>2. /\ Decoded(r.s) = Start[r.s.iter] + r.s.dec.made
        /\ BlockEnd(r.s.iter) = Start[r.s.iter] + USize[r.s.iter]
        /\ BlockEnd(r.s.iter) \in Nat
    BY <1>1, <1>2, InsideBlock
  <2>3. Decoded(r.s) < BlockEnd(r.s.iter)
    BY <1>1, <1>2, <1>3, <1>4, <1>5, <2>1, <2>2
  <2> QED BY <1>2, <2>2, <2>3
<1>8. Unfinished(state)
  <2>1. Len(state.out) < toSkip  BY <1>1, <1>3, <1>4 DEF AvailOut
  <2>2. BlockEnd(state.iter) \in Nat  BY <1>1, InsideBlock
  <2>3. Decoded(state) < BlockEnd(state.iter)
    BY <1>1, <1>3, <1>4, <2>1, <2>2
  <2> QED BY <1>1, <2>3, UnfinishedInside
<1> QED BY <1>1, <1>2, <1>3, <1>6, <1>7, <1>8

(* A turn in the caller's storage continues what is there. *)
LEMMA FillTurnCall ==
  ASSUME ReuseInv, CallInv, pc = "fill",
         Promised(call), NEW r \in FillAndCode(state, MayFault)
  PROVE  /\ call.op = "readInto"
         /\ Sound(r.s) /\ r.s.position >= 0 /\ r.s.buf = "caller"
         /\ FillReady(r.s)
         /\ r.status = "streamEnd" => Decoded(r.s) = BlockEnd(r.s.iter)
         /\ r.status = "ok" => Unfinished(r.s)
         /\ r.status \in {"eof", "data"} => r.s.iter \in Damaged
         /\ r.status \notin {"range", "end"}
<1> DEFINE o == call.offset
<1>1. /\ pc \in Running /\ FillReady(state) /\ Unfinished(state)
      /\ state.buf = "caller"
      /\ Sound(state) /\ state.position >= 0
  BY DEF Running, CallInv, AtStages, ReuseInv, Stage
<1>2. /\ Sound(r.s) /\ SameBuffer(state, r.s) /\ Appended(state, r.s)
      /\ r.s.position = state.position /\ r.s.iter = state.iter
      /\ r.status = "streamEnd" => r.s.dec.made = USize[state.iter]
      /\ r.status \in {"ok", "streamEnd", "io", "eof", "data"}
      /\ r.status = "ok" => Unfinished(r.s)
      /\ r.status \in {"eof", "data"} /\ Unfinished(state) =>
           state.iter \in Damaged
  BY <1>1, MayFaultBoolean, FillAndCodeFacts
<1>3. /\ call.op = "readInto" /\ o >= 0
      /\ state.size = call.length
      /\ state.out = Bytes(o, Len(state.out))
      /\ Decoded(state) = o + Len(state.out)
      /\ Decoded(state) <= state.position + Len(state.out)
  BY <1>1 DEF FillReady
<1>4. o \in Nat  BY <1>1, <1>3, CallFields DEF ReuseInv
<1>5. r.s.out = Bytes(o, Len(r.s.out)) /\ Decoded(r.s) = o + Len(r.s.out)
  <2>1. Holds(state, o)  BY <1>3 DEF Holds
  <2> HIDE DEF o
  <2>2. Holds(r.s, o)  BY <1>1, <1>2, <1>4, <2>1, TurnAppends
  <2> QED BY <2>2 DEF Holds
<1>6. /\ state.position \in Int /\ Len(state.out) \in Nat
      /\ Len(r.s.out) \in Nat
  BY <1>1, <1>2, SoundFields
<1>7. Decoded(r.s) <= r.s.position + Len(r.s.out)
  BY <1>2, <1>3, <1>4, <1>5, <1>6
<1>8. FillReady(r.s)
  BY <1>2, <1>3, <1>5, <1>7 DEF FillReady, SameBuffer
<1>9. r.status = "streamEnd" => Decoded(r.s) = BlockEnd(r.s.iter)
  BY <1>1, <1>2, InsideBlock
<1> QED BY <1>1, <1>2, <1>3, <1>8, <1>9 DEF SameBuffer

(* The next block goes on where the last one ended. *)
LEMMA NextBlockCall ==
  ASSUME NextContinues, CallInv, pc = "fill", Promised(call),
         NEW s, Sound(s), s.position >= 0, FillReady(s), AvailOut(s) > 0,
         Decoded(s) = BlockEnd(s.iter),
         NEW n \in LoadNextBlock(s, MayFault), n.status = "ok"
  PROVE  FillReady(n.s) /\ Unfinished(n.s)
<1> DEFINE o == call.offset  e == s.iter  f == NextEntry[e]
<1>1. /\ Sound(n.s) /\ SameOutput(s, n.s) /\ f # 0
      /\ n.s.position = Start[f] /\ n.s.dec.blk = f /\ n.s.dec.made = 0
      /\ Unfinished(n.s)
      /\ e \in Entries
  BY MayFaultBoolean, LoadNextBlockFacts, InsideBlock
<1>2. /\ o \in Int /\ call.length \in Nat
      /\ Len(s.out) \in Nat /\ s.size \in Nat /\ BlockEnd(e) \in Nat
  BY CallFields, SoundFields, InsideBlock DEF CallInv, Replies
<1>3. /\ call.op = "readInto" /\ o >= 0 /\ s.size = call.length
      /\ s.out = Bytes(o, Len(s.out)) /\ BlockEnd(e) = o + Len(s.out)
  BY DEF FillReady
<1>4. Start[f] = BlockEnd(e)
  <2>1. CASE Contract!InFile(call)
    <3>1. o + call.length <= FileSize  BY <2>1 DEF Contract!InFile
    <3>2. BlockEnd(e) < FileSize
      BY <1>2, <1>3, <3>1, ReaderAssumption DEF AvailOut
    <3> QED BY <1>1, <3>2 DEF NextContinues
  <2>2. CASE IndexEnds  BY <1>1, <2>2 DEF IndexEnds
  <2> QED BY <1>3, <2>1, <2>2 DEF Promised
<1>5. n.s.out = s.out /\ n.s.size = s.size
  BY <1>1 DEF SameOutput, SameBuffer
<1>6. /\ n.s.position = BlockEnd(e)
      /\ Decoded(n.s) = BlockEnd(e) + 0
  BY <1>1, <1>4 DEF Decoded
<1>7. /\ Decoded(n.s) = o + Len(n.s.out)
      /\ Decoded(n.s) <= n.s.position + Len(n.s.out)
  BY <1>2, <1>3, <1>5, <1>6
<1> QED BY <1>1, <1>3, <1>5, <1>7 DEF FillReady

(* No block follows only where the file ends, and the range goes on. *)
LEMMA NoBlockCall ==
  ASSUME NextContinues, CallInv, pc = "fill",
         NEW s, Sound(s), s.position >= 0, FillReady(s), AvailOut(s) > 0,
         Decoded(s) = BlockEnd(s.iter), NextEntry[s.iter] = 0
  PROVE  ~Contract!InFile(call)
<1> DEFINE o == call.offset  k == Len(s.out)  be == BlockEnd(s.iter)
<1>1. /\ o \in Int /\ call.length \in Nat /\ k \in Nat /\ s.size \in Nat
      /\ be \in Nat /\ s.iter \in Entries /\ FileSize \in Nat
  BY CallFields, SoundFields, InsideBlock DEF CallInv, Replies
<1>2. ~(be < FileSize)  BY <1>1 DEF NextContinues
<1>3. be = o + k /\ s.size = call.length /\ s.size - k > 0
  BY DEF FillReady, AvailOut
<1>4. ~(o + call.length <= FileSize)
  <2> HIDE DEF o, k, be
  <2> QED BY <1>1, <1>2, <1>3
<1> QED BY <1>4 DEF Contract!InFile

(* The caller's storage is full of what was asked for. *)
LEMMA AnswerInto ==
  ASSUME CallInv, pc = "fill", NEW t, Sound(t), t.position >= 0,
         t.buf = "caller", FillReady(t), AvailOut(t) = 0,
         Return("ok", t.out, t)
  PROVE  CallInv'
<1> DEFINE o == call.offset  n == Len(t.out)
<1>1. /\ o \in Int /\ call \in Calls /\ call.length \in Nat
      /\ n \in Nat /\ t.out \in Seq(Nat) /\ t.size \in Nat
      /\ t.position \in Int
  BY CallFields, SoundFields DEF CallInv, Replies
<1>2. /\ call.op = "readInto" /\ o >= 0 /\ n = call.length
      /\ t.out = Bytes(o, n)
      /\ Decoded(t) = o + n /\ Decoded(t) <= t.position + n
  BY <1>1 DEF FillReady, AvailOut
<1>3. Contract!InFile([call EXCEPT !.length = n])
  <2>1. /\ Decoded(t) <= BlockEnd(t.iter) /\ BlockEnd(t.iter) <= FileSize
        /\ Decoded(t) \in Nat /\ BlockEnd(t.iter) \in Nat /\ FileSize \in Nat
    BY InsideBlock
  <2>2. o + n <= FileSize  BY <1>1, <1>2, <2>1
  <2>3. [call EXCEPT !.length = n].offset = o
        /\ [call EXCEPT !.length = n].length = n
    BY <1>1, CallsAssumption
  <2> QED BY <1>2, <2>2, <2>3 DEF Contract!InFile
<1>4. ReadyToReadInto(Released(t), o + n)
  <2>1. /\ SameStream(t, Released(t)) /\ Released(t).out = t.out
        /\ Released(t).position = t.position /\ Released(t).buf = "stale"
    BY ReleasedSound
  <2>2. Decoded(Released(t)) = o + n  BY <1>2, <2>1, SameStreamDecoding
  <2> QED BY <1>2, <2>1, <2>2 DEF ReadyToReadInto
<1>5. /\ "ok" \notin Faults \union {"eof", "data", "range", "end"}
      /\ pc # "idle"
  BY DEF Faults
<1> HIDE DEF o, n
<1> QED BY <1>1, <1>2, <1>3, <1>4, <1>5, ReturnCall DEF o, n

LEMMA FillBufferCall ==
  ASSUME NextContinues, ReuseInv, CallInv, Promised(call), FillBuffer
  PROVE  CallInv'
<1>1. pc \in {"skip", "fill"} /\ pc # "idle" /\ pc \in Running
  BY DEF FillBuffer, Running
<1>2. PICK r \in FillAndCode(state, MayFault) :
         \/ Fail(r)
         \/ /\ r.status \in {"ok", "streamEnd"} /\ AvailOut(r.s) = 0
            /\ IF pc = "skip"
               THEN SkipLoop(DiscardOutput(r.s), toSkip - AvailableBytes(r.s))
               ELSE Return("ok", r.s.out, r.s)
         \/ /\ r.status = "streamEnd" /\ AvailOut(r.s) > 0
            /\ \E n \in LoadNextBlock(r.s, MayFault) :
                  Fail(n) \/ (n.status = "ok" /\ Continue(pc, toSkip, n.s))
         \/ /\ r.status = "ok" /\ AvailOut(r.s) > 0
            /\ Continue(pc, toSkip, r.s)
  BY DEF FillBuffer
<1>3. r.status \in Faults => MayFault
  BY <1>1, MayFaultBoolean, FillAndCodeFacts DEF ReuseInv, Stage
<1>4. CASE pc = "skip"
  <2>1. /\ call.op = "readInto"
        /\ Sound(r.s) /\ r.s.position >= 0
        /\ SkipReady(r.s, toSkip) /\ toSkip \in Nat
        /\ AvailOut(r.s) > 0 => r.status # "streamEnd"
        /\ r.status \in {"eof", "data"} => r.s.iter \in Damaged
        /\ r.status \notin {"range", "end"}
    BY <1>4, SkipTurnCall
  <2>2. CASE Fail(r)  BY <1>1, <1>3, <2>1, <2>2, FailCall
  <2>3. CASE /\ AvailOut(r.s) = 0
             /\ SkipLoop(DiscardOutput(r.s), toSkip - AvailableBytes(r.s))
    <3> DEFINE t == DiscardOutput(r.s)  skip == toSkip - AvailableBytes(r.s)
    <3>1. /\ r.s.position \in Int /\ Len(r.s.out) \in Nat /\ r.s.size \in Nat
      BY <2>1, SoundFields
    <3>2. /\ Decoded(r.s) = r.s.position + Len(r.s.out)
          /\ r.s.position + toSkip = call.offset
          /\ call.offset < BlockEnd(r.s.iter) /\ r.s.size <= toSkip
      BY <2>1 DEF SkipReady
    <3>3. Len(r.s.out) = r.s.size  BY <2>3, <3>1 DEF AvailOut
    <3>4. skip \in Nat /\ skip = toSkip - Len(r.s.out)
      BY <2>1, <3>1, <3>2, <3>3 DEF AvailableBytes
    <3>5. /\ Sound(t) /\ SameStream(r.s, t) /\ t.out = << >>
          /\ t.position = r.s.position + Len(r.s.out)
      BY <2>1, DiscardSound
    <3>6. SkipLoop(t, skip)  BY <2>3
    <3> HIDE DEF t, skip
    <3>7. /\ t.position >= 0 /\ t.position + skip = call.offset
      <4> DEFINE p == r.s.position  k == Len(r.s.out)
      <4>1. /\ p \in Int /\ k \in Nat /\ p >= 0 /\ toSkip \in Nat
            /\ t.position = p + k /\ skip = toSkip - k
            /\ p + toSkip = call.offset
        BY <2>1, <3>1, <3>2, <3>4, <3>5
      <4> HIDE DEF p, k
      <4> QED BY <4>1
    <3>8. Decoded(t) = t.position /\ t.iter = r.s.iter
      BY <3>2, <3>5, SameStreamDecoding DEF SameStream
    <3> QED BY <1>1, <2>1, <3>2, <3>4, <3>5, <3>6, <3>7, <3>8, SkipLoopCall
  <2>4. CASE r.status = "ok" /\ Continue("skip", toSkip, r.s)
    BY <1>1, <2>1, <2>4, ContinueCall DEF Running
  <2> QED BY <1>2, <1>4, <2>1, <2>2, <2>3, <2>4
<1>5. CASE pc = "fill"
  <2>1. /\ call.op = "readInto"
        /\ Sound(r.s) /\ r.s.position >= 0 /\ r.s.buf = "caller"
        /\ FillReady(r.s)
        /\ r.status = "streamEnd" => Decoded(r.s) = BlockEnd(r.s.iter)
        /\ r.status = "ok" => Unfinished(r.s)
        /\ r.status \in {"eof", "data"} => r.s.iter \in Damaged
        /\ r.status \notin {"range", "end"}
    BY <1>5, FillTurnCall
  <2>2. CASE Fail(r)  BY <1>1, <1>3, <2>1, <2>2, FailCall
  <2>3. CASE AvailOut(r.s) = 0 /\ Return("ok", r.s.out, r.s)
    BY <1>5, <2>1, <2>3, AnswerInto
  <2>4. CASE /\ r.status = "streamEnd" /\ AvailOut(r.s) > 0
             /\ \E n \in LoadNextBlock(r.s, MayFault) :
                   Fail(n) \/ (n.status = "ok" /\ Continue("fill", toSkip, n.s))
    <3>1. PICK n \in LoadNextBlock(r.s, MayFault) :
             Fail(n) \/ (n.status = "ok" /\ Continue("fill", toSkip, n.s))
      BY <2>4
    <3>2. CASE Fail(n)
      <4>1. r.s.iter \in Entries  BY <2>1, InsideBlock
      <4>2. /\ n.status \in Faults => MayFault
            /\ n.status \in {"eof", "data"} => n.s.iter \in Damaged
            /\ n.status # "range"
            /\ n.status = "end" => NextEntry[r.s.iter] = 0
        BY <2>1, <4>1, MayFaultBoolean, LoadNextBlockFacts
      <4>3. n.status = "end" => ~Contract!InFile(call)
        BY <1>5, <2>1, <2>4, <4>2, NoBlockCall
      <4> QED BY <1>1, <2>1, <3>2, <4>2, <4>3, FailCall
    <3>3. CASE n.status = "ok" /\ Continue("fill", toSkip, n.s)
      <4>1. FillReady(n.s) /\ Unfinished(n.s)
        BY <1>5, <2>1, <2>4, <3>3, NextBlockCall
      <4>2. n.s.size = call.length  BY <4>1 DEF FillReady
      <4> QED BY <1>1, <2>1, <3>3, <4>1, <4>2, ContinueCall DEF Running
    <3> QED BY <3>1, <3>2, <3>3
  <2>5. CASE r.status = "ok" /\ Continue("fill", toSkip, r.s)
    <3>1. r.s.size = call.length  BY <2>1 DEF FillReady
    <3> QED BY <1>1, <2>1, <2>5, <3>1, ContinueCall DEF Running
  <2> QED BY <1>2, <1>5, <2>2, <2>3, <2>4, <2>5
<1> QED BY <1>1, <1>4, <1>5

-----------------------------------------------------------------------------
(* A readInto whose range leaves a file that does not refuse it: nothing is *)
(* known of its bytes but how many they are.                               *)

LEMMA FillCallerOutside ==
  ASSUME CallInv, pc # "idle", call.op = "readInto", ~Promised(call),
         NEW t, Sound(t), FillCaller(t)
  PROVE  CallInv'
<1> DEFINE u == SelectBuffer(t, "caller", call.length)
<1>1. Continue("fill", 0, u)  BY DEF FillCaller
<1>2. /\ call.length \in Nat /\ call.length > 0
      /\ "caller" \in BufferKinds
  BY CallFields DEF CallInv, Replies, BufferKinds
<1>3. u.size = call.length  BY <1>2, SelectSound
<1> HIDE DEF u
<1> QED BY <1>1, <1>3, ContinueCall DEF Running

LEMMA SkipLoopOutside ==
  ASSUME CallInv, pc # "idle", call.op = "readInto", ~Promised(call),
         NEW t, Sound(t), NEW skip, SkipLoop(t, skip)
  PROVE  CallInv'
<1>1. CASE FillCaller(t)  BY <1>1, FillCallerOutside
<1>2. ASSUME NEW u, Continue("skip", skip, u) PROVE CallInv'
  BY <1>2, ContinueCall DEF Running
<1> QED BY <1>1, <1>2 DEF SkipLoop

LEMMA FailOutside ==
  ASSUME CallInv, pc # "idle", call.op = "readInto", ~Promised(call),
         NEW r, Fail(r), r.status \in Faults => MayFault
  PROVE  CallInv'
<1>1. ~Contract!InFile(call)  BY DEF Promised
<1> QED BY <1>1, FailCall

LEMMA OutsideCall ==
  ASSUME ReuseInv, CallInv, ~Promised(call), StartReadInto \/ FillBuffer
  PROVE  CallInv'
<1>1. pc # "idle" /\ call.op = "readInto"
  BY DEF StartReadInto, FillBuffer, CallInv, AtStages
<1>2. CASE StartReadInto
  <2> DEFINE d == SelectDefaultBuffer(state)
  <2>1. PICK r \in SeekBlockFor(d, call.offset, MayFault) :
           \/ Fail(r)
           \/ LET skip == call.offset - r.s.position + AvailableBytes(r.s)
              IN  SkipLoop(IF skip > 0 THEN DiscardOutput(r.s) ELSE r.s, skip)
    BY <1>2 DEF StartReadInto
  <2>2. pc = "start"  BY <1>2 DEF StartReadInto
  <2>3. Sound(state) /\ call.offset \in Offsets
    BY <1>1, CallFields DEF ReuseInv
  <2>4. Sound(d)  BY <2>3, SelectDefaultSound
  <2>5. Sound(r.s)  BY <2>2, StartSound
  <2> HIDE DEF d
  <2>6. r.status \in Faults => MayFault
    BY <2>3, <2>4, MayFaultBoolean, SeekBlockForFacts
  <2>7. CASE Fail(r)  BY <1>1, <2>6, <2>7, FailOutside
  <2>8. ASSUME NEW skip,
               SkipLoop(IF skip > 0 THEN DiscardOutput(r.s) ELSE r.s, skip)
        PROVE  CallInv'
    <3> DEFINE t == IF skip > 0 THEN DiscardOutput(r.s) ELSE r.s
    <3>1. Sound(t)  BY <2>5, DiscardSound
    <3> HIDE DEF t
    <3>2. SkipLoop(t, skip)  BY <2>8 DEF t
    <3> QED BY <1>1, <3>1, <3>2, SkipLoopOutside
  <2> QED BY <2>1, <2>7, <2>8
<1>3. CASE FillBuffer
  <2>1. pc \in {"skip", "fill"} /\ pc \in Running
    BY <1>3 DEF FillBuffer, Running
  <2>2. PICK r \in FillAndCode(state, MayFault) :
           \/ Fail(r)
           \/ /\ AvailOut(r.s) = 0
              /\ IF pc = "skip"
                 THEN SkipLoop(DiscardOutput(r.s), toSkip - AvailableBytes(r.s))
                 ELSE Return("ok", r.s.out, r.s)
           \/ \E n \in LoadNextBlock(r.s, MayFault) :
                 Fail(n) \/ (n.status = "ok" /\ Continue(pc, toSkip, n.s))
           \/ Continue(pc, toSkip, r.s)
    BY <1>3 DEF FillBuffer
  <2>3. /\ Sound(r.s) /\ SameBuffer(state, r.s) /\ r.s.iter \in Entries
    BY <2>1, TurnSound
  <2>4. r.status \in Faults => MayFault
    BY <2>1, MayFaultBoolean, FillAndCodeFacts DEF ReuseInv, Stage
  <2>5. pc = "fill" => state.size = call.length
    BY DEF CallInv, AtStages
  <2>6. CASE Fail(r)  BY <1>1, <2>4, <2>6, FailOutside
  <2>7. CASE pc = "skip"
             /\ SkipLoop(DiscardOutput(r.s), toSkip - AvailableBytes(r.s))
    <3>1. Sound(DiscardOutput(r.s))  BY <2>3, DiscardSound
    <3> QED BY <1>1, <2>7, <3>1, SkipLoopOutside
  <2>8. CASE pc = "fill" /\ AvailOut(r.s) = 0 /\ Return("ok", r.s.out, r.s)
    <3>1. r.s.out \in Seq(Nat) /\ Len(r.s.out) \in Nat /\ r.s.size \in Nat
      BY <2>3, SoundFields
    <3>2. Len(r.s.out) = call.length
      BY <2>3, <2>5, <2>8, <3>1 DEF SameBuffer, AvailOut
    <3>3. "ok" \notin Faults \union {"eof", "data", "range", "end"}
      BY DEF Faults
    <3> QED BY <1>1, <2>8, <3>1, <3>2, <3>3, ReturnCall
  <2>9. CASE \E n \in LoadNextBlock(r.s, MayFault) :
                Fail(n) \/ (n.status = "ok" /\ Continue(pc, toSkip, n.s))
    <3>1. PICK n \in LoadNextBlock(r.s, MayFault) :
             Fail(n) \/ (n.status = "ok" /\ Continue(pc, toSkip, n.s))
      BY <2>9
    <3>2. /\ n.status \in Faults => MayFault
          /\ SameOutput(r.s, n.s)
      BY <2>3, MayFaultBoolean, LoadNextBlockFacts
    <3>3. n.s.size = state.size  BY <2>3, <3>2 DEF SameOutput, SameBuffer
    <3>4. CASE Fail(n)  BY <1>1, <3>2, <3>4, FailOutside
    <3>5. CASE Continue(pc, toSkip, n.s)
      BY <1>1, <2>1, <2>5, <3>3, <3>5, ContinueCall
    <3> QED BY <3>1, <3>4, <3>5
  <2>10. CASE Continue(pc, toSkip, r.s)
    BY <1>1, <2>1, <2>3, <2>5, <2>10, ContinueCall DEF SameBuffer
  <2> QED BY <2>1, <2>2, <2>6, <2>7, <2>8, <2>9, <2>10
<1> QED BY <1>2, <1>3

-----------------------------------------------------------------------------
(* The caller, and the theorems                                            *)

LEMMA InvokeCall ==
  ASSUME CallInv, NEW c \in Calls, Disciplined(c), Invoke(c) PROVE CallInv'
<1>1. /\ pc = "idle" /\ call' = c /\ live' = TRUE /\ pc' = "start"
      /\ reply' = [status |-> "pending", data |-> << >>]
      /\ state' = state /\ toSkip' = toSkip /\ faults' = faults
  BY DEF Invoke, Contract!Pending
<1>2. /\ ~live => state = NewState
      /\ live /\ call.op = "read" /\ After < FileSize =>
           ReadyToRead(state, After)
      /\ live /\ call.op = "readInto" /\ reply.status = "ok" /\ Promised(call) =>
           ReadyToReadInto(state, After)
      /\ faults \in 0..MaxFaults
  BY <1>1 DEF CallInv, BetweenCalls, Replies
<1>3. ASSUME ReadsOn(c) PROVE StartReady(state)'
  <2>1. /\ c.op = "read" /\ 0 <= c.offset /\ c.offset < FileSize
        /\ ReadRequest(c)
        /\ \/ ~live /\ c.offset = Start[Locate(c.offset)]
           \/ live /\ call.op = "read" /\ c.offset = After
    BY <1>3 DEF ReadsOn, ReadRequest
  <2>2. ReadyToRead(state, c.offset)
    <3>1. CASE ~live /\ c.offset = Start[Locate(c.offset)]
      <4>1. state = NewState  BY <1>2, <3>1
      <4> QED BY <2>1, <3>1, <4>1, NewStateSound DEF ReadyToRead
    <3>2. CASE live /\ call.op = "read" /\ c.offset = After
      BY <1>2, <2>1, <3>2
    <3> QED BY <2>1, <3>1, <3>2
  <2> QED BY <1>1, <2>1, <2>2 DEF StartReady
<1>4. ASSUME ReadsIntoOn(c) PROVE StartReady(state)'
  BY <1>1, <1>2, <1>4
  DEF ReadsIntoOn, StartReady, ReadyToReadInto
<1>5. AtStages'  BY <1>1, <1>3, <1>4 DEF Disciplined, AtStages
<1>6. BetweenCalls'  BY <1>1 DEF BetweenCalls
<1>7. Replies'
  BY <1>1, <1>2, EmptySeq DEF Replies
<1>8. AnswersExact'  BY <1>1 DEF AnswersExact
<1>9. ErrorsHaveCauses'  BY <1>1 DEF ErrorsHaveCauses, Faults
<1> QED BY <1>5, <1>6, <1>7, <1>8, <1>9 DEF CallInv

LEMMA FinishCall == CallInv /\ Finish => CallInv'
<1> SUFFICES ASSUME CallInv, Finish PROVE CallInv'  OBVIOUS
<1>1. /\ pc = "idle" /\ pc' = "idle" /\ live' = FALSE /\ state' = NewState
      /\ call' = call /\ reply' = reply /\ faults' = faults
  BY DEF Finish
<1>2. AtStages' /\ BetweenCalls'  BY <1>1 DEF AtStages, BetweenCalls
<1>3. Replies' /\ AnswersExact' /\ ErrorsHaveCauses'
  BY <1>1 DEF CallInv, Replies, AnswersExact, ErrorsHaveCauses
<1> QED BY <1>2, <1>3 DEF CallInv

LEMMA InitCall == Init => CallInv
<1> SUFFICES ASSUME Init PROVE CallInv  OBVIOUS
<1>1. /\ live = FALSE /\ state = NewState /\ pc = "idle" /\ faults = 0
      /\ reply = [status |-> "none", data |-> << >>]
  BY DEF Init, Contract!None
<1>2. AtStages /\ BetweenCalls  BY <1>1 DEF AtStages, BetweenCalls
<1>3. Replies  BY <1>1, EmptySeq, CallsAssumption DEF Replies
<1>4. AnswersExact /\ ErrorsHaveCauses
  BY <1>1 DEF AnswersExact, ErrorsHaveCauses, Faults
<1> QED BY <1>2, <1>3, <1>4 DEF CallInv

LEMMA NextCall ==
  ASSUME NextContinues PROVE ReuseInv /\ CallInv /\ [Next]_vars => CallInv'
<1> SUFFICES ASSUME ReuseInv, CallInv, [Next]_vars PROVE CallInv'  OBVIOUS
<1>1. CASE UNCHANGED vars
  BY <1>1 DEF vars, CallInv, AtStages, StartReady, DecodeReady, SkipReady,
     FillReady, BetweenCalls, After, Replies, AnswersExact,
     ErrorsHaveCauses, Unfinished
<1>2. CASE Next
  <2>1. ASSUME StartReadInto \/ FillBuffer PROVE CallInv'
    BY <2>1, StartReadIntoCall, FillBufferCall, OutsideCall
  <2> QED
    BY <1>2, <2>1, StartReadCall, DecodeCall, FinishCall, InvokeCall
    DEF Next, Step
<1> QED BY <1>1, <1>2

(* The callers of the repository are some of the callers there could be. *)
LEMMA NextIsAny == [Next]_vars => [NextAny]_vars
BY DEF Next, NextAny

(* Every invariant of the callers of the repository. *)
LEMMA CallCorrect == ASSUME NextContinues PROVE Spec => [](ReuseInv /\ CallInv)
<1>1. Init => ReuseInv /\ CallInv  BY InitReuse, InitCall
<1>2. (ReuseInv /\ CallInv) /\ [Next]_vars => (ReuseInv /\ CallInv)'
  BY NextReuse, NextCall, NextIsAny
<1> QED BY <1>1, <1>2, PTL DEF Spec

(* Whatever the sizes of blocks, buffers and reads, and however calls fail *)
(* and are tried again: a read or readInto that succeeds delivers the      *)
(* bytes at its offset, and a readInto all of them (read and readInto).    *)
THEOREM AnswersCorrect == ASSUME NextContinues PROVE Spec => []AnswersExact
<1>1. ReuseInv /\ CallInv => AnswersExact  BY DEF CallInv
<1> QED BY <1>1, CallCorrect, PTL

(* The variables keep their types and ranges, and a decoding loop never    *)
(* runs without room for output.                                           *)
THEOREM TypeCorrect == ASSUME NextContinues PROVE Spec => []TypeOK
<1>1. ReuseInv /\ CallInv => TypeOK
  BY DEF ReuseInv, CallInv, Replies, Sound, Stage, Running, TypeOK
<1> QED BY <1>1, CallCorrect, PTL

(* read hands out nothing that the decoder has not written. *)
THEOREM ReadsStayInBuffer ==
  ASSUME NextContinues PROVE Spec => []ReadStaysInBuffer
<1>1. ASSUME ReuseInv, CallInv, call.op = "read"
      PROVE  \A i \in DOMAIN reply.data : reply.data[i] # Unwritten
  <2> DEFINE o == call.offset  n == Len(reply.data)
  <2>1. CASE reply.status # "ok"
    <3>1. reply.data = << >>  BY <2>1, <1>1 DEF CallInv, Replies
    <3>2. DOMAIN reply.data = {}  BY <3>1
    <3> QED BY <3>2
  <2>2. CASE reply.status = "ok"
    <3> DEFINE c == [call EXCEPT !.length = n]
    <3>1. reply.data = Bytes(o, n) /\ c.offset >= 0 /\ c.offset + c.length <= FileSize
      BY <1>1, <2>2, ReadsPromised DEF CallInv, AnswersExact, Contract!InFile
    <3>2. o \in Int /\ c.offset = o /\ c.length = n
      <4>1. CASE call \in Calls  BY <4>1, CallsAssumption, CallFields
      <4>2. CASE call = Contract!NoCall  BY <4>2 DEF Contract!NoCall
      <4> QED BY <1>1, <4>1, <4>2 DEF ReuseInv
    <3>3. n \in Nat
      <4>1. reply.data \in Seq(Nat)  BY <1>1 DEF CallInv, Replies
      <4> QED BY <4>1, LenProperties
    <3>4. o \in Nat /\ o + n <= FileSize /\ FileSize \in Nat
      BY <3>1, <3>2, ReaderAssumption
    <3> HIDE DEF n, o, c
    <3>5. DOMAIN reply.data = 1..n  BY <3>1 DEF Bytes
    <3>6. ASSUME NEW i \in 1..n PROVE reply.data[i] # FileSize
      <4>1. reply.data[i] = o + i - 1  BY <3>1, <3>3, <3>4, BytesType
      <4> QED BY <3>3, <3>4, <4>1
    <3> QED BY <3>5, <3>6 DEF Unwritten
  <2> QED BY <2>1, <2>2
<1>2. ReuseInv /\ CallInv => ReadStaysInBuffer
  BY <1>1 DEF ReadStaysInBuffer
<1> QED BY <1>2, CallCorrect, PTL

(* Between any two steps of a call the object is ready for the stage it is *)
(* at, and between any two calls for what its caller may ask next.         *)
THEOREM CallInvariant == ASSUME NextContinues PROVE Spec => []CallInv
<1>1. ReuseInv /\ CallInv => CallInv  OBVIOUS
<1> QED BY <1>1, CallCorrect, PTL

(* No call fails without a cause, whatever the sizes of blocks, buffers    *)
(* and compressed ranges: an intact block is never cut short by the end of *)
(* its input, and a range inside the file is never refused (read, readInto)*)
THEOREM ErrorsCaused == ASSUME NextContinues PROVE Spec => []ErrorsHaveCauses
<1>1. ReuseInv /\ CallInv => ErrorsHaveCauses  BY DEF CallInv
<1> QED BY <1>1, CallCorrect, PTL

-----------------------------------------------------------------------------
(* The refinement: every step of a call is a step of the IFile contract or *)
(* none at all.                                                            *)

(* What a step inside a call does to the variables the contract sees. *)
LEMMA StepAnswers ==
  ASSUME Step
  PROVE  /\ pc # "idle" /\ call' = call
         /\ \/ reply' = reply
            \/ \E status \in {"ok"} \union Failures : \E data :
                  reply' = [status |-> status, data |-> data]
<1> DEFINE Answered ==
      /\ call' = call
      /\ \/ reply' = reply
         \/ \E status \in {"ok"} \union Failures : \E data :
               reply' = [status |-> status, data |-> data]
<1>1. ASSUME NEW status \in {"ok"} \union Failures, NEW data, NEW t,
             Return(status, data, t)
      PROVE  Answered
  BY <1>1 DEF Return, Contract!Answer
<1>2. ASSUME NEW r, Fail(r) PROVE Answered  BY <1>1, <1>2 DEF Fail
<1>3. ASSUME NEW at, NEW skip, NEW t, Continue(at, skip, t) PROVE Answered
  BY <1>3 DEF Continue
<1> HIDE DEF Answered
<1>4. ASSUME NEW t, ReadLoop(t) PROVE Answered
  BY <1>1, <1>3, <1>4 DEF ReadLoop
<1>5. ASSUME NEW t, NEW skip, SkipLoop(t, skip) PROVE Answered
  BY <1>3, <1>5 DEF SkipLoop, FillCaller
<1>6. CASE StartRead
  BY <1>2, <1>4, <1>6 DEF StartRead, Answered
<1>7. CASE Decode
  BY <1>2, <1>3, <1>4, <1>7 DEF Decode, Answered
<1>8. CASE StartReadInto
  BY <1>2, <1>5, <1>8 DEF StartReadInto, Answered
<1>9. CASE FillBuffer
  BY <1>1, <1>2, <1>3, <1>5, <1>9 DEF FillBuffer, Answered
<1> QED BY <1>6, <1>7, <1>8, <1>9 DEF Step

(* A call that succeeds does what the contract says of a success. *)
LEMMA SuccessAllowed ==
  ASSUME CallInv, CallInv', pc # "idle", call' = call, reply'.status = "ok"
  PROVE  \/ Contract!ReadSucceeds \/ Contract!ReadIntoSucceeds
         \/ Contract!ReadIntoSucceedsOutside
<1> DEFINE n == Len(reply'.data)  c == [call EXCEPT !.length = n]
<1>1. /\ call \in Calls /\ reply.status = "pending"
  BY DEF CallInv, Replies
<1>2. /\ call.offset \in Int /\ call.length \in Nat
      /\ call.op \in {"read", "readInto"}
  BY <1>1, CallFields
<1>3. /\ reply' \in [status : {"none", "pending", "ok"} \union Failures,
                     data : Seq(Nat)]
  BY DEF CallInv, Replies
<1>4. /\ call.op = "read" => n \in 1..call.length
      /\ call.op = "readInto" => n = call.length
      /\ Promised(call) => /\ reply'.data = Bytes(call.offset, n)
                           /\ Contract!InFile(c)
  <2>1. Promised(call') <=> Promised(call)  OBVIOUS
  <2> QED BY <2>1 DEF CallInv, AnswersExact
<1>11. CASE ~Promised(call)
  <2>1. /\ call.op = "readInto" /\ ~Contract!InFile(call) /\ ~IndexEnds
    BY <1>2, <1>11 DEF Promised
  <2>2. reply' = Contract!Answer("ok", reply'.data)
    BY <1>3 DEF Contract!Answer
  <2> QED BY <1>1, <1>4, <2>1, <2>2 DEF Contract!ReadIntoSucceedsOutside
<1> SUFFICES ASSUME Promised(call)
             PROVE  Contract!ReadSucceeds \/ Contract!ReadIntoSucceeds
  BY <1>11
<1>5. c.offset = call.offset /\ c.length = n  BY <1>1, CallsAssumption
<1> HIDE DEF n
<1>6. reply' = [status |-> "ok", data |-> Bytes(call.offset, n)]
  BY <1>3, <1>4
<1>7. reply' = Contract!Answer("ok", Contract!Slice(call.offset, n))
  BY <1>6 DEF Contract!Answer, Contract!Slice, Bytes
<1>8. call.offset >= 0 /\ call.offset + n <= FileSize
  BY <1>4, <1>5 DEF Contract!InFile
<1>9. CASE call.op = "read"
  BY <1>1, <1>4, <1>7, <1>8, <1>9 DEF Contract!ReadSucceeds
<1>10. CASE call.op = "readInto"
  BY <1>1, <1>4, <1>7, <1>8, <1>10
     DEF Contract!ReadIntoSucceeds, Contract!InFile
<1> QED BY <1>2, <1>9, <1>10

(* A call that fails does what the contract says of a failure. *)
LEMMA FailureAllowed ==
  ASSUME CallInv, CallInv', pc # "idle", call' = call,
         reply'.status \in Failures
  PROVE  Contract!FailsFromBelow \/ Contract!FailsOutsideFile
<1>1. reply.status = "pending"  BY DEF CallInv, Replies
<1>2. /\ reply' \in [status : {"none", "pending", "ok"} \union Failures,
                     data : Seq(Nat)]
      /\ reply'.data = << >>
  BY DEF CallInv, Replies, Failures, Faults
<1>3. reply' = Contract!Answer(reply'.status, << >>)
  BY <1>2 DEF Contract!Answer
<1>4. CASE reply'.status \in {"io", "mem", "data", "eof"}
  BY <1>1, <1>3, <1>4 DEF Contract!FailsFromBelow
<1>5. CASE reply'.status \in {"range", "end"}
  <2>1. ~Contract!InFile(call)  BY <1>5 DEF CallInv, ErrorsHaveCauses
  <2> QED BY <1>1, <1>3, <1>5, <2>1 DEF Contract!FailsOutsideFile
<1> QED BY <1>4, <1>5 DEF Failures, Faults

LEMMA InitContract == Init => Contract!Init
BY DEF Init, Contract!Init

LEMMA NextContract ==
  CallInv /\ CallInv' /\ [Next]_vars => [Contract!Next]_(Contract!contract)
<1> SUFFICES ASSUME CallInv, CallInv', [Next]_vars
             PROVE  \/ Contract!Next
                    \/ call' = call /\ reply' = reply
  BY DEF Contract!contract
<1>1. CASE UNCHANGED vars \/ Finish  BY <1>1 DEF vars, Finish
<1>2. ASSUME NEW c \in Calls, Invoke(c) PROVE Contract!Next
  <2>1. reply.status # "pending"  BY <1>2 DEF Invoke, CallInv, Replies
  <2> QED BY <1>2, <2>1 DEF Invoke, Contract!Invoke, Contract!Next
<1>3. CASE Step
  <2>1. /\ pc # "idle" /\ call' = call
        /\ \/ reply' = reply
           \/ \E status \in {"ok"} \union Failures : \E data :
                 reply' = [status |-> status, data |-> data]
    BY <1>3, StepAnswers
  <2>2. \/ reply' = reply
        \/ reply'.status \in {"ok"} \union Failures
    BY <2>1
  <2> QED BY <2>1, <2>2, SuccessAllowed, FailureAllowed DEF Contract!Next
<1> QED BY <1>1, <1>2, <1>3 DEF Next

(* XZFile and IndexedDeflateFile implement what lib/file.h promises of an  *)
(* IFile: whatever a caller of the repository sees of them, it might see   *)
(* of the contract, for every file, buffer size and sequence of failures.  *)
THEOREM ContractImplemented ==
  ASSUME NextContinues PROVE Spec => ImplementsIFile
<1>1. CallInv /\ CallInv' /\ [Next]_vars => [Contract!Next]_(Contract!contract)
  BY NextContract
<1> QED
  BY <1>1, InitContract, CallInvariant, PTL
  DEF Spec, ImplementsIFile, Contract!Spec
=============================================================================
