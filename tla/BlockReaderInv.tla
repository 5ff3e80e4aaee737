--------------------------- MODULE BlockReaderInv ---------------------------
(***************************************************************************)
(* Why BlockReader is right: the invariants its proofs rest on.            *)
(***************************************************************************)
EXTENDS BlockReader

(* The uncompressed offset of the next byte the decoder makes *)
Decoded(s) == Start[s.dec.blk] + s.dec.made

(* The compressed data the decoder meets next is what it needs next *)
Fed(s) ==
  /\ s.reader.blk \in Entries /\ s.in.blk = s.reader.blk
  /\ s.reader.pos = s.in.pos + s.in.n
  /\ s.reader.pos <= InLen[s.reader.blk]

Decoding(s) ==
  /\ s.iter \in Entries /\ s.dec.blk = s.iter
  /\ Fed(s) /\ InSync(s)
  /\ s.dec.used <= CSize[s.iter] /\ s.dec.made <= USize[s.iter]
  /\ s.dec.made < USize[s.iter] => s.dec.used < CSize[s.iter]
  /\ s.dec.bad => s.iter \in Damaged

(* The decoder has not met the end of its block *)
Unfinished(s) == s.dec.used < CSize[s.iter]

(* A state object between any two steps of any sequence of calls *)
Sound(s) ==
  /\ s \in StateType
  /\ s.size > 0 /\ Len(s.out) <= s.size
  /\ s.position >= -1
  /\ s.position >= 0 => Decoding(s)

Running == {"decode", "skip", "fill"}

(* What a decoding loop finds at its top *)
Stage(at, s, skip) ==
  /\ at \in Running => s.position >= 0 /\ AvailOut(s) > 0
  /\ at = "decode" => s.buf = "default" /\ s.out = << >>
  /\ at = "skip" => s.buf = "default" /\ skip > 0
  /\ at = "fill" => s.buf = "caller"

(* Inductive under any reuse of the state *)
ReuseInv ==
  /\ live \in BOOLEAN /\ pc \in {"idle", "start"} \union Running
  /\ toSkip \in Nat
  /\ call \in Calls \union {Contract!NoCall}
  /\ pc # "idle" => call \in Calls
  /\ Sound(state) /\ Stage(pc, state, toSkip)

-----------------------------------------------------------------------------
(* Inductive, together with ReuseInv, for the callers of the repository *)

DefaultBuffer(s) == s.buf = "default" /\ s.size = BufSize

(* The buffer holds the bytes at position and the decoder stands behind it *)
Tracks(s) ==
  /\ s.out = Bytes(s.position, Len(s.out))
  /\ Decoded(s) = s.position + Len(s.out)
  /\ Start[s.iter] <= s.position /\ Start[s.iter] < BlockEnd(s.iter)

(* Where a read of offset o may find the state *)
ReadyToRead(s, o) ==
  /\ DefaultBuffer(s)
  /\ 0 <= o /\ o < FileSize
  /\ \/ s.position = -1 /\ s.out = << >> /\ Start[Locate(o)] = o
     \/ s.position >= 0 /\ Tracks(s) /\ o \in {s.position, Decoded(s)}

(* Where a readInto of offset o may find the state: new, or the last       *)
(* readInto ended at o.  position may be too large then, never too small.  *)
ReadyToReadInto(s, o) ==
  \/ s = NewState
  \/ /\ s.buf = "stale" /\ s.position >= 0
     /\ Decoded(s) = o /\ o <= s.position + Len(s.out)

ReadRequest(c) == c.length >= Smaller(BufSize, FileSize - c.offset)

(* What the stages of a call rely on *)
StartReady(s) ==
  \/ /\ call.op = "read" /\ ReadRequest(call)
     /\ ReadyToRead(s, call.offset)
  \/ /\ call.op = "readInto"
     /\ ReadyToReadInto(s, call.offset)

DecodeReady(s) ==
  /\ call.op = "read" /\ ReadRequest(call)
  /\ DefaultBuffer(s) /\ Tracks(s)
  /\ s.position = call.offset /\ call.offset < BlockEnd(s.iter)

SkipReady(s, skip) ==
  /\ call.op = "readInto"
  /\ Decoded(s) = s.position + Len(s.out)
  /\ s.position + skip = call.offset
  /\ call.offset < BlockEnd(s.iter) /\ s.size <= skip

FillReady(s) ==
  /\ call.op = "readInto"
  /\ call.offset >= 0 /\ s.size = call.length
  /\ s.out = Bytes(call.offset, Len(s.out))
  /\ Decoded(s) = call.offset + Len(s.out)
  /\ Decoded(s) <= s.position + Len(s.out)

(* Where the range leaves a file whose index goes on behind its end, the   *)
(* caller's storage is still filled exactly                                *)
AtStages ==
  /\ pc = "decode" => call.op = "read"
  /\ pc \in {"skip", "fill"} => call.op = "readInto"
  /\ pc = "fill" => state.size = call.length
  /\ Promised(call) =>
       /\ pc = "start"  => StartReady(state)
       /\ pc = "decode" => DecodeReady(state)
       /\ pc = "skip"   => SkipReady(state, toSkip)
       /\ pc = "fill"   => FillReady(state) /\ Unfinished(state)

(* What the caller relies on between calls *)
BetweenCalls ==
  pc = "idle" =>
    /\ ~live => state = NewState
    /\ live /\ call.op = "read" /\ After < FileSize =>
         ReadyToRead(state, After)
    /\ live /\ call.op = "readInto" /\ reply.status = "ok" /\ Promised(call) =>
         ReadyToReadInto(state, After)

Replies ==
  /\ reply \in [status : {"none", "pending", "ok"} \union Failures,
                data : Seq(Nat)]
  /\ reply.status # "ok" => reply.data = << >>
  /\ pc # "idle" <=> reply.status = "pending"
  /\ pc # "idle" => live
  /\ live => call \in Calls
  /\ faults \in 0..MaxFaults

CallInv ==
  AtStages /\ BetweenCalls /\ Replies /\ AnswersExact /\ ErrorsHaveCauses
=============================================================================
