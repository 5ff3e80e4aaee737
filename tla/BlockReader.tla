---------------------------- MODULE BlockReader ----------------------------
(***************************************************************************)
(* The IFile of a compressed, block-wise indexed file, for one caller that *)
(* holds one FileReaderState*: XZFile::read, readInto and finish of        *)
(* lib/xz-file.cpp (IndexedDeflateFile has the same three).                *)
(*                                                                         *)
(* A call is several steps: its entry (state allocation, buffer selection, *)
(* seekBlockFor) and then one step per turn of the decoding loop, because  *)
(* each turn meets the file below and the decoder, which may do anything   *)
(* their interfaces allow.                                                 *)
(***************************************************************************)
EXTENDS ReaderState

CONSTANTS
  Calls,      \* the calls callers make: records [op, offset, length]
  MaxFaults   \* bound on the failures of the file below and of the memory

ASSUME CallsAssumption ==
  /\ MaxFaults \in Nat
  /\ \A c \in Calls :
        /\ c \in [op : {"read", "readInto"}, offset : Offsets, length : Nat]
        /\ c.length > 0     \* FileReader answers the empty ones itself

VARIABLES
  live,     \* internalState # nullptr
  state,    \* *internalState; while there is none, what its constructor makes
  call,     \* the current call, or the last one
  pc,       \* where the call is: idle, start, decode, skip, fill
  toSkip,   \* skipInBlock of readInto
  reply,    \* what the last call returned; status "pending" while it runs
  faults    \* failures of the file below so far

vars == <<live, state, call, pc, toSkip, reply, faults>>

Contract == INSTANCE IFile WITH FileSize <- FileSize, Calls <- Calls,
                               RefusesOutside <- IndexEnds,
                               call <- call, reply <- reply

MayFault == faults < MaxFaults

Init ==
  /\ live = FALSE /\ state = NewState
  /\ call = Contract!NoCall /\ reply = Contract!None
  /\ pc = "idle" /\ toSkip = 0 /\ faults = 0

-----------------------------------------------------------------------------
(* How a call ends. The caller's storage is the caller's again. *)

Released(t) == IF t.buf = "caller" THEN [t EXCEPT !.buf = "stale"] ELSE t

Return(status, data, t) ==
  /\ reply' = Contract!Answer(status, data)
  /\ state' = Released(t)
  /\ pc' = "idle" /\ toSkip' = 0
  /\ faults' = IF status \in Faults THEN faults + 1 ELSE faults
  /\ UNCHANGED <<live, call>>

Fail(r) == r.status \in Failures /\ Return(r.status, << >>, r.s)

Continue(at, skip, t) ==
  /\ pc' = at /\ toSkip' = skip /\ state' = t
  /\ UNCHANGED <<live, call, reply, faults>>

-----------------------------------------------------------------------------
(* read() *)

(* The top of read's loop: what is there may do, else decode into an empty *)
(* buffer.  The data returned starts at next_out - have: at currentBuffer, *)
(* and is overlap bytes long, whether or not so many have been written.    *)
Unwritten == FileSize
HandedOut(t, n) ==
  [i \in 1..n |-> IF i <= Len(t.out) THEN t.out[i] ELSE Unwritten]

ReadLoopStrict(t) ==
  LET overlap == t.position + AvailableBytes(t) - call.offset
  IN  IF overlap >= 0 THEN Return("ok", HandedOut(t, overlap), t)
                      ELSE Continue("decode", 0, DiscardOutput(t))
ReadLoop(t) ==
  LET overlap == t.position + AvailableBytes(t) - call.offset
  IN  IF overlap > 0 THEN Return("ok", HandedOut(t, overlap), t)
                     ELSE Continue("decode", 0, DiscardOutput(t))

StartRead ==
  /\ pc = "start" /\ call.op = "read"
  /\ \E r \in SeekBlockFor(SelectDefaultBuffer(state), call.offset, MayFault) :
        Fail(r) \/ (r.status = "ok" /\ ReadLoop(r.s))

(* One turn of decode(), whose output buffer is empty on entry *)
Decode ==
  /\ pc = "decode"
  /\ \E r \in FillAndCode(state, MayFault) :
        \/ Fail(r)
        \/ /\ r.status = "streamEnd" /\ r.s.out = << >>
           /\ \E n \in LoadNextBlock(r.s, MayFault) :
                 Fail(n) \/ (n.status = "ok" /\ Continue("decode", 0, n.s))
        \/ /\ r.status = "ok" \/ (r.status = "streamEnd" /\ r.s.out # << >>)
           /\ ReadLoop(r.s)

-----------------------------------------------------------------------------
(* readInto() *)

(* After the skip the caller's storage becomes the buffer; skipInBlock is  *)
(* never negative here, so the overlap that is copied is always empty.     *)
FillCaller(t) == Continue("fill", 0, SelectBuffer(t, "caller", call.length))

SkipLoopUnbounded(t, skip) ==
  IF skip > 0 THEN Continue("skip", skip, t) ELSE FillCaller(t)
SkipLoopShort(t, skip) ==
  IF skip > 0
  THEN Continue("skip", skip, IF AvailOut(t) >= skip
                              THEN SelectBuffer(t, "default", skip - 1) ELSE t)
  ELSE FillCaller(t)
SkipLoop(t, skip) ==
  IF skip > 0
  THEN Continue("skip", skip, IF AvailOut(t) > skip
                              THEN SelectBuffer(t, "default", skip) ELSE t)
  ELSE FillCaller(t)

StartReadInto ==
  /\ pc = "start" /\ call.op = "readInto"
  /\ \E r \in SeekBlockFor(SelectDefaultBuffer(state), call.offset, MayFault) :
        \/ Fail(r)
        \/ /\ r.status = "ok"
           /\ LET skip == call.offset - r.s.position + AvailableBytes(r.s)
              IN  SkipLoop(IF skip > 0 THEN DiscardOutput(r.s) ELSE r.s, skip)

(* One turn of decodeFillBuffer(), in the skip or into the caller's storage *)
FillBuffer ==
  /\ pc \in {"skip", "fill"}
  /\ \E r \in FillAndCode(state, MayFault) :
        \/ Fail(r)
        \/ /\ r.status \in {"ok", "streamEnd"} /\ AvailOut(r.s) = 0
           /\ IF pc = "skip"
              THEN SkipLoop(DiscardOutput(r.s), toSkip - AvailableBytes(r.s))
              ELSE Return("ok", r.s.out, r.s)
        \/ /\ r.status = "streamEnd" /\ AvailOut(r.s) > 0
           /\ \E n \in LoadNextBlock(r.s, MayFault) :
                 Fail(n) \/ (n.status = "ok" /\ Continue(pc, toSkip, n.s))
        \/ /\ r.status = "ok" /\ AvailOut(r.s) > 0
           /\ Continue(pc, toSkip, r.s)

-----------------------------------------------------------------------------
(* The caller *)

(* A call enters; a missing state is allocated first *)
Invoke(c) ==
  /\ pc = "idle"
  /\ call' = c /\ reply' = Contract!Pending
  /\ live' = TRUE /\ pc' = "start"
  /\ UNCHANGED <<state, toSkip, faults>>

Finish ==
  /\ pc = "idle" /\ live
  /\ live' = FALSE /\ state' = NewState
  /\ UNCHANGED <<call, pc, toSkip, reply, faults>>

Step == StartRead \/ Decode \/ StartReadInto \/ FillBuffer

(* A caller that reuses its state for any sequence of calls *)
NextAny == Step \/ Finish \/ \E c \in Calls : Invoke(c)
SpecAny == Init /\ [][NextAny]_vars /\ WF_vars(Step)

(***************************************************************************)
(* What the callers in the repository do.  The tools read on sequentially  *)
(* from the start of a block, each time asking for at least what the state *)
(* can hold, or for all that is left, and give up on an error; that they   *)
(* might try the same again is left possible here.  XZInputStream.readInt  *)
(* seeks its FileReader first, so that readInto gets a new state; a        *)
(* FileReader that is not sought goes on with the used state where the     *)
(* last, successful readInto ended.  A FileReader does not limit readInto: *)
(* readInt passes on any range, also one that leaves the file.             *)
(***************************************************************************)
After == call.offset + Len(reply.data)

(* The answer is known by the offset: the range of the call lies in the    *)
(* file, or the index ends with the file, so that others are refused.      *)
Promised(c) == c.op = "read" \/ Contract!InFile(c) \/ IndexEnds

ReadsOn(c) ==
  /\ c.op = "read"
  /\ 0 <= c.offset /\ c.offset < FileSize
  /\ c.length >= Smaller(BufSize, FileSize - c.offset)
  /\ \/ ~live /\ c.offset = Start[Locate(c.offset)]
     \/ live /\ call.op = "read" /\ c.offset = After

ReadsIntoOn(c) ==
  /\ c.op = "readInto"
  /\ live => /\ call.op = "readInto" /\ reply.status = "ok"
             /\ c.offset = After /\ Promised(call)

Disciplined(c) == ReadsOn(c) \/ ReadsIntoOn(c)

Next == Step \/ Finish \/ \E c \in Calls : Disciplined(c) /\ Invoke(c)
Spec == Init /\ [][Next]_vars /\ WF_vars(Step)

-----------------------------------------------------------------------------
(* Types and ranges of the variables; the decoder always has room for      *)
(* output and at most a buffer of it (the assertion in decode).            *)
TypeOK ==
  /\ live \in BOOLEAN /\ state \in StateType
  /\ call \in Calls \union {Contract!NoCall}
  /\ pc \in {"idle", "start", "decode", "skip", "fill"}
  /\ toSkip \in Nat
  /\ reply \in [status : {"none", "pending", "ok"} \union Failures, data : Seq(Nat)]
  /\ faults \in 0..MaxFaults
  /\ Len(state.out) <= state.size
  /\ pc \in {"decode", "skip", "fill"} => AvailOut(state) > 0

(* A successful read returns 1..length bytes from the requested offset on, *)
(* a successful readInto as many as it was asked for, and exactly those    *)
(* where they exist: no byte of another offset, wherever blocks end and    *)
(* buffers fill up (read and readInto).                                    *)
AnswersExact ==
  reply.status = "ok" =>
    /\ call.op = "read" => Len(reply.data) \in 1..call.length
    /\ call.op = "readInto" => Len(reply.data) = call.length
    /\ Promised(call) =>
         /\ reply.data = Bytes(call.offset, Len(reply.data))
         /\ Contract!InFile([call EXCEPT !.length = Len(reply.data)])

(* No call fails without a cause: data is rejected or runs out only in a   *)
(* damaged block, and only a range that leaves the file is refused (the    *)
(* error returns of seekBlockFor, loadBlock, decode, decodeFillBuffer).    *)
(* Behind the end of a file whose index goes on there, input may run out.  *)
ErrorsHaveCauses ==
  /\ live /\ reply.status \in {"eof", "data"} /\ Promised(call) =>
       state.iter \in Damaged
  /\ reply.status \in {"range", "end"} => ~Contract!InFile(call)
  /\ reply.status \in Faults => faults > 0

(* The decoder never sees compressed data of another place than the one it *)
(* continues from: the input left over when the reader was sought is gone  *)
(* (strm.avail_in = 0 in loadBlock), and what is read next follows it.     *)
InputInSync ==
  pc \in {"decode", "skip", "fill"} =>
    /\ InSync(state) /\ state.dec.blk = state.iter
    /\ state.reader = [blk |-> state.in.blk, pos |-> state.in.pos + state.in.n]

(* The decoder never writes into storage of an earlier call: the pointer   *)
(* readInto leaves in currentBuffer is replaced before it is used again.   *)
NoStaleWrite ==
  pc \in {"decode", "skip", "fill"} =>
    state.buf = IF pc = "fill" THEN "caller" ELSE "default"

(* read hands out only bytes the decoder has written: the size of its      *)
(* answer comes from position, which the seek keeps at or below the offset.*)
ReadStaysInBuffer ==
  call.op = "read" => \A i \in DOMAIN reply.data : reply.data[i] # Unwritten

(* The IFile contract is implemented: no call is answered otherwise. *)
ImplementsIFile == Contract!Spec

(* Every call returns, whatever fails below (the loops of read and readInto).*)
CallsReturn == (pc # "idle") ~> (pc = "idle")

-----------------------------------------------------------------------------
(* What lib/file.h says of files and calls that are out of the ordinary:    *)
(* the code does not keep these promises.                                   *)

(* readInto "reads exactly length bytes": those at its offset, of the       *)
(* contents whose size filesize() reports.                                  *)
ReadIntoExact ==
  reply.status = "ok" /\ call.op = "readInto" =>
    reply.data = Bytes(call.offset, call.length)

(* readInto "reads exactly length bytes - or throws an error": the bytes of *)
(* a range that leaves the file are not there, so the error comes.          *)
OverEndRefused ==
  (pc # "idle" /\ call.op = "readInto" /\ ~Contract!InFile(call))
    ~> (pc = "idle" /\ reply.status \in Failures)
=============================================================================
