------------------------------- MODULE IFile -------------------------------
(***************************************************************************)
(* The promise of class IFile (lib/file.h), seen by one thread with one    *)
(* FileReaderState: a call is answered once, either with an error or with  *)
(* the bytes of the file at the requested offset.  read() may answer with  *)
(* less than was asked for, readInto() may not.  How the answer is found   *)
(* is of no concern here.  "or throws an error" is not kept by every file  *)
(* when the range of a readInto leaves it: see RefusesOutside.             *)
(***************************************************************************)
EXTENDS Integers, Sequences

CONSTANTS
  FileSize,  \* filesize()
  Calls,     \* the calls callers make: records [op, offset, length]
  RefusesOutside   \* does a readInto fail when its range leaves the file?

VARIABLES
  call,      \* the current call, or the last one
  reply      \* [status, data]; status "pending" while the call runs

contract == <<call, reply>>

None    == [status |-> "none",    data |-> << >>]
Pending == [status |-> "pending", data |-> << >>]
NoCall  == [op |-> "none", offset |-> 0, length |-> 0]
Answer(status, data) == [status |-> status, data |-> data]

Slice(o, n) == [i \in 1..n |-> o + i - 1]

InFile(c) == c.offset >= 0 /\ c.offset + c.length <= FileSize

Init == call = NoCall /\ reply = None

(* A caller calls read or readInto *)
Invoke(c) ==
  /\ reply.status # "pending"
  /\ call' = c
  /\ reply' = Pending

(* read() succeeds with 1..length bytes from offset on *)
ReadSucceeds ==
  /\ reply.status = "pending" /\ call.op = "read"
  /\ \E n \in 1..call.length :
        /\ call.offset >= 0 /\ call.offset + n <= FileSize
        /\ reply' = Answer("ok", Slice(call.offset, n))
  /\ UNCHANGED call

(* readInto() succeeds with exactly length bytes, all of them in the file *)
ReadIntoSucceeds ==
  /\ reply.status = "pending" /\ call.op = "readInto"
  /\ InFile(call)
  /\ reply' = Answer("ok", Slice(call.offset, call.length))
  /\ UNCHANGED call

(* A file that does not refuse it fills the caller's storage with          *)
(* something, for a range that leaves the file                             *)
ReadIntoSucceedsOutside ==
  /\ reply.status = "pending" /\ call.op = "readInto"
  /\ ~InFile(call) /\ ~RefusesOutside
  /\ reply' = Answer("ok", reply'.data) /\ Len(reply'.data) = call.length
  /\ UNCHANGED call

(* The file below, the memory or the data may fail any call *)
FailsFromBelow ==
  /\ reply.status = "pending"
  /\ \E status \in {"io", "mem", "data", "eof"} :
        reply' = Answer(status, << >>)
  /\ UNCHANGED call

(* Only a range that leaves the file may be refused as such *)
FailsOutsideFile ==
  /\ reply.status = "pending" /\ ~InFile(call)
  /\ \E status \in {"range", "end"} : reply' = Answer(status, << >>)
  /\ UNCHANGED call

Next == \/ \E c \in Calls : Invoke(c)
        \/ ReadSucceeds \/ ReadIntoSucceeds \/ ReadIntoSucceedsOutside
        \/ FailsFromBelow \/ FailsOutsideFile

Spec == Init /\ [][Next]_contract
=============================================================================
