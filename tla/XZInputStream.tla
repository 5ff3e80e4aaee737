--------------------------- MODULE XZInputStream ---------------------------
(***************************************************************************)
(* An XZInputStream object (java/.../XZInputStream.java) and its native     *)
(* methods openFile, readInt and closeFile (lib/de_..._XZInputStream.cpp):  *)
(* one FileReader, whose address the object keeps in nativePtr, and the     *)
(* Java threads that call readInt.                                          *)
(*                                                                         *)
(* Memory is bytes: a byte that was read is its place in the contents.  A   *)
(* step of a call is what it does between two places where others can see   *)
(* or disturb it.                                                           *)
(***************************************************************************)
EXTENDS Integers, ReaderPart

CONSTANTS
  Threads,
  Length,     \* filesize() of the archive
  Lasts,      \* where the last block may start, for a readInto over the end
  ArrayLen,   \* the length of each thread's int array
  Args,       \* arguments of readInt: records [offset, start, length]
  MaxInt,     \* the largest jint
  MayFail     \* may opening, reading, GetFieldID and GetIntArrayElements fail?

NoMore == -1   \* in Lasts: a readInto over the end finds no block there

ASSUME StreamAssumption ==
  /\ Length \in Nat /\ Lasts \subseteq {NoMore} \cup 0..Length
  /\ ArrayLen \in Nat /\ MaxInt \in Nat /\ MayFail \in BOOLEAN
  /\ Args \subseteq [offset : Int, start : Int, length : Int]

VARIABLES
  object,    \* "opening", "open", "refused", "unreachable", "closing", "finalized"
  nativePtr, \* is it set?
  reader,    \* does the FileReader exist?
  part,      \* its part of the contents
  last,      \* the archive's last block, one of Lasts
  pc,        \* where a thread's call is; "ok" or "thrown" after it
  arg,       \* its arguments
  array,     \* its Java array, byte by byte
  buf,       \* what buf points to: a copy of the array, or the array itself
  before,    \* its array when it called
  crashed    \* an assertion failed, or memory out of bounds was written

object_ == <<object, nativePtr, reader>>
vars == <<object, nativePtr, reader, part, last, pc, arg, array, buf, before, crashed>>

Bytes == 0..(4 * ArrayLen - 1)   \* byte b is one of int b \div 4
Old == [b \in Bytes |-> -1 - b]
Pinned == << >>   \* no copy
NoArg == [offset |-> 0, start |-> 0, length |-> 0]
Outside == {"idle", "ok", "thrown"}
Using   == {"seek", "read", "convert"}

Init ==
  /\ object = "opening" /\ nativePtr = FALSE /\ reader = FALSE
  /\ part = [offset |-> 0, length |-> 0] /\ last = NoMore
  /\ pc = [t \in Threads |-> "idle"] /\ arg = [t \in Threads |-> NoArg]
  /\ array = [t \in Threads |-> Old]
  /\ buf = [t \in Threads |-> Pinned]
  /\ before = array /\ crashed = FALSE

-----------------------------------------------------------------------------
(* openFile, called by the constructor *)

KeepsCalls == UNCHANGED <<pc, arg, array, buf, before, crashed>>

(* The file is mapped, its magic bytes decide for a format, its index is    *)
(* parsed, and a reader made of it                                          *)
OpenArchive ==
  /\ object = "opening" /\ ~reader
  /\ \/ /\ reader' = TRUE /\ part' = FixLength(Length, 0, ToEnd)
        /\ last' \in Lasts /\ UNCHANGED object
     \/ MayFail /\ object' = "refused" /\ UNCHANGED <<reader, part, last>>
  /\ UNCHANGED nativePtr /\ KeepsCalls

(* The object gets the reader; if it has not the fields, the reader goes *)
SetFieldsLeaks ==
  /\ object = "opening" /\ reader
  /\ \/ object' = "open" /\ nativePtr' = TRUE
     \/ MayFail /\ object' = "refused" /\ UNCHANGED nativePtr
  /\ UNCHANGED <<reader, part, last>> /\ KeepsCalls
SetFields ==
  /\ object = "opening" /\ reader
  /\ \/ object' = "open" /\ nativePtr' = TRUE /\ UNCHANGED reader
     \/ MayFail /\ object' = "refused" /\ reader' = FALSE /\ UNCHANGED nativePtr
  /\ UNCHANGED <<part, last>> /\ KeepsCalls

-----------------------------------------------------------------------------
(* finalize: the virtual machine calls it when nothing refers to the object *)
(* any more, and a native method that runs does.  An object whose           *)
(* constructor has thrown is finalized as well.                             *)

Drop ==
  /\ object \in {"open", "refused"} /\ \A t \in Threads : pc[t] \in Outside
  /\ object' = "unreachable" /\ UNCHANGED <<nativePtr, reader, part, last>> /\ KeepsCalls

(* closeFile: the pointer is taken out of the object, then deleted.  When   *)
(* the field is not found nothing happens: the reader stays.                *)
TakePtr ==
  /\ object = "unreachable"
  /\ \/ MayFail /\ object' = "finalized" /\ UNCHANGED nativePtr
     \/ object' = (IF nativePtr THEN "closing" ELSE "finalized") /\ nativePtr' = FALSE
  /\ UNCHANGED <<reader, part, last>> /\ KeepsCalls
DeleteReader ==
  /\ object = "closing" /\ object' = "finalized" /\ reader' = FALSE
  /\ UNCHANGED <<nativePtr, part, last>> /\ KeepsCalls

-----------------------------------------------------------------------------
(* readInt *)

Goes(t, at) == pc' = [pc EXCEPT ![t] = at]

Call(t) ==
  /\ object = "open" /\ pc[t] \in Outside
  /\ \E a \in Args : arg' = [arg EXCEPT ![t] = a]
  /\ array' = [array EXCEPT ![t] = Old]
  /\ before' = [before EXCEPT ![t] = array'[t]]
  /\ Goes(t, "enter") /\ UNCHANGED <<object_, part, last, buf, crashed>>

(* The range has to be inside the array.  A negative length is not refused. *)
InArrayFromZero(a) == a.start >= 0 /\ a.length <= ArrayLen
InArray(a) ==
  /\ a.start >= 0 /\ a.start <= ArrayLen
  /\ a.length <= ArrayLen - a.start

(* GetIntArrayElements copies the array or gives the array itself *)
Enter(t) ==
  /\ pc[t] = "enter"
  /\ \/ /\ ~nativePtr \/ ~InArray(arg[t]) \/ MayFail
        /\ Goes(t, "thrown") /\ UNCHANGED buf
     \/ /\ nativePtr /\ InArray(arg[t]) /\ Goes(t, "seek")
        /\ \E b \in {Pinned, array[t]} : buf' = [buf EXCEPT ![t] = b]
  /\ UNCHANGED <<object_, part, last, arg, array, before, crashed>>

SeekKeepsPart(t) ==
  /\ pc[t] = "seek" /\ Goes(t, "read")
  /\ UNCHANGED <<object_, part, last, arg, array, buf, before, crashed>>
Seek(t) ==
  /\ pc[t] = "seek" /\ Goes(t, "read")
  /\ part' = FixLength(Length, arg[t].offset, ToEnd)
  /\ UNCHANGED <<object_, last, arg, array, buf, before, crashed>>

(* 4 * length in an int: when it does not fit, it may have wrapped around   *)
(* or become a larger number.                                               *)
Wrap(n) == LET width == 2 * (MaxInt + 1)
           IN  ((n + MaxInt + 1) % width) - (MaxInt + 1)
ByteCounts(length) ==
  IF 4 * length \in (-MaxInt - 1)..MaxInt THEN {4 * length}
  ELSE {4 * length, Wrap(4 * length)}

(* What buf points to, and a change of it from the call's start on *)
Elements(t) == IF buf[t] = Pinned THEN array[t] ELSE buf[t]
Change(t, new) ==
  IF buf[t] = Pinned THEN array' = [array EXCEPT ![t] = new] /\ UNCHANGED buf
                     ELSE buf' = [buf EXCEPT ![t] = new] /\ UNCHANGED array

(* The place of byte o of what readInto delivers: behind the contents an    *)
(* indexed-deflate file goes on with its last block, over and over.         *)
Repeats == last \in 0..(Length - 1)
Place(o) ==
  IF o >= Length /\ Repeats THEN last + ((o - Length) % (Length - last)) ELSE o

(* m bytes from the reader's offset, put at the start of the call's range *)
Into(t, b) == b - 4 * arg[t].start
FilledFromZero(t, m) ==
  [b \in Bytes |-> IF b < m THEN Place(part.offset + b) ELSE Elements(t)[b]]
Filled(t, m) ==
  [b \in Bytes |-> IF Into(t, b) \in 0..(m - 1) THEN Place(part.offset + Into(t, b))
                                                 ELSE Elements(t)[b]]
Room(t) == 4 * (ArrayLen - arg[t].start)

(* readInto of the file can write m bytes from the reader's offset on; it   *)
(* has to give up when no block has the offset or none follows the last,    *)
(* and may when it skips the last block first: the input may be used up     *)
(* then.  An empty last block leads to itself, and the call never ends.     *)
Reaches(m) ==
  m = 0 \/ (part.offset \in 0..Length /\ (Repeats \/ part.offset + m <= Length))
GivesUp(n) ==
  \/ ~Reaches(n) /\ (last = NoMore \/ part.offset \notin 0..Length)
  \/ part.offset = Length /\ Repeats

(* readInto of the reader, which asserts that the size is not negative.     *)
(* When it fails it may have stopped after any byte.                        *)
Read(t) ==
  /\ pc[t] = "read" /\ UNCHANGED <<object_, last, arg, before>>
  /\ \E n \in ByteCounts(arg[t].length) :
       \/ /\ n < 0 \/ \E m \in 0..n : Reaches(m) /\ m > Room(t)
          /\ crashed' = TRUE /\ Goes(t, "idle") /\ UNCHANGED <<array, buf, part>>
       \/ /\ UNCHANGED crashed
          /\ \E m \in 0..n :
               /\ Reaches(m) /\ m <= Room(t) /\ Change(t, Filled(t, m))
               /\ \/ m = n /\ Goes(t, "convert") /\ part' = Advance(part, n)
                  \/ /\ n > 0 /\ (MayFail \/ GivesUp(n))
                     /\ Goes(t, "fail") /\ UNCHANGED part

(* htonl of each int: where the processor is little-endian, its bytes in    *)
(* the opposite order                                                       *)
Mirror(b) == 8 * (b \div 4) + 3 - b
ConvertOneLess(t) ==
  /\ pc[t] = "convert" /\ Goes(t, "release")
  /\ Change(t, [b \in Bytes |-> IF b \div 4 - arg[t].start \in 0..(arg[t].length - 2)
                                THEN Elements(t)[Mirror(b)] ELSE Elements(t)[b]])
  /\ UNCHANGED <<object_, part, last, arg, before, crashed>>
Convert(t) ==
  /\ pc[t] = "convert" /\ Goes(t, "release")
  /\ Change(t, [b \in Bytes |-> IF b \div 4 - arg[t].start \in 0..(arg[t].length - 1)
                                THEN Elements(t)[Mirror(b)] ELSE Elements(t)[b]])
  /\ UNCHANGED <<object_, part, last, arg, before, crashed>>

(* ReleaseIntArrayElements writes a copy back, also before an exception *)
ReleaseCopies(t) ==
  /\ pc[t] \in {"release", "fail"}
  /\ Goes(t, IF pc[t] = "release" THEN "ok" ELSE "thrown")
  /\ array' = [array EXCEPT ![t] = buf[t]] /\ buf' = [buf EXCEPT ![t] = Pinned]
  /\ UNCHANGED <<object_, part, last, arg, before, crashed>>
Release(t) ==
  /\ pc[t] \in {"release", "fail"}
  /\ Goes(t, IF pc[t] = "release" THEN "ok" ELSE "thrown")
  /\ array' = [array EXCEPT ![t] = Elements(t)] /\ buf' = [buf EXCEPT ![t] = Pinned]
  /\ UNCHANGED <<object_, part, last, arg, before, crashed>>

CallStep(t) == Enter(t) \/ Seek(t) \/ Read(t) \/ Convert(t) \/ Release(t)
ObjectStep  == OpenArchive \/ SetFields \/ TakePtr \/ DeleteReader

(* Any thread may call at any time *)
NextAny == ~crashed /\ (ObjectStep \/ Drop \/ \E t \in Threads : Call(t) \/ CallStep(t))
SpecAny == Init /\ [][NextAny]_vars

(* The threads take turns: nobody calls while a call runs *)
TakesTurn(t) == \A u \in Threads \ {t} : pc[u] \in Outside
Next ==
  /\ ~crashed
  /\ \/ ObjectStep \/ Drop
     \/ \E t \in Threads : (TakesTurn(t) /\ Call(t)) \/ CallStep(t)
Spec == Init /\ [][Next]_vars

-----------------------------------------------------------------------------
(* Properties *)

Arrays == [Bytes -> Int]

(* Every variable has its type. *)
TypeOK ==
  /\ object \in {"opening", "open", "refused", "unreachable", "closing", "finalized"}
  /\ nativePtr \in BOOLEAN /\ reader \in BOOLEAN /\ crashed \in BOOLEAN
  /\ part \in [offset : Int, length : Int] /\ last \in Lasts \cup {NoMore}
  /\ \A t \in Threads :
       /\ pc[t] \in Outside \cup Using \cup {"enter", "fail", "release"}
       /\ arg[t] \in Args \cup {NoArg} /\ array[t] \in Arrays
       /\ buf[t] = Pinned \/ buf[t] \in Arrays

Fits(a) == a.length >= 0 /\ 4 * a.length <= MaxInt
InRange(a, b) == b \div 4 - a.start \in 0..(a.length - 1)

(* A readInt that returns has put the ints at the offset into the range,    *)
(* converted, whether it worked on a copy of the array or in place, and     *)
(* wherever earlier calls, failed ones too, have left the reader.  A range  *)
(* that leaves the contents is delivered only by an archive whose index     *)
(* goes on there, and what is behind the contents are bytes of its last     *)
(* block.                                                                   *)
IntsDelivered ==
  \A t \in Threads : pc[t] = "ok" /\ Fits(arg[t]) =>
    \A b \in Bytes : InRange(arg[t], b) =>
      LET o == arg[t].offset + Into(t, Mirror(b))
      IN  /\ o >= 0
          /\ o < Length => array[t][b] = o
          /\ o >= Length => last # NoMore /\ array[t][b] \in last..(Length - 1)

(* No call changes a byte outside of its range.  One that throws leaves in  *)
(* it, in their order, bytes from the offset on up to where it stopped, in  *)
(* the middle of an int too, and behind them what was there.  A negative    *)
(* length, which is not refused, may wrap around to a positive number.      *)
RestKept ==
  \A t \in Threads : pc[t] \in {"ok", "thrown"} /\ arg[t].length >= 0 =>
    /\ \A b \in Bytes : ~InRange(arg[t], b) => array[t][b] = before[t][b]
    /\ pc[t] = "thrown" =>
         \E m \in 0..(4 * arg[t].length) : \A b \in Bytes :
           array[t][b] = IF Into(t, b) \in 0..(m - 1) THEN Place(arg[t].offset + Into(t, b))
                                                      ELSE before[t][b]

(* The reader exists while a call uses it and while the object refers to it,*)
(* and but for the time openFile and closeFile hold it, it exists only as   *)
(* long as the object refers to it: a refused open deletes it, and so does  *)
(* closeFile, unless it does not find the field.                            *)
ReaderOwned ==
  /\ \A t \in Threads : pc[t] \in Using => reader
  /\ nativePtr => reader
  /\ object \notin {"opening", "closing"} /\ reader => nativePtr

(* Nothing is written out of bounds and no assertion fails, for any         *)
(* arguments but negative lengths and those of more bytes than an int counts*)
CrashesOnlyUnfit == crashed => \E t \in Threads : ~Fits(arg[t])

(* Different threads use different FileReaders, as the comment at class     *)
(* FileReader asks for.                                                     *)
OneThreadPerReader ==
  \A t, u \in Threads : pc[t] \in Using /\ pc[u] \in Using => t = u
=============================================================================
