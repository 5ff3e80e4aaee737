------------------------ MODULE XZInputStreamProofs ------------------------
(***************************************************************************)
(* XZInputStream objects with archives, arrays and arguments of any size,   *)
(* and any number of threads: the reader's lifetime, the bounds of the      *)
(* array, and, when the threads take turns, what readInt delivers.          *)
(***************************************************************************)
EXTENDS XZInputStream, TLAPS

Places == Outside \cup Using \cup {"enter", "fail", "release"}
RangeChecked == {"seek", "read", "convert", "release", "fail"}
CallArgs == [offset : Int, start : Int, length : Int]

Types ==
  /\ object \in {"opening", "open", "refused", "unreachable", "closing", "finalized"}
  /\ nativePtr \in BOOLEAN /\ reader \in BOOLEAN /\ crashed \in BOOLEAN
  /\ part \in [offset : Int, length : Int] /\ last \in Lasts \cup {NoMore}
  /\ pc \in [Threads -> Places] /\ arg \in [Threads -> Args \cup {NoArg}]
  /\ array \in [Threads -> Arrays] /\ buf \in [Threads -> Arrays \cup {Pinned}]
  /\ before \in [Threads -> Arrays]

(* The object has the reader from the constructor's end until closeFile,    *)
(* or for good when closeFile does not find the field, and calls run only   *)
(* before it is dropped.                                                    *)
Lifetime ==
  /\ nativePtr => reader
  /\ object \in {"opening", "closing"} => ~nativePtr
  /\ object = "open" => nativePtr
  /\ object \in {"refused", "unreachable", "finalized"} /\ reader => nativePtr
  /\ object = "opening" => \A t \in Threads : pc[t] = "idle"
  /\ \A t \in Threads : pc[t] \notin Outside => object = "open"

(* A call that works on its array has had its range checked. *)
Checked ==
  /\ \A t \in Threads : pc[t] \in RangeChecked => InArray(arg[t])
  /\ crashed => \E t \in Threads : ~Fits(arg[t])

AnyInv == Types /\ Lifetime /\ Checked

-----------------------------------------------------------------------------
(* Byte counts and arrays *)

LEMMA ArgTypes ==
  ASSUME Types, NEW t \in Threads
  PROVE  /\ arg[t] \in CallArgs
         /\ arg[t].offset \in Int /\ arg[t].start \in Int /\ arg[t].length \in Int
<1>1. NoArg \in CallArgs
  BY DEF NoArg, CallArgs
<1>2. arg[t] \in CallArgs
  BY <1>1, StreamAssumption DEF Types, CallArgs
<1> QED
  BY <1>2 DEF CallArgs

LEMMA WrapType ==
  ASSUME NEW n \in Int
  PROVE  Wrap(n) \in Int /\ Wrap(n) <= MaxInt
<1> DEFINE width == 2 * (MaxInt + 1)
<1>1. width \in Int /\ width > 0 /\ MaxInt \in Int /\ width = MaxInt + 1 + MaxInt + 1
  BY StreamAssumption
<1>2. n + MaxInt + 1 \in Int
  BY <1>1
<1> HIDE DEF width
<1>3. (n + MaxInt + 1) % width \in 0..(width - 1)
  BY <1>1, <1>2
<1> QED
  BY <1>1, <1>3 DEF Wrap, width

(* The bytes that are asked for are at most those of the ints, and exactly  *)
(* those when they fit.                                                     *)
LEMMA ByteCount ==
  ASSUME NEW l \in Int, NEW n \in ByteCounts(l)
  PROVE  /\ n \in Int
         /\ l >= 0 => n <= 4 * l
         /\ l >= 0 /\ 4 * l <= MaxInt => n = 4 * l /\ n >= 0
<1>1. MaxInt \in Nat
  BY StreamAssumption
<1>2. CASE n = 4 * l
  BY <1>2
<1>3. CASE ~(4 * l \in (-MaxInt - 1)..MaxInt) /\ n = Wrap(4 * l)
  <2>1. n \in Int /\ n <= MaxInt
    BY <1>3, WrapType
  <2>2. l >= 0 => n <= 4 * l /\ ~(4 * l <= MaxInt)
    BY <1>1, <1>3, <2>1
  <2> QED
    BY <2>1, <2>2
<1> QED
  BY <1>2, <1>3 DEF ByteCounts

(* A byte's place is a number: its own within the contents, and one of the  *)
(* last block's behind them.                                                *)
LEMMA PlaceType ==
  ASSUME Types, NEW o \in Int
  PROVE  /\ Place(o) \in Int
         /\ o < Length => Place(o) = o
         /\ o >= Length /\ Repeats => Place(o) \in last..(Length - 1)
<1>1. Length \in Int
  BY StreamAssumption
<1>2. CASE o >= Length /\ Repeats
  <2> DEFINE size == Length - last
             over == o - Length
  <2>1. last \in Int /\ size \in Int /\ size > 0 /\ over \in Int /\ size = Length - last
    BY <1>1, <1>2 DEF Repeats
  <2>2. Place(o) = last + (over % size)
    BY <1>2 DEF Place
  <2> HIDE DEF size, over
  <2>3. over % size \in 0..(size - 1)
    BY <2>1
  <2> QED
    BY <1>1, <1>2, <2>1, <2>2, <2>3
<1>3. CASE ~(o >= Length /\ Repeats)
  BY <1>1, <1>3 DEF Place
<1> QED
  BY <1>2, <1>3

(* The bytes of an int, mirrored, are its bytes.                            *)
LEMMA MirrorInInt ==
  ASSUME NEW b \in Bytes
  PROVE  /\ Mirror(b) \in Bytes /\ Mirror(b) \div 4 = b \div 4
         /\ b \in Int /\ b \div 4 \in 0..(ArrayLen - 1) /\ Mirror(b) \in Int
<1> DEFINE q == b \div 4
<1>1. b \in Int /\ b >= 0 /\ b <= 4 * ArrayLen - 1 /\ ArrayLen \in Nat
  BY StreamAssumption DEF Bytes
<1>2. q \in Int /\ 4 * q <= b /\ b <= 4 * q + 3
  BY <1>1
<1>3. Mirror(b) = 8 * q + 3 - b
  BY DEF Mirror
<1> HIDE DEF q
<1>4. Mirror(b) \in Int /\ 4 * q <= Mirror(b) /\ Mirror(b) <= 4 * q + 3
  BY <1>1, <1>2, <1>3
<1>5. Mirror(b) \div 4 = q /\ q >= 0 /\ q <= ArrayLen - 1
  BY <1>1, <1>2, <1>4
<1>6. Mirror(b) \in Bytes
  BY <1>1, <1>4, <1>5 DEF Bytes
<1> QED
  BY <1>1, <1>2, <1>4, <1>5, <1>6 DEF q

(* A byte is in a call's range when its int is *)
LEMMA RangeBytes ==
  ASSUME NEW a \in CallArgs, NEW b \in Bytes
  PROVE  InRange(a, b) <=> b - 4 * a.start \in 0..(4 * a.length - 1)
<1>1. a.start \in Int /\ a.length \in Int /\ b \in Int
  BY StreamAssumption DEF CallArgs, Bytes
<1> QED
  BY <1>1 DEF InRange

LEMMA OldType == Old \in Arrays
BY StreamAssumption DEF Old, Arrays, Bytes

LEMMA ElementsType ==
  ASSUME Types, NEW t \in Threads
  PROVE  Elements(t) \in Arrays
BY DEF Types, Elements

LEMMA FilledType ==
  ASSUME Types, NEW t \in Threads, NEW m
  PROVE  Filled(t, m) \in Arrays
<1>1. /\ arg[t].start \in Int /\ part.offset \in Int
      /\ \A b \in Bytes : Elements(t)[b] \in Int
  BY ArgTypes, ElementsType DEF Arrays, Types
<1>2. \A b \in Bytes : Place(part.offset + Into(t, b)) \in Int
  <2> SUFFICES ASSUME NEW b \in Bytes  PROVE Place(part.offset + Into(t, b)) \in Int
    OBVIOUS
  <2>1. part.offset + Into(t, b) \in Int
    BY <1>1, StreamAssumption DEF Into, Bytes
  <2> QED
    BY <2>1, PlaceType
<1> QED
  BY <1>1, <1>2 DEF Filled, Arrays

(* A change keeps the types, the other arrays, and shows in the elements.   *)
LEMMA Changes ==
  ASSUME Types, NEW t \in Threads, NEW new \in Arrays, Change(t, new)
  PROVE  /\ array' \in [Threads -> Arrays] /\ buf' \in [Threads -> Arrays \cup {Pinned}]
         /\ \A b \in Bytes : Elements(t)'[b] = new[b]
         /\ \A u \in Threads : u # t => array'[u] = array[u]
<1>1. CASE buf[t] = Pinned /\ array' = [array EXCEPT ![t] = new] /\ UNCHANGED buf
  BY <1>1 DEF Types, Elements
<1>2. CASE buf[t] # Pinned /\ buf' = [buf EXCEPT ![t] = new] /\ UNCHANGED array
  <2>1. new = Pinned => Bytes = {}
    BY DEF Arrays, Pinned
  <2> QED
    BY <1>2, <2>1 DEF Types, Elements
<1> QED
  BY <1>1, <1>2 DEF Change

-----------------------------------------------------------------------------
(* The object's own steps, and those of calls *)

LEMMA ObjectKeeps ==
  ASSUME AnyInv, ~crashed, ObjectStep \/ Drop
  PROVE  AnyInv'
<1>1. KeepsCalls
  BY DEF ObjectStep, OpenArchive, SetFields, TakePtr, DeleteReader, Drop
<1>2. Types'
  <2>1. CASE OpenArchive
    <3>1. FixLength(Length, 0, ToEnd) \in [offset : Int, length : Int]
      BY StreamAssumption DEF FixLength, ToEnd
    <3> QED
      BY <2>1, <3>1 DEF AnyInv, Types, OpenArchive, KeepsCalls
  <2>2. CASE SetFields
    BY <2>2 DEF AnyInv, Types, SetFields, KeepsCalls
  <2>3. CASE TakePtr
    BY <2>3 DEF AnyInv, Types, TakePtr, KeepsCalls
  <2>4. CASE DeleteReader
    BY <2>4 DEF AnyInv, Types, DeleteReader, KeepsCalls
  <2>5. CASE Drop
    BY <2>5 DEF AnyInv, Types, Drop, KeepsCalls
  <2> QED
    BY <2>1, <2>2, <2>3, <2>4, <2>5 DEF ObjectStep
<1>3. Lifetime'
  <2>1. CASE OpenArchive
    BY <2>1 DEF AnyInv, Types, Lifetime, OpenArchive, KeepsCalls
  <2>2. CASE SetFields
    <3>1. object = "opening" /\ reader /\ ~nativePtr /\ \A t \in Threads : pc[t] \in Outside
      BY <2>2 DEF AnyInv, Lifetime, SetFields, Outside
    <3>2. CASE object' = "open" /\ nativePtr' = TRUE /\ reader' = reader
      BY <1>1, <3>1, <3>2 DEF Lifetime, KeepsCalls
    <3>3. CASE object' = "refused" /\ reader' = FALSE /\ nativePtr' = nativePtr
      BY <1>1, <3>1, <3>3 DEF Lifetime, KeepsCalls
    <3> QED
      BY <2>2, <3>2, <3>3 DEF SetFields
  <2>3. CASE TakePtr
    BY <2>3 DEF AnyInv, Types, Lifetime, TakePtr, KeepsCalls
  <2>4. CASE DeleteReader
    BY <2>4 DEF AnyInv, Types, Lifetime, DeleteReader, KeepsCalls
  <2>5. CASE Drop
    BY <2>5 DEF AnyInv, Types, Lifetime, Drop, KeepsCalls
  <2> QED
    BY <2>1, <2>2, <2>3, <2>4, <2>5 DEF ObjectStep
<1>4. Checked'
  BY <1>1 DEF AnyInv, Checked, KeepsCalls
<1> QED
  BY <1>2, <1>3, <1>4 DEF AnyInv

(* A call's step from one place to another, the object being what it was *)
LEMMA CallLives ==
  ASSUME AnyInv, NEW t \in Threads, NEW at \in Places, Goes(t, at), UNCHANGED object_,
         pc[t] \notin Outside \/ object = "open"
  PROVE  Lifetime' /\ pc' \in [Threads -> Places]
BY DEF AnyInv, Types, Lifetime, Goes, object_

(* A step that is not the range check leaves its result alone *)
LEMMA StaysChecked ==
  ASSUME AnyInv, NEW t \in Threads, NEW at \in Places, Goes(t, at),
         UNCHANGED <<arg, crashed>>, at \in RangeChecked => InArray(arg[t])
  PROVE  Checked'
BY DEF AnyInv, Types, Checked, Goes

LEMMA CallKeeps ==
  ASSUME AnyInv, ~crashed, NEW t \in Threads, Call(t)
  PROVE  AnyInv'
<1>1. PICK a \in Args : arg' = [arg EXCEPT ![t] = a]
  BY DEF Call
<1>2. Old \in Arrays
  BY OldType
<1>3. /\ array' = [array EXCEPT ![t] = Old]
      /\ before' = [before EXCEPT ![t] = array'[t]]
      /\ Goes(t, "enter") /\ UNCHANGED <<object_, part, last, buf, crashed>> /\ object = "open"
  BY DEF Call
<1>4. Lifetime' /\ pc' \in [Threads -> Places]
  BY <1>3, CallLives DEF Places
<1>5. Types'
  <2>1. array' \in [Threads -> Arrays] /\ arg' \in [Threads -> Args \cup {NoArg}]
    BY <1>1, <1>2, <1>3 DEF AnyInv, Types
  <2>2. before' \in [Threads -> Arrays]
    BY <1>3, <2>1 DEF AnyInv, Types
  <2> QED
    BY <1>3, <1>4, <2>1, <2>2 DEF AnyInv, Types, object_
<1>6. Checked'
  BY <1>1, <1>3 DEF AnyInv, Types, Checked, Goes, RangeChecked
<1> QED
  BY <1>4, <1>5, <1>6 DEF AnyInv

LEMMA EnterKeeps ==
  ASSUME AnyInv, ~crashed, NEW t \in Threads, Enter(t)
  PROVE  AnyInv'
<1>1. PICK at \in {"thrown", "seek"} :
        Goes(t, at) /\ (at = "seek" => InArray(arg[t]))
  BY DEF Enter
<1>2. at \in Places /\ (at \in RangeChecked => InArray(arg[t])) /\ pc[t] \notin Outside
  BY <1>1 DEF Places, Outside, Using, RangeChecked, Enter
<1>3. UNCHANGED <<object_, part, last, arg, array, before, crashed>>
  BY DEF Enter
<1>4. Lifetime' /\ pc' \in [Threads -> Places] /\ Checked'
  BY <1>1, <1>2, <1>3, CallLives, StaysChecked
<1>5. buf' \in [Threads -> Arrays \cup {Pinned}]
  BY DEF Enter, AnyInv, Types
<1> QED
  BY <1>3, <1>4, <1>5 DEF AnyInv, Types, object_

LEMMA SeekKeeps ==
  ASSUME AnyInv, ~crashed, NEW t \in Threads, Seek(t)
  PROVE  AnyInv'
<1>1. /\ Goes(t, "read") /\ UNCHANGED <<object_, last, arg, array, buf, before, crashed>>
      /\ pc[t] \notin Outside /\ InArray(arg[t])
  BY DEF Seek, AnyInv, Checked, RangeChecked, Outside
<1>2. Lifetime' /\ pc' \in [Threads -> Places] /\ Checked'
  BY <1>1, CallLives, StaysChecked DEF Places, Using
<1>3. part' \in [offset : Int, length : Int]
  BY ArgTypes, StreamAssumption DEF Seek, AnyInv, FixLength, ToEnd
<1> QED
  BY <1>1, <1>2, <1>3 DEF AnyInv, Types, object_

LEMMA ReadKeeps ==
  ASSUME AnyInv, ~crashed, NEW t \in Threads, Read(t)
  PROVE  AnyInv'
<1>1. PICK n \in ByteCounts(arg[t].length) :
        \/ /\ n < 0 \/ \E m \in 0..n : m > Room(t)
           /\ crashed' = TRUE /\ Goes(t, "idle") /\ UNCHANGED <<array, buf, part>>
        \/ /\ UNCHANGED crashed
           /\ \E m \in 0..n :
                /\ Change(t, Filled(t, m))
                /\ \/ Goes(t, "convert") /\ part' = Advance(part, n)
                   \/ Goes(t, "fail") /\ UNCHANGED part
  BY DEF Read
<1>2. /\ UNCHANGED <<object_, last, arg, before>> /\ pc[t] \notin Outside /\ InArray(arg[t])
      /\ part.offset \in Int /\ part.length \in Int /\ n \in Int
  BY ArgTypes, ByteCount DEF Read, AnyInv, Types, Checked, RangeChecked, Outside
<1>3. CASE /\ n < 0 \/ \E m \in 0..n : m > Room(t)
           /\ crashed' = TRUE /\ Goes(t, "idle") /\ UNCHANGED <<array, buf, part>>
  <2>1. Lifetime' /\ pc' \in [Threads -> Places]
    BY <1>2, <1>3, CallLives DEF Places, Outside
  <2>2. ~Fits(arg[t])
    <3> SUFFICES ASSUME Fits(arg[t])  PROVE FALSE
      OBVIOUS
    <3>1. n >= 0 /\ n = 4 * arg[t].length /\ arg[t].length \in Int /\ arg[t].start \in Int
      BY ArgTypes, ByteCount DEF AnyInv, Fits
    <3>2. arg[t].length <= ArrayLen - arg[t].start /\ ArrayLen \in Int
      BY <1>2, StreamAssumption DEF InArray
    <3>3. n <= Room(t) /\ Room(t) \in Int
      BY <3>1, <3>2 DEF Room
    <3> QED
      BY <1>2, <1>3, <3>1, <3>3
  <2>3. Checked'
    <3>1. \A u \in Threads : pc'[u] \in RangeChecked => InArray(arg'[u])
      BY <1>2, <1>3 DEF AnyInv, Types, Checked, Goes, RangeChecked
    <3> QED
      BY <1>2, <2>2, <3>1 DEF Checked
  <2> QED
    BY <1>2, <1>3, <2>1, <2>3 DEF AnyInv, Types, object_
<1>4. ASSUME NEW at \in {"fail", "convert"}, NEW m, UNCHANGED crashed,
             Goes(t, at), Change(t, Filled(t, m)),
             UNCHANGED part \/ part' = Advance(part, n)
      PROVE  AnyInv'
  <2>1. Lifetime' /\ pc' \in [Threads -> Places] /\ Checked'
    BY <1>2, <1>4, CallLives, StaysChecked DEF Places, Using
  <2>2. array' \in [Threads -> Arrays] /\ buf' \in [Threads -> Arrays \cup {Pinned}]
    BY <1>2, <1>4, FilledType, Changes DEF AnyInv
  <2>3. part' \in [offset : Int, length : Int]
    BY <1>2, <1>4 DEF Advance, AnyInv, Types
  <2> QED
    BY <1>2, <1>4, <2>1, <2>2, <2>3 DEF AnyInv, Types, object_
<1> QED
  BY <1>1, <1>3, <1>4

(* The ints of the range, each in its place and converted *)
Converted(t) ==
  [b \in Bytes |-> IF b \div 4 - arg[t].start \in 0..(arg[t].length - 1)
                   THEN Elements(t)[Mirror(b)] ELSE Elements(t)[b]]

LEMMA ConvertedType ==
  ASSUME Types, NEW t \in Threads
  PROVE  Converted(t) \in Arrays
<1>1. \A b \in Bytes : Elements(t)[b] \in Int /\ Elements(t)[Mirror(b)] \in Int
  BY ElementsType, MirrorInInt DEF Arrays
<1> QED
  BY <1>1 DEF Converted, Arrays

LEMMA ConvertKeeps ==
  ASSUME AnyInv, ~crashed, NEW t \in Threads, Convert(t)
  PROVE  AnyInv'
<1>1. /\ Goes(t, "release") /\ UNCHANGED <<object_, part, last, arg, before, crashed>>
      /\ pc[t] \notin Outside /\ InArray(arg[t]) /\ Change(t, Converted(t))
  BY DEF Convert, Converted, AnyInv, Checked, RangeChecked, Outside
<1>2. Lifetime' /\ pc' \in [Threads -> Places] /\ Checked'
  BY <1>1, CallLives, StaysChecked DEF Places
<1>3. array' \in [Threads -> Arrays] /\ buf' \in [Threads -> Arrays \cup {Pinned}]
  BY <1>1, ConvertedType, Changes DEF AnyInv
<1> QED
  BY <1>1, <1>2, <1>3 DEF AnyInv, Types, object_

LEMMA ReleaseKeeps ==
  ASSUME AnyInv, ~crashed, NEW t \in Threads, Release(t)
  PROVE  AnyInv'
<1>1. PICK at \in {"ok", "thrown"} : Goes(t, at)
  BY DEF Release
<1>2. /\ at \in Places /\ at \notin RangeChecked /\ pc[t] \notin Outside
      /\ UNCHANGED <<object_, part, last, arg, before, crashed>>
  BY DEF Release, Places, Outside, RangeChecked
<1>3. Lifetime' /\ pc' \in [Threads -> Places] /\ Checked'
  BY <1>1, <1>2, CallLives, StaysChecked
<1>4. array' \in [Threads -> Arrays] /\ buf' \in [Threads -> Arrays \cup {Pinned}]
  BY ElementsType DEF Release, AnyInv, Types
<1> QED
  BY <1>2, <1>3, <1>4 DEF AnyInv, Types, object_

LEMMA InitAny == Init => AnyInv
<1> SUFFICES ASSUME Init  PROVE AnyInv
  OBVIOUS
<1>1. Old \in Arrays
  BY OldType
<1>2. Types
  <2>1. /\ pc \in [Threads -> Places] /\ arg \in [Threads -> Args \cup {NoArg}]
        /\ part \in [offset : Int, length : Int]
    BY DEF Init, Places, Outside
  <2>2. /\ array \in [Threads -> Arrays] /\ before \in [Threads -> Arrays]
        /\ buf \in [Threads -> Arrays \cup {Pinned}]
    BY <1>1 DEF Init
  <2> QED
    BY <2>1, <2>2 DEF Init, Types
<1> QED
  BY <1>2 DEF Init, AnyInv, Lifetime, Checked, Outside, RangeChecked

LEMMA StepAny == AnyInv /\ [NextAny]_vars => AnyInv'
<1> SUFFICES ASSUME AnyInv, [NextAny]_vars  PROVE AnyInv'
  OBVIOUS
<1>1. CASE UNCHANGED vars
  BY <1>1 DEF vars, object_, AnyInv, Types, Lifetime, Checked
<1>2. CASE NextAny
  <2>1. CASE ObjectStep \/ Drop
    BY <1>2, <2>1, ObjectKeeps DEF NextAny
  <2>2. ASSUME NEW t \in Threads, Call(t) \/ CallStep(t)  PROVE AnyInv'
    BY <1>2, <2>2, CallKeeps, EnterKeeps, SeekKeeps, ReadKeeps, ConvertKeeps, ReleaseKeeps
       DEF NextAny, CallStep
  <2> QED
    BY <1>2, <2>1, <2>2 DEF NextAny
<1> QED
  BY <1>1, <1>2

(* The invariant holds whatever the threads do. *)
THEOREM StreamInvariant == SpecAny => []AnyInv
<1> QED
  BY InitAny, StepAny, PTL DEF SpecAny

(* The reader is there as long as a readInt uses it or the object refers to *)
(* it, and outside of openFile and closeFile only as long as the object     *)
(* refers to it: a refused open leaves none, and closeFile only one whose   *)
(* field it did not find.                                                   *)
THEOREM ReaderHasOwner == SpecAny => []ReaderOwned
<1>1. AnyInv => ReaderOwned
  BY DEF AnyInv, Types, Lifetime, ReaderOwned, Using, Outside
<1> QED
  BY <1>1, StreamInvariant, PTL

(* The range check of readInt is enough for every length that is not        *)
(* negative and whose bytes an int can count.                               *)
THEOREM FitCallsDoNotCrash == SpecAny => []CrashesOnlyUnfit
<1>1. AnyInv => CrashesOnlyUnfit
  BY DEF AnyInv, Checked, CrashesOnlyUnfit
<1> QED
  BY <1>1, StreamInvariant, PTL

(* Every variable keeps its type. *)
THEOREM StreamTypes == SpecAny => []TypeOK
<1>1. AnyInv => TypeOK
  BY DEF AnyInv, Types, TypeOK, Places
<1> QED
  BY <1>1, StreamInvariant, PTL

-----------------------------------------------------------------------------
(* Threads that take turns: what the array holds in each place of a call    *)

Turns == \A t, u \in Threads : pc[t] \notin Outside /\ pc[u] \notin Outside => t = u

(* Byte o of what readInto delivers is one of the contents, or an archive    *)
(* whose index goes on repeats it                                           *)
Given(o) == o >= 0 /\ (o < Length \/ Repeats)

(* The range of a call that fits holds the bytes of its offset, in the      *)
(* order of the contents, or mirrored in each int                           *)
HoldsBytes(t, e) ==
  Fits(arg[t]) => \A b \in Bytes : InRange(arg[t], b) =>
    /\ Given(arg[t].offset + Into(t, b))
    /\ e[b] = Place(arg[t].offset + Into(t, b))
HoldsInts(t, e) ==
  Fits(arg[t]) => \A b \in Bytes : InRange(arg[t], b) =>
    /\ Given(arg[t].offset + Into(t, Mirror(b)))
    /\ e[b] = Place(arg[t].offset + Into(t, Mirror(b)))

(* The rest is as it was *)
Kept(t, e) ==
  arg[t].length >= 0 => \A b \in Bytes : ~InRange(arg[t], b) => e[b] = before[t][b]

(* Some bytes were read, and behind them all is as it was *)
Stopped(t, e) ==
  arg[t].length >= 0 => \E m \in 0..(4 * arg[t].length) : \A b \in Bytes :
    e[b] = IF Into(t, b) \in 0..(m - 1) THEN Place(arg[t].offset + Into(t, b))
                                        ELSE before[t][b]

Same(t, e) == \A b \in Bytes : e[b] = before[t][b]

Stage(t) ==
  /\ pc[t] = "enter" => Same(t, array[t])
  /\ pc[t] \in {"seek", "read"} => Same(t, Elements(t))
  /\ pc[t] = "read" => part.offset = arg[t].offset
  /\ pc[t] = "convert" => HoldsBytes(t, Elements(t)) /\ Kept(t, Elements(t))
  /\ pc[t] = "release" => HoldsInts(t, Elements(t)) /\ Kept(t, Elements(t))
  /\ pc[t] = "fail" => Stopped(t, Elements(t)) /\ Kept(t, Elements(t))
  /\ pc[t] = "ok" => HoldsInts(t, array[t]) /\ Kept(t, array[t])
  /\ pc[t] = "thrown" => Stopped(t, array[t]) /\ Kept(t, array[t])

TurnInv == AnyInv /\ Turns /\ \A t \in Threads : Stage(t)

(* Only one call runs, so the others are not disturbed *)
LEMMA OthersRest ==
  ASSUME TurnInv, NEW t \in Threads, NEW at \in Places, Goes(t, at),
         UNCHANGED last,
         \A u \in Threads \ {t} :
           /\ pc[u] \in Outside
           /\ array'[u] = array[u] /\ arg'[u] = arg[u] /\ before'[u] = before[u]
  PROVE  Turns' /\ \A u \in Threads \ {t} : Stage(u)'
<1>1. \A u \in Threads \ {t} : pc'[u] = pc[u] /\ pc'[u] \in Outside
  BY DEF TurnInv, AnyInv, Types, Goes
<1>2. Turns'
  BY <1>1 DEF Turns
<1>3. ASSUME NEW u \in Threads \ {t}  PROVE Stage(u)'
  <2>1. /\ pc'[u] = pc[u] /\ pc'[u] \in {"idle", "ok", "thrown"} /\ Stage(u)
        /\ array'[u] = array[u] /\ arg'[u] = arg[u] /\ before'[u] = before[u]
    BY <1>1 DEF TurnInv, Outside
  <2>2. /\ pc'[u] = "ok" => HoldsInts(u, array[u])' /\ Kept(u, array[u])'
        /\ pc'[u] = "thrown" => Stopped(u, array[u])' /\ Kept(u, array[u])'
    BY <2>1 DEF Stage, HoldsInts, Stopped, Kept, InRange, Fits, Given, Place, Repeats, Into
  <2> QED
    BY <2>1, <2>2 DEF Stage
<1> QED
  BY <1>2, <1>3

(* A call that runs is the only one *)
LEMMA OnlyCall ==
  ASSUME TurnInv, NEW t \in Threads, pc[t] \notin Outside
  PROVE  \A u \in Threads \ {t} : pc[u] \in Outside
BY DEF TurnInv, Turns

(* What t's own place is after the step *)
LEMMA Went ==
  ASSUME TurnInv, NEW t \in Threads, NEW at, Goes(t, at)
  PROVE  pc'[t] = at
BY DEF TurnInv, AnyInv, Types, Goes

(* What is said of a call is said of its own variables, the part and the    *)
(* archive                                                                  *)
LEMMA StageKept ==
  ASSUME NEW t \in Threads, Stage(t), UNCHANGED <<pc, arg, array, before, buf, part, last>>
  PROVE  Stage(t)'
BY DEF Stage, Same, HoldsBytes, HoldsInts, Kept, Stopped, InRange, Fits, Elements,
       Given, Place, Repeats, Into

(* A call that has read nothing may stop *)
LEMMA NothingRead ==
  ASSUME Types, NEW t \in Threads, NEW e, Same(t, e)
  PROVE  Stopped(t, e) /\ Kept(t, e)
<1>1. Kept(t, e)
  BY DEF Same, Kept
<1>2. arg[t].length >= 0 => 0 \in 0..(4 * arg[t].length)
  BY ArgTypes
<1>3. \A b \in Bytes : Into(t, b) \notin 0..(0 - 1)
  OBVIOUS
<1> QED
  BY <1>1, <1>2, <1>3 DEF Same, Stopped

(* The object's steps: a call that is over is over, and none runs while the *)
(* part changes                                                             *)
LEMMA ObjectTurn ==
  ASSUME TurnInv, ~crashed, ObjectStep \/ Drop
  PROVE  TurnInv'
<1>1. AnyInv'
  BY ObjectKeeps DEF TurnInv
<1>2. KeepsCalls /\ (UNCHANGED <<part, last>> \/ object = "opening")
  BY DEF ObjectStep, OpenArchive, SetFields, TakePtr, DeleteReader, Drop
<1>3. Turns'
  BY <1>2 DEF TurnInv, Turns, KeepsCalls
<1>4. ASSUME NEW t \in Threads  PROVE Stage(t)'
  <2>1. CASE object = "opening"
    <3>1. pc'[t] = "idle"
      BY <1>2, <2>1 DEF TurnInv, AnyInv, Lifetime, KeepsCalls
    <3> QED
      BY <3>1 DEF Stage
  <2>2. CASE UNCHANGED <<part, last>>
    <3>1. Stage(t) /\ UNCHANGED <<pc, arg, array, before, buf, part, last>>
      BY <1>2, <2>2 DEF KeepsCalls, TurnInv
    <3> QED
      BY <3>1, StageKept
  <2> QED
    BY <1>2, <2>1, <2>2
<1> QED
  BY <1>1, <1>3, <1>4 DEF TurnInv

LEMMA CallTurn ==
  ASSUME TurnInv, ~crashed, NEW t \in Threads, TakesTurn(t), Call(t)
  PROVE  TurnInv'
<1>1. AnyInv'
  BY CallKeeps DEF TurnInv
<1>2. PICK a \in Args : arg' = [arg EXCEPT ![t] = a]
  BY DEF Call
<1>3. /\ array' = [array EXCEPT ![t] = Old] /\ UNCHANGED last
      /\ before' = [before EXCEPT ![t] = array'[t]] /\ Goes(t, "enter")
  BY DEF Call
<1>4. \A u \in Threads \ {t} :
        /\ pc[u] \in Outside
        /\ array'[u] = array[u] /\ arg'[u] = arg[u] /\ before'[u] = before[u]
  BY <1>2, <1>3 DEF TurnInv, AnyInv, Types, TakesTurn
<1>5. Turns' /\ \A u \in Threads \ {t} : Stage(u)'
  BY <1>3, <1>4, OthersRest DEF Places
<1>6. pc'[t] = "enter" /\ array'[t] = before'[t]
  BY <1>3, Went DEF TurnInv, AnyInv, Types
<1>7. Stage(t)'
  BY <1>6 DEF Stage, Same
<1> QED
  BY <1>1, <1>5, <1>7 DEF TurnInv

LEMMA EnterTurn ==
  ASSUME TurnInv, ~crashed, NEW t \in Threads, Enter(t)
  PROVE  TurnInv'
<1>1. AnyInv'
  BY EnterKeeps DEF TurnInv
<1>2. /\ pc[t] = "enter" /\ UNCHANGED <<part, last, arg, array, before>> /\ Types
      /\ \/ Goes(t, "thrown")
         \/ Goes(t, "seek") /\ \E b \in {Pinned, array[t]} : buf' = [buf EXCEPT ![t] = b]
  BY DEF Enter, TurnInv, AnyInv
<1>3. Same(t, array[t])
  BY <1>2 DEF TurnInv, Stage
<1>4. \A u \in Threads \ {t} : pc[u] \in Outside
  BY <1>2, OnlyCall DEF Outside
<1>5. CASE Goes(t, "thrown")
  <2>1. Turns' /\ \A u \in Threads \ {t} : Stage(u)'
    BY <1>2, <1>4, <1>5, OthersRest DEF Places, Outside
  <2>2. pc'[t] = "thrown"
    BY <1>5, Went
  <2>3. Stopped(t, array[t]) /\ Kept(t, array[t])
    BY <1>2, <1>3, NothingRead
  <2>4. Stopped(t, array[t])' /\ Kept(t, array[t])'
    BY <1>2, <2>3 DEF Stopped, Kept, Into, Place, Repeats, InRange
  <2>5. Stage(t)'
    BY <2>2, <2>4 DEF Stage
  <2> QED
    BY <1>1, <2>1, <2>5 DEF TurnInv
<1>6. ASSUME NEW b \in {Pinned, array[t]}, Goes(t, "seek"), buf' = [buf EXCEPT ![t] = b]
      PROVE  TurnInv'
  <2>1. Turns' /\ \A u \in Threads \ {t} : Stage(u)'
    BY <1>2, <1>4, <1>6, OthersRest DEF Places, Using
  <2>2. pc'[t] = "seek"
    BY <1>6, Went
  <2>3. Elements(t)' = array[t]
    BY <1>2, <1>6 DEF Elements, TurnInv, AnyInv, Types
  <2>4. Same(t, Elements(t))'
    BY <1>2, <1>3, <2>3 DEF Same
  <2>5. Stage(t)'
    BY <2>2, <2>4 DEF Stage
  <2> QED
    BY <1>1, <2>1, <2>5 DEF TurnInv
<1> QED
  BY <1>2, <1>5, <1>6

LEMMA SeekTurn ==
  ASSUME TurnInv, ~crashed, NEW t \in Threads, Seek(t)
  PROVE  TurnInv'
<1>1. AnyInv'
  BY SeekKeeps DEF TurnInv
<1>2. /\ pc[t] = "seek" /\ Goes(t, "read") /\ UNCHANGED <<last, arg, array, buf, before>>
      /\ part'.offset = arg[t].offset
  BY DEF Seek, FixLength
<1>3. Turns' /\ \A u \in Threads \ {t} : Stage(u)'
  <2>1. \A u \in Threads \ {t} : pc[u] \in Outside
    BY <1>2, OnlyCall DEF Outside
  <2> QED
    BY <1>2, <2>1, OthersRest DEF Places, Using
<1>4. pc'[t] = "read" /\ Elements(t)' = Elements(t)
  BY <1>2, Went DEF Elements
<1>5. Same(t, Elements(t))'
  BY <1>2, <1>4 DEF TurnInv, Stage, Same
<1>6. Stage(t)'
  BY <1>2, <1>4, <1>5 DEF Stage
<1> QED
  BY <1>1, <1>3, <1>6 DEF TurnInv

(* What m bytes read at the reader's offset make of an array nothing was    *)
(* done to                                                                  *)
LEMMA FilledBytes ==
  ASSUME TurnInv, NEW t \in Threads, pc[t] = "read", NEW m, NEW b \in Bytes
  PROVE  Filled(t, m)[b] = IF Into(t, b) \in 0..(m - 1) THEN Place(arg[t].offset + Into(t, b))
                                                        ELSE before[t][b]
<1>1. part.offset = arg[t].offset /\ Elements(t)[b] = before[t][b]
  BY DEF TurnInv, Stage, Same
<1> QED
  BY <1>1 DEF Filled

LEMMA ReadTurn ==
  ASSUME TurnInv, ~crashed, NEW t \in Threads, Read(t)
  PROVE  TurnInv'
<1>1. AnyInv'
  BY ReadKeeps DEF TurnInv
<1>2. pc[t] = "read" /\ UNCHANGED <<last, arg, before>> /\ Types /\ part.offset = arg[t].offset
  BY DEF Read, TurnInv, AnyInv, Stage
<1>3. PICK n \in ByteCounts(arg[t].length) :
        \/ Goes(t, "idle") /\ UNCHANGED <<array, buf>>
        \/ \E m \in 0..n :
             /\ Reaches(m) /\ Change(t, Filled(t, m))
             /\ (m = n /\ Goes(t, "convert")) \/ Goes(t, "fail")
  BY DEF Read
<1>4. /\ n \in Int /\ arg[t].length \in Int /\ arg[t].start \in Int /\ arg[t].offset \in Int
      /\ arg[t].length >= 0 => n <= 4 * arg[t].length
      /\ Fits(arg[t]) => n = 4 * arg[t].length
      /\ arg[t] \in CallArgs /\ Length \in Int
  BY <1>2, ArgTypes, ByteCount, StreamAssumption DEF Fits
<1>5. \A u \in Threads \ {t} : pc[u] \in Outside
  BY <1>2, OnlyCall DEF Outside
<1>6. CASE Goes(t, "idle") /\ UNCHANGED <<array, buf>>
  <2>1. Turns' /\ \A u \in Threads \ {t} : Stage(u)'
    BY <1>2, <1>5, <1>6, OthersRest DEF Places, Outside
  <2>2. pc'[t] = "idle"
    BY <1>6, Went
  <2>3. Stage(t)'
    BY <2>2 DEF Stage
  <2> QED
    BY <1>1, <2>1, <2>3 DEF TurnInv
<1>7. ASSUME NEW m \in 0..n, Reaches(m), Change(t, Filled(t, m)),
             NEW at \in {"fail", "convert"}, Goes(t, at), at = "convert" => m = n
      PROVE  TurnInv'
  <2>1. Filled(t, m) \in Arrays
    BY <1>2, FilledType
  <2>2. /\ \A b \in Bytes : Elements(t)'[b] = Filled(t, m)[b]
        /\ \A u \in Threads : u # t => array'[u] = array[u]
    BY <1>2, <1>7, <2>1, Changes
  <2>3. Turns' /\ \A u \in Threads \ {t} : Stage(u)'
    BY <1>2, <1>5, <1>7, <2>2, OthersRest DEF Places, Using
  <2>4. \A b \in Bytes :
          Elements(t)'[b] = IF Into(t, b) \in 0..(m - 1) THEN Place(arg[t].offset + Into(t, b))
                                                         ELSE before[t][b]
    BY <1>2, <2>2, FilledBytes
  <2>5. m \in Int /\ m >= 0 /\ m <= n
    BY <1>4, <1>7
  <2>6. Stopped(t, Elements(t))'
    <3>1. arg[t].length >= 0 => m \in 0..(4 * arg[t].length)
      BY <1>4, <2>5
    <3>2. Stopped(t, Elements(t)')
      BY <2>4, <3>1 DEF Stopped
    <3> QED
      BY <1>2, <3>2 DEF Stopped, Into, Place, Repeats
  <2>7. Kept(t, Elements(t))'
    <3>1. ASSUME arg[t].length >= 0, NEW b \in Bytes, ~InRange(arg[t], b)
          PROVE  Elements(t)'[b] = before[t][b]
      <4>1. Into(t, b) \notin 0..(4 * arg[t].length - 1) /\ Into(t, b) \in Int
        BY <1>4, <3>1, RangeBytes, StreamAssumption DEF Into, Bytes
      <4>2. Into(t, b) \notin 0..(m - 1)
        BY <1>4, <2>5, <3>1, <4>1
      <4> QED
        BY <2>4, <4>2
    <3>2. Kept(t, Elements(t)')
      BY <3>1 DEF Kept
    <3> QED
      BY <1>2, <3>2 DEF Kept, InRange
  <2>8. at = "convert" => HoldsBytes(t, Elements(t))'
    <3>1. ASSUME at = "convert", Fits(arg[t]), NEW b \in Bytes, InRange(arg[t], b)
          PROVE  /\ Given(arg[t].offset + Into(t, b))
                 /\ Elements(t)'[b] = Place(arg[t].offset + Into(t, b))
      <4>1. Into(t, b) \in 0..(m - 1)
        BY <1>4, <1>7, <3>1, RangeBytes DEF Into
      <4>2. Into(t, b) \in Int /\ 0 <= Into(t, b) /\ Into(t, b) < m
        BY <2>5, <4>1
      <4>3. arg[t].offset >= 0 /\ (Repeats \/ arg[t].offset + m <= Length)
        BY <1>2, <1>4, <1>7, <2>5, <4>2 DEF Reaches
      <4>4. Given(arg[t].offset + Into(t, b))
        BY <1>4, <2>5, <4>2, <4>3 DEF Given
      <4> QED
        BY <2>4, <4>1, <4>4
    <3>2. at = "convert" => HoldsBytes(t, Elements(t)')
      BY <3>1 DEF HoldsBytes
    <3> QED
      BY <1>2, <3>2 DEF HoldsBytes, Given, Into, Place, Repeats, InRange, Fits
  <2>9. pc'[t] = at
    BY <1>7, Went
  <2>10. Stage(t)'
    BY <2>6, <2>7, <2>8, <2>9 DEF Stage
  <2> QED
    BY <1>1, <2>3, <2>10 DEF TurnInv
<1> QED
  BY <1>3, <1>6, <1>7

LEMMA ConvertTurn ==
  ASSUME TurnInv, ~crashed, NEW t \in Threads, Convert(t)
  PROVE  TurnInv'
<1>1. AnyInv'
  BY ConvertKeeps DEF TurnInv
<1>2. /\ pc[t] = "convert" /\ Goes(t, "release") /\ UNCHANGED <<last, arg, before>> /\ Types
      /\ Change(t, Converted(t))
  BY DEF Convert, Converted, TurnInv, AnyInv
<1>3. /\ \A b \in Bytes : Elements(t)'[b] = Converted(t)[b]
      /\ \A u \in Threads : u # t => array'[u] = array[u]
  BY <1>2, ConvertedType, Changes
<1>4. \A u \in Threads \ {t} : pc[u] \in Outside
  BY <1>2, OnlyCall DEF Outside
<1>5. Turns' /\ \A u \in Threads \ {t} : Stage(u)'
  BY <1>2, <1>3, <1>4, OthersRest DEF Places
<1>6. /\ HoldsBytes(t, Elements(t)) /\ Kept(t, Elements(t))
  BY <1>2 DEF TurnInv, Stage
<1>7. HoldsInts(t, Elements(t))'
  <2>1. ASSUME Fits(arg[t]), NEW b \in Bytes, InRange(arg[t], b)
        PROVE  /\ Given(arg[t].offset + Into(t, Mirror(b)))
               /\ Elements(t)'[b] = Place(arg[t].offset + Into(t, Mirror(b)))
    <3>1. Mirror(b) \in Bytes /\ InRange(arg[t], Mirror(b))
      BY <2>1, MirrorInInt DEF InRange
    <3>2. Elements(t)'[b] = Elements(t)[Mirror(b)]
      BY <1>3, <2>1 DEF Converted, InRange
    <3> QED
      BY <1>6, <2>1, <3>1, <3>2 DEF HoldsBytes
  <2>2. HoldsInts(t, Elements(t)')
    BY <2>1 DEF HoldsInts
  <2> QED
    BY <1>2, <2>2 DEF HoldsInts, Given, Into, Place, Repeats, InRange, Fits
<1>8. Kept(t, Elements(t))'
  <2>1. ASSUME arg[t].length >= 0, NEW b \in Bytes, ~InRange(arg[t], b)
        PROVE  Elements(t)'[b] = before[t][b]
    <3>1. Elements(t)'[b] = Elements(t)[b]
      BY <1>3, <2>1 DEF Converted, InRange
    <3> QED
      BY <1>6, <2>1, <3>1 DEF Kept
  <2>2. Kept(t, Elements(t)')
    BY <2>1 DEF Kept
  <2> QED
    BY <1>2, <2>2 DEF Kept, InRange
<1>9. pc'[t] = "release"
  BY <1>2, Went
<1>10. Stage(t)'
  BY <1>7, <1>8, <1>9 DEF Stage
<1> QED
  BY <1>1, <1>5, <1>10 DEF TurnInv

LEMMA ReleaseTurn ==
  ASSUME TurnInv, ~crashed, NEW t \in Threads, Release(t)
  PROVE  TurnInv'
<1>1. AnyInv'
  BY ReleaseKeeps DEF TurnInv
<1> DEFINE at == IF pc[t] = "release" THEN "ok" ELSE "thrown"
<1>2. /\ pc[t] \in {"release", "fail"} /\ Goes(t, at) /\ UNCHANGED <<last, arg, before>>
      /\ array' = [array EXCEPT ![t] = Elements(t)]
  BY DEF Release
<1>3. array'[t] = Elements(t) /\ \A u \in Threads \ {t} : array'[u] = array[u]
  BY <1>2 DEF TurnInv, AnyInv, Types
<1>4. \A u \in Threads \ {t} : pc[u] \in Outside
  BY <1>2, OnlyCall DEF Outside
<1>5. Turns' /\ \A u \in Threads \ {t} : Stage(u)'
  BY <1>2, <1>3, <1>4, OthersRest DEF Places, Outside
<1>6. pc'[t] = at
  BY <1>2, Went
<1>7. /\ pc[t] = "release" => HoldsInts(t, array'[t]) /\ Kept(t, array'[t])
      /\ pc[t] = "fail" => Stopped(t, array'[t]) /\ Kept(t, array'[t])
  BY <1>3 DEF TurnInv, Stage
<1>8. /\ HoldsInts(t, array'[t]) => HoldsInts(t, array[t])'
      /\ Kept(t, array'[t]) => Kept(t, array[t])'
      /\ Stopped(t, array'[t]) => Stopped(t, array[t])'
  BY <1>2 DEF HoldsInts, Kept, Stopped, InRange, Fits, Given, Place, Repeats, Into
<1>9. Stage(t)'
  BY <1>2, <1>6, <1>7, <1>8 DEF Stage
<1> QED
  BY <1>1, <1>5, <1>9 DEF TurnInv

LEMMA InitTurn == Init => TurnInv
<1>1. Init => Turns /\ \A t \in Threads : Stage(t)
  BY DEF Init, Turns, Stage, Outside
<1> QED
  BY <1>1, InitAny DEF TurnInv

LEMMA StepTurn == TurnInv /\ [Next]_vars => TurnInv'
<1> SUFFICES ASSUME TurnInv, [Next]_vars  PROVE TurnInv'
  OBVIOUS
<1>1. CASE UNCHANGED vars
  <2>1. AnyInv'
    BY <1>1, StepAny DEF TurnInv
  <2>2. \A t \in Threads : Stage(t)'
    BY <1>1, StageKept DEF vars, TurnInv
  <2> QED
    BY <1>1, <2>1, <2>2 DEF vars, TurnInv, Turns
<1>2. CASE Next
  <2>1. CASE ObjectStep \/ Drop
    BY <1>2, <2>1, ObjectTurn DEF Next
  <2>2. ASSUME NEW t \in Threads, TakesTurn(t), Call(t)  PROVE TurnInv'
    BY <1>2, <2>2, CallTurn DEF Next
  <2>3. ASSUME NEW t \in Threads, CallStep(t)  PROVE TurnInv'
    BY <1>2, <2>3, EnterTurn, SeekTurn, ReadTurn, ConvertTurn, ReleaseTurn DEF Next, CallStep
  <2> QED
    BY <1>2, <2>1, <2>2, <2>3 DEF Next
<1> QED
  BY <1>1, <1>2

(* What the array holds in each place of a call, while threads take turns.  *)
THEOREM TurnInvariant == Spec => []TurnInv
<1> QED
  BY InitTurn, StepTurn, PTL DEF Spec

(* A readInt that returns has delivered the ints at its offset, converted,  *)
(* for archives, arrays and arguments of any size, and nothing from behind  *)
(* the contents but bytes of the last block of an archive that repeats it.  *)
THEOREM IntsAreDelivered == Spec => []IntsDelivered
<1>1. ASSUME TurnInv  PROVE IntsDelivered
  <2> SUFFICES ASSUME NEW t \in Threads, pc[t] = "ok", Fits(arg[t]),
                      NEW b \in Bytes, InRange(arg[t], b)
               PROVE  LET o == arg[t].offset + Into(t, Mirror(b))
                      IN  /\ o >= 0
                          /\ o < Length => array[t][b] = o
                          /\ o >= Length => last # NoMore /\ array[t][b] \in last..(Length - 1)
    BY DEF IntsDelivered
  <2> DEFINE o == arg[t].offset + Into(t, Mirror(b))
  <2>1. Given(o) /\ array[t][b] = Place(o)
    BY <1>1 DEF TurnInv, Stage, HoldsInts
  <2>2. o \in Int /\ Types
    BY <1>1, ArgTypes, MirrorInInt DEF Into, TurnInv, AnyInv
  <2> HIDE DEF o
  <2>3. Length \in Int /\ (Repeats => last # NoMore)
    BY StreamAssumption DEF Repeats, NoMore
  <2>4. o >= 0 /\ (o < Length => array[t][b] = o)
    BY <2>1, <2>2, PlaceType DEF Given
  <2>5. o >= Length => last # NoMore /\ array[t][b] \in last..(Length - 1)
    BY <2>1, <2>2, <2>3, PlaceType DEF Given
  <2> QED
    BY <2>4, <2>5 DEF o
<1> QED
  BY <1>1, TurnInvariant, PTL

(* A readInt keeps the bytes outside of its range, and one that throws      *)
(* leaves in it some bytes of its offset and behind them what was there.    *)
THEOREM RestIsKept == Spec => []RestKept
<1>1. TurnInv => RestKept
  BY DEF TurnInv, Stage, HoldsInts, Kept, Stopped, RestKept
<1> QED
  BY <1>1, TurnInvariant, PTL
=============================================================================
