----------------------------- MODULE FileReader -----------------------------
(***************************************************************************)
(* class FileReader (lib/file.h) over the files it is used with: NormalFile *)
(* and MMappedFile (lib/file.cpp), and the compressed ones, of which only   *)
(* the promise of IFile is kept.  Several readers, also on one file, are    *)
(* copied, assigned, sought, read and closed in any order.                  *)
(*                                                                         *)
(* A byte of a file is represented by its offset.  The storage of a reader  *)
(* state, a buffer or a mapping, holds n bytes of its file from "from" on.  *)
(* A method is one step: the files keep nothing that a method changes, all  *)
(* it works on is the reader's own state.                                   *)
(***************************************************************************)
EXTENDS Integers, Sequences, FiniteSets, ReaderPart

CONSTANTS
  Readers, Files,
  NoFile, NoState, \* null pointers
  Kind,       \* what a file is: "normal", "mmapped" or "compressed"
  Size,       \* its size; 0 when it could not be opened or its size not be got
  Opened,     \* the files whose constructor succeeded
  States,     \* addresses for reader states
  BufLen,     \* sizeof(buf) of a state, 4096 in the code
  PageSize,   \* m_pagesize
  MaxAnswer,  \* bound on what a compressed file answers at once
  Offsets, Lengths, \* arguments of seek and the constructors
  Requests,   \* arguments of read and readInto
  MayFail     \* may pread, mmap and compressed files fail?

ASSUME FileReaderAssumption ==
  /\ Kind \in [Files -> {"normal", "mmapped", "compressed"}]
  /\ Size \in [Files -> Nat] /\ Opened \subseteq Files
  /\ \A f \in Files \ Opened : Size[f] = 0
  /\ NoFile \notin Files /\ NoState \notin States
  /\ BufLen \in Nat \ {0} /\ PageSize \in Nat \ {0} /\ MaxAnswer \in Nat \ {0}
  /\ Offsets \subseteq Int /\ Lengths \subseteq Nat \cup {ToEnd}
  /\ Requests \subseteq Nat /\ MayFail \in BOOLEAN

VARIABLES
  file,   \* m_file
  state,  \* m_state
  part,   \* m_offset and m_length
  heap,   \* the states there are: [maker, mapped, from, n]
  maps,   \* how many mappings the process has
  data,   \* what the reader's last call returned: n bytes at "at" in a state
  got     \* what was read since the reader was set up: from where, where the
          \* part ends, which bytes

vars == <<file, state, part, heap, maps, data, got>>

Nothing == [state |-> NoState, at |-> 0, n |-> 0, offset |-> 0]
NullPart == [offset |-> 0, length |-> 0]

Size0(f) == IF f = NoFile THEN 0 ELSE Size[f]
Larger(a, b) == IF a >= b THEN a ELSE b
EndOf(p) == p.offset + Larger(p.length, 0)
SetUp(p) == [from |-> p.offset, to |-> EndOf(p), bytes |-> << >>]
Stretch(o, n) == [k \in 1..n |-> o + k - 1]

Init ==
  /\ file = [r \in Readers |-> NoFile] /\ state = [r \in Readers |-> NoState]
  /\ part = [r \in Readers |-> NullPart] /\ heap = << >> /\ maps = 0
  /\ data = [r \in Readers |-> Nothing]
  /\ got = [r \in Readers |-> SetUp(NullPart)]

-----------------------------------------------------------------------------
(* States: new, finish, and what they hold *)

Live == DOMAIN heap
Without(s) == [t \in Live \ {s} |-> heap[t]]
With(s, holds) == [t \in Live \cup {s} |-> IF t = s THEN holds ELSE heap[t]]
Empty(f) == [maker |-> f, mapped |-> FALSE, from |-> 0, n |-> 0]

Mapped(s) == s # NoState /\ heap[s].mapped

FinishLeaksMap(r) ==
  /\ heap' = Without(state[r]) /\ state' = [state EXCEPT ![r] = NoState]
  /\ UNCHANGED maps
Finish(r) ==
  /\ heap' = Without(state[r]) /\ state' = [state EXCEPT ![r] = NoState]
  /\ maps' = IF Mapped(state[r]) THEN maps - 1 ELSE maps

(* The state that a read works with, a new one if there is none *)
StateFor(r) == IF state[r] # NoState THEN {state[r]}
               ELSE { s \in States \ Live : s = CHOOSE t \in States \ Live : TRUE }

Holds(r, s, holds) ==
  /\ state' = [state EXCEPT ![r] = s] /\ heap' = With(s, holds)
KeepsState == UNCHANGED <<state, heap, maps>>

-----------------------------------------------------------------------------
(* Construction, assignment, seek, release, close *)

SetPart(r, p) ==
  /\ part' = [part EXCEPT ![r] = p] /\ got' = [got EXCEPT ![r] = SetUp(p)]
  /\ data' = [data EXCEPT ![r] = Nothing]

Construct(r) ==
  /\ file[r] = NoFile
  /\ \E f \in Files, o \in Offsets, l \in Lengths :
       file' = [file EXCEPT ![r] = f] /\ SetPart(r, FixLength(Size[f], o, l))
  /\ KeepsState

CopySharesState(r, q) ==
  /\ file[r] = NoFile /\ r # q
  /\ file' = [file EXCEPT ![r] = file[q]] /\ SetPart(r, part[q])
  /\ state' = [state EXCEPT ![r] = state[q]]
  /\ UNCHANGED <<heap, maps>>
Copy(r, q) ==
  /\ file[r] = NoFile /\ r # q
  /\ file' = [file EXCEPT ![r] = file[q]]
  /\ SetPart(r, FixLength(Size0(file[q]), part[q].offset, part[q].length))
  /\ KeepsState

AssignKeepsState(r, q) ==
  /\ file' = [file EXCEPT ![r] = file[q]] /\ SetPart(r, part[q])
  /\ KeepsState
Assign(r, q) ==
  /\ Finish(r)
  /\ file' = [file EXCEPT ![r] = file[q]] /\ SetPart(r, part[q])

Seek(r) ==
  /\ Finish(r) /\ UNCHANGED file
  /\ \E o \in Offsets, l \in Lengths : SetPart(r, FixLength(Size0(file[r]), o, l))

Gone(r) == data' = [data EXCEPT ![r] = Nothing]

Release(r) == Finish(r) /\ Gone(r) /\ UNCHANGED <<file, part, got>>

Close(r) ==
  /\ Finish(r) /\ Gone(r)
  /\ file' = [file EXCEPT ![r] = NoFile] /\ UNCHANGED <<part, got>>

-----------------------------------------------------------------------------
(* Reading from the file f at offset o *)

ReadableFromAnywhere(f, o, n) == f \in Opened /\ n >= 0 /\ n <= Size[f] /\ o <= Size[f] - n
Readable(f, o, n) == f \in Opened /\ n >= 0 /\ o >= 0 /\ n <= Size[f] /\ o <= Size[f] - n

(* A read fails: what the state holds is lost, or nothing was touched *)
Fails(r) == Gone(r) /\ UNCHANGED <<file, part, got>>

(* A read answers with n bytes at "at" of its state, of which the reader    *)
(* takes what it wanted                                                     *)
AnswersFromPage(r, s, at, m, n) ==
  LET o == part[r].offset
      taken == Clamp(part[r], m, n)
  IN  /\ data' = [data EXCEPT ![r] = [state |-> s, at |-> 0, n |-> taken, offset |-> o]]
      /\ part' = [part EXCEPT ![r] = Advance(@, taken)]
      /\ got' = [got EXCEPT ![r].bytes = @ \o Stretch(o, taken)]
      /\ UNCHANGED file
Answers(r, s, at, m, n) ==
  LET o == part[r].offset
      taken == Clamp(part[r], m, n)
  IN  /\ data' = [data EXCEPT ![r] = [state |-> s, at |-> at, n |-> taken, offset |-> o]]
      /\ part' = [part EXCEPT ![r] = Advance(@, taken)]
      /\ got' = [got EXCEPT ![r].bytes = @ \o Stretch(o, taken)]
      /\ UNCHANGED file

(* NormalFile: into the buffer of its state, which is made first *)
ReadNormal(r, m) ==
  LET f == file[r]
      o == part[r].offset
      n == IF Want(part[r], m) > BufLen THEN BufLen ELSE Want(part[r], m)
  IN  \E s \in StateFor(r) :
        /\ UNCHANGED maps
        /\ \/ /\ ~Readable(f, o, n) \/ MayFail
              /\ Holds(r, s, Empty(f)) /\ Fails(r)
           \/ /\ Readable(f, o, n)
              /\ Holds(r, s, [Empty(f) EXCEPT !.from = o, !.n = n])
              /\ Answers(r, s, 0, m, n)

(* MMappedFile: the mapping of the last read goes, the pages around the     *)
(* range are mapped                                                         *)
ReadMapped(r, m) ==
  LET f == file[r]
      o == part[r].offset
      n == Want(part[r], m)
      distance == o % PageSize
      unmapped == IF Mapped(state[r]) THEN maps - 1 ELSE maps
  IN  \/ ~Readable(f, o, n) /\ KeepsState /\ Fails(r)
      \/ /\ Readable(f, o, n)
         /\ \E s \in StateFor(r) :
              \/ /\ MayFail /\ maps' = unmapped
                 /\ Holds(r, s, Empty(f)) /\ Fails(r)
              \/ /\ maps' = unmapped + 1
                 /\ Holds(r, s, [maker |-> f, mapped |-> TRUE,
                                 from |-> o - distance, n |-> n + distance])
                 /\ Answers(r, s, distance, m, n)

(* A compressed file answers with any number of bytes, also with more than  *)
(* it was asked for; its state may hold others before them                  *)
ReadCompressed(r, m) ==
  LET f == file[r]
      o == part[r].offset
  IN  \E s \in StateFor(r) :
        /\ UNCHANGED maps
        /\ \/ /\ ~Readable(f, o, 1) \/ MayFail
              /\ Holds(r, s, Empty(f)) /\ Fails(r)
           \/ \E n \in 1..MaxAnswer :
                /\ Readable(f, o, n)
                /\ Holds(r, s, [Empty(f) EXCEPT !.from = o, !.n = n])
                /\ Answers(r, s, 0, m, n)

ReadFile(r, m) ==
  CASE Kind[file[r]] = "normal"     -> ReadNormal(r, m)
    [] Kind[file[r]] = "mmapped"    -> ReadMapped(r, m)
    [] Kind[file[r]] = "compressed" -> ReadCompressed(r, m)

(* FileReader::read.  Nobody calls it when a readInto has left the part: the*)
(* tools look at length() and the reader states never call readInto.        *)
Read(r, m) ==
  /\ m > 0 /\ part[r].length >= 0
  /\ IF file[r] = NoFile \/ Want(part[r], m) = 0 THEN KeepsState /\ Fails(r)
     ELSE ReadFile(r, m)

(* FileReader::readInto: all of n bytes into the caller's storage, wherever *)
(* the part ends.  Only a compressed file uses the state for it.            *)
ReadInto(r, n) ==
  LET f == file[r]
      o == part[r].offset
      uses == f # NoFile /\ n > 0 /\ Kind[f] = "compressed"
  IN  /\ UNCHANGED <<file, maps>> /\ Gone(r)
      /\ IF uses THEN \E s \in StateFor(r) : Holds(r, s, Empty(f))
                 ELSE UNCHANGED <<state, heap>>
      /\ \/ /\ f = NoFile \/ n = 0 \/ MayFail \/ ~Readable(f, o, n)
            /\ UNCHANGED <<part, got>>
         \/ /\ f # NoFile /\ n > 0 /\ Readable(f, o, n)
            /\ part' = [part EXCEPT ![r] = Advance(@, n)]
            /\ got' = [got EXCEPT ![r].bytes = @ \o Stretch(o, n),
                                  ![r].to = Larger(@, o + n)]

Next ==
  \E r \in Readers :
    \/ Construct(r) \/ Seek(r) \/ Release(r) \/ Close(r)
    \/ \E q \in Readers : Copy(r, q) \/ Assign(r, q)
    \/ \E n \in Requests : Read(r, n) \/ ReadInto(r, n)

Spec == Init /\ [][Next]_vars

-----------------------------------------------------------------------------
(* Properties *)

Parts == [offset : Int, length : Int]

(* Every variable has its type. *)
TypeOK ==
  /\ file \in [Readers -> Files \cup {NoFile}]
  /\ state \in [Readers -> States \cup {NoState}]
  /\ part \in [Readers -> Parts] /\ maps \in Nat /\ Live \subseteq States
  /\ \A s \in Live : heap[s] \in
       [maker : Files, mapped : BOOLEAN, from : Nat, n : Nat]
  /\ data \in [Readers -> [state : States \cup {NoState}, at : Nat, n : Nat, offset : Int]]

(* Every state is held by one reader, and finish gets it back with the file *)
(* that made it (assert(nullptr != state)), whatever is copied and assigned *)
(* in between.                                                              *)
StatesOwned ==
  /\ \A r \in Readers : state[r] # NoState =>
       state[r] \in Live /\ heap[state[r]].maker = file[r]
  /\ \A s \in Live : Cardinality({ r \in Readers : state[r] = s }) = 1

(* A mapping belongs to a state: every mmap is undone once, also where a    *)
(* read fails between munmap and mmap.                                      *)
MapsOwned == maps = Cardinality({ s \in Live : heap[s].mapped })

(* What a read returned stays in place until the reader's next call, what   *)
(* other readers of the same file do, and begins at the offset it read at.  *)
DataStands ==
  \A r \in Readers :
    LET d == data[r]
    IN  d.n > 0 => /\ d.state \in Live /\ heap[d.state].maker = file[r]
                   /\ heap[d.state].from + d.at = d.offset
                   /\ d.at + d.n <= heap[d.state].n

(* A reader delivers its part in order, each byte once, and only a readInto *)
(* leaves it, however much the file answers and whichever calls fail.       *)
PartDelivered ==
  \A r \in Readers :
    LET g == got[r]
    IN  /\ g.bytes = Stretch(g.from, Len(g.bytes))
        /\ part[r].offset = g.from + Len(g.bytes)
        /\ g.bytes # << >> => part[r].offset <= g.to
        /\ g.bytes # << >> /\ part[r].length > 0 => EndOf(part[r]) = g.to
=============================================================================
