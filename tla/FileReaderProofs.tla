-------------------------- MODULE FileReaderProofs --------------------------
(***************************************************************************)
(* FileReaders over any files, any number of them, with buffers, pages and  *)
(* parts of any size: states and mappings have one owner, and parts are     *)
(* delivered in order.                                                      *)
(***************************************************************************)
EXTENDS FileReader, FiniteSetTheorems, SequenceTheorems, TLAPS

(* A state belongs to the one reader that points to it, was made by that    *)
(* reader's file, and holds a mapping only if that file makes some.         *)
Owned ==
  /\ \A r \in Readers : state[r] # NoState =>
       /\ state[r] \in Live /\ heap[state[r]].maker = file[r] /\ file[r] # NoFile
       /\ heap[state[r]].mapped => Kind[file[r]] = "mmapped"
  /\ \A r, q \in Readers : state[r] = state[q] /\ state[r] # NoState => r = q
  /\ \A s \in Live : \E r \in Readers : state[r] = s

Mappings == { s \in Live : heap[s].mapped }

Counted == IsFiniteSet(Mappings) /\ maps = Cardinality(Mappings)

(* What a reader's last call returned is what its state holds *)
Stands ==
  \A r \in Readers : data[r].n > 0 =>
    LET s == state[r]
    IN  /\ data[r].state = s /\ s # NoState
        /\ heap[s].from + data[r].at = data[r].offset
        /\ data[r].at + data[r].n <= heap[s].n

OwnerInv ==
  /\ file \in [Readers -> Files \cup {NoFile}]
  /\ state \in [Readers -> States \cup {NoState}]
  /\ data \in [Readers -> [state : States \cup {NoState}, at : Nat, n : Nat, offset : Int]]
  /\ Live \subseteq States
  /\ Owned /\ Counted /\ Stands

-----------------------------------------------------------------------------
(* The number of mappings when a state s comes to hold something else *)
LEMMA CountWithout ==
  ASSUME Counted, NEW s
  PROVE  /\ IsFiniteSet(Mappings \ {s})
         /\ Cardinality(Mappings \ {s}) = IF s \in Mappings THEN maps - 1 ELSE maps
BY FS_RemoveElement DEF Counted

LEMMA HeapWithout ==
  ASSUME NEW s, heap' = Without(s)
  PROVE  /\ Live' = Live \ {s} /\ \A t \in Live' : heap'[t] = heap[t]
         /\ Mappings' = Mappings \ {s}
<1>1. Live' = Live \ {s} /\ \A t \in Live' : heap'[t] = heap[t]
  BY DEF Without, Live
<1>2. Mappings' = { t \in Live' : heap'[t].mapped }
  BY DEF Mappings
<1> QED
  BY <1>1, <1>2 DEF Mappings

LEMMA HeapWith ==
  ASSUME NEW s, NEW holds, heap' = With(s, holds)
  PROVE  /\ Live' = Live \cup {s} /\ heap'[s] = holds
         /\ \A t \in Live' : t # s => t \in Live /\ heap'[t] = heap[t]
         /\ holds.mapped  => Mappings' = (Mappings \ {s}) \cup {s}
         /\ ~holds.mapped => Mappings' = Mappings \ {s}
<1>1. /\ Live' = Live \cup {s} /\ heap'[s] = holds
      /\ \A t \in Live' : t # s => t \in Live /\ heap'[t] = heap[t]
  BY DEF With, Live
<1>2. Mappings' = { t \in Live' : heap'[t].mapped }
  BY DEF Mappings
<1> QED
  BY <1>1, <1>2 DEF Mappings

-----------------------------------------------------------------------------
(* finish: the reader lets go of its state, whatever file it has then *)
LEMMA FinishKeeps ==
  ASSUME OwnerInv, NEW r \in Readers, Finish(r),
         NEW f \in Files \cup {NoFile}, file' = [file EXCEPT ![r] = f],
         data' = [data EXCEPT ![r] = Nothing]
  PROVE  OwnerInv'
<1>1. /\ Live' = Live \ {state[r]} /\ \A t \in Live' : heap'[t] = heap[t]
      /\ Mappings' = Mappings \ {state[r]}
  BY HeapWithout DEF Finish
<1>2. /\ state' = [state EXCEPT ![r] = NoState]
      /\ state' \in [Readers -> States \cup {NoState}]
      /\ file' \in [Readers -> Files \cup {NoFile}] /\ Live' \subseteq States
  BY <1>1 DEF OwnerInv, Finish
<1>3. data' \in [Readers -> [state : States \cup {NoState}, at : Nat, n : Nat, offset : Int]]
  BY DEF OwnerInv, Nothing
<1>4. ASSUME NEW q \in Readers, state'[q] # NoState
      PROVE  /\ q # r /\ state'[q] = state[q] /\ file'[q] = file[q] /\ data'[q] = data[q]
             /\ state[q] \in Live' /\ heap'[state[q]] = heap[state[q]]
  <2>1. q # r /\ state'[q] = state[q] /\ file'[q] = file[q] /\ data'[q] = data[q]
    BY <1>2, <1>4 DEF OwnerInv
  <2>2. state[q] \in Live /\ state[q] # state[r]
    BY <1>4, <2>1 DEF OwnerInv, Owned
  <2> QED
    BY <1>1, <2>1, <2>2
<1>5. Owned'
  <2>1. ASSUME NEW q \in Readers, state'[q] # NoState
        PROVE  /\ state'[q] \in Live' /\ heap'[state'[q]].maker = file'[q] /\ file'[q] # NoFile
               /\ heap'[state'[q]].mapped => Kind[file'[q]] = "mmapped"
    BY <1>4, <2>1 DEF OwnerInv, Owned
  <2>2. ASSUME NEW p \in Readers, NEW q \in Readers, state'[p] = state'[q], state'[p] # NoState
        PROVE  p = q
    BY <1>4, <2>2 DEF OwnerInv, Owned
  <2>3. ASSUME NEW s \in Live'  PROVE \E q \in Readers : state'[q] = s
    <3>1. PICK q \in Readers : state[q] = s
      BY <1>1, <2>3 DEF OwnerInv, Owned
    <3>2. q # r
      BY <1>1, <2>3, <3>1
    <3> QED
      BY <1>2, <3>1, <3>2
  <2> QED
    BY <2>1, <2>2, <2>3 DEF Owned
<1>6. Counted'
  <2>1. state[r] \in Mappings <=> Mapped(state[r])
    BY FileReaderAssumption DEF OwnerInv, Owned, Mappings, Mapped
  <2>2. maps' = IF state[r] \in Mappings THEN maps - 1 ELSE maps
    BY <2>1 DEF Finish
  <2> QED
    BY <1>1, <2>2, CountWithout DEF OwnerInv, Counted
<1>7. Stands'
  <2> SUFFICES ASSUME NEW q \in Readers, data'[q].n > 0
               PROVE  /\ data'[q].state = state'[q] /\ state'[q] # NoState
                      /\ heap'[state'[q]].from + data'[q].at = data'[q].offset
                      /\ data'[q].at + data'[q].n <= heap'[state'[q]].n
    BY DEF Stands
  <2>1. q # r /\ data'[q] = data[q] /\ state'[q] = state[q]
    BY <1>2 DEF OwnerInv, Nothing
  <2>2. state[q] # NoState
    BY <2>1 DEF OwnerInv, Stands
  <2> QED
    BY <1>4, <2>1, <2>2 DEF OwnerInv, Stands
<1> QED
  BY <1>2, <1>3, <1>5, <1>6, <1>7 DEF OwnerInv

(* The state a read works with is the reader's, or a new one *)
LEMMA StateForRead ==
  ASSUME OwnerInv, NEW r \in Readers, NEW s \in StateFor(r)
  PROVE  /\ s \in States /\ s # NoState
         /\ s = state[r] \/ (state[r] = NoState /\ s \notin Live)
         /\ \A q \in Readers : q # r /\ state[q] # NoState => state[q] # s
<1>1. CASE state[r] # NoState
  BY <1>1 DEF StateFor, OwnerInv, Owned
<1>2. CASE state[r] = NoState
  BY <1>2, FileReaderAssumption DEF StateFor, OwnerInv, Owned
<1> QED
  BY <1>1, <1>2

(* A read leaves something else in the state, and answers out of that or    *)
(* not at all                                                               *)
LEMMA HoldsKeeps ==
  ASSUME OwnerInv, NEW r \in Readers, file[r] # NoFile, NEW s \in StateFor(r), NEW holds,
         Holds(r, s, holds), UNCHANGED file,
         holds.maker = file[r], holds.mapped \in BOOLEAN,
         holds.mapped => Kind[file[r]] = "mmapped",
         NEW others, others = IF Mapped(state[r]) THEN maps - 1 ELSE maps,
         holds.mapped => maps' = others + 1, ~holds.mapped => maps' = others,
         NEW d \in [state : States \cup {NoState}, at : Nat, n : Nat, offset : Int],
         data' = [data EXCEPT ![r] = d],
         d.n > 0 => d.state = s /\ holds.from + d.at = d.offset /\ d.at + d.n <= holds.n
  PROVE  OwnerInv'
<1>1. /\ Live' = Live \cup {s} /\ heap'[s] = holds
      /\ \A t \in Live' : t # s => t \in Live /\ heap'[t] = heap[t]
      /\ holds.mapped  => Mappings' = (Mappings \ {s}) \cup {s}
      /\ ~holds.mapped => Mappings' = Mappings \ {s}
  BY HeapWith DEF Holds
<1>2. /\ s \in States /\ s # NoState
      /\ s = state[r] \/ (state[r] = NoState /\ s \notin Live)
      /\ \A q \in Readers : q # r /\ state[q] # NoState => state[q] # s
  BY StateForRead
<1>3. /\ state' = [state EXCEPT ![r] = s] /\ state'[r] = s
      /\ state' \in [Readers -> States \cup {NoState}] /\ Live' \subseteq States
      /\ data' \in [Readers -> [state : States \cup {NoState}, at : Nat, n : Nat, offset : Int]]
  BY <1>1, <1>2 DEF OwnerInv, Holds
<1>4. ASSUME NEW q \in Readers, q # r
      PROVE  /\ state'[q] = state[q] /\ data'[q] = data[q]
             /\ state[q] # NoState =>
                  state[q] \in Live' /\ state[q] # s /\ heap'[state[q]] = heap[state[q]]
  <2>1. state'[q] = state[q] /\ data'[q] = data[q]
    BY <1>3, <1>4 DEF OwnerInv
  <2>2. state[q] # NoState => state[q] \in Live /\ state[q] # s
    BY <1>2, <1>4 DEF OwnerInv, Owned
  <2> QED
    BY <1>1, <2>1, <2>2
<1>5. Owned'
  <2>1. ASSUME NEW q \in Readers, state'[q] # NoState
        PROVE  /\ state'[q] \in Live' /\ heap'[state'[q]].maker = file'[q] /\ file'[q] # NoFile
               /\ heap'[state'[q]].mapped => Kind[file'[q]] = "mmapped"
    <3>1. CASE q = r
      BY <1>1, <1>3, <3>1
    <3>2. CASE q # r
      BY <1>4, <2>1, <3>2 DEF OwnerInv, Owned
    <3> QED
      BY <3>1, <3>2
  <2>2. ASSUME NEW p \in Readers, NEW q \in Readers, state'[p] = state'[q], state'[p] # NoState
        PROVE  p = q
    BY <1>3, <1>4, <2>2 DEF OwnerInv, Owned
  <2>3. ASSUME NEW t \in Live'  PROVE \E q \in Readers : state'[q] = t
    <3>1. CASE t = s
      BY <1>3, <3>1
    <3>2. CASE t # s
      <4>1. PICK q \in Readers : state[q] = t
        BY <1>1, <2>3, <3>2 DEF OwnerInv, Owned
      <4>2. q # r
        BY <1>1, <1>2, <2>3, <3>2, <4>1, FileReaderAssumption DEF OwnerInv
      <4> QED
        BY <1>4, <4>1, <4>2
    <3> QED
      BY <3>1, <3>2
  <2> QED
    BY <2>1, <2>2, <2>3 DEF Owned
<1>6. Counted'
  <2>1. s \in Mappings <=> Mapped(state[r])
    BY <1>2 DEF OwnerInv, Owned, Mappings, Mapped
  <2>2. /\ IsFiniteSet(Mappings \ {s})
        /\ Cardinality(Mappings \ {s}) = others
    BY <2>1, CountWithout DEF OwnerInv
  <2>3. CASE holds.mapped
    <3>1. /\ IsFiniteSet((Mappings \ {s}) \cup {s})
          /\ Cardinality((Mappings \ {s}) \cup {s}) = Cardinality(Mappings \ {s}) + 1
      BY <2>2, FS_AddElement
    <3> QED
      BY <1>1, <2>2, <2>3, <3>1 DEF Counted
  <2>4. CASE ~holds.mapped
    BY <1>1, <2>2, <2>4 DEF Counted
  <2> QED
    BY <2>3, <2>4
<1>7. Stands'
  <2> SUFFICES ASSUME NEW q \in Readers, data'[q].n > 0
               PROVE  /\ data'[q].state = state'[q] /\ state'[q] # NoState
                      /\ heap'[state'[q]].from + data'[q].at = data'[q].offset
                      /\ data'[q].at + data'[q].n <= heap'[state'[q]].n
    BY DEF Stands
  <2>1. CASE q = r
    BY <1>1, <1>2, <1>3, <2>1 DEF OwnerInv
  <2>2. CASE q # r
    BY <1>4, <2>2 DEF OwnerInv, Stands
  <2> QED
    BY <2>1, <2>2
<1> QED
  BY <1>3, <1>5, <1>6, <1>7 DEF OwnerInv

(* A step that leaves states and mappings alone; a reader without a state   *)
(* may get another file                                                     *)
LEMMA KeepsStateKeeps ==
  ASSUME OwnerInv, NEW r \in Readers, KeepsState,
         NEW f \in Files \cup {NoFile}, file' = [file EXCEPT ![r] = f],
         state[r] = NoState \/ f = file[r],
         data' = [data EXCEPT ![r] = Nothing]
  PROVE  OwnerInv'
<1>1. /\ UNCHANGED <<state, maps, heap>> /\ Live' = Live /\ Mappings' = Mappings
  BY DEF KeepsState, Live, Mappings
<1>2. /\ file' \in [Readers -> Files \cup {NoFile}]
      /\ data' \in [Readers -> [state : States \cup {NoState}, at : Nat, n : Nat, offset : Int]]
      /\ \A q \in Readers : data'[q].n > 0 => data'[q] = data[q]
  BY DEF OwnerInv, Nothing
<1>3. \A q \in Readers : state[q] # NoState => file'[q] = file[q]
  BY DEF OwnerInv
<1>4. Owned'
  BY <1>1, <1>3 DEF OwnerInv, Owned
<1>5. Counted' /\ Stands'
  BY <1>1, <1>2 DEF OwnerInv, Counted, Stands
<1> QED
  BY <1>1, <1>2, <1>4, <1>5 DEF OwnerInv

LEMMA NothingStands ==
  /\ Nothing \in [state : States \cup {NoState}, at : Nat, n : Nat, offset : Int]
  /\ Nothing.n = 0
BY DEF Nothing

LEMMA StatelessWithoutFile ==
  ASSUME OwnerInv, NEW r \in Readers, file[r] = NoFile
  PROVE  state[r] = NoState
BY DEF OwnerInv, Owned

-----------------------------------------------------------------------------
(* The answer of a file and the part it is for *)

LEMMA FixedPart ==
  ASSUME NEW n \in Int, NEW o \in Int, NEW l \in Int
  PROVE  FixLength(n, o, l) \in Parts
BY DEF FixLength, Parts

(* What a reader takes of an answer is in the answer and in the part *)
LEMMA Taken ==
  ASSUME NEW p \in Parts, p.length >= 0, NEW m \in Nat, NEW n \in Nat
  PROVE  /\ Want(p, m) \in Nat /\ Want(p, m) <= p.length /\ Want(p, m) <= m
         /\ Clamp(p, m, n) \in Nat /\ Clamp(p, m, n) <= n /\ Clamp(p, m, n) <= p.length
BY DEF Want, Clamp, Parts

LEMMA StretchType ==
  ASSUME NEW o \in Int, NEW n \in Nat
  PROVE  /\ Stretch(o, n) \in Seq(Int) /\ Len(Stretch(o, n)) = n
         /\ \A i \in 1..n : Stretch(o, n)[i] = o + i - 1
<1>1. \A i \in 1..n : o + i - 1 \in Int
  OBVIOUS
<1> QED
  BY <1>1 DEF Stretch

(* Bytes read after others continue them *)
LEMMA StretchGrows ==
  ASSUME NEW o \in Int, NEW n \in Nat, NEW m \in Nat
  PROVE  Stretch(o, n) \o Stretch(o + n, m) = Stretch(o, n + m)
<1> DEFINE l == Stretch(o, n)  r == Stretch(o + n, m)  w == Stretch(o, n + m)
<1>1. l \in Seq(Int) /\ Len(l) = n /\ \A i \in 1..n : l[i] = o + i - 1
  BY StretchType
<1>2. r \in Seq(Int) /\ Len(r) = m /\ \A i \in 1..m : r[i] = o + n + i - 1
  BY StretchType
<1>3. /\ w \in Seq(Int) /\ Len(w) = n + m
      /\ \A i \in 1..(n + m) : w[i] = o + i - 1
  BY StretchType
<1> HIDE DEF l, r, w
<1>4. /\ l \o r \in Seq(Int) /\ Len(l \o r) = Len(l) + Len(r)
      /\ \A i \in 1..(Len(l) + Len(r)) :
            (l \o r)[i] = IF i <= Len(l) THEN l[i] ELSE r[i - Len(l)]
  <2>1. l \in Seq(Int) /\ r \in Seq(Int)  BY <1>1, <1>2
  <2> QED BY <2>1, ConcatProperties
<1> DEFINE lr == l \o r
<1>5. /\ lr \in Seq(Int) /\ Len(lr) = n + m
      /\ \A i \in 1..(n + m) : lr[i] = IF i <= n THEN l[i] ELSE r[i - n]
  BY <1>1, <1>2, <1>4
<1> HIDE DEF lr
<1>6. ASSUME NEW i \in 1..(n + m)  PROVE lr[i] = w[i]
  <2>1. CASE i <= n
    BY <1>1, <1>3, <1>5, <2>1
  <2>2. CASE ~(i <= n)
    <3>1. i - n \in 1..m
      BY <2>2
    <3>2. r[i - n] = o + n + (i - n) - 1 /\ lr[i] = r[i - n]
      BY <1>2, <1>5, <2>2, <3>1
    <3> QED
      BY <1>3, <3>2
  <2> QED
    BY <2>1, <2>2
<1>7. lr = w
  BY <1>3, <1>5, <1>6, SeqEqual
<1> QED
  BY <1>7 DEF lr, l, r, w

-----------------------------------------------------------------------------
(* What was read of a part, and what is left of it, is the part, and it     *)
(* was read in order.                                                       *)
Delivered(p, g) ==
  /\ g.bytes = Stretch(g.from, Len(g.bytes))
  /\ p.offset = g.from + Len(g.bytes) /\ p.offset <= g.to
  /\ p.length > 0 => p.offset + p.length = g.to

Histories == [from : Int, to : Int, bytes : Seq(Int)]

DeliveryInv ==
  /\ part \in [Readers -> Parts] /\ got \in [Readers -> Histories]
  /\ \A r \in Readers : Delivered(part[r], got[r])

LEMMA SetUpDelivers ==
  ASSUME NEW p \in Parts
  PROVE  SetUp(p) \in Histories /\ Delivered(p, SetUp(p))
<1>1. EndOf(p) \in Int /\ p.offset <= EndOf(p) /\ (p.length > 0 => EndOf(p) = p.offset + p.length)
  BY DEF EndOf, Larger, Parts
<1>2. Stretch(p.offset, 0) = << >>
  BY DEF Stretch, Parts
<1> QED
  BY <1>1, <1>2 DEF SetUp, Histories, Delivered, Parts

(* The part ends where it did or where a readInto got to. *)
LEMMA EndMoves ==
  ASSUME NEW o \in Int, NEW l \in Int, NEW n \in Nat, NEW t \in Int, NEW u \in Int,
         o <= t, l > 0 => o + l = t,
         (u = t /\ n <= l) \/ u = Larger(t, o + n)
  PROVE  o + n <= u /\ (l - n > 0 => (o + n) + (l - n) = u)
BY DEF Larger

(* What h tells of a reader that told g before it went on by n bytes at o *)
Grown(g, h, o, n) ==
  h \in Histories /\ h.from = g.from /\ h.bytes = g.bytes \o Stretch(o, n)

(* Going on by n bytes inside of the part, or moving its end *)
LEMMA GoesOn ==
  ASSUME NEW p \in Parts, NEW g \in Histories, Delivered(p, g), NEW n \in Nat,
         NEW h, Grown(g, h, p.offset, n),
         (h.to = g.to /\ n <= p.length) \/ h.to = Larger(g.to, p.offset + n)
  PROVE  Advance(p, n) \in Parts /\ Delivered(Advance(p, n), h)
<1> DEFINE k == Len(g.bytes)
<1>1. /\ k \in Nat /\ g.from \in Int /\ g.to \in Int
      /\ p.offset \in Int /\ p.length \in Int
      /\ g.bytes = Stretch(g.from, k) /\ p.offset = g.from + k /\ p.offset <= g.to
      /\ p.length > 0 => p.offset + p.length = g.to
  BY DEF Delivered, Histories, Parts
<1> HIDE DEF k
<1>2. g.bytes \o Stretch(p.offset, n) = Stretch(g.from, k + n)
  <2>1. Stretch(g.from, k) \o Stretch(g.from + k, n) = Stretch(g.from, k + n)
    BY <1>1, StretchGrows
  <2> QED
    BY <1>1, <2>1, Zenon
<1>3. Len(Stretch(g.from, k + n)) = k + n
  <2>1. k + n \in Nat
    BY <1>1
  <2> QED
    BY <1>1, <2>1, StretchType
<1>4. h \in Histories /\ h.to \in Int /\ h.from = g.from /\ h.bytes = Stretch(g.from, k + n)
  <2>1. h \in Histories /\ h.from = g.from /\ h.bytes = Stretch(g.from, k + n)
    BY <1>2, Zenon DEF Grown
  <2> QED
    BY <2>1 DEF Histories
<1>5. p.offset + n <= h.to /\ (p.length - n > 0 => (p.offset + n) + (p.length - n) = h.to)
  BY <1>1, <1>4, EndMoves
<1>6. /\ Advance(p, n) \in Parts /\ Advance(p, n).offset = p.offset + n
      /\ Advance(p, n).length = p.length - n
  BY <1>1 DEF Advance, Parts
<1>7. Len(h.bytes) = k + n /\ Advance(p, n).offset = h.from + (k + n)
  <2>1. Len(h.bytes) = k + n
    BY <1>3, <1>4, Zenon
  <2>2. Advance(p, n).offset = g.from + (k + n)
    BY <1>1, <1>6
  <2> QED
    BY <1>4, <2>1, <2>2, Zenon
<1>8. h.bytes = Stretch(h.from, Len(h.bytes)) /\ Advance(p, n).offset = h.from + Len(h.bytes)
  BY <1>4, <1>7, Zenon
<1>9. /\ Advance(p, n).offset <= h.to
      /\ Advance(p, n).length > 0 => Advance(p, n).offset + Advance(p, n).length = h.to
  BY <1>5, <1>6, Zenon
<1> QED
  BY <1>6, <1>8, <1>9, Zenon DEF Delivered

(* A reader is set up again *)
LEMMA SetUpKeeps ==
  ASSUME DeliveryInv, NEW r \in Readers, NEW p \in Parts, SetPart(r, p)
  PROVE  DeliveryInv'
BY SetUpDelivers DEF DeliveryInv, SetPart

(* A reader goes on *)
LEMMA GoesOnKeeps ==
  ASSUME DeliveryInv, NEW r \in Readers, NEW n \in Nat, NEW h,
         part' = [part EXCEPT ![r] = Advance(@, n)], got' = [got EXCEPT ![r] = h],
         Grown(got[r], h, part[r].offset, n),
         (h.to = got[r].to /\ n <= part[r].length)
           \/ h.to = Larger(got[r].to, part[r].offset + n)
  PROVE  DeliveryInv'
<1>1. part[r] \in Parts /\ got[r] \in Histories /\ Delivered(part[r], got[r])
  BY DEF DeliveryInv
<1>2. Advance(part[r], n) \in Parts /\ h \in Histories /\ Delivered(Advance(part[r], n), h)
  BY <1>1, GoesOn DEF Grown
<1> QED
  BY <1>2 DEF DeliveryInv

(* A history grows by an answer, and by a readInto that moves its end *)
LEMMA HistoryGrows ==
  ASSUME NEW g \in Histories, NEW o \in Int, NEW n \in Nat
  PROVE  LET h == [g EXCEPT !.bytes = @ \o Stretch(o, n)]
         IN  Grown(g, h, o, n) /\ h.to = g.to
<1> DEFINE b == g.bytes \o Stretch(o, n)
<1>1. b \in Seq(Int)
  BY StretchType DEF Histories
<1> HIDE DEF b
<1>2. LET h == [g EXCEPT !.bytes = b]
      IN  h \in Histories /\ h.from = g.from /\ h.to = g.to /\ h.bytes = b
  BY <1>1 DEF Histories
<1> QED
  BY <1>2, Zenon DEF Grown, b

LEMMA HistoryMoves ==
  ASSUME NEW g \in Histories, NEW o \in Int, NEW n \in Nat
  PROVE  LET h == [g EXCEPT !.bytes = @ \o Stretch(o, n), !.to = Larger(@, o + n)]
         IN  Grown(g, h, o, n) /\ h.to = Larger(g.to, o + n)
<1> DEFINE b == g.bytes \o Stretch(o, n)  t == Larger(g.to, o + n)
<1>1. b \in Seq(Int) /\ t \in Int
  BY StretchType DEF Histories, Larger
<1> HIDE DEF b, t
<1>2. LET h == [g EXCEPT !.bytes = b, !.to = t]
      IN  h \in Histories /\ h.from = g.from /\ h.to = t /\ h.bytes = b
  BY <1>1 DEF Histories
<1> QED
  BY <1>2, Zenon DEF Grown, b, t

-----------------------------------------------------------------------------
(* What holds in every state that readers get into *)
Inv == OwnerInv /\ DeliveryInv

(* The file's answer: s holds it and the reader takes its share *)
LEMMA AnswersKeep ==
  ASSUME Inv, NEW r \in Readers, file[r] # NoFile, NEW s \in StateFor(r), NEW holds,
         NEW m \in Nat, NEW n \in Nat, NEW at \in Nat, part[r].length >= 0,
         Holds(r, s, holds), Answers(r, s, at, m, n),
         holds.maker = file[r], holds.mapped \in BOOLEAN,
         holds.mapped => Kind[file[r]] = "mmapped",
         NEW others, others = IF Mapped(state[r]) THEN maps - 1 ELSE maps,
         holds.mapped => maps' = others + 1, ~holds.mapped => maps' = others,
         holds.n \in Int, holds.from + at = part[r].offset, at + n <= holds.n
  PROVE  Inv'
<1> DEFINE o == part[r].offset  taken == Clamp(part[r], m, n)
           d == [state |-> s, at |-> at, n |-> taken, offset |-> o]
<1>1. /\ part[r] \in Parts /\ got[r] \in Histories /\ Delivered(part[r], got[r])
      /\ o \in Int
  BY DEF Inv, DeliveryInv, Parts
<1>2. taken \in Nat /\ taken <= n /\ taken <= part[r].length
  BY <1>1, Taken
<1>3. /\ data' = [data EXCEPT ![r] = d] /\ UNCHANGED file
      /\ part' = [part EXCEPT ![r] = Advance(@, taken)]
      /\ got' = [got EXCEPT ![r].bytes = @ \o Stretch(o, taken)]
  BY DEF Answers
<1> HIDE DEF taken
<1>4. OwnerInv'
  <2>1. s \in States /\ s # NoState
    BY StateForRead DEF Inv
  <2>2. d \in [state : States \cup {NoState}, at : Nat, n : Nat, offset : Int]
    BY <1>1, <1>2, <2>1
  <2>3. d.state = s /\ holds.from + d.at = d.offset /\ d.at + d.n <= holds.n
    BY <1>2
  <2> HIDE DEF d
  <2> QED
    BY <1>3, <2>2, <2>3, HoldsKeeps DEF Inv
<1>5. DeliveryInv'
  <2> DEFINE h == [got[r] EXCEPT !.bytes = @ \o Stretch(o, taken)]
  <2>1. Grown(got[r], h, o, taken) /\ h.to = got[r].to
    BY <1>1, <1>2, HistoryGrows
  <2>2. got' = [got EXCEPT ![r] = h]
    BY <1>3, Zenon
  <2> HIDE DEF h, o
  <2> QED
    BY <1>2, <1>3, <2>1, <2>2, GoesOnKeeps DEF Inv, o
<1> QED
  BY <1>4, <1>5 DEF Inv

(* A read that fails after it took a state *)
LEMMA FailsKeep ==
  ASSUME Inv, NEW r \in Readers, file[r] # NoFile, NEW s \in StateFor(r),
         Holds(r, s, Empty(file[r])), Gone(r), UNCHANGED file,
         maps' = IF Mapped(state[r]) THEN maps - 1 ELSE maps
  PROVE  OwnerInv'
<1> DEFINE holds == Empty(file[r])
<1>1. holds.maker = file[r] /\ holds.mapped = FALSE
  BY DEF Empty
<1>2. data' = [data EXCEPT ![r] = Nothing] /\ Holds(r, s, holds)
  BY DEF Gone
<1>3. /\ Nothing \in [state : States \cup {NoState}, at : Nat, n : Nat, offset : Int]
      /\ ~(Nothing.n > 0)
  BY NothingStands
<1> HIDE DEF holds
<1>4. ASSUME NEW others, others = IF Mapped(state[r]) THEN maps - 1 ELSE maps
      PROVE  OwnerInv'
  <2>1. maps' = others /\ ~holds.mapped /\ holds.mapped \in BOOLEAN
    BY <1>1, <1>4
  <2> QED
    BY <1>1, <1>2, <1>3, <1>4, <2>1, HoldsKeeps DEF Inv
<1> QED
  BY <1>4

(* A call that fails before it takes one *)
LEMMA RefusesKeep ==
  ASSUME Inv, NEW r \in Readers, KeepsState, Gone(r), UNCHANGED file
  PROVE  OwnerInv'
<1>1. file' = [file EXCEPT ![r] = file[r]] /\ file[r] \in Files \cup {NoFile}
  BY DEF Inv, OwnerInv
<1> QED
  BY <1>1, KeepsStateKeeps DEF Inv, Gone

LEMMA SamePartKeeps ==
  ASSUME DeliveryInv, UNCHANGED <<part, got>>
  PROVE  DeliveryInv'
BY DEF DeliveryInv

LEMMA NotMapped ==
  ASSUME OwnerInv, NEW r \in Readers, Kind[file[r]] # "mmapped"
  PROVE  ~Mapped(state[r])
BY DEF OwnerInv, Owned, Mapped

-----------------------------------------------------------------------------
(* Each action *)

LEMMA ConstructKeeps ==
  ASSUME Inv, NEW r \in Readers, Construct(r)
  PROVE  Inv'
<1>1. PICK f \in Files, o \in Offsets, l \in Lengths :
        /\ file' = [file EXCEPT ![r] = f] /\ SetPart(r, FixLength(Size[f], o, l))
        /\ KeepsState
  BY DEF Construct
<1>2. state[r] = NoState
  BY StatelessWithoutFile DEF Inv, Construct
<1>3. OwnerInv'
  BY <1>1, <1>2, KeepsStateKeeps DEF Inv, SetPart
<1>4. FixLength(Size[f], o, l) \in Parts
  BY FixedPart, FileReaderAssumption DEF ToEnd
<1> QED
  BY <1>1, <1>3, <1>4, SetUpKeeps DEF Inv

LEMMA CopyKeeps ==
  ASSUME Inv, NEW r \in Readers, NEW q \in Readers, Copy(r, q)
  PROVE  Inv'
<1> DEFINE p == FixLength(Size0(file[q]), part[q].offset, part[q].length)
<1>1. /\ file[q] \in Files \cup {NoFile} /\ file' = [file EXCEPT ![r] = file[q]]
      /\ SetPart(r, p) /\ KeepsState
  BY DEF Copy, Inv, OwnerInv
<1>2. state[r] = NoState
  BY StatelessWithoutFile DEF Inv, Copy
<1>3. p \in Parts
  <2>1. part[q].offset \in Int /\ part[q].length \in Int
    BY DEF Inv, DeliveryInv, Parts
  <2>2. Size0(file[q]) \in Int
    BY <1>1, FileReaderAssumption DEF Size0
  <2> QED
    BY <2>1, <2>2, FixedPart
<1> HIDE DEF p
<1>4. OwnerInv'
  BY <1>1, <1>2, KeepsStateKeeps DEF Inv, SetPart
<1> QED
  BY <1>1, <1>3, <1>4, SetUpKeeps DEF Inv

LEMMA AssignKeeps ==
  ASSUME Inv, NEW r \in Readers, NEW q \in Readers, Assign(r, q)
  PROVE  Inv'
<1>1. file[q] \in Files \cup {NoFile} /\ part[q] \in Parts
  BY DEF Inv, OwnerInv, DeliveryInv
<1>2. OwnerInv'
  BY <1>1, FinishKeeps DEF Inv, Assign, SetPart
<1> QED
  BY <1>1, <1>2, SetUpKeeps DEF Inv, Assign

LEMMA SeekKeeps ==
  ASSUME Inv, NEW r \in Readers, Seek(r)
  PROVE  Inv'
<1>1. PICK o \in Offsets, l \in Lengths : SetPart(r, FixLength(Size0(file[r]), o, l))
  BY DEF Seek
<1>2. file[r] \in Files \cup {NoFile} /\ file' = [file EXCEPT ![r] = file[r]]
  BY DEF Inv, OwnerInv, Seek
<1>3. FixLength(Size0(file[r]), o, l) \in Parts
  <2>1. Size0(file[r]) \in Int /\ o \in Int /\ l \in Int
    BY <1>2, FileReaderAssumption DEF Size0, ToEnd
  <2> QED
    BY <2>1, FixedPart
<1>4. OwnerInv'
  BY <1>1, <1>2, FinishKeeps DEF Inv, Seek, SetPart
<1> QED
  BY <1>1, <1>3, <1>4, SetUpKeeps DEF Inv

LEMMA ReleaseKeeps ==
  ASSUME Inv, NEW r \in Readers, Release(r)
  PROVE  Inv'
<1>1. file[r] \in Files \cup {NoFile} /\ file' = [file EXCEPT ![r] = file[r]]
  BY DEF Inv, OwnerInv, Release
<1>2. OwnerInv'
  BY <1>1, FinishKeeps DEF Inv, Release, Gone
<1> QED
  BY <1>2, SamePartKeeps DEF Inv, Release

LEMMA CloseKeeps ==
  ASSUME Inv, NEW r \in Readers, Close(r)
  PROVE  Inv'
<1>1. OwnerInv'
  BY FinishKeeps DEF Inv, Close, Gone
<1> QED
  BY <1>1, SamePartKeeps DEF Inv, Close

(* An answer in a buffer with the n bytes from the reader's offset on *)
LEMMA BufferedKeeps ==
  ASSUME Inv, NEW r \in Readers, file[r] # NoFile, Kind[file[r]] # "mmapped",
         NEW s \in StateFor(r), NEW m \in Nat, NEW n \in Nat, part[r].length >= 0,
         Holds(r, s, [Empty(file[r]) EXCEPT !.from = part[r].offset, !.n = n]),
         Answers(r, s, 0, m, n), UNCHANGED maps
  PROVE  Inv'
<1> DEFINE holds == [Empty(file[r]) EXCEPT !.from = part[r].offset, !.n = n]
<1>1. part[r].offset \in Int
  BY DEF Inv, DeliveryInv, Parts
<1>2. /\ holds.maker = file[r] /\ holds.mapped = FALSE
      /\ holds.from = part[r].offset /\ holds.n = n
  BY DEF Empty
<1>3. Holds(r, s, holds)
  OBVIOUS
<1> HIDE DEF holds
<1>4. holds.from + 0 = part[r].offset /\ holds.n \in Int /\ 0 + n <= holds.n
  <2>1. holds.from \in Int /\ holds.from = part[r].offset /\ holds.n = n
    BY <1>1, <1>2
  <2> QED
    BY <2>1
<1>5. ASSUME NEW others, others = IF Mapped(state[r]) THEN maps - 1 ELSE maps
      PROVE  Inv'
  <2>1. others = maps
    BY <1>5, NotMapped DEF Inv
  <2>2. holds.mapped \in BOOLEAN /\ ~holds.mapped /\ maps' = others
    BY <1>2, <2>1, Zenon
  <2> QED
    BY <1>2, <1>3, <1>4, <1>5, <2>2, AnswersKeep
<1> QED
  BY <1>5

LEMMA ReadNormalKeeps ==
  ASSUME Inv, NEW r \in Readers, NEW m \in Nat, part[r].length >= 0, file[r] # NoFile,
         Kind[file[r]] = "normal", ReadNormal(r, m)
  PROVE  Inv'
<1> DEFINE n == IF Want(part[r], m) > BufLen THEN BufLen ELSE Want(part[r], m)
           holds == [Empty(file[r]) EXCEPT !.from = part[r].offset, !.n = n]
<1>1. n \in Nat
  BY Taken, FileReaderAssumption DEF Inv, DeliveryInv
<1>2. PICK s \in StateFor(r) :
        /\ UNCHANGED maps
        /\ \/ Holds(r, s, Empty(file[r])) /\ Fails(r)
           \/ Holds(r, s, holds) /\ Answers(r, s, 0, m, n)
  BY Zenon DEF ReadNormal
<1> HIDE DEF n
<1>3. CASE Holds(r, s, Empty(file[r])) /\ Fails(r)
  BY <1>2, <1>3, NotMapped, FailsKeep, SamePartKeeps DEF Inv, Fails
<1>4. CASE Holds(r, s, holds) /\ Answers(r, s, 0, m, n)
  BY <1>1, <1>2, <1>4, BufferedKeeps
<1> QED
  BY <1>2, <1>3, <1>4

LEMMA ReadCompressedKeeps ==
  ASSUME Inv, NEW r \in Readers, NEW m \in Nat, part[r].length >= 0, file[r] # NoFile,
         Kind[file[r]] = "compressed", ReadCompressed(r, m)
  PROVE  Inv'
<1>1. PICK s \in StateFor(r) :
        /\ UNCHANGED maps
        /\ \/ Holds(r, s, Empty(file[r])) /\ Fails(r)
           \/ \E n \in 1..MaxAnswer :
                /\ Holds(r, s, [Empty(file[r]) EXCEPT !.from = part[r].offset, !.n = n])
                /\ Answers(r, s, 0, m, n)
  BY Zenon DEF ReadCompressed
<1>2. CASE Holds(r, s, Empty(file[r])) /\ Fails(r)
  BY <1>1, <1>2, NotMapped, FailsKeep, SamePartKeeps DEF Inv, Fails
<1>3. ASSUME NEW n \in 1..MaxAnswer,
             Holds(r, s, [Empty(file[r]) EXCEPT !.from = part[r].offset, !.n = n]),
             Answers(r, s, 0, m, n)
      PROVE  Inv'
  <2>1. n \in Nat
    BY FileReaderAssumption
  <2> QED
    BY <1>1, <1>3, <2>1, BufferedKeeps
<1> QED
  BY <1>1, <1>2, <1>3

(* The distance of an offset from the page it is in *)
LEMMA InPage ==
  ASSUME NEW o \in Int, NEW p \in Int, p > 0
  PROVE  o % p \in Nat /\ (o - (o % p)) + (o % p) = o
OBVIOUS

LEMMA ReadMappedKeeps ==
  ASSUME Inv, NEW r \in Readers, NEW m \in Nat, part[r].length >= 0, file[r] # NoFile,
         Kind[file[r]] = "mmapped", ReadMapped(r, m)
  PROVE  Inv'
<1> DEFINE o == part[r].offset  n == Want(part[r], m)  distance == o % PageSize
           unmapped == IF Mapped(state[r]) THEN maps - 1 ELSE maps
           holds == [maker |-> file[r], mapped |-> TRUE,
                     from |-> o - distance, n |-> n + distance]
<1>1. n \in Nat /\ distance \in Nat /\ (o - distance) + distance = o
  <2>1. part[r] \in Parts /\ o \in Int /\ PageSize \in Int /\ PageSize > 0
    BY FileReaderAssumption DEF Inv, DeliveryInv, Parts
  <2>2. n \in Nat
    BY <2>1, Taken
  <2> HIDE DEF o
  <2>3. o % PageSize \in Nat /\ (o - (o % PageSize)) + (o % PageSize) = o
    BY <2>1, InPage
  <2> QED
    BY <2>2, <2>3
<1>2. CASE KeepsState /\ Fails(r)
  BY <1>2, RefusesKeep, SamePartKeeps DEF Inv, Fails
<1>3. ASSUME NEW s \in StateFor(r), maps' = unmapped, Holds(r, s, Empty(file[r])), Fails(r)
      PROVE  Inv'
  BY <1>3, FailsKeep, SamePartKeeps DEF Inv, Fails
<1>4. ASSUME NEW s \in StateFor(r), maps' = unmapped + 1,
             Holds(r, s, holds), Answers(r, s, distance, m, n)
      PROVE  Inv'
  <2>1. /\ holds.maker = file[r] /\ holds.mapped = TRUE
        /\ holds.from + distance = o /\ holds.n = n + distance
    BY <1>1
  <2> HIDE DEF n, distance, holds, unmapped
  <2>2. /\ holds.mapped \in BOOLEAN
        /\ holds.mapped => maps' = unmapped + 1
        /\ ~holds.mapped => maps' = unmapped
    BY <1>4, <2>1, Zenon
  <2>3. holds.n \in Int /\ distance + n <= holds.n
    BY <1>1, <2>1
  <2> QED
    BY <1>1, <1>4, <2>1, <2>2, <2>3, AnswersKeep DEF unmapped
<1>5. \/ KeepsState /\ Fails(r)
      \/ \E s \in StateFor(r) :
           \/ maps' = unmapped /\ Holds(r, s, Empty(file[r])) /\ Fails(r)
           \/ /\ maps' = unmapped + 1
              /\ Holds(r, s, holds) /\ Answers(r, s, distance, m, n)
  BY Zenon DEF ReadMapped
<1> QED
  BY <1>2, <1>3, <1>4, <1>5, Zenon

LEMMA ReadKeeps ==
  ASSUME Inv, NEW r \in Readers, NEW m \in Nat, Read(r, m)
  PROVE  Inv'
<1>1. CASE KeepsState /\ Fails(r)
  BY <1>1, RefusesKeep, SamePartKeeps DEF Inv, Fails
<1>2. CASE file[r] # NoFile /\ ReadFile(r, m)
  <2>1. /\ part[r].length >= 0
        /\ Kind[file[r]] \in {"normal", "mmapped", "compressed"}
    BY <1>2, FileReaderAssumption DEF Read, Inv, OwnerInv
  <2>2. CASE Kind[file[r]] = "normal"
    <3>1. ReadNormal(r, m)
      BY <1>2, <2>2 DEF ReadFile
    <3> QED
      BY <1>2, <2>1, <2>2, <3>1, ReadNormalKeeps
  <2>3. CASE Kind[file[r]] = "mmapped"
    <3>1. ReadMapped(r, m)
      BY <1>2, <2>3 DEF ReadFile
    <3> QED
      BY <1>2, <2>1, <2>3, <3>1, ReadMappedKeeps
  <2>4. CASE Kind[file[r]] = "compressed"
    <3>1. ReadCompressed(r, m)
      BY <1>2, <2>4 DEF ReadFile
    <3> QED
      BY <1>2, <2>1, <2>4, <3>1, ReadCompressedKeeps
  <2> QED
    BY <2>1, <2>2, <2>3, <2>4
<1> QED
  BY <1>1, <1>2 DEF Read

LEMMA ReadIntoKeeps ==
  ASSUME Inv, NEW r \in Readers, NEW n \in Nat, ReadInto(r, n)
  PROVE  Inv'
<1> DEFINE f == file[r]  o == part[r].offset
           uses == f # NoFile /\ n > 0 /\ Kind[f] = "compressed"
           h == [got[r] EXCEPT !.bytes = @ \o Stretch(o, n), !.to = Larger(@, o + n)]
<1>1. /\ UNCHANGED <<file, maps>> /\ Gone(r)
      /\ IF uses THEN \E s \in StateFor(r) : Holds(r, s, Empty(f))
                 ELSE UNCHANGED <<state, heap>>
      /\ \/ UNCHANGED <<part, got>>
         \/ /\ part' = [part EXCEPT ![r] = Advance(@, n)]
            /\ got' = [got EXCEPT ![r] = h]
  BY Zenon DEF ReadInto
<1> HIDE DEF h
<1>2. OwnerInv'
  <2>1. CASE uses
    <3>1. PICK s \in StateFor(r) : Holds(r, s, Empty(f))
      BY <1>1, <2>1
    <3>2. maps' = IF Mapped(state[r]) THEN maps - 1 ELSE maps
      BY <1>1, <2>1, NotMapped DEF Inv
    <3> QED
      BY <1>1, <2>1, <3>1, <3>2, FailsKeep
  <2>2. CASE ~uses
    BY <1>1, <2>2, RefusesKeep DEF KeepsState
  <2> QED
    BY <2>1, <2>2
<1>3. DeliveryInv'
  <2>1. CASE UNCHANGED <<part, got>>
    BY <2>1, SamePartKeeps DEF Inv
  <2>2. CASE /\ part' = [part EXCEPT ![r] = Advance(@, n)]
             /\ got' = [got EXCEPT ![r] = h]
    <3>1. got[r] \in Histories /\ o \in Int
      BY DEF Inv, DeliveryInv, Parts
    <3>2. Grown(got[r], h, o, n) /\ h.to = Larger(got[r].to, o + n)
      BY <3>1, HistoryMoves DEF h
    <3> QED
      BY <2>2, <3>2, GoesOnKeeps DEF Inv
  <2> QED
    BY <1>1, <2>1, <2>2
<1> QED
  BY <1>2, <1>3 DEF Inv

-----------------------------------------------------------------------------
(* What a state holds is a piece of a file: no buffer and no mapping begins *)
(* before its file does.                                                    *)
Pieces == [maker : Files, mapped : BOOLEAN, from : Nat, n : Nat]
HeapTyped == \A s \in Live : heap[s] \in Pieces

LEMMA PieceOf ==
  ASSUME NEW e \in Pieces, NEW o \in Nat, NEW n \in Nat
  PROVE  [e EXCEPT !.from = o, !.n = n] \in Pieces
BY DEF Pieces

LEMMA EmptyPiece == \A f \in Files : Empty(f) \in Pieces
BY DEF Empty, Pieces

LEMMA WithoutTyped ==
  ASSUME HeapTyped, NEW s, heap' = Without(s)
  PROVE  HeapTyped'
BY HeapWithout DEF HeapTyped

LEMMA HoldsTyped ==
  ASSUME HeapTyped, NEW r, NEW s, NEW holds \in Pieces, Holds(r, s, holds)
  PROVE  HeapTyped'
<1>1. /\ heap'[s] = holds
      /\ \A t \in Live' : t # s => t \in Live /\ heap'[t] = heap[t]
  BY HeapWith DEF Holds
<1> QED
  BY <1>1 DEF HeapTyped

(* An offset that can be read is not before the page it is in *)
LEMMA PageStart ==
  ASSUME NEW o \in Nat, NEW p \in Nat, p > 0
  PROVE  o % p \in Nat /\ o - (o % p) \in Nat
OBVIOUS

LEMMA ReadTyped ==
  ASSUME HeapTyped, Inv, NEW r \in Readers, NEW m \in Nat, Read(r, m)
  PROVE  HeapTyped'
<1> DEFINE f == file[r]  o == part[r].offset
<1>1. CASE KeepsState
  BY <1>1 DEF KeepsState, HeapTyped, Live
<1>2. CASE f # NoFile /\ ReadFile(r, m)
  <2>1. /\ f \in Files /\ o \in Int /\ part[r] \in Parts /\ part[r].length >= 0
    BY <1>2 DEF Read, Inv, OwnerInv, DeliveryInv, Parts
  <2>2. Want(part[r], m) \in Nat
    BY <2>1, Taken
  <2>3. ASSUME NEW s, NEW n, n \in Nat, o \in Nat,
               Holds(r, s, [Empty(f) EXCEPT !.from = o, !.n = n])
        PROVE  HeapTyped'
    <3>1. [Empty(f) EXCEPT !.from = o, !.n = n] \in Pieces
      BY <2>1, <2>3, EmptyPiece, PieceOf
    <3> QED
      BY <2>3, <3>1, HoldsTyped
  <2>4. ASSUME NEW s, Holds(r, s, Empty(f))  PROVE HeapTyped'
    BY <2>1, <2>4, EmptyPiece, HoldsTyped
  <2>0. ASSUME NEW n, Readable(f, o, n)  PROVE o \in Nat
    BY <2>1, <2>0 DEF Readable
  <2>5. CASE ReadNormal(r, m)
    <3> DEFINE n == IF Want(part[r], m) > BufLen THEN BufLen ELSE Want(part[r], m)
    <3>1. n \in Nat
      BY <2>2, FileReaderAssumption
    <3>2. PICK s \in StateFor(r) :
            \/ Holds(r, s, Empty(f))
            \/ /\ Readable(f, o, n)
               /\ Holds(r, s, [Empty(f) EXCEPT !.from = o, !.n = n])
      BY <2>5, Zenon DEF ReadNormal
    <3> HIDE DEF n
    <3> QED
      BY <2>0, <2>3, <2>4, <3>1, <3>2, Zenon
  <2>6. CASE ReadCompressed(r, m)
    <3>1. PICK s \in StateFor(r) :
            \/ Holds(r, s, Empty(f))
            \/ \E n \in 1..MaxAnswer :
                 /\ Readable(f, o, n)
                 /\ Holds(r, s, [Empty(f) EXCEPT !.from = o, !.n = n])
      BY <2>6, Zenon DEF ReadCompressed
    <3>2. 1..MaxAnswer \subseteq Nat
      BY FileReaderAssumption
    <3> QED
      BY <2>0, <2>3, <2>4, <3>1, <3>2, Zenon
  <2>7. CASE ReadMapped(r, m)
    <3> DEFINE n == Want(part[r], m)  distance == o % PageSize
               holds == [maker |-> f, mapped |-> TRUE,
                         from |-> o - distance, n |-> n + distance]
    <3>1. \/ KeepsState
          \/ /\ Readable(f, o, n)
             /\ \E s \in StateFor(r) :
                  Holds(r, s, Empty(f)) \/ Holds(r, s, holds)
      BY <2>7, Zenon DEF ReadMapped
    <3>2. ASSUME NEW s, Readable(f, o, n), Holds(r, s, holds)
          PROVE  HeapTyped'
      <4>1. o \in Nat
        BY <2>0, <3>2
      <4>2. distance \in Nat /\ o - distance \in Nat
        BY <4>1, PageStart, FileReaderAssumption
      <4> HIDE DEF distance, n
      <4>3. n \in Nat /\ n + distance \in Nat
        BY <2>2, <4>2 DEF n
      <4>4. holds \in Pieces
        BY <2>1, <4>2, <4>3 DEF Pieces
      <4> QED
        BY <3>2, <4>4, HoldsTyped
    <3> HIDE DEF holds, n
    <3> QED
      BY <1>1, <2>4, <3>1, <3>2
  <2> QED
    BY <1>2, <2>1, <2>5, <2>6, <2>7, FileReaderAssumption DEF ReadFile
<1> QED
  BY <1>1, <1>2 DEF Read

LEMMA NextTyped == Inv /\ HeapTyped /\ [Next]_vars => HeapTyped'
<1> SUFFICES ASSUME Inv, HeapTyped, [Next]_vars  PROVE HeapTyped'
  OBVIOUS
<1>1. CASE UNCHANGED heap
  BY <1>1 DEF HeapTyped, Live
<1>2. ASSUME NEW r, Finish(r)  PROVE HeapTyped'
  BY <1>2, WithoutTyped DEF Finish
<1>3. ASSUME NEW r \in Readers, NEW n \in Requests, ReadInto(r, n)
      PROVE  HeapTyped'
  <2> DEFINE f == file[r]
  <2>1. \/ UNCHANGED heap
        \/ f # NoFile /\ \E s \in StateFor(r) : Holds(r, s, Empty(f))
    BY <1>3, Zenon DEF ReadInto
  <2>2. ASSUME NEW s, f # NoFile, Holds(r, s, Empty(f))  PROVE HeapTyped'
    <3>1. f \in Files
      BY <2>2 DEF Inv, OwnerInv
    <3> QED
      BY <2>2, <3>1, EmptyPiece, HoldsTyped
  <2> QED
    BY <1>1, <2>1, <2>2
<1>4. ASSUME NEW r \in Readers, NEW n \in Requests, Read(r, n)
      PROVE  HeapTyped'
  BY <1>4, ReadTyped, FileReaderAssumption
<1>5. CASE UNCHANGED vars
  BY <1>1, <1>5 DEF vars
<1>6. ASSUME NEW r \in Readers,
             \/ Construct(r) \/ Seek(r) \/ Release(r) \/ Close(r)
             \/ \E q \in Readers : Copy(r, q) \/ Assign(r, q)
      PROVE  HeapTyped'
  BY <1>1, <1>2, <1>6
     DEF Construct, Seek, Release, Close, Copy, Assign, KeepsState
<1> QED
  BY <1>3, <1>4, <1>5, <1>6 DEF Next

-----------------------------------------------------------------------------
(* What the invariant says of the properties *)

LEMMA InitInv == Init => Inv
<1> SUFFICES ASSUME Init  PROVE Inv
  OBVIOUS
<1>1. Live = {} /\ Mappings = {}
  BY DEF Init, Live, Mappings
<1>2. OwnerInv
  <2>1. Counted
    BY <1>1, FS_EmptySet DEF Init, Counted
  <2>2. Owned
    BY <1>1 DEF Init, Owned
  <2>3. Stands
    BY NothingStands DEF Init, Stands
  <2> QED
    BY <1>1, <2>1, <2>2, <2>3, NothingStands DEF Init, OwnerInv
<1>3. DeliveryInv
  <2>1. NullPart \in Parts
    BY DEF NullPart, Parts
  <2>2. SetUp(NullPart) \in Histories /\ Delivered(NullPart, SetUp(NullPart))
    BY <2>1, SetUpDelivers
  <2> QED
    BY <2>1, <2>2 DEF Init, DeliveryInv
<1> QED
  BY <1>2, <1>3 DEF Inv

LEMMA StepInv == Inv /\ [Next]_vars => Inv'
<1> SUFFICES ASSUME Inv, [Next]_vars  PROVE Inv'
  OBVIOUS
<1>1. CASE UNCHANGED vars
  BY <1>1 DEF vars, Inv, OwnerInv, DeliveryInv, Owned, Counted, Stands, Live, Mappings
<1>2. ASSUME NEW r \in Readers,
             \/ Construct(r) \/ Seek(r) \/ Release(r) \/ Close(r)
             \/ \E q \in Readers : Copy(r, q) \/ Assign(r, q)
             \/ \E n \in Requests : Read(r, n) \/ ReadInto(r, n)
      PROVE  Inv'
  <2>1. CASE Construct(r)
    BY <2>1, ConstructKeeps
  <2>2. CASE Seek(r)
    BY <2>2, SeekKeeps
  <2>3. CASE Release(r)
    BY <2>3, ReleaseKeeps
  <2>4. CASE Close(r)
    BY <2>4, CloseKeeps
  <2>5. ASSUME NEW q \in Readers, Copy(r, q)  PROVE Inv'
    BY <2>5, CopyKeeps
  <2>6. ASSUME NEW q \in Readers, Assign(r, q)  PROVE Inv'
    BY <2>6, AssignKeeps
  <2>7. ASSUME NEW n \in Requests, Read(r, n)  PROVE Inv'
    BY <2>7, ReadKeeps, FileReaderAssumption
  <2>8. ASSUME NEW n \in Requests, ReadInto(r, n)  PROVE Inv'
    BY <2>8, ReadIntoKeeps, FileReaderAssumption
  <2> QED
    BY <1>2, <2>1, <2>2, <2>3, <2>4, <2>5, <2>6, <2>7, <2>8
<1> QED
  BY <1>1, <1>2 DEF Next

(* The invariant holds however readers are used. *)
THEOREM ReaderInvariant == Spec => []Inv
<1>1. Init => Inv
  BY InitInv
<1>2. Inv /\ [Next]_vars => Inv'
  BY StepInv
<1> QED
  BY <1>1, <1>2, PTL DEF Spec

(* Every variable keeps its type; above all, what a mapping holds never     *)
(* begins before its file (the page arithmetic of MMappedFile::read), and   *)
(* the count of mappings never goes below zero.                             *)
THEOREM TypeCorrect == Spec => []TypeOK
<1>1. Init => HeapTyped
  BY DEF Init, HeapTyped, Live
<1>2. Inv /\ HeapTyped => TypeOK
  <2> SUFFICES ASSUME Inv, HeapTyped  PROVE TypeOK
    OBVIOUS
  <2>1. maps \in Nat
    BY FS_CardinalityType DEF Inv, OwnerInv, Counted
  <2>2. part \in [Readers -> Parts]
    BY DEF Inv, DeliveryInv
  <2> QED
    BY <2>1, <2>2 DEF TypeOK, Inv, OwnerInv, HeapTyped, Pieces
<1> QED
  BY <1>1, <1>2, NextTyped, ReaderInvariant, PTL DEF Spec

(* A state the invariant gives one owner is pointed to once *)
LEMMA OneOwner ==
  ASSUME Inv, NEW s \in Live
  PROVE  Cardinality({ r \in Readers : state[r] = s }) = 1
<1>1. PICK q \in Readers : state[q] = s
  BY DEF Inv, OwnerInv, Owned
<1>2. s # NoState
  BY FileReaderAssumption DEF Inv, OwnerInv
<1>3. { r \in Readers : state[r] = s } = {q}
  BY <1>1, <1>2 DEF Inv, OwnerInv, Owned
<1> QED
  BY <1>3, FS_Singleton

(* Copies and assignments never make two readers point to one state, no     *)
(* state is lost, and finish gets it with the file that made it             *)
(* (IFile::finish's assert, FileReader's operator=).                        *)
THEOREM StatesHaveOneOwner == Spec => []StatesOwned
<1>1. Inv => StatesOwned
  <2> SUFFICES ASSUME Inv  PROVE StatesOwned
    OBVIOUS
  <2>1. \A s \in Live : Cardinality({ r \in Readers : state[r] = s }) = 1
    BY OneOwner
  <2> QED
    BY <2>1 DEF StatesOwned, Inv, OwnerInv, Owned
<1> QED
  BY <1>1, ReaderInvariant, PTL

(* Every mmap of MMappedFile is undone once (finish, and the read after).   *)
THEOREM MappingsHaveOneOwner == Spec => []MapsOwned
<1>1. Inv => MapsOwned
  BY DEF Inv, OwnerInv, Counted, Mappings, MapsOwned
<1> QED
  BY <1>1, ReaderInvariant, PTL

(* The bytes a read returned stay where they are until the reader's next    *)
(* call (the states' buffers and mappings), whatever other readers do.      *)
THEOREM AnswersStand == Spec => []DataStands
<1>1. Inv => DataStands
  BY DEF Inv, OwnerInv, Owned, Stands, DataStands
<1> QED
  BY <1>1, ReaderInvariant, PTL

(* A reader delivers its part in order, each byte once (FileReader::read,   *)
(* readInto, seek).                                                         *)
THEOREM PartsDelivered == Spec => []PartDelivered
<1>1. Inv => PartDelivered
  <2> SUFFICES ASSUME Inv, NEW r \in Readers
      PROVE  LET g == got[r]
             IN  /\ g.bytes = Stretch(g.from, Len(g.bytes))
                 /\ part[r].offset = g.from + Len(g.bytes)
                 /\ g.bytes # << >> => part[r].offset <= g.to
                 /\ g.bytes # << >> /\ part[r].length > 0 => EndOf(part[r]) = g.to
    BY DEF PartDelivered
  <2>1. part[r] \in Parts /\ Delivered(part[r], got[r])
    BY DEF Inv, DeliveryInv
  <2>2. part[r].length > 0 => EndOf(part[r]) = part[r].offset + part[r].length
    BY <2>1 DEF Parts, EndOf, Larger
  <2> QED
    BY <2>1, <2>2, Zenon DEF Delivered
<1> QED
  BY <1>1, ReaderInvariant, PTL
=============================================================================
