------------------------- MODULE XzIndexParseProofs -------------------------
(***************************************************************************)
(* read_index of lib/xz-file.cpp on files of any content, with a buffer of  *)
(* any size and calls that fail in any place: where it reads, what becomes  *)
(* of the indexes, what a returned index says of the file, and which files  *)
(* it accepts.                                                              *)
(***************************************************************************)
EXTENDS XzIndexParse, PrefixSumsProofs

-----------------------------------------------------------------------------
(* The recursion in FlattenSeq                                              *)
Flat(s, g, n) == g = [i \in 1..n |-> IF i = 1 THEN s[i] ELSE g[i - 1] \o s[i]]

LEMMA FlatExists ==
  ASSUME NEW s, NEW n \in Nat
  PROVE  \E g : Flat(s, g, n)
<1> DEFINE S == { m \in Nat : \E g : Flat(s, g, m) }
<1>1. 0 \in S
  <2> DEFINE g == [i \in {} |-> s]
  <2>1. 1..0 = {}
    OBVIOUS
  <2>2. Flat(s, g, 0)
    BY <2>1 DEF Flat
  <2> QED
    BY <2>2
<1>2. ASSUME NEW m \in Nat, m \in S  PROVE m + 1 \in S
  <2>1. PICK g : Flat(s, g, m)
    BY <1>2
  <2> DEFINE h == [i \in 1..(m + 1) |-> IF i = m + 1
                                        THEN IF i = 1 THEN s[i] ELSE g[i - 1] \o s[i]
                                        ELSE g[i]]
  <2>2. ASSUME NEW i \in 1..(m + 1)
        PROVE  h[i] = IF i = 1 THEN s[i] ELSE h[i - 1] \o s[i]
    <3>1. CASE i = 1
      <4>1. CASE i = m + 1
        BY <3>1, <4>1
      <4>2. CASE i # m + 1
        <5>1. i \in 1..m
          BY <4>2
        <5> QED
          BY <2>1, <3>1, <4>2, <5>1 DEF Flat
      <4> QED
        BY <4>1, <4>2
    <3>2. CASE i # 1
      <4>1. i - 1 \in 1..m /\ i - 1 # m + 1 /\ i - 1 \in 1..(m + 1)
        BY <3>2
      <4>2. h[i - 1] = g[i - 1]
        BY <4>1
      <4>3. CASE i = m + 1
        BY <3>2, <4>2, <4>3
      <4>4. CASE i # m + 1
        <5>1. i \in 1..m
          BY <4>4
        <5>2. h[i] = g[i]
          BY <4>4
        <5>3. g[i] = g[i - 1] \o s[i]
          BY <2>1, <3>2, <5>1 DEF Flat
        <5> QED
          BY <3>2, <4>2, <5>2, <5>3
      <4> QED
        BY <4>3, <4>4
    <3> QED
      BY <3>1, <3>2
  <2>3. h = [i \in 1..(m + 1) |-> h[i]]
    OBVIOUS
  <2> HIDE DEF h
  <2>4. Flat(s, h, m + 1)
    BY <2>2, <2>3 DEF Flat
  <2> QED
    BY <2>4
<1> HIDE DEF S
<1>3. n \in S
  BY <1>1, <1>2, AllNumbers
<1> QED
  BY <1>3 DEF S

LEMMA Flattening ==
  ASSUME NEW s, Len(s) \in Nat \ {0}
  PROVE  \E g : Flat(s, g, Len(s)) /\ FlattenSeq(s) = g[Len(s)]
<1> DEFINE P(g) == Flat(s, g, Len(s))
<1>1. FlattenSeq(s) = (CHOOSE g : P(g))[Len(s)]
  BY DEF FlattenSeq, Flat
<1>2. \E g : P(g)
  BY FlatExists
<1> HIDE DEF P
<1>3. P(CHOOSE g : P(g))
  BY <1>2
<1> QED
  BY <1>1, <1>3 DEF P

(* What all parts have and concatenation keeps, the whole has *)
LEMMA FlattenIn ==
  ASSUME NEW s, Len(s) \in Nat \ {0}, NEW P, \A u, v \in P : u \o v \in P,
         \A i \in 1..Len(s) : s[i] \in P
  PROVE  FlattenSeq(s) \in P
<1>1. PICK g : Flat(s, g, Len(s)) /\ FlattenSeq(s) = g[Len(s)]
  BY Flattening
<1> DEFINE S == { n \in Nat : n + 1 <= Len(s) => g[n + 1] \in P }
<1>2. 0 \in S
  <2>1. 0 + 1 = 1 /\ 1 \in 1..Len(s)
    OBVIOUS
  <2>2. g[1] = s[1]
    BY <1>1, <2>1 DEF Flat
  <2> QED
    BY <2>1, <2>2
<1>3. ASSUME NEW n \in Nat, n \in S  PROVE n + 1 \in S
  <2>1. CASE (n + 1) + 1 <= Len(s)
    <3>1. /\ (n + 1) + 1 \in 1..Len(s) /\ (n + 1) + 1 # 1 /\ ((n + 1) + 1) - 1 = n + 1
          /\ g[n + 1] \in P
      BY <1>3, <2>1
    <3>2. g[(n + 1) + 1] = g[n + 1] \o s[(n + 1) + 1]
      BY <1>1, <3>1 DEF Flat
    <3>3. s[(n + 1) + 1] \in P
      BY <3>1
    <3>4. g[(n + 1) + 1] \in P
      BY <3>1, <3>2, <3>3
    <3> QED
      BY <3>4
  <2> QED
    BY <2>1
<1>4. Nat \subseteq S
  <2> HIDE DEF S
  <2> QED
    BY <1>2, <1>3, AllNumbers
<1>5. Len(s) - 1 \in S /\ (Len(s) - 1) + 1 = Len(s)
  BY <1>4
<1>6. g[Len(s)] \in P
  BY <1>5
<1> QED
  BY <1>1, <1>6

-----------------------------------------------------------------------------
(* The words of a file.  An index is followed by its own stream's footer,   *)
(* or by none.                                                              *)
Parts == {"header", "blocks", "index", "gap", "footer", "zero", "junk"}
Word  == [part : Parts, of : Nat, no : Nat]

Orderly(w) ==
  /\ \A p \in 1..(Len(w) - 1) :
       w[p].part = "index" /\ w[p + 1].part = "footer" => w[p + 1].of = w[p].of
  /\ Len(w) > 0 => w[Len(w)].part # "index"

OrderlySeqs == { w \in Seq(Word) : Orderly(w) }

LEMMA OrderlyJoin ==
  ASSUME NEW u \in OrderlySeqs, NEW v \in OrderlySeqs
  PROVE  u \o v \in OrderlySeqs
<1> DEFINE w == u \o v
<1>1. u \in Seq(Word) /\ v \in Seq(Word) /\ Orderly(u) /\ Orderly(v)
      /\ Len(u) \in Nat /\ Len(v) \in Nat
  BY DEF OrderlySeqs
<1>2. /\ w \in Seq(Word) /\ Len(w) = Len(u) + Len(v)
      /\ \A i \in 1..(Len(u) + Len(v)) : w[i] = IF i <= Len(u) THEN u[i] ELSE v[i - Len(u)]
  BY <1>1, ConcatProperties
<1> HIDE DEF w
<1>3. ASSUME NEW p \in 1..(Len(w) - 1), w[p].part = "index", w[p + 1].part = "footer"
      PROVE  w[p + 1].of = w[p].of
  <2>1. p \in 1..(Len(u) + Len(v)) /\ p + 1 \in 1..(Len(u) + Len(v))
    BY <1>1, <1>2
  <2>2. CASE p < Len(u)
    <3>1. p \in 1..(Len(u) - 1) /\ p <= Len(u) /\ p + 1 <= Len(u)
      BY <1>1, <2>1, <2>2
    <3>2. w[p] = u[p] /\ w[p + 1] = u[p + 1]
      BY <1>2, <2>1, <3>1
    <3> QED
      BY <1>1, <1>3, <3>1, <3>2 DEF Orderly
  <2>3. CASE p = Len(u)
    <3>1. w[p] = u[Len(u)] /\ Len(u) > 0
      BY <1>1, <1>2, <2>1, <2>3
    <3> QED
      BY <1>1, <1>3, <3>1 DEF Orderly
  <2>4. CASE p > Len(u)
    <3>1. /\ p - Len(u) \in 1..(Len(v) - 1) /\ ~(p <= Len(u)) /\ ~(p + 1 <= Len(u))
          /\ (p + 1) - Len(u) = (p - Len(u)) + 1
      BY <1>1, <2>1, <2>4, <1>2
    <3>2. w[p] = v[p - Len(u)] /\ w[p + 1] = v[(p - Len(u)) + 1]
      BY <1>2, <2>1, <3>1
    <3> QED
      BY <1>1, <1>3, <3>1, <3>2 DEF Orderly
  <2> QED
    BY <1>1, <2>1, <2>2, <2>3, <2>4
<1>4. ASSUME Len(w) > 0  PROVE w[Len(w)].part # "index"
  <2>1. Len(w) \in 1..(Len(u) + Len(v))
    BY <1>1, <1>2, <1>4
  <2>2. CASE Len(v) = 0
    <3>1. Len(w) = Len(u) /\ Len(u) > 0
      BY <1>1, <1>2, <1>4, <2>2
    <3>2. w[Len(w)] = u[Len(u)]
      BY <1>1, <1>2, <2>1, <3>1
    <3> QED
      BY <1>1, <3>1, <3>2 DEF Orderly
  <2>3. CASE Len(v) > 0
    <3>1. ~(Len(w) <= Len(u)) /\ Len(w) - Len(u) = Len(v)
      BY <1>1, <1>2, <2>3
    <3>2. w[Len(w)] = v[Len(v)]
      BY <1>2, <2>1, <3>1
    <3> QED
      BY <1>1, <2>3, <3>2 DEF Orderly
  <2> QED
    BY <1>1, <2>2, <2>3
<1>5. Orderly(w)
  BY <1>3, <1>4 DEF Orderly
<1> QED
  BY <1>2, <1>5 DEF OrderlySeqs, w

LEMMA StreamLengths ==
  ASSUME NEW f \in Files, NEW i \in DOMAIN f.streams
  PROVE  /\ f.streams[i].blocks \in Nat /\ f.streams[i].index \in Nat \ {0}
         /\ f.streams[i].gap \in Nat /\ f.streams[i].padding \in Nat
         /\ f.streams[i].backward \in Nat \ {0} /\ f.streams[i].total \in Nat
         /\ f.streams[i].mem \in Nat
         /\ i \in Nat \ {0} /\ Len(f.streams) \in Nat
         /\ DOMAIN f.streams = 1..Len(f.streams)
<1>1. /\ Len(f.streams) \in Nat /\ DOMAIN f.streams = 1..Len(f.streams)
      /\ \A l \in Lengths : f.streams[i][l] \in Nat
      /\ f.streams[i].index > 0 /\ f.streams[i].backward > 0
  BY ParseAssumption
<1>2. i \in Nat \ {0}
  BY <1>1
<1> QED
  BY <1>1, <1>2 DEF Lengths

Own(i) == [part : Parts, of : {i}, no : Nat] \cup {Zero}

LEMMA OwnWords ==
  ASSUME NEW part \in Parts, NEW i, NEW n \in Nat
  PROVE  /\ Words(part, i, n) \in Seq(Own(i)) /\ Len(Words(part, i, n)) = n
         /\ \A k \in 1..n : Words(part, i, n)[k] = [part |-> part, of |-> i, no |-> k]
BY DEF Words, Own

(* Where the elements of two sequences are in their concatenation *)
Joins(u, m, v, n, w) ==
  /\ Len(u) = m /\ Len(v) = n /\ Len(w) = m + n /\ m \in Nat /\ n \in Nat
  /\ \A k \in 1..m : w[k] = u[k]
  /\ \A k \in 1..n : w[m + k] = v[k]

LEMMA Joined ==
  ASSUME NEW S, NEW u \in Seq(S), NEW v \in Seq(S)
  PROVE  u \o v \in Seq(S) /\ Joins(u, Len(u), v, Len(v), u \o v)
<1>1. PICK w, m, n : w = u \o v /\ m = Len(u) /\ n = Len(v)
  OBVIOUS
<1>2. /\ w \in Seq(S) /\ Len(w) = m + n /\ m \in Nat /\ n \in Nat
      /\ \A k \in 1..(m + n) : w[k] = IF k <= m THEN u[k] ELSE v[k - m]
  BY <1>1, ConcatProperties
<1>3. \A k \in 1..m : k \in 1..(m + n) /\ k <= m
  BY <1>2
<1>4. \A k \in 1..n : m + k \in 1..(m + n) /\ ~(m + k <= m) /\ (m + k) - m = k
  BY <1>2
<1>5. Joins(u, m, v, n, w)
  BY <1>1, <1>2, <1>3, <1>4 DEF Joins
<1> QED
  BY <1>1, <1>2, <1>5, Zenon

(* ... and of six: where the first, third, fifth and sixth are *)
SixJoin(a, c, e, z, w, la, lc, ld) ==
  /\ Len(w) = ld + Len(z)
  /\ \A k \in 1..Len(a) : w[k] = a[k]
  /\ \A k \in 1..Len(c) : w[la + k] = c[k]
  /\ \A k \in 1..Len(e) : w[lc + k] = e[k]
  /\ \A k \in 1..Len(z) : w[ld + k] = z[k]

LEMMA SixJoined ==
  ASSUME NEW S, NEW a \in Seq(S), NEW b \in Seq(S), NEW c \in Seq(S), NEW d \in Seq(S),
         NEW e \in Seq(S), NEW z \in Seq(S)
  PROVE  /\ a \o b \o c \o d \o e \o z \in Seq(S)
         /\ \A la, lb, lc, ld :
              /\ la = Len(a) + Len(b) /\ lb = la + Len(c) /\ lc = lb + Len(d)
              /\ ld = lc + Len(e)
              => SixJoin(a, c, e, z, a \o b \o c \o d \o e \o z, la, lc, ld)
<1> DEFINE ab == a \o b  abc == ab \o c  abcd == abc \o d  abcde == abcd \o e  w == abcde \o z
<1>1. ab \in Seq(S) /\ Joins(a, Len(a), b, Len(b), ab)
  BY Joined, Zenon
<1> HIDE DEF ab
<1>2. abc \in Seq(S) /\ Joins(ab, Len(ab), c, Len(c), abc)
  BY <1>1, Joined, Zenon
<1> HIDE DEF abc
<1>3. abcd \in Seq(S) /\ Joins(abc, Len(abc), d, Len(d), abcd)
  BY <1>2, Joined, Zenon
<1> HIDE DEF abcd
<1>4. abcde \in Seq(S) /\ Joins(abcd, Len(abcd), e, Len(e), abcde)
  BY <1>3, Joined, Zenon
<1> HIDE DEF abcde
<1>5. w \in Seq(S) /\ Joins(abcde, Len(abcde), z, Len(z), w)
  BY <1>4, Joined, Zenon
<1> HIDE DEF w
<1>18. w = a \o b \o c \o d \o e \o z
  BY DEF ab, abc, abcd, abcde, w
<1> SUFFICES ASSUME NEW la, NEW lb, NEW lc, NEW ld,
                    la = Len(a) + Len(b), lb = la + Len(c), lc = lb + Len(d), ld = lc + Len(e)
             PROVE  SixJoin(a, c, e, z, a \o b \o c \o d \o e \o z, la, lc, ld)
  BY <1>5, <1>18
<1>7. /\ Len(a) \in Nat /\ la \in Nat /\ Len(ab) = la /\ Len(a) <= la
      /\ lb \in Nat /\ Len(abc) = lb /\ la <= lb /\ Len(c) \in Nat
  BY <1>1, <1>2 DEF Joins
<1>8. /\ lc \in Nat /\ Len(abcd) = lc /\ lb <= lc
      /\ ld \in Nat /\ Len(abcde) = ld /\ lc <= ld /\ Len(e) \in Nat
      /\ Len(w) = ld + Len(z)
  BY <1>3, <1>4, <1>5, <1>7 DEF Joins
<1>9. \A k \in 1..Len(a) : k \in 1..la /\ k \in 1..lb /\ k \in 1..lc /\ k \in 1..ld
  BY <1>7, <1>8
<1>10. \A k \in 1..Len(c) : la + k \in 1..lb /\ la + k \in 1..lc /\ la + k \in 1..ld
  BY <1>7, <1>8
<1>11. \A k \in 1..Len(e) : lc + k \in 1..ld
  BY <1>7, <1>8
<1>12. /\ \A k \in 1..ld : w[k] = abcde[k]
       /\ \A k \in 1..lc : abcde[k] = abcd[k]
       /\ \A k \in 1..lb : abcd[k] = abc[k]
       /\ \A k \in 1..la : abc[k] = ab[k]
       /\ \A k \in 1..Len(a) : ab[k] = a[k]
  BY <1>1, <1>2, <1>3, <1>4, <1>5, <1>7, <1>8, Zenon DEF Joins
<1>13. /\ \A k \in 1..Len(c) : abc[la + k] = c[k]
       /\ \A k \in 1..Len(e) : abcde[lc + k] = e[k]
       /\ \A k \in 1..Len(z) : w[ld + k] = z[k]
  BY <1>1, <1>2, <1>3, <1>4, <1>5, <1>7, <1>8, Zenon DEF Joins
<1>14. \A k \in 1..Len(a) : w[k] = a[k]
  BY <1>9, <1>12
<1>15. \A k \in 1..Len(c) : w[la + k] = c[k]
  BY <1>10, <1>12, <1>13
<1>16. \A k \in 1..Len(e) : w[lc + k] = e[k]
  BY <1>11, <1>12, <1>13
<1>17. SixJoin(a, c, e, z, w, la, lc, ld)
  BY <1>8, <1>13, <1>14, <1>15, <1>16, Zenon DEF SixJoin
<1> QED
  BY <1>17, <1>18, Zenon

(* Where the parts of a stream are *)
LEMMA StreamPlaces ==
  ASSUME NEW f \in Files, NEW i \in DOMAIN f.streams,
         NEW s, s = f.streams[i], NEW w, w = StreamWords(f, i)
  PROVE  /\ w \in Seq(Own(i))
         /\ Len(w) = H + s.blocks + s.index + s.gap + H + s.padding
         /\ \A k \in 1..H : w[k] = Header(i)[k]
         /\ \A k \in 1..s.index : w[H + s.blocks + k] = Index(f, i)[k]
         /\ \A k \in 1..H : w[H + s.blocks + s.index + s.gap + k] = Footer(i)[k]
         /\ \A k \in 1..s.padding :
              w[H + s.blocks + s.index + s.gap + H + k] = Zero
<1>1. /\ s.blocks \in Nat /\ s.index \in Nat /\ s.gap \in Nat /\ s.padding \in Nat
      /\ H \in Nat
  BY StreamLengths DEF H
<1>2. PICK a, b, c, d, e :
        /\ a = Header(i) /\ b = Words("blocks", i, s.blocks) /\ c = Index(f, i)
        /\ d = Words("gap", i, s.gap) /\ e = Footer(i)
  OBVIOUS
<1>3. /\ a \in Seq(Own(i)) /\ Len(a) = H /\ b \in Seq(Own(i)) /\ Len(b) = s.blocks
      /\ c \in Seq(Own(i)) /\ Len(c) = s.index /\ d \in Seq(Own(i)) /\ Len(d) = s.gap
      /\ e \in Seq(Own(i)) /\ Len(e) = H
  BY <1>1, <1>2, OwnWords DEF Header, Footer, Index, Parts
<1>4. PICK z : z = [k \in 1..s.padding |-> Zero]
  OBVIOUS
<1>5. z \in Seq(Own(i)) /\ Len(z) = s.padding /\ \A k \in 1..s.padding : z[k] = Zero
  BY <1>1, <1>4 DEF Own
<1>6. w = a \o b \o c \o d \o e \o z
  BY <1>2, <1>4 DEF StreamWords
<1>7. PICK la, lb, lc, ld :
        la = H + s.blocks /\ lb = la + s.index /\ lc = lb + s.gap /\ ld = lc + H
  OBVIOUS
<1>8. /\ w \in Seq(Own(i)) /\ Len(w) = ld + s.padding
      /\ \A k \in 1..H : w[k] = a[k]
      /\ \A k \in 1..s.index : w[la + k] = c[k]
      /\ \A k \in 1..H : w[lc + k] = e[k]
      /\ \A k \in 1..s.padding : w[ld + k] = z[k]
  <2>1. /\ la = Len(a) + Len(b) /\ lb = la + Len(c) /\ lc = lb + Len(d) /\ ld = lc + Len(e)
    BY <1>3, <1>7
  <2>2. \A S : /\ a \in Seq(S) /\ b \in Seq(S) /\ c \in Seq(S)
               /\ d \in Seq(S) /\ e \in Seq(S) /\ z \in Seq(S)
               => w \in Seq(S) /\ SixJoin(a, c, e, z, w, la, lc, ld)
    <3> TAKE S
    <3> HAVE /\ a \in Seq(S) /\ b \in Seq(S) /\ c \in Seq(S)
             /\ d \in Seq(S) /\ e \in Seq(S) /\ z \in Seq(S)
    <3>1. /\ a \o b \o c \o d \o e \o z \in Seq(S)
          /\ SixJoin(a, c, e, z, a \o b \o c \o d \o e \o z, la, lc, ld)
      BY <2>1, SixJoined, Zenon
    <3> QED
      BY <1>6, <3>1, Zenon
  <2>3. w \in Seq(Own(i)) /\ SixJoin(a, c, e, z, w, la, lc, ld)
    BY <1>3, <1>5, <2>2, Zenon
  <2> QED
    BY <1>3, <1>5, <2>3 DEF SixJoin
<1>9. \A k \in 1..s.padding : w[ld + k] = Zero
  BY <1>5, <1>8
<1> QED
  BY <1>2, <1>7, <1>8, <1>9

LEMMA StreamOrderly ==
  ASSUME NEW f \in Files, NEW i \in DOMAIN f.streams
  PROVE  StreamWords(f, i) \in OrderlySeqs
<1> DEFINE s == f.streams[i]  w == StreamWords(f, i)
<1>1. /\ s.blocks \in Nat /\ s.index \in Nat /\ s.gap \in Nat /\ s.padding \in Nat
      /\ H = 3 /\ i \in Nat
  BY StreamLengths DEF H
<1> DEFINE l == H + s.blocks + s.index + s.gap
<1>2. /\ w \in Seq(Own(i)) /\ Len(w) = l + H + s.padding
      /\ \A k \in 1..H : w[l + k] = Footer(i)[k]
      /\ \A k \in 1..s.padding : w[l + H + k] = Zero
  BY StreamPlaces
<1>3. l \in Nat
  BY <1>1
<1> HIDE DEF s, w, l
<1>4. Own(i) \subseteq Word
  BY <1>1 DEF Own, Word, Zero, Parts
<1>5. w \in Seq(Word)
  BY <1>2, <1>4, SeqMonotonic
<1>6. \A k \in 1..Len(w) : w[k] \in Own(i)
  BY <1>2, ElementOfSeq
<1>7. \A e \in Own(i) : e.part \in {"index", "footer"} => e.of = i
  BY DEF Own, Zero
<1>8. \A p \in 1..(Len(w) - 1) :
        w[p].part = "index" /\ w[p + 1].part = "footer" => w[p + 1].of = w[p].of
  <2> SUFFICES ASSUME NEW p \in 1..(Len(w) - 1), w[p].part = "index", w[p + 1].part = "footer"
               PROVE  w[p + 1].of = w[p].of
    OBVIOUS
  <2>1. p \in 1..Len(w) /\ p + 1 \in 1..Len(w)
    BY <1>1, <1>2, <1>3
  <2> QED
    BY <1>6, <1>7, <2>1
<1>9. w[Len(w)].part # "index"
  <2>1. CASE s.padding = 0
    <3>1. Len(w) = l + 3 /\ 3 \in 1..H
      BY <1>1, <1>2, <1>3, <2>1
    <3>2. w[l + 3] = Footer(i)[3]
      BY <1>2, <3>1
    <3>3. Words("footer", i, H)[3] = [part |-> "footer", of |-> i, no |-> 3]
      BY <1>1, <3>1, OwnWords DEF Parts
    <3>4. Footer(i)[3].part = "footer"
      BY <3>3 DEF Footer
    <3> QED
      BY <3>1, <3>2, <3>4
  <2>2. CASE s.padding # 0
    <3>1. s.padding \in 1..s.padding
      BY <1>1, <2>2
    <3> QED
      BY <1>2, <3>1 DEF Zero
  <2> QED
    BY <2>1, <2>2
<1>10. Orderly(w)
  BY <1>8, <1>9 DEF Orderly
<1> QED
  BY <1>5, <1>10 DEF OrderlySeqs, w

LEMMA ContentsOrderly ==
  ASSUME NEW f \in Files
  PROVE  Contents(f) \in OrderlySeqs
<1> DEFINE ss == [i \in DOMAIN f.streams |-> StreamWords(f, i)]  n == Len(f.streams)
<1>1. n \in Nat /\ DOMAIN f.streams = 1..n /\ f.junk \in Seq({Zero, Junk})
  BY ParseAssumption
<1>2. Len(ss) = n
  BY <1>1
<1>3. \A i \in 1..n : ss[i] \in OrderlySeqs
  BY <1>1, StreamOrderly
<1>4. FlattenSeq(ss) \in OrderlySeqs
  <2>1. CASE n = 0
    <3>1. ss = << >>
      BY <1>1, <2>1
    <3>2. FlattenSeq(ss) = ss
      BY <1>2, <2>1 DEF FlattenSeq
    <3>3. << >> \in OrderlySeqs
      BY DEF OrderlySeqs, Orderly
    <3> QED
      BY <3>1, <3>2, <3>3
  <2>2. CASE n # 0
    <3> HIDE DEF ss
    <3> QED
      BY <1>1, <1>2, <1>3, <2>2, OrderlyJoin, FlattenIn
  <2> QED
    BY <2>1, <2>2
<1>5. f.junk \in OrderlySeqs
  <2>1. Zero \in Word /\ Junk \in Word /\ Zero.part # "index" /\ Junk.part # "index"
    BY DEF Zero, Junk, Word, Parts
  <2>2. \A k \in 1..Len(f.junk) : f.junk[k] \in {Zero, Junk}
    BY <1>1, ElementOfSeq
  <2>3. f.junk \in Seq(Word)
    BY <1>1, <2>1, SeqMonotonic
  <2>4. Orderly(f.junk)
    <3>1. Len(f.junk) \in Nat
      BY <1>1
    <3>2. \A k \in 1..Len(f.junk) : f.junk[k].part # "index"
      BY <2>1, <2>2
    <3> QED
      BY <3>1, <3>2 DEF Orderly
  <2> QED
    BY <2>3, <2>4 DEF OrderlySeqs
<1> QED
  BY <1>4, <1>5, OrderlyJoin DEF Contents

(* The length of a file is a number, and what lies in it are words *)
LEMMA SizeType ==
  ASSUME NEW f \in Files
  PROVE  Contents(f) \in Seq(Word) /\ Size(f) \in Nat
<1>1. Contents(f) \in Seq(Word)
  BY ContentsOrderly DEF OrderlySeqs
<1> QED
  BY <1>1 DEF Size

Streams == DOMAIN file.streams

(* The types, and how many indexes a place of read_index holds *)
Types ==
  /\ file \in Files /\ pos \in Nat /\ padding \in Nat /\ left \in Nat
  /\ footer \in {0} \cup Streams /\ fault \in Faults \cup {"none"}
  /\ pc \in {"stream", "footer", "index", "decode", "leftover", "header", "ok", "failed"}
  /\ cur \in Seq(Entries) /\ Len(cur) <= 1 /\ col \in Seq(Entries)

Owned ==
  /\ pc # "failed" => fault = "none"
  /\ cur # << >> <=> pc \in {"leftover", "header"}
  /\ alive = Held + (IF fault = "cat" THEN 1 ELSE 0)

(* There is a header's room behind pos where a footer or what was one lies, *)
(* and the index lies between a header's room and the footer.               *)
Placed ==
  /\ pos <= Size(file)
  /\ pc \in {"footer", "index", "decode", "header"} => pos + left + H <= Size(file)
  /\ pc \in {"decode", "header"} =>
       footer \in Streams /\ pos + left >= file.streams[footer].backward + H
  /\ pc \in {"stream", "footer", "index", "header"} => left = 0
  /\ ReadsInside

ParseInv == Types /\ Owned /\ Placed

-----------------------------------------------------------------------------
LEMMA FileFacts ==
  ASSUME file \in Files
  PROVE  /\ Size(file) \in Nat /\ Streams = 1..Len(file.streams) /\ Len(file.streams) \in Nat
         /\ \A i \in Streams :
              /\ file.streams[i].backward \in Nat /\ file.streams[i].total \in Nat
              /\ file.streams[i].index \in Nat
BY ParseAssumption, SizeType DEF Streams, Lengths

(* The comparison of the buffer's words ends at the first that is not zero  *)
LEMMA ZeroTailType ==
  ASSUME NEW w
  PROVE  /\ ZeroTail(w) \in 0..H
         /\ \A k \in 1..H : k > H - ZeroTail(w) => w[k] = Zero
         /\ ZeroTail(w) < H => w[H - ZeroTail(w)] # Zero
<1> DEFINE P(n) == /\ \A k \in 1..H : k > H - n => w[k] = Zero
                   /\ n < H => w[H - n] # Zero
<1>1. \E n \in 0..3 : P(n)
  <2>1. CASE w[3] # Zero
    <3>1. P(0)
      BY <2>1 DEF H
    <3> QED
      BY <3>1
  <2>2. CASE w[3] = Zero /\ w[2] # Zero
    <3>1. P(1)
      BY <2>2 DEF H
    <3> QED
      BY <3>1
  <2>3. CASE w[3] = Zero /\ w[2] = Zero /\ w[1] # Zero
    <3>1. P(2)
      BY <2>3 DEF H
    <3> QED
      BY <3>1
  <2>4. CASE w[3] = Zero /\ w[2] = Zero /\ w[1] = Zero
    <3>1. P(3)
      BY <2>4 DEF H
    <3> QED
      BY <3>1
  <2> QED
    BY <2>1, <2>2, <2>3, <2>4
<1>2. PICK m : m = CHOOSE n \in 0..H : P(n)
  OBVIOUS
<1>3. m = ZeroTail(w)
  BY <1>2 DEF ZeroTail
<1>4. \E n \in 0..H : P(n)
  BY <1>1 DEF H
<1> HIDE DEF P
<1>5. m \in 0..H /\ P(m)
  BY <1>2, <1>4
<1> QED
  BY <1>3, <1>5 DEF P

(* An index counts once *)
LEMMA Counts ==
  ASSUME Types
  PROVE  /\ Count(cur) \in {0, 1} /\ Count(col) \in {0, 1} /\ Held \in Nat
         /\ Count(<< >>) = 0
BY DEF Count, Held

(* A file that is left as it is has the same streams and entries *)
LEMMA SameFile ==
  ASSUME UNCHANGED file
  PROVE  Streams' = Streams /\ Entries' = Entries /\ Size(file)' = Size(file)
BY DEF Streams, Entries

-----------------------------------------------------------------------------
(* The ways a step can end *)

(* The label failed releases what is held, and what was asked for is inside *)
LEMMA FailKeeps ==
  ASSUME ParseInv, pc # "failed", Fail, fault' \in (Faults \cup {"none"}) \ {"cat"},
         ReadsInside'
  PROVE  ParseInv'
<1>1. /\ UNCHANGED <<file, pos, padding, left, footer>> /\ pc' = "failed"
      /\ cur' = << >> /\ col' = << >> /\ alive' = alive - Held
  BY DEF Fail
<1>2. Streams' = Streams /\ Entries' = Entries /\ Size(file)' = Size(file)
  BY <1>1, SameFile
<1>3. Types'
  BY <1>1, <1>2 DEF ParseInv, Types
<1>4. Owned'
  <2>1. alive = Held
    BY Counts DEF ParseInv, Owned
  <2>2. alive' = 0 /\ Held' = 0
    BY <1>1, <2>1, Counts DEF ParseInv, Held, Count
  <2> QED
    BY <1>1, <2>2 DEF Owned
<1>5. Placed'
  BY <1>1, <1>2 DEF ParseInv, Placed
<1> QED
  BY <1>3, <1>4, <1>5 DEF ParseInv

LEMMA RejectKeeps ==
  ASSUME ParseInv, pc # "failed", Reject
  PROVE  ParseInv'
<1>1. fault' = "none" /\ UNCHANGED file /\ UNCHANGED asked
  BY DEF Reject, Fail, ParseInv, Owned
<1>2. ReadsInside'
  BY <1>1 DEF ParseInv, Placed, ReadsInside, Inside, Size
<1> QED
  BY <1>1, <1>2, FailKeeps DEF Reject

LEMMA FaultKeeps ==
  ASSUME ParseInv, pc # "failed", NEW kind \in {"read", "mem"}, FaultIn(kind), ReadsInside'
  PROVE  ParseInv'
BY FailKeeps DEF FaultIn

(* A range that lies inside the file *)
LEMMA AskedInside ==
  ASSUME UNCHANGED file, NEW p, NEW n, Reads(p, n), Inside(p, n)
  PROVE  ReadsInside'
BY DEF Reads, ReadsInside, Inside, Size

LEMMA ReadFailsKeeps ==
  ASSUME ParseInv, pc # "failed", NEW p, NEW n, Inside(p, n), ReadFails(p, n)
  PROVE  ParseInv'
<1>1. Reads(p, n) /\ FaultIn("read")
  BY DEF ReadFails
<1>2. ReadsInside'
  BY <1>1, AskedInside DEF FaultIn, Fail
<1> QED
  BY <1>1, <1>2, FaultKeeps

(* A step that goes on and keeps the indexes *)
LEMMA GoesOnKeeps ==
  ASSUME ParseInv, pc \notin {"failed", "leftover", "header"},
         UNCHANGED <<file, cur, col, alive, fault>>,
         pos' \in Nat, padding' \in Nat, left' \in Nat, footer' \in {0} \cup Streams,
         pc' \in {"footer", "index", "decode"}, Placed'
  PROVE  ParseInv'
<1>1. Streams' = Streams /\ Entries' = Entries
  BY SameFile
<1>2. Types'
  BY <1>1 DEF ParseInv, Types
<1>3. Owned'
  BY DEF ParseInv, Owned, Held, Count
<1> QED
  BY <1>2, <1>3 DEF ParseInv

-----------------------------------------------------------------------------
(* Each action *)

LEMMA NextStreamKeeps ==
  ASSUME ParseInv, NextStream
  PROVE  ParseInv'
<1>1. CASE Reject
  BY <1>1, RejectKeeps DEF NextStream
<1>2. CASE /\ pos >= 2 * H /\ pos' = pos - H /\ padding' = 0 /\ pc' = "footer"
           /\ UNCHANGED <<file, buf, footer, left, fed, cur, col, alive, asked, fault>>
  <2>1. pc = "stream" /\ left = 0 /\ pos \in Nat /\ pos <= Size(file) /\ ReadsInside
    BY DEF NextStream, ParseInv, Types, Placed
  <2>2. pos' \in Nat /\ padding' \in Nat /\ left' \in Nat /\ footer' \in {0} \cup Streams
    BY <1>2, <2>1 DEF H, ParseInv, Types
  <2>3. Size(file)' = Size(file) /\ ReadsInside' /\ Size(file) \in Nat
    BY <1>2, <2>1, SameFile, FileFacts DEF ReadsInside, Inside, ParseInv, Types
  <2>4. Placed'
    BY <1>2, <2>1, <2>3 DEF Placed, H
  <2> QED
    BY <1>2, <2>1, <2>2, <2>4, GoesOnKeeps
<1> QED
  BY <1>1, <1>2 DEF NextStream

LEMMA FindFooterKeeps ==
  ASSUME ParseInv, FindFooter
  PROVE  ParseInv'
<1>1. /\ pc = "footer" /\ left = 0 /\ pos \in Nat /\ pos + H <= Size(file)
      /\ Size(file) \in Nat /\ Inside(pos, H)
  BY FileFacts DEF FindFooter, ParseInv, Types, Placed, H, Inside
<1>2. CASE Reject
  BY <1>1, <1>2, RejectKeeps
<1>3. CASE ReadFails(pos, H)
  BY <1>1, <1>3, ReadFailsKeeps
<1>4. ASSUME NEW n \in 0..H, pos >= H, Reads(pos, H), pos' = pos - n, padding' = padding + n,
             pc' \in {"footer", "index"},
             UNCHANGED <<file, footer, left, fed, cur, col, alive, fault>>
      PROVE  ParseInv'
  <2>1. pos' \in Nat /\ padding' \in Nat /\ left' \in Nat /\ footer' \in {0} \cup Streams
    BY <1>1, <1>4 DEF H, ParseInv, Types
  <2>2. Size(file)' = Size(file) /\ ReadsInside'
    BY <1>1, <1>4, SameFile, AskedInside
  <2>3. Placed'
    BY <1>1, <1>4, <2>2 DEF Placed, H
  <2> QED
    BY <1>1, <1>4, <2>1, <2>3, GoesOnKeeps
<1>5. \/ Reject \/ ReadFails(pos, H)
      \/ /\ pos >= H /\ Reads(pos, H)
         /\ pos' = pos - ZeroTail(buf') /\ padding' = padding + ZeroTail(buf')
         /\ pc' \in {"footer", "index"}
         /\ UNCHANGED <<file, footer, left, fed, cur, col, alive, fault>>
  BY DEF FindFooter, ReadSucceeds
<1>6. ZeroTail(buf') \in 0..H
  BY ZeroTailType
<1> QED
  BY <1>2, <1>3, <1>4, <1>5, <1>6

LEMMA DecodeFooterKeeps ==
  ASSUME ParseInv, DecodeFooter
  PROVE  ParseInv'
<1>1. /\ pc = "index" /\ left = 0 /\ pos \in Nat /\ pos + H <= Size(file)
      /\ Size(file) \in Nat
  BY FileFacts DEF DecodeFooter, ParseInv, Types, Placed, H
<1>2. CASE Reject
  BY <1>1, <1>2, RejectKeeps
<1>3. ASSUME NEW i \in Streams, ~(pos < file.streams[i].backward + H), StartDecoder(i)
      PROVE  ParseInv'
  <2> DEFINE size == file.streams[i].backward
  <2>1. size \in Nat /\ pos >= size + H
    BY <1>1, <1>3, FileFacts DEF ParseInv, Types, H
  <2>2. CASE FaultIn("mem") /\ UNCHANGED asked
    <3>1. ReadsInside'
      BY <2>2 DEF FaultIn, Fail, ParseInv, Placed, ReadsInside, Inside, Size
    <3> QED
      BY <1>1, <2>2, <3>1, FaultKeeps
  <2>3. CASE /\ pos' = pos - size /\ left' = size /\ footer' = i /\ pc' = "decode"
             /\ UNCHANGED <<file, padding, buf, cur, col, alive, asked, fault>>
    <3>1. pos' \in Nat /\ padding' \in Nat /\ left' \in Nat /\ footer' \in {0} \cup Streams
      BY <1>1, <1>3, <2>1, <2>3 DEF H, ParseInv, Types
    <3>2. /\ Size(file)' = Size(file) /\ ReadsInside' /\ Streams' = Streams
      BY <2>3, SameFile DEF ReadsInside, Inside, ParseInv, Placed
    <3>3. footer' \in Streams' /\ file'.streams[footer'].backward = size
      BY <1>3, <2>3, <3>2
    <3>4. Placed'
      BY <1>1, <2>1, <2>3, <3>2, <3>3 DEF Placed, H
    <3> QED
      BY <1>1, <2>3, <3>1, <3>4, GoesOnKeeps
  <2> QED
    BY <1>3, <2>2, <2>3 DEF StartDecoder
<1>4. FooterOf(buf) \subseteq Streams
  BY DEF FooterOf, Streams
<1> QED
  BY <1>2, <1>3, <1>4 DEF DecodeFooter

LEMMA DecodeIndexKeeps ==
  ASSUME ParseInv, DecodeIndex
  PROVE  ParseInv'
<1>1. /\ pc = "decode" /\ left \in Nat /\ pos \in Nat /\ pos + left + H <= Size(file)
      /\ footer \in Streams /\ file.streams[footer].backward \in Nat
      /\ pos + left >= file.streams[footer].backward + H /\ Size(file) \in Nat
  BY FileFacts DEF DecodeIndex, ParseInv, Types, Placed
<1>2. Want \in Nat /\ Want <= left /\ Inside(pos, Want)
  BY <1>1, ParseAssumption DEF Want, Inside, H
<1>3. CASE ReadFails(pos, Want)
  BY <1>1, <1>2, <1>3, ReadFailsKeeps
<1>4. CASE Reads(pos, Want) /\ FaultIn("mem")
  <2>1. ReadsInside'
    BY <1>2, <1>4, AskedInside DEF FaultIn, Fail
  <2> QED
    BY <1>1, <1>4, <2>1, FaultKeeps
<1>5. CASE Reads(pos, Want) /\ Fail /\ UNCHANGED fault
  <2>1. ReadsInside' /\ fault' = "none"
    BY <1>1, <1>2, <1>5, AskedInside DEF Fail, ParseInv, Owned
  <2> QED
    BY <1>1, <1>5, <2>1, FailKeeps
<1>6. CASE /\ Reads(pos, Want) /\ pos' = pos + Want /\ left' = left - Want
           /\ UNCHANGED <<file, padding, buf, footer, cur, col, alive, fault, pc>>
  <2>1. pos' \in Nat /\ padding' \in Nat /\ left' \in Nat /\ footer' \in {0} \cup Streams
    BY <1>1, <1>2, <1>6 DEF ParseInv, Types
  <2>2. Size(file)' = Size(file) /\ ReadsInside' /\ Streams' = Streams
    BY <1>2, <1>6, SameFile, AskedInside
  <2>3. Placed'
    BY <1>1, <1>2, <1>6, <2>2 DEF Placed, H
  <2> QED
    BY <1>1, <1>6, <2>1, <2>3, GoesOnKeeps
<1>7. ASSUME NEW i \in Streams, Reads(pos, Want),
             pos' = pos + Want, left' = left - Want,
             cur' = << [stream |-> i, padding |-> 0] >>, alive' = alive + 1,
             pc' = "leftover" \/ (pc' = "header" /\ left - Want = 0),
             UNCHANGED <<file, padding, buf, footer, col, fault>>
      PROVE  ParseInv'
  <2>1. Size(file)' = Size(file) /\ ReadsInside' /\ Streams' = Streams /\ Entries' = Entries
    BY <1>2, <1>7, SameFile, AskedInside
  <2>2. Placed'
    BY <1>1, <1>2, <1>7, <2>1 DEF Placed, H
  <2>3. [stream |-> i, padding |-> 0] \in Entries
    BY <1>7 DEF Entries, Streams
  <2>4. cur' \in Seq(Entries) /\ Len(cur') <= 1 /\ cur' # << >>
    BY <1>7, <2>3
  <2>5. Types'
    BY <1>1, <1>2, <1>7, <2>1, <2>4 DEF ParseInv, Types
  <2>6. Owned'
    <3>1. cur = << >> /\ fault = "none" /\ alive = Held
      BY <1>1, Counts DEF ParseInv, Owned
    <3>2. Held' = Held + 1
      BY <1>7, <2>4, <3>1, Counts DEF Held, Count, ParseInv
    <3> QED
      BY <1>7, <2>4, <3>1, <3>2, Counts DEF Owned, ParseInv
  <2> QED
    BY <2>2, <2>5, <2>6 DEF ParseInv
<1>8. \A w, rest : /\ Ends(w, rest) \subseteq Streams /\ (Ends(w, rest) # {} => rest = 0)
                   /\ Decoded(w) \subseteq Streams
  BY DEF Ends, Decoded, Streams
<1>9. \/ ReadFails(pos, Want)
      \/ Reads(pos, Want) /\ FaultIn("mem")
      \/ Reads(pos, Want) /\ Fail /\ UNCHANGED fault
      \/ /\ Reads(pos, Want) /\ pos' = pos + Want /\ left' = left - Want
         /\ UNCHANGED <<file, padding, buf, footer, cur, col, alive, fault, pc>>
      \/ \E i \in Ends(fed \o At(pos, Want), left - Want) :
           /\ Reads(pos, Want) /\ pos' = pos + Want /\ left' = left - Want
           /\ cur' = << [stream |-> i, padding |-> 0] >> /\ alive' = alive + 1 /\ pc' = "header"
           /\ UNCHANGED <<file, padding, buf, footer, col, fault>>
      \/ \E i \in Decoded(fed \o At(pos, Want)) :
           /\ Reads(pos, Want) /\ pos' = pos + Want /\ left' = left - Want
           /\ cur' = << [stream |-> i, padding |-> 0] >> /\ alive' = alive + 1
           /\ pc' = "leftover"
           /\ UNCHANGED <<file, padding, buf, footer, col, fault>>
  BY Zenon DEF DecodeIndex, ReadSucceeds, IndexMade
<1> QED
  BY <1>3, <1>4, <1>5, <1>6, <1>7, <1>8, <1>9

LEMMA OneElement ==
  ASSUME NEW S, NEW s \in Seq(S), s # << >>, Len(s) <= 1
  PROVE  Len(s) = 1 /\ s[1] \in S
<1>1. Len(s) \in Nat /\ Len(s) # 0
  BY EmptySeq, LenProperties
<1>2. Len(s) = 1
  BY <1>1
<1> QED
  BY <1>2, ElementOfSeq

LEMMA DecodeHeaderKeeps ==
  ASSUME ParseInv, DecodeHeader
  PROVE  ParseInv'
<1> DEFINE p == Blocks - Total
<1>1. /\ pc = "header" /\ left = 0 /\ pos \in Nat /\ pos + H <= Size(file)
      /\ footer \in Streams /\ file.streams[footer].backward \in Nat
      /\ pos >= file.streams[footer].backward + H /\ Size(file) \in Nat
      /\ cur # << >> /\ Len(cur) = 1 /\ cur[1] \in Entries
  <2>1. cur \in Seq(Entries) /\ Len(cur) <= 1 /\ cur # << >>
    BY DEF DecodeHeader, ParseInv, Types, Owned
  <2>2. Len(cur) = 1 /\ cur[1] \in Entries
    BY <2>1, OneElement
  <2> QED
    BY <2>1, <2>2, FileFacts DEF DecodeHeader, ParseInv, Types, Placed, H
<1>2. Total \in Nat /\ Blocks \in Nat /\ Blocks <= pos
  <2>1. cur[1].stream \in Streams
    BY <1>1 DEF Entries, Streams
  <2>2. Total \in Nat
    BY <2>1, FileFacts DEF Total, ParseInv, Types
  <2> QED
    BY <1>1, <2>2 DEF Blocks, H
<1>3. CASE Reject
  BY <1>1, <1>3, RejectKeeps
<1>4. CASE ~(Blocks < Total) /\ CheckHeader(p)
  <2>1. p \in Nat /\ Inside(p, H) /\ p <= Size(file)
    BY <1>1, <1>2, <1>4 DEF Inside, H
  <2> HIDE DEF p
  <2>2. CASE ReadFails(p, H)
    BY <1>1, <2>1, <2>2, ReadFailsKeeps
  <2>3. CASE Reads(p, H) /\ Fail /\ UNCHANGED fault
    <3>1. ReadsInside' /\ fault' = "none"
      BY <1>1, <2>1, <2>3, AskedInside DEF Fail, ParseInv, Owned
    <3> QED
      BY <1>1, <2>3, <3>1, FailKeeps
  <2>4. CASE Reads(p, H) /\ CatFails
    <3>1. /\ col # << >> /\ fault' = "cat" /\ pc' = "failed" /\ cur' = << >> /\ col' = << >>
          /\ alive' = alive - Count(cur) /\ "cat" \in Faults
          /\ UNCHANGED <<file, pos, padding, buf, footer, left, fed>>
      BY <2>4 DEF CatFails
    <3>2. Size(file)' = Size(file) /\ ReadsInside' /\ Streams' = Streams /\ Entries' = Entries
      BY <2>1, <2>4, <3>1, SameFile, AskedInside
    <3>3. Types' /\ Placed'
      BY <1>1, <3>1, <3>2 DEF ParseInv, Types, Placed
    <3>4. alive = 2 /\ Count(cur) = 1
      BY <1>1, <3>1 DEF ParseInv, Owned, Held, Count
    <3>5. Owned'
      BY <3>1, <3>4 DEF Owned, Held, Count
    <3> QED
      BY <3>3, <3>5 DEF ParseInv
  <2>5. CASE Reads(p, H) /\ Cat(p)
    <3> DEFINE first == [cur[1] EXCEPT !.padding = padding]
    <3>1. /\ col' = << first >> \o col /\ cur' = << >> /\ alive' = alive - Count(col)
          /\ pos' = p /\ pc' \in {"stream", "ok"}
          /\ UNCHANGED <<file, padding, buf, footer, left, fed, fault>>
      BY <2>5 DEF Cat
    <3>2. Size(file)' = Size(file) /\ ReadsInside' /\ Streams' = Streams /\ Entries' = Entries
      BY <2>1, <2>5, <3>1, SameFile, AskedInside
    <3>3. first \in Entries
      BY <1>1 DEF Entries, ParseInv, Types
    <3> HIDE DEF first
    <3>4. << first >> \o col \in Seq(Entries) /\ << first >> \o col # << >>
      <4>1. << first >> \in Seq(Entries) /\ Len(<< first >>) = 1 /\ col \in Seq(Entries)
        BY <3>3 DEF ParseInv, Types
      <4>2. /\ << first >> \o col \in Seq(Entries)
            /\ Len(<< first >> \o col) = Len(<< first >>) + Len(col)
        BY <4>1, ConcatProperties
      <4> QED
        BY <4>1, <4>2
    <3>5. Types'
      <4>1. col' \in Seq(Entries') /\ cur' \in Seq(Entries') /\ Len(cur') <= 1
        BY <3>1, <3>2, <3>4
      <4> QED
        BY <2>1, <3>1, <3>2, <4>1 DEF ParseInv, Types
    <3>6. Placed'
      BY <1>1, <2>1, <3>1, <3>2 DEF Placed
    <3>7. Owned'
      <4>1. fault = "none" /\ alive = 1 + Count(col) /\ Count(col) \in Nat
        BY <1>1 DEF ParseInv, Owned, Held, Count
      <4>2. Held' = 1
        BY <3>1, <3>4 DEF Held, Count
      <4> QED
        BY <3>1, <4>1, <4>2 DEF Owned
    <3> QED
      BY <3>5, <3>6, <3>7 DEF ParseInv
  <2> QED
    BY <1>4, <2>2, <2>3, <2>4, <2>5 DEF CheckHeader, ReadSucceeds
<1> QED
  BY <1>3, <1>4 DEF DecodeHeader

-----------------------------------------------------------------------------
LEMMA InitParse == Init => ParseInv
<1> SUFFICES ASSUME Init  PROVE ParseInv
  OBVIOUS
<1>1. Size(file) \in Nat /\ file \in Files /\ pos = Size(file)
  BY FileFacts DEF Init
<1>2. Types
  BY <1>1 DEF Init, Types
<1>3. Owned
  BY DEF Init, Owned, Held, Count
<1>4. Placed
  BY <1>1 DEF Init, Placed, ReadsInside, Inside
<1> QED
  BY <1>2, <1>3, <1>4 DEF ParseInv

LEMMA StepParse == ParseInv /\ [Next]_vars => ParseInv'
<1> SUFFICES ASSUME ParseInv, [Next]_vars  PROVE ParseInv'
  OBVIOUS
<1>1. CASE UNCHANGED vars
  <2>1. Streams' = Streams /\ Entries' = Entries /\ Size(file)' = Size(file)
    BY <1>1, SameFile DEF vars
  <2>2. Types'
    BY <1>1, <2>1 DEF vars, ParseInv, Types
  <2>3. Owned' /\ Placed'
    BY <1>1, <2>1 DEF vars, ParseInv, Owned, Placed, Held, Count, ReadsInside, Inside
  <2> QED
    BY <2>2, <2>3 DEF ParseInv
<1>2. CASE NextStream
  BY <1>2, NextStreamKeeps
<1>3. CASE FindFooter
  BY <1>3, FindFooterKeeps
<1>4. CASE DecodeFooter
  BY <1>4, DecodeFooterKeeps
<1>5. CASE DecodeIndex
  BY <1>5, DecodeIndexKeeps
<1>6. CASE DecodeHeader
  BY <1>6, DecodeHeaderKeeps
<1>7. CASE RefuseLeftover
  BY <1>7, RejectKeeps DEF RefuseLeftover
<1> QED
  BY <1>1, <1>2, <1>3, <1>4, <1>5, <1>6, <1>7 DEF Next

(* The invariant holds for every file. *)
THEOREM ParseInvariant == Spec => []ParseInv
<1> QED
  BY InitParse, StepParse, PTL DEF Spec

(* No length that a file claims makes read_index read outside of it (the    *)
(* checks of pos against the footer's and the index's lengths).             *)
THEOREM ParserReadsInside == Spec => []ReadsInside
<1>1. ParseInv => ReadsInside
  BY DEF ParseInv, Placed
<1> QED
  BY <1>1, ParseInvariant, PTL

(* Every index is released once on every path, but for the one that a       *)
(* failed lzma_index_cat leaves behind.                                     *)
THEOREM IndexesHaveOneOwner == Spec => []IndexesOwned
<1>1. ParseInv => IndexesOwned
  BY DEF ParseInv, Owned, IndexesOwned
<1> QED
  BY <1>1, ParseInvariant, PTL

(* Every variable keeps its type, and pos is never before the file's start. *)
THEOREM ParserTypes == Spec => []TypeOK
<1>1. ParseInv => TypeOK
  <2> SUFFICES ASSUME ParseInv  PROVE TypeOK
    OBVIOUS
  <2>1. alive \in 0..3
    BY DEF ParseInv, Owned, Held, Count
  <2>2. footer \in 0..Len(file.streams)
    BY FileFacts DEF ParseInv, Types
  <2> QED
    BY <2>1, <2>2 DEF ParseInv, Types, TypeOK
<1> QED
  BY <1>1, ParseInvariant, PTL

-----------------------------------------------------------------------------
(* The memory of the indexes                                                *)

EntriesOf(f) == [stream : DOMAIN f.streams, padding : Nat]
Takes(f, index) == [k \in 1..Len(index) |-> f.streams[index[k].stream].mem]

LEMMA TakesType ==
  ASSUME NEW f \in Files, NEW index \in Seq(EntriesOf(f))
  PROVE  Takes(f, index) \in Seq(Nat) /\ Len(Takes(f, index)) = Len(index)
<1>1. \A k \in 1..Len(index) : f.streams[index[k].stream].mem \in Nat
  <2> TAKE k \in 1..Len(index)
  <2>1. index[k] \in EntriesOf(f)
    BY ElementOfSeq
  <2>2. index[k].stream \in DOMAIN f.streams
    BY <2>1 DEF EntriesOf
  <2> QED
    BY <2>2, StreamLengths
<1>2. Len(index) \in Nat
  OBVIOUS
<1> QED
  BY <1>1, <1>2 DEF Takes

LEMMA MemType ==
  ASSUME NEW f \in Files, NEW index \in Seq(EntriesOf(f))
  PROVE  Mem(f, index) \in Nat /\ (index = << >> => Mem(f, index) = 0)
<1> DEFINE s == Takes(f, index)
<1>1. s \in Seq(Nat) /\ Len(s) = Len(index) /\ Len(s) \in Nat
  BY TakesType
<1>2. Mem(f, index) = Sums(s)[Len(s)]
  BY DEF Mem, SumOf, Takes
<1> HIDE DEF s
<1>3. Len(s) \in 0..Len(s) /\ (index = << >> => Len(s) = 0)
  BY <1>1
<1> QED
  BY <1>1, <1>2, <1>3, SumsType, SumsStep

LEMMA MemPrepend ==
  ASSUME NEW f \in Files, NEW index \in Seq(EntriesOf(f)), NEW e \in EntriesOf(f)
  PROVE  Mem(f, << e >> \o index) = f.streams[e.stream].mem + Mem(f, index)
<1> DEFINE more == << e >> \o index  s == Takes(f, index)  t == Takes(f, more)
           x == f.streams[e.stream].mem
<1>1. /\ more \in Seq(EntriesOf(f)) /\ Len(more) = Len(index) + 1 /\ Len(index) \in Nat
      /\ more[1] = e /\ \A k \in 1..Len(index) : more[k + 1] = index[k]
  OBVIOUS
<1> HIDE DEF more
<1>2. /\ s \in Seq(Nat) /\ t \in Seq(Nat) /\ Len(s) = Len(index) /\ Len(t) = Len(s) + 1
  BY <1>1, TakesType
<1>3. x \in Nat
  <2>1. e.stream \in DOMAIN f.streams
    BY DEF EntriesOf
  <2> QED
    BY <2>1, StreamLengths
<1>4. t[1] = x
  <2>1. 1 \in 1..Len(more)
    BY <1>1
  <2> QED
    BY <1>1, <2>1 DEF Takes
<1>5. \A k \in 1..Len(s) : t[k + 1] = s[k]
  <2> TAKE k \in 1..Len(s)
  <2>1. k \in 1..Len(index) /\ k + 1 \in 1..Len(more)
    BY <1>1, <1>2
  <2> QED
    BY <1>1, <2>1 DEF Takes
<1>6. Mem(f, index) = Sums(s)[Len(s)] /\ Mem(f, more) = Sums(t)[Len(t)]
  BY DEF Mem, SumOf, Takes
<1> HIDE DEF s, t, x
<1>7. Sums(t)[Len(s) + 1] = x + Sums(s)[Len(s)]
  <2>1. Len(s) \in 0..Len(s)
    BY <1>2
  <2> QED
    BY <1>2, <1>3, <1>4, <1>5, <2>1, SumsPrepend
<1> QED
  BY <1>2, <1>6, <1>7 DEF more, x

LEMMA MemOfOne ==
  ASSUME NEW f \in Files, NEW e \in EntriesOf(f)
  PROVE  Mem(f, << e >>) = f.streams[e.stream].mem
<1>1. << >> \in Seq(EntriesOf(f)) /\ << e >> \o << >> = << e >>
  OBVIOUS
<1>2. Mem(f, << >>) = 0
  BY <1>1, MemType
<1>3. f.streams[e.stream].mem \in Nat
  <2>1. e.stream \in DOMAIN f.streams
    BY DEF EntriesOf
  <2> QED
    BY <2>1, StreamLengths
<1>4. Mem(f, << e >> \o << >>) = f.streams[e.stream].mem + Mem(f, << >>)
  BY <1>1, MemPrepend, Zenon
<1>5. Mem(f, << e >>) = f.streams[e.stream].mem + Mem(f, << >>)
  BY <1>1, <1>4, Zenon
<1> QED
  BY <1>2, <1>3, <1>5

LEMMA NothingHeld ==
  ASSUME file \in Files, UNCHANGED file, cur' = << >>, col' = << >>
  PROVE  MemBounded'
<1>1. << >> \in Seq(EntriesOf(file))
  OBVIOUS
<1>2. Mem(file, << >>) = 0
  BY <1>1, MemType
<1> QED
  BY <1>2, ParseAssumption DEF MemBounded

LEMMA StepMem ==
  ASSUME ParseInv, MemBounded, [Next]_vars
  PROVE  MemBounded'
<1>1. /\ file \in Files /\ cur \in Seq(EntriesOf(file)) /\ col \in Seq(EntriesOf(file))
      /\ Len(cur) <= 1 /\ MemLimit \in Nat /\ padding \in Nat
  BY ParseAssumption DEF ParseInv, Types, Entries, EntriesOf
<1>2. CASE UNCHANGED <<file, cur, col>>
  BY <1>2 DEF MemBounded, Mem
<1>3. CASE UNCHANGED file /\ cur' = << >> /\ col' = << >>
  BY <1>1, <1>3, NothingHeld
<1>4. ASSUME pc = "decode", NEW w, NEW i \in Decoded(w),
             cur' = << [stream |-> i, padding |-> 0] >>, UNCHANGED <<file, col>>
      PROVE  MemBounded'
  <2>1. i \in DOMAIN file.streams /\ file.streams[i].mem <= MemLimit - Mem(file, col)
    BY <1>4 DEF Decoded, DecoderLimit
  <2>2. [stream |-> i, padding |-> 0] \in EntriesOf(file)
    BY <2>1 DEF EntriesOf
  <2>3. Mem(file, cur') = file.streams[i].mem
    BY <1>1, <1>4, <2>2, MemOfOne
  <2>4. file.streams[i].mem \in Nat /\ Mem(file, col) \in Nat
    BY <1>1, <2>1, StreamLengths, MemType
  <2>5. Mem(file, cur') + Mem(file, col) <= MemLimit
    BY <1>1, <2>1, <2>3, <2>4
  <2> QED
    BY <1>4, <2>5 DEF MemBounded
<1>5. ASSUME pc = "header", NEW p, Cat(p)
      PROVE  MemBounded'
  <2> DEFINE e == cur[1]  first == [cur[1] EXCEPT !.padding = padding]
  <2>1. cur # << >>
    BY <1>5 DEF ParseInv, Owned
  <2>2. Len(cur) = 1 /\ e \in EntriesOf(file)
    BY <1>1, <2>1, OneElement
  <2>3. cur = << e >>
    BY <1>1, <2>2
  <2>4. first \in EntriesOf(file) /\ first.stream = e.stream
    BY <1>1, <2>2 DEF EntriesOf
  <2>5. col' = << first >> \o col /\ cur' = << >> /\ UNCHANGED file
    BY <1>5 DEF Cat
  <2> HIDE DEF e, first
  <2>6. Mem(file, cur) = file.streams[e.stream].mem
    BY <1>1, <2>2, <2>3, MemOfOne
  <2>7. Mem(file, col') = file.streams[e.stream].mem + Mem(file, col)
    BY <1>1, <2>4, <2>5, MemPrepend
  <2>8. << >> \in Seq(EntriesOf(file))
    OBVIOUS
  <2>9. Mem(file, cur') = 0
    BY <1>1, <2>5, <2>8, MemType
  <2>10. Mem(file, cur) \in Nat /\ Mem(file, col) \in Nat
    BY <1>1, MemType
  <2>11. Mem(file, cur') + Mem(file, col') <= MemLimit
    BY <1>1, <2>6, <2>7, <2>9, <2>10 DEF MemBounded
  <2> QED
    BY <2>5, <2>11 DEF MemBounded
<1>6. CASE NextStream
  <2>1. UNCHANGED <<file, cur, col>> \/ (UNCHANGED file /\ cur' = << >> /\ col' = << >>)
    BY <1>6 DEF NextStream, Reject, Fail
  <2> QED
    BY <1>2, <1>3, <2>1
<1>7. CASE FindFooter
  <2>1. UNCHANGED <<file, cur, col>> \/ (UNCHANGED file /\ cur' = << >> /\ col' = << >>)
    BY <1>7 DEF FindFooter, Reject, ReadFails, FaultIn, Fail
  <2> QED
    BY <1>2, <1>3, <2>1
<1>8. CASE DecodeFooter
  <2>1. UNCHANGED <<file, cur, col>> \/ (UNCHANGED file /\ cur' = << >> /\ col' = << >>)
    BY <1>8 DEF DecodeFooter, StartDecoder, Reject, FaultIn, Fail
  <2> QED
    BY <1>2, <1>3, <2>1
<1>9. CASE DecodeIndex
  <2>1. \/ UNCHANGED <<file, cur, col>>
        \/ UNCHANGED file /\ cur' = << >> /\ col' = << >>
        \/ \E w, rest : \E i \in Ends(w, rest) \cup Decoded(w) :
             /\ cur' = << [stream |-> i, padding |-> 0] >> /\ UNCHANGED <<file, col>>
    BY <1>9, Zenon DEF DecodeIndex, ReadFails, FaultIn, Fail, IndexMade
  <2>2. \A w, rest : Ends(w, rest) \subseteq Decoded(w)
    BY DEF Ends
  <2>3. pc = "decode"
    BY <1>9 DEF DecodeIndex
  <2> QED
    BY <1>2, <1>3, <1>4, <2>1, <2>2, <2>3
<1>10. CASE DecodeHeader
  <2>1. \/ UNCHANGED file /\ cur' = << >> /\ col' = << >>
        \/ \E p : Cat(p)
    BY <1>10, Zenon DEF DecodeHeader, CheckHeader, CatFails, Reject, ReadFails, FaultIn, Fail
  <2>2. pc = "header"
    BY <1>10 DEF DecodeHeader
  <2> QED
    BY <1>3, <1>5, <2>1, <2>2
<1>11. CASE UNCHANGED vars
  BY <1>2, <1>11 DEF vars
<1>12. CASE RefuseLeftover
  BY <1>3, <1>12 DEF RefuseLeftover, Reject, Fail
<1> QED
  BY <1>6, <1>7, <1>8, <1>9, <1>10, <1>11, <1>12 DEF Next

(* The decoder of each index gets what the indexes behind it leave of the   *)
(* limit, so all of them together stay below it.                            *)
THEOREM IndexesFitTheLimit == Spec => []MemBounded
<1>1. Init => MemBounded
  <2> SUFFICES ASSUME Init  PROVE MemBounded
    OBVIOUS
  <2>1. file \in Files /\ << >> \in Seq(EntriesOf(file)) /\ cur = << >> /\ col = << >>
    BY DEF Init
  <2>2. Mem(file, << >>) = 0
    BY <2>1, MemType
  <2> QED
    BY <2>1, <2>2, ParseAssumption DEF MemBounded
<1>2. ParseInv /\ MemBounded /\ [Next]_vars => MemBounded'
  BY StepMem
<1> QED
  BY <1>1, <1>2, ParseInvariant, PTL DEF Spec

-----------------------------------------------------------------------------
(* The place of the streams whose indexes were collected                    *)
Extents(index) == [k \in 1..Len(index) |-> Extent(index[k])]
StartOf(index, k) == Size(file) - (SumOf(Extents(index)) - Sums(Extents(index))[k - 1])
Edge == StartOf(col, 1)

Tile(e, p) ==
  LET s == file.streams[e.stream]
  IN  /\ \E j \in DOMAIN file.streams :
           /\ At(p, H) = Header(j)
           /\ file.streams[j].header = s.footer /\ s.footer # "bad"
      /\ At(p + H + s.total, s.index + H + e.padding)
           = Index(file, e.stream) \o Footer(e.stream) \o [n \in 1..e.padding |-> Zero]

Tiled == \A k \in DOMAIN col : Tile(col[k], StartOf(col, k))

(* The stream that read_index is in ends at p where those behind it start,  *)
(* its padding being what was skipped.                                      *)
EndsAt(p) == /\ p + H + padding = Edge
             /\ \A k \in 1..padding : Contents(file)[p + H + k] = Zero

FooterIs(p) == /\ footer \in Streams /\ file.streams[footer].footer # "bad"
               /\ At(p, H) = Footer(footer) /\ EndsAt(p)

AtPlace ==
  /\ pc = "stream" => pos = Edge
  /\ pc = "footer" => EndsAt(pos)
  /\ pc = "index"  => EndsAt(pos) /\ (buf[H] # Zero => buf = At(pos, H))
  /\ pc = "decode" =>
       LET size == file.streams[footer].backward
       IN  /\ FooterIs(pos + left) /\ left <= size
           /\ fed = At(pos + left - size, size - left)
  /\ pc = "header" =>
       LET size == file.streams[footer].index
       IN  /\ FooterIs(pos) /\ cur = << [stream |-> footer, padding |-> 0] >>
           /\ file.streams[footer].backward = size
           /\ At(pos - size, size) = Index(file, footer)
  /\ pc = "ok" => col # << >> /\ Edge = 0

TileInv == ParseInv /\ Tiled /\ AtPlace

(* What lies at a place of the file *)
LEMMA AtWords ==
  ASSUME file \in Files, NEW p \in Nat, NEW n \in Nat, p + n <= Size(file)
  PROVE  /\ At(p, n) \in Seq(Word) /\ Len(At(p, n)) = n
         /\ \A k \in 1..n : At(p, n)[k] = Contents(file)[p + k]
<1> DEFINE w == Contents(file)
<1>1. w \in Seq(Word) /\ Len(w) \in Nat /\ p + n <= Len(w)
  BY SizeType DEF Size
<1>2. At(p, n) = SubSeq(w, p + 1, p + n)
  BY DEF At
<1> HIDE DEF w
<1>3. \A i \in (p + 1)..(p + n) : w[i] \in Word
  <2> TAKE i \in (p + 1)..(p + n)
  <2>1. i \in 1..Len(w)
    BY <1>1
  <2> QED
    BY <1>1, <2>1, ElementOfSeq
<1>4. p + 1 \in Int /\ p + n \in Int
  OBVIOUS
<1>5. /\ SubSeq(w, p + 1, p + n) \in Seq(Word)
      /\ Len(SubSeq(w, p + 1, p + n)) = IF p + 1 <= p + n THEN (p + n) - (p + 1) + 1 ELSE 0
      /\ \A k \in 1..((p + n) - (p + 1) + 1) :
           SubSeq(w, p + 1, p + n)[k] = w[(p + 1) + k - 1]
  BY <1>3, <1>4, SubSeqProperties
<1>6. (p + n) - (p + 1) + 1 = n /\ (~(p + 1 <= p + n) => n = 0)
  OBVIOUS
<1>7. \A k \in 1..n : (p + 1) + k - 1 = p + k
  OBVIOUS
<1>8. Len(At(p, n)) = n
  BY <1>2, <1>5, <1>6
<1>9. \A k \in 1..n : At(p, n)[k] = w[p + k]
  BY <1>2, <1>5, <1>6, <1>7
<1> QED
  BY <1>2, <1>5, <1>8, <1>9 DEF w

LEMMA AtIs ==
  ASSUME file \in Files, NEW p \in Nat, NEW n \in Nat, p + n <= Size(file),
         NEW v \in Seq(Word), Len(v) = n, \A k \in 1..n : v[k] = Contents(file)[p + k]
  PROVE  At(p, n) = v
<1>1. PICK a : a = At(p, n)
  OBVIOUS
<1>2. a \in Seq(Word) /\ Len(a) = n /\ \A k \in 1..n : a[k] = v[k]
  BY <1>1, AtWords
<1>3. a = v
  BY <1>2, SeqEqual
<1> QED
  BY <1>1, <1>3

LEMMA AtJoin ==
  ASSUME file \in Files, NEW p \in Nat, NEW m \in Nat, NEW n \in Nat, p + m + n <= Size(file)
  PROVE  At(p, m) \o At(p + m, n) = At(p, m + n)
<1>1. PICK u, v, w : u = At(p, m) /\ v = At(p + m, n) /\ w = u \o v
  OBVIOUS
<1>2. p + m \in Nat /\ p + m <= Size(file) /\ m + n \in Nat /\ p + (m + n) <= Size(file)
  BY SizeType
<1>3. /\ u \in Seq(Word) /\ Len(u) = m /\ \A k \in 1..m : u[k] = Contents(file)[p + k]
      /\ v \in Seq(Word) /\ Len(v) = n /\ \A k \in 1..n : v[k] = Contents(file)[(p + m) + k]
  BY <1>1, <1>2, AtWords
<1>4. w \in Seq(Word) /\ Joins(u, Len(u), v, Len(v), w)
  <2>1. u \in Seq(Word) /\ v \in Seq(Word) /\ w = u \o v
    BY <1>1, <1>3
  <2> QED
    BY <2>1, Joined, Zenon
<1>5. /\ Len(w) = m + n /\ \A k \in 1..m : w[k] = u[k]
      /\ \A k \in 1..n : w[m + k] = v[k]
  BY <1>3, <1>4 DEF Joins
<1>6. ASSUME NEW k \in 1..(m + n)  PROVE w[k] = Contents(file)[p + k]
  <2>1. CASE k <= m
    <3>1. k \in 1..m
      BY <2>1
    <3> QED
      BY <1>3, <1>5, <3>1
  <2>2. CASE ~(k <= m)
    <3>1. PICK j \in 1..n : j = k - m
      BY <2>2
    <3>2. k = m + j /\ (p + m) + j = p + k
      BY <3>1
    <3>3. w[m + j] = v[j] /\ v[j] = Contents(file)[(p + m) + j]
      BY <1>3, <1>5
    <3> QED
      BY <3>2, <3>3
  <2> QED
    BY <2>1, <2>2
<1>7. At(p, m + n) = w
  BY <1>2, <1>4, <1>5, <1>6, AtIs
<1> QED
  BY <1>1, <1>7

(* The words of a footer and an index *)
LEMMA PartWords ==
  ASSUME file \in Files, NEW i \in Streams
  PROVE  /\ Footer(i) \in Seq(Word) /\ Len(Footer(i)) = H
         /\ \A k \in 1..H : Footer(i)[k] = [part |-> "footer", of |-> i, no |-> k]
         /\ Index(file, i) \in Seq(Word) /\ Len(Index(file, i)) = file.streams[i].index
         /\ \A k \in 1..file.streams[i].index :
              Index(file, i)[k] = [part |-> "index", of |-> i, no |-> k]
         /\ file.streams[i].index \in Nat \ {0} /\ i \in Nat
<1>1. file.streams[i].index \in Nat \ {0} /\ i \in Nat /\ H \in Nat
  BY StreamLengths DEF H, Streams
<1>2. Own(i) \subseteq Word
  BY <1>1 DEF Own, Word, Zero, Parts
<1>3. \A part \in Parts, n \in Nat : Words(part, i, n) \in Seq(Word)
  <2> TAKE part \in Parts, n \in Nat
  <2>1. Words(part, i, n) \in Seq(Own(i))
    BY OwnWords
  <2> QED
    BY <1>2, <2>1, SeqMonotonic
<1>4. "footer" \in Parts /\ "index" \in Parts
  BY DEF Parts
<1>5. /\ Len(Words("footer", i, H)) = H
      /\ \A k \in 1..H : Words("footer", i, H)[k] = [part |-> "footer", of |-> i, no |-> k]
  BY <1>1, <1>4, OwnWords
<1>6. \A n \in Nat :
        /\ Len(Words("index", i, n)) = n
        /\ \A k \in 1..n : Words("index", i, n)[k] = [part |-> "index", of |-> i, no |-> k]
  BY <1>1, <1>4, OwnWords
<1> QED
  BY <1>1, <1>3, <1>4, <1>5, <1>6 DEF Footer, Index

LEMMA FooterEnds ==
  ASSUME file \in Files, NEW i \in Streams
  PROVE  Footer(i)[H] # Zero
<1>1. H \in 1..H
  BY DEF H
<1>2. \A k \in 1..H : Footer(i)[k] = [part |-> "footer", of |-> i, no |-> k]
  BY PartWords
<1>3. Footer(i)[H] = [part |-> "footer", of |-> i, no |-> H]
  BY <1>1, <1>2, Zenon
<1> QED
  BY <1>3 DEF Zero

(* An index that lies before a footer is that of the footer's stream *)
LEMMA IndexOfFooter ==
  ASSUME file \in Files, NEW i \in Streams, NEW j \in Streams, NEW p \in Nat,
         NEW n, n = file.streams[i].index, n <= p, p + H <= Size(file),
         At(p - n, n) = Index(file, i), At(p, H) = Footer(j)
  PROVE  i = j
<1> DEFINE w == Contents(file)
<1>1. /\ \A k \in 1..H : Footer(j)[k] = [part |-> "footer", of |-> j, no |-> k]
      /\ \A k \in 1..n : Index(file, i)[k] = [part |-> "index", of |-> i, no |-> k]
      /\ n \in Nat \ {0}
  BY PartWords
<1>2. /\ p - n \in Nat /\ (p - n) + n <= Size(file) /\ Size(file) \in Nat
      /\ 1 \in 1..H /\ n \in 1..n /\ H \in Nat \ {0} /\ (p - n) + n = p
  BY <1>1, SizeType DEF H
<1>3. \A k \in 1..n : At(p - n, n)[k] = w[(p - n) + k]
  BY <1>1, <1>2, AtWords
<1>4. \A k \in 1..H : At(p, H)[k] = w[p + k]
  BY <1>2, AtWords
<1> HIDE DEF w
<1>5. w[p] = [part |-> "index", of |-> i, no |-> n]
  <2>1. At(p - n, n)[n] = w[(p - n) + n]
    BY <1>2, <1>3, Zenon
  <2>2. Index(file, i)[n] = [part |-> "index", of |-> i, no |-> n]
    BY <1>1, <1>2, Zenon
  <2> QED
    BY <1>2, <2>1, <2>2, Zenon
<1>6. w[p + 1] = [part |-> "footer", of |-> j, no |-> 1]
  <2>1. At(p, H)[1] = w[p + 1]
    BY <1>2, <1>4, Zenon
  <2>2. Footer(j)[1] = [part |-> "footer", of |-> j, no |-> 1]
    BY <1>1, <1>2, Zenon
  <2> QED
    BY <2>1, <2>2, Zenon
<1>7. Orderly(w)
  BY ContentsOrderly DEF OrderlySeqs, w
<1>8. p \in 1..(Len(w) - 1)
  BY <1>1, <1>2 DEF Size, w
<1>9. w[p].part = "index" /\ w[p].of = i /\ w[p + 1].part = "footer" /\ w[p + 1].of = j
  BY <1>5, <1>6
<1>10. w[p + 1].of = w[p].of
  BY <1>7, <1>8, <1>9 DEF Orderly
<1> QED
  BY <1>9, <1>10

-----------------------------------------------------------------------------
(* Where the streams start                                                  *)

LEMMA ExtentType ==
  ASSUME file \in Files, NEW e \in Entries
  PROVE  Extent(e) \in Nat
<1>1. e.stream \in Streams /\ e.padding \in Nat
  BY DEF Entries, Streams
<1>2. file.streams[e.stream].total \in Nat /\ file.streams[e.stream].index \in Nat
  BY <1>1, StreamLengths DEF Streams
<1> QED
  BY <1>1, <1>2 DEF Extent, H

LEMMA ExtentsType ==
  ASSUME file \in Files, NEW index \in Seq(Entries)
  PROVE  /\ Extents(index) \in Seq(Nat) /\ Len(Extents(index)) = Len(index)
         /\ Len(index) \in Nat
         /\ SumOf(Extents(index)) \in Nat /\ Sums(Extents(index))[0] = 0
         /\ \A k \in 0..Len(index) : Sums(Extents(index))[k] \in Nat
<1>1. Len(index) \in Nat
  OBVIOUS
<1>2. \A k \in 1..Len(index) : Extent(index[k]) \in Nat
  BY ElementOfSeq, ExtentType
<1>3. Extents(index) \in Seq(Nat) /\ Len(Extents(index)) = Len(index)
  BY <1>1, <1>2 DEF Extents
<1>4. PICK s : s = Extents(index)
  OBVIOUS
<1>5. \A k \in 0..Len(s) : Sums(s)[k] \in Nat
  BY <1>3, <1>4, SumsType
<1>6. Sums(s)[0] = 0
  BY <1>1, <1>3, <1>4, SumsStep
<1>7. Len(s) \in 0..Len(s)
  BY <1>1, <1>3, <1>4
<1> QED
  BY <1>1, <1>3, <1>4, <1>5, <1>6, <1>7 DEF SumOf

LEMMA EdgeType ==
  ASSUME file \in Files, col \in Seq(Entries)
  PROVE  Edge \in Int /\ Edge <= Size(file) /\ (col = << >> => Edge = Size(file))
<1>1. Size(file) \in Nat
  BY SizeType
<1>2. SumOf(Extents(col)) \in Nat /\ Sums(Extents(col))[0] = 0
  BY ExtentsType
<1>3. Edge = Size(file) - SumOf(Extents(col))
  BY <1>1, <1>2 DEF Edge, StartOf
<1>4. ASSUME col = << >>  PROVE SumOf(Extents(col)) = 0
  <2>1. Len(Extents(col)) = 0
    BY <1>4, ExtentsType
  <2> QED
    BY <1>2, <2>1 DEF SumOf
<1> QED
  BY <1>1, <1>2, <1>3, <1>4

(* Another stream before those there are *)
Before(e, index, more) ==
  /\ StartOf(more, 1) = StartOf(index, 1) - Extent(e)
  /\ \A k \in 1..Len(index) : StartOf(more, k + 1) = StartOf(index, k)
  /\ more[1] = e /\ \A k \in 1..Len(index) : more[k + 1] = index[k]
  /\ DOMAIN more = 1..(Len(index) + 1)

LEMMA StartsPrepend ==
  ASSUME file \in Files, NEW index \in Seq(Entries), NEW e \in Entries,
         NEW more, more = << e >> \o index
  PROVE  Before(e, index, more)
<1>1. /\ more \in Seq(Entries) /\ Len(more) = Len(index) + 1 /\ Len(index) \in Nat
      /\ more[1] = e /\ \A k \in 1..Len(index) : more[k + 1] = index[k]
      /\ DOMAIN more = 1..(Len(index) + 1)
  OBVIOUS
<1>2. PICK s, t, x : s = Extents(index) /\ t = Extents(more) /\ x = Extent(e)
  OBVIOUS
<1>3. /\ s \in Seq(Nat) /\ t \in Seq(Nat) /\ Len(s) = Len(index) /\ Len(t) = Len(s) + 1
      /\ Len(s) \in Nat /\ x \in Nat /\ Size(file) \in Nat
      /\ SumOf(s) \in Nat /\ Sums(s)[0] = 0 /\ Sums(t)[0] = 0
      /\ \A k \in 0..Len(s) : Sums(s)[k] \in Nat
  BY <1>1, <1>2, ExtentsType, ExtentType, SizeType
<1>4. t[1] = x
  <2>1. 1 \in 1..Len(more)
    BY <1>1
  <2> QED
    BY <1>1, <1>2, <2>1 DEF Extents
<1>5. \A k \in 1..Len(s) : t[k + 1] = s[k]
  <2> TAKE k \in 1..Len(s)
  <2>1. k \in 1..Len(index) /\ k + 1 \in 1..Len(more)
    BY <1>1, <1>3
  <2> QED
    BY <1>1, <1>2, <2>1 DEF Extents
<1>6. \A k \in 0..Len(s) : Sums(t)[k + 1] = x + Sums(s)[k]
  BY <1>3, <1>4, <1>5, SumsPrepend
<1>7. SumOf(t) = x + SumOf(s)
  <2>1. Len(s) \in 0..Len(s)
    BY <1>3
  <2>2. Sums(t)[Len(s) + 1] = x + Sums(s)[Len(s)]
    BY <1>6, <2>1, Zenon
  <2> QED
    BY <1>3, <2>2 DEF SumOf
<1>8. StartOf(more, 1) = Size(file) - (SumOf(t) - 0) /\ StartOf(index, 1) = Size(file) - (SumOf(s) - 0)
  <2>1. 1 - 1 = 0
    OBVIOUS
  <2> QED
    BY <1>2, <1>3, <2>1 DEF StartOf
<1>9. ASSUME NEW k \in 1..Len(s)  PROVE StartOf(more, k + 1) = StartOf(index, k)
  <2>1. (k + 1) - 1 = (k - 1) + 1 /\ k - 1 \in 0..Len(s)
    BY <1>3
  <2>2. Sums(t)[(k + 1) - 1] = x + Sums(s)[k - 1] /\ Sums(s)[k - 1] \in Nat
    BY <1>3, <1>6, <2>1
  <2>3. StartOf(more, k + 1) = Size(file) - (SumOf(t) - Sums(t)[(k + 1) - 1])
    BY <1>2 DEF StartOf
  <2>4. StartOf(index, k) = Size(file) - (SumOf(s) - Sums(s)[k - 1])
    BY <1>2 DEF StartOf
  <2>5. PICK a : a = Sums(s)[k - 1]
    OBVIOUS
  <2>6. StartOf(more, k + 1) = Size(file) - ((x + SumOf(s)) - (x + a))
    BY <1>7, <2>2, <2>3, <2>5
  <2> QED
    BY <1>3, <2>2, <2>4, <2>5, <2>6, SMTT(30)
<1>10. StartOf(more, 1) = StartOf(index, 1) - x
  BY <1>3, <1>7, <1>8
<1>11. \A k \in 1..Len(index) : StartOf(more, k + 1) = StartOf(index, k)
  BY <1>3, <1>9
<1> QED
  BY <1>1, <1>2, <1>10, <1>11 DEF Before

(* The words of a tile's end *)
StreamEnds(i, p, m, n) ==
  /\ i \in Streams /\ n = file.streams[i].index /\ n <= p /\ p \in Nat /\ m \in Nat
  /\ p + H + m <= Size(file) /\ At(p - n, n) = Index(file, i) /\ At(p, H) = Footer(i)
  /\ \A k \in 1..m : Contents(file)[p + H + k] = Zero

LEMMA TileEnd ==
  ASSUME file \in Files, NEW i, NEW p, NEW m, NEW n, StreamEnds(i, p, m, n)
  PROVE  At(p - n, n + H + m) = Index(file, i) \o Footer(i) \o [k \in 1..m |-> Zero]
<1>0. /\ i \in Streams /\ n = file.streams[i].index /\ n <= p /\ p \in Nat /\ m \in Nat
      /\ p + H + m <= Size(file) /\ At(p - n, n) = Index(file, i) /\ At(p, H) = Footer(i)
      /\ \A k \in 1..m : Contents(file)[p + H + k] = Zero
  BY DEF StreamEnds
<1>1. /\ Index(file, i) \in Seq(Word) /\ Len(Index(file, i)) = n /\ n \in Nat
      /\ Footer(i) \in Seq(Word) /\ Len(Footer(i)) = H /\ H \in Nat /\ Size(file) \in Nat
  BY <1>0, PartWords, SizeType DEF H
<1>2. PICK z : z = [k \in 1..m |-> Zero]
  OBVIOUS
<1>3. Zero \in Word
  BY DEF Zero, Word, Parts
<1>4. z \in Seq(Word) /\ Len(z) = m /\ \A k \in 1..m : z[k] = Zero
  BY <1>0, <1>2, <1>3
<1>5. At(p + H, m) = z
  <2>1. p + H \in Nat /\ (p + H) + m <= Size(file) /\ \A k \in 1..m : (p + H) + k = p + H + k
    BY <1>0, <1>1
  <2>2. \A k \in 1..m : z[k] = Contents(file)[(p + H) + k]
    BY <1>0, <1>4
  <2> QED
    BY <1>0, <1>4, <2>1, <2>2, AtIs
<1>6. /\ p - n \in Nat /\ (p - n) + n = p /\ (p - n) + n + H <= Size(file)
      /\ (p - n) + (n + H) = p + H /\ n + H \in Nat /\ (p - n) + (n + H) + m <= Size(file)
      /\ (n + H) + m = n + H + m
  <2>1. n <= p /\ p + H + m <= Size(file) /\ n \in Nat /\ H \in Nat /\ Size(file) \in Nat
    BY <1>0, <1>1
  <2>2. p \in Nat /\ m \in Nat
    BY <1>0
  <2> QED
    BY <2>1, <2>2, SMTT(30)
<1>7. At(p - n, n) \o At((p - n) + n, H) = At(p - n, n + H)
  BY <1>0, <1>1, <1>6, AtJoin
<1>8. At(p - n, n + H) \o At((p - n) + (n + H), m) = At(p - n, (n + H) + m)
  BY <1>0, <1>6, AtJoin
<1>9. At(p - n, n + H) = Index(file, i) \o Footer(i)
  BY <1>0, <1>6, <1>7
<1> QED
  BY <1>0, <1>2, <1>5, <1>6, <1>8, <1>9

-----------------------------------------------------------------------------
(* The steps                                                                *)

LEMMA SamePlace ==
  ASSUME UNCHANGED <<file, col>>
  PROVE  /\ Edge' = Edge /\ Streams' = Streams /\ Contents(file)' = Contents(file)
         /\ (Tiled => Tiled')
         /\ \A p : EndsAt(p)' <=> (p + H + padding' = Edge
                                   /\ \A k \in 1..padding' : Contents(file)[p + H + k] = Zero)
<1>1. Edge' = Edge /\ Contents(file)' = Contents(file) /\ Streams' = Streams
  BY DEF Edge, StartOf, Extents, Extent, Size, Streams
<1>2. Tiled' = Tiled
  BY DEF Tiled, Tile, StartOf, Extents, Extent, Size, At, Index, Words
<1>3. \A p : EndsAt(p)' <=> (p + H + padding' = Edge
                            /\ \A k \in 1..padding' : Contents(file)[p + H + k] = Zero)
  BY <1>1 DEF EndsAt
<1> QED
  BY <1>1, <1>2, <1>3

LEMMA FailTiles ==
  ASSUME Fail
  PROVE  Tiled' /\ AtPlace'
<1>1. pc' = "failed" /\ col' = << >>
  BY DEF Fail
<1> QED
  BY <1>1 DEF Tiled, AtPlace

LEMMA NextStreamTiles ==
  ASSUME TileInv, NextStream
  PROVE  Tiled' /\ AtPlace'
<1>1. CASE Reject
  BY <1>1, FailTiles DEF Reject
<1>2. CASE /\ pos >= 2 * H /\ pos' = pos - H /\ padding' = 0 /\ pc' = "footer"
           /\ UNCHANGED <<file, buf, footer, left, fed, cur, col, alive, asked, fault>>
  <2>1. pos = Edge /\ pos \in Nat /\ H \in Nat
    BY DEF NextStream, TileInv, AtPlace, ParseInv, Types, H
  <2>2. Edge' = Edge /\ Tiled'
    BY <1>2, SamePlace DEF TileInv
  <2>3. pos' + H + padding' = Edge' /\ 1..padding' = {}
    BY <1>2, <2>1, <2>2
  <2>4. EndsAt(pos)'
    BY <2>3 DEF EndsAt
  <2> QED
    BY <1>2, <2>2, <2>4 DEF AtPlace
<1> QED
  BY <1>1, <1>2 DEF NextStream

(* What is skipped is zero *)
LEMMA Skipped ==
  ASSUME NEW w, NEW p \in Nat, NEW q \in Nat, NEW n \in 0..H, p >= H,
         \A k \in 1..q : w[p + H + k] = Zero,
         \A k \in 1..H : k > H - n => w[p + k] = Zero
  PROVE  \A k \in 1..(q + n) : w[(p - n) + H + k] = Zero
<1> TAKE k \in 1..(q + n)
<1>1. H = 3
  BY DEF H
<1>2. CASE k <= n
  <2>1. PICK j \in 1..H : j = H - n + k /\ j > H - n
    BY <1>1, <1>2
  <2>2. (p - n) + H + k = p + j
    BY <1>1, <2>1
  <2> QED
    BY <2>1, <2>2
<1>3. CASE k > n
  <2>1. PICK j \in 1..q : j = k - n
    BY <1>3
  <2>2. (p - n) + H + k = p + H + j
    BY <1>1, <2>1
  <2> QED
    BY <2>1, <2>2
<1> QED
  BY <1>1, <1>2, <1>3

LEMMA FindFooterTiles ==
  ASSUME TileInv, FindFooter
  PROVE  Tiled' /\ AtPlace'
<1>1. \/ Fail
      \/ /\ pos >= H /\ ReadSucceeds(pos, H) /\ buf' = At(pos, H)
         /\ pos' = pos - ZeroTail(buf') /\ padding' = padding + ZeroTail(buf')
         /\ pc' \in {"footer", "index"} /\ (pc' = "index" => ZeroTail(buf') # H)
         /\ UNCHANGED <<file, footer, left, fed, cur, col, alive, fault>>
  BY DEF FindFooter, Reject, ReadFails, FaultIn
<1>2. ASSUME NEW n, n = ZeroTail(buf'), pos >= H, ReadSucceeds(pos, H), buf' = At(pos, H),
             pos' = pos - n, padding' = padding + n, pc' \in {"footer", "index"},
             UNCHANGED <<file, footer, left, fed, cur, col, alive, fault>>
      PROVE  Tiled' /\ AtPlace'
  <2>1. /\ file \in Files /\ pos \in Nat /\ padding \in Nat /\ pc = "footer" /\ EndsAt(pos)
        /\ H = 3 /\ pos + H <= Size(file)
    BY <1>2 DEF FindFooter, TileInv, AtPlace, ParseInv, Types, H, ReadSucceeds, Inside
  <2>2. /\ n \in 0..H /\ \A k \in 1..H : k > H - n => buf'[k] = Zero
    BY <1>2, ZeroTailType
  <2>3. \A k \in 1..H : buf'[k] = Contents(file)[pos + k]
    BY <1>2, <2>1, AtWords
  <2>4. \A k \in 1..H : k > H - n => Contents(file)[pos + k] = Zero
    BY <2>2, <2>3
  <2>5. pos + H + padding = Edge /\ \A k \in 1..padding : Contents(file)[pos + H + k] = Zero
    BY <2>1 DEF EndsAt
  <2>6. \A k \in 1..(padding + n) : Contents(file)[(pos - n) + H + k] = Zero
    <3>1. PICK w : w = Contents(file)
      OBVIOUS
    <3>2. /\ \A k \in 1..padding : w[pos + H + k] = Zero
          /\ \A k \in 1..H : k > H - n => w[pos + k] = Zero
      BY <2>4, <2>5, <3>1
    <3>3. pos \in Nat /\ padding \in Nat /\ n \in 0..H /\ pos >= H
      BY <1>2, <2>1, <2>2
    <3>4. \A k \in 1..(padding + n) : w[(pos - n) + H + k] = Zero
      BY <3>2, <3>3, Skipped, Zenon
    <3> QED
      BY <3>1, <3>4
  <2>7. (pos - n) + H + (padding + n) = Edge
    BY <2>1, <2>2, <2>5
  <2>8. Edge' = Edge /\ Contents(file)' = Contents(file) /\ Tiled'
    BY <1>2, SamePlace DEF TileInv
  <2>9. EndsAt(pos)'
    BY <1>2, <2>6, <2>7, <2>8 DEF EndsAt
  <2>10. ASSUME buf'[H] # Zero  PROVE buf' = At(pos, H)'
    <3>1. n = 0
      BY <2>1, <2>2, <2>10
    <3>2. pos' = pos
      BY <1>2, <2>1, <3>1
    <3> QED
      BY <1>2, <2>8, <3>2 DEF At
  <2> QED
    BY <1>2, <2>8, <2>9, <2>10 DEF AtPlace
<1> QED
  BY <1>1, <1>2, FailTiles

LEMMA DecodeFooterTiles ==
  ASSUME TileInv, DecodeFooter
  PROVE  Tiled' /\ AtPlace'
<1>1. \/ Fail
      \/ \E i \in FooterOf(buf) :
           /\ ~(pos < file.streams[i].backward + H)
           /\ pos' = pos - file.streams[i].backward /\ left' = file.streams[i].backward
           /\ fed' = << >> /\ footer' = i /\ pc' = "decode"
           /\ UNCHANGED <<file, padding, buf, cur, col, alive, asked, fault>>
  BY DEF DecodeFooter, StartDecoder, Reject, FaultIn
<1>2. ASSUME NEW i \in FooterOf(buf), NEW size, size = file.streams[i].backward,
             ~(pos < size + H), pos' = pos - size, left' = size,
             fed' = << >>, footer' = i, pc' = "decode",
             UNCHANGED <<file, padding, buf, cur, col, alive, asked, fault>>
      PROVE  Tiled' /\ AtPlace'
  <2>1. /\ file \in Files /\ pos \in Nat /\ padding \in Nat /\ pc = "index" /\ EndsAt(pos)
        /\ (buf[H] # Zero => buf = At(pos, H)) /\ H = 3 /\ pos <= Size(file)
    BY DEF DecodeFooter, TileInv, AtPlace, ParseInv, Types, Placed, H
  <2>2. i \in Streams /\ buf = Footer(i) /\ file.streams[i].footer # "bad"
    BY DEF FooterOf, Streams
  <2>3. size \in Nat
    BY <1>2, <2>1, <2>2, StreamLengths DEF Streams
  <2>4. At(pos, H) = Footer(i)
    BY <2>1, <2>2, FooterEnds
  <2>5. Edge' = Edge /\ Contents(file)' = Contents(file) /\ Tiled' /\ Streams' = Streams
    BY <1>2, SamePlace DEF TileInv
  <2>6. (pos - size) + size = pos /\ pos - size \in Nat /\ size - size = 0
    <3>1. pos \in Nat /\ size \in Nat /\ ~(pos < size + H) /\ H = 3
      BY <1>2, <2>1, <2>3
    <3> QED
      BY <3>1, SMTT(30)
  <2>7. At(pos - size, 0) = << >>
    <3>1. << >> \in Seq(Word) /\ Len(<< >>) = 0 /\ 1..0 = {} /\ (pos - size) + 0 <= Size(file)
      BY <2>1, <2>3, <2>6, SizeType
    <3> QED
      BY <2>1, <2>6, <3>1, AtIs
  <2>8. pos' + left' = pos
    BY <1>2, <2>6
  <2>9. FooterIs(pos + left)'
    BY <1>2, <2>1, <2>2, <2>4, <2>5, <2>8 DEF FooterIs, EndsAt, At, Footer, Streams
  <2>10. fed' = At(pos + left - size, size - left)'
    <3>1. fed' = SubSeq(Contents(file), (pos - size) + 1, (pos - size) + 0)
      BY <1>2, <2>7 DEF At
    <3>2. pos' + left' - size = pos - size /\ size - left' = 0
      BY <1>2, <2>6, <2>8
    <3> QED
      BY <2>5, <3>1, <3>2 DEF At
  <2>11. file.streams[footer]'.backward = size /\ left' <= size
    BY <1>2, <2>3
  <2> QED
    BY <1>2, <2>5, <2>9, <2>10, <2>11 DEF AtPlace
<1> QED
  BY <1>1, <1>2, FailTiles

LEMMA WholePrefix ==
  ASSUME NEW s \in Seq(Word), NEW t \in Seq(Word), Len(s) = Len(t), IsPrefix(s, t)
  PROVE  s = t
<1> DEFINE n == Len(s)
<1>1. n \in Nat
  OBVIOUS
<1>2. ASSUME NEW u \in Seq(Word), Len(u) = n  PROVE \A k \in 1..n : SubSeq(u, 1, n)[k] = u[k]
  <2>1. \A k \in 1..n : u[k] \in Word
    BY <1>2, ElementOfSeq
  <2>2. \A k \in 1..(n - 1 + 1) : SubSeq(u, 1, n)[k] = u[1 + k - 1]
    BY <1>1, <2>1, SubSeqProperties
  <2>3. \A k \in 1..n : k \in 1..(n - 1 + 1) /\ 1 + k - 1 = k
    BY <1>1
  <2> QED
    BY <2>2, <2>3
<1>3. SubSeq(s, 1, n) = SubSeq(t, 1, n) /\ Len(t) = n
  BY DEF IsPrefix
<1>4. \A k \in 1..n : s[k] = t[k]
  BY <1>2, <1>3
<1> QED
  BY <1>3, <1>4, SeqEqual

LEMMA DecodeIndexTiles ==
  ASSUME TileInv, DecodeIndex
  PROVE  Tiled' /\ AtPlace'
<1> DEFINE size == file.streams[footer].backward  q == pos + left - size  m == size - left
           P == pos + left  seen == fed \o At(pos, Want)
<1>1. /\ file \in Files /\ pos \in Nat /\ left \in Nat /\ footer \in Streams
      /\ P + H <= Size(file) /\ P >= size + H /\ left <= size /\ H = 3
      /\ FooterIs(P) /\ fed = At(q, m) /\ padding \in Nat /\ Tiled
  BY DEF DecodeIndex, TileInv, AtPlace, ParseInv, Types, Placed, H
<1>2. size \in Nat /\ Size(file) \in Nat
  BY <1>1, StreamLengths, SizeType DEF Streams
<1>3. Want \in Nat /\ Want <= left
  BY <1>1, ParseAssumption DEF Want
<1> HIDE DEF size
<1>4. /\ q \in Nat /\ m \in Nat /\ q + m = pos /\ q + m + Want <= Size(file) /\ P \in Nat
      /\ m + Want \in Nat /\ P - size = q
  <2>1. pos + left + H <= Size(file) /\ pos + left >= size + H
    BY <1>1
  <2> QED
    BY <1>1, <1>2, <1>3, <2>1, SMTT(30)
<1> HIDE DEF q, m
<1>5. seen = At(q, m + Want)
  BY <1>1, <1>3, <1>4, AtJoin
<1> HIDE DEF P, seen
<1>6. CASE Fail
  BY <1>6, FailTiles
<1>7. CASE /\ pos' = pos + Want /\ left' = left - Want /\ fed' = seen
           /\ UNCHANGED <<file, padding, buf, footer, cur, col, alive, fault, pc>>
  <2>1. /\ Edge' = Edge /\ Contents(file)' = Contents(file) /\ Streams' = Streams /\ Tiled'
        /\ pc' = "decode"
    BY <1>1, <1>7, SamePlace DEF DecodeIndex
  <2>2. pos' + left' = P
    BY <1>1, <1>3, <1>7 DEF P
  <2>3. FooterIs(pos + left)'
    BY <1>1, <1>7, <2>1, <2>2 DEF FooterIs, EndsAt, At, Footer
  <2>4. P - size = q /\ size - left' = m + Want /\ left' <= size
    BY <1>1, <1>2, <1>3, <1>4, <1>7 DEF m
  <2>5. file'.streams[footer'].backward = size
    BY <1>7 DEF size
  <2>6. fed' = At(pos + left - file.streams[footer].backward,
                  file.streams[footer].backward - left)'
    <3>1. fed' = SubSeq(Contents(file), q + 1, q + (m + Want))
      BY <1>5, <1>7 DEF At
    <3>2. At(pos + left - file.streams[footer].backward,
             file.streams[footer].backward - left)'
            = SubSeq(Contents(file)', (pos' + left' - file'.streams[footer'].backward) + 1,
                     (pos' + left' - file'.streams[footer'].backward)
                       + (file'.streams[footer'].backward - left'))
      BY DEF At
    <3>3. /\ pos' + left' - file'.streams[footer'].backward = q
          /\ file'.streams[footer'].backward - left' = m + Want
      <4>1. pos' + left' - size = q
        <5>1. PICK a, b : a = pos' /\ b = left'
          OBVIOUS
        <5>2. a \in Nat /\ b \in Nat /\ a + b = P
          BY <1>1, <1>3, <1>7, <2>2, <5>1
        <5>3. a + b - size = q
          BY <1>2, <1>4, <5>2
        <5> QED
          BY <5>1, <5>3
      <4> QED
        BY <2>4, <2>5, <4>1, Zenon
    <3> QED
      BY <2>1, <3>1, <3>2, <3>3, Zenon
  <2> QED
    BY <2>1, <2>3, <2>4, <2>5, <2>6 DEF AtPlace
<1>8. ASSUME NEW i \in Ends(seen, left - Want), pos' = pos + Want, left' = left - Want,
             cur' = << [stream |-> i, padding |-> 0] >>, pc' = "header",
             UNCHANGED <<file, padding, footer, col>>
      PROVE  Tiled' /\ AtPlace'
  <2>1. /\ i \in Streams /\ IsPrefix(Index(file, i), seen) /\ left - Want = 0
        /\ Len(seen) = file.streams[i].index
    BY DEF Ends, Decoded, Streams
  <2>2. Want = left /\ m + Want = size /\ pos' = P /\ left' = 0
    BY <1>1, <1>2, <1>3, <1>8, <2>1 DEF m, P
  <2>3. seen \in Seq(Word) /\ Len(seen) = size
    <3>1. q + (m + Want) <= Size(file)
      BY <1>2, <1>3, <1>4
    <3> QED
      BY <1>1, <1>4, <1>5, <2>2, <3>1, AtWords
  <2>4. Index(file, i) \in Seq(Word) /\ Len(Index(file, i)) = file.streams[i].index
    BY <1>1, <2>1, PartWords
  <2>5. seen = Index(file, i) /\ file.streams[i].index = size
    BY <2>1, <2>3, <2>4, WholePrefix
  <2>6. At(P - size, size) = Index(file, i)
    BY <1>4, <1>5, <2>2, <2>5
  <2>7. i = footer
    <3>1. size <= P /\ At(P, H) = Footer(footer)
      BY <1>1, <1>2, <1>4 DEF FooterIs
    <3> QED
      BY <1>1, <1>4, <2>1, <2>5, <2>6, <3>1, IndexOfFooter
  <2>8. /\ Edge' = Edge /\ Contents(file)' = Contents(file) /\ Streams' = Streams /\ Tiled'
    BY <1>1, <1>8, SamePlace
  <2>9. FooterIs(pos)'
    BY <1>1, <1>8, <2>2, <2>8 DEF FooterIs, EndsAt, At, Footer
  <2>10. /\ file'.streams[footer'].backward = size /\ file'.streams[footer'].index = size
    BY <1>8, <2>5, <2>7 DEF size
  <2>11. At(pos - file.streams[footer].index, file.streams[footer].index)'
           = Index(file, footer)'
    <3>1. Index(file, footer)' = Index(file, footer)
      BY <1>8 DEF Index, Words
    <3>2. SubSeq(Contents(file), (P - size) + 1, (P - size) + size) = Index(file, footer)
      BY <2>6, <2>7 DEF At
    <3> QED
      BY <2>2, <2>8, <2>10, <3>1, <3>2 DEF At
  <2> QED
    BY <1>8, <2>7, <2>8, <2>9, <2>10, <2>11 DEF AtPlace
<1>9. \/ Fail
      \/ /\ pos' = pos + Want /\ left' = left - Want /\ fed' = seen
         /\ UNCHANGED <<file, padding, buf, footer, cur, col, alive, fault, pc>>
      \/ \E i \in Ends(seen, left - Want) :
           /\ pos' = pos + Want /\ left' = left - Want
           /\ cur' = << [stream |-> i, padding |-> 0] >> /\ pc' = "header"
           /\ UNCHANGED <<file, padding, footer, col>>
      \/ pc' = "leftover" /\ UNCHANGED <<file, col>>
  BY Zenon DEF DecodeIndex, ReadFails, FaultIn, IndexMade, seen
<1>10. CASE pc' = "leftover" /\ UNCHANGED <<file, col>>
  BY <1>1, <1>10, SamePlace DEF AtPlace
<1> QED
  BY <1>6, <1>7, <1>8, <1>9, <1>10

LEMMA TiledNext ==
  ASSUME UNCHANGED file, NEW c, col' = c
  PROVE  /\ Edge' = StartOf(c, 1)
         /\ (\A k \in DOMAIN c : Tile(c[k], StartOf(c, k))) => Tiled'
<1>1. Edge' = StartOf(c, 1)
  BY DEF Edge, StartOf, Extents, Extent, Size
<1>2. Tiled' <=> \A k \in DOMAIN c : Tile(c[k], StartOf(c, k))
  BY DEF Tiled, Tile, StartOf, Extents, Extent, Size, At, Index, Words
<1> QED
  BY <1>1, <1>2

LEMMA CatTiles ==
  ASSUME TileInv, pc = "header", NEW p, p = Blocks - Total, ~(Blocks < Total),
         HeaderOf(At(p, H)) # {}, Cat(p)
  PROVE  Tiled' /\ AtPlace'
<1> DEFINE s == file.streams[footer]  n == s.index  t == s.total
           e == [stream |-> footer, padding |-> padding]
<1>1. /\ file \in Files /\ pos \in Nat /\ padding \in Nat /\ footer \in Streams
      /\ FooterIs(pos) /\ cur = << [stream |-> footer, padding |-> 0] >>
      /\ s.backward = n /\ At(pos - n, n) = Index(file, footer)
      /\ col \in Seq(Entries) /\ Tiled
  BY DEF TileInv, AtPlace, ParseInv, Types, Placed
<1>2. n \in Nat /\ t \in Nat /\ Size(file) \in Nat /\ H = 3
  BY <1>1, StreamLengths, SizeType DEF Streams, H
<1>3. Total = t /\ Blocks = pos - (n + H)
  BY <1>1 DEF Total, Blocks
<1>4. /\ [cur[1] EXCEPT !.padding = padding] = e
  BY <1>1
<1>5. /\ col' = << e >> \o col /\ cur' = << >> /\ pos' = p
      /\ pc' = (IF p > 0 THEN "stream" ELSE "ok") /\ UNCHANGED file
  BY <1>4 DEF Cat
<1>6. e \in Entries /\ e.stream = footer /\ e.padding = padding
  BY <1>1 DEF Entries, Streams
<1>7. PICK j \in Streams : /\ At(p, H) = Header(j) /\ file.streams[j].header = s.footer
  BY DEF HeaderOf, Streams
<1> HIDE DEF s, n, t, e
<1>8. /\ p \in Nat /\ p + H + t = pos - n /\ p = pos - t - n - H /\ n <= pos
  <2>1. p = (pos - (n + H)) - t /\ ~(pos - (n + H) < t)
    BY <1>3
  <2> QED
    BY <1>1, <1>2, <2>1, SMTT(30)
<1>9. /\ Edge = pos + H + padding /\ Edge <= Size(file) /\ s.footer # "bad"
      /\ At(pos, H) = Footer(footer)
      /\ \A k \in 1..padding : Contents(file)[pos + H + k] = Zero
  BY <1>1, EdgeType DEF FooterIs, EndsAt, s
<1>10. At(pos - n, n + H + padding)
         = Index(file, footer) \o Footer(footer) \o [k \in 1..padding |-> Zero]
  <2>1. n = file.streams[footer].index /\ pos + H + padding <= Size(file)
    BY <1>9 DEF n, s
  <2> QED
    <3>1. n <= pos
      BY <1>1, <1>8
    <3>2. StreamEnds(footer, pos, padding, n)
      BY <1>1, <1>9, <2>1, <3>1, Zenon DEF StreamEnds
    <3> QED
      BY <1>1, <3>2, TileEnd, Zenon
<1>11. Tile(e, p)
  <2>1. /\ file.streams[e.stream].footer = s.footer /\ file.streams[e.stream].total = t
        /\ file.streams[e.stream].index = n
    BY <1>6 DEF s, n, t
  <2>2. At(p + H + t, n + H + padding)
         = Index(file, footer) \o Footer(footer) \o [k \in 1..padding |-> Zero]
    BY <1>8, <1>10
  <2>3. /\ \E i \in DOMAIN file.streams :
             /\ At(p, H) = Header(i)
             /\ file.streams[i].header = s.footer /\ s.footer # "bad"
    BY <1>7, <1>9 DEF Streams
  <2> QED
    BY <1>6, <2>1, <2>2, <2>3, Zenon DEF Tile
<1>12. PICK c : c = << e >> \o col
  OBVIOUS
<1>13. /\ StartOf(c, 1) = Edge - Extent(e)
       /\ \A k \in 1..Len(col) : StartOf(c, k + 1) = StartOf(col, k)
       /\ c[1] = e /\ \A k \in 1..Len(col) : c[k + 1] = col[k]
       /\ DOMAIN c = 1..(Len(col) + 1)
  <2>1. file \in Files /\ col \in Seq(Entries) /\ e \in Entries
    BY <1>1, <1>6
  <2> QED
    <3>1. Before(e, col, c)
      BY <1>12, <2>1, StartsPrepend, Zenon
    <3> QED
      BY <3>1, Zenon DEF Before, Edge
<1>14. StartOf(c, 1) = p
  <2>1. Extent(e) = H + t + n + H + padding
    BY <1>6 DEF Extent, s, n, t
  <2>2. /\ StartOf(c, 1) = Edge - Extent(e) /\ Edge = pos + H + padding
        /\ p = pos - t - n - H
    BY <1>8, <1>9, <1>13
  <2> QED
    BY <1>1, <1>2, <2>1, <2>2, SMTT(30)
<1>15. Len(col) \in Nat /\ DOMAIN col = 1..Len(col)
  BY <1>1
<1>16. \A k \in DOMAIN c : Tile(c[k], StartOf(c, k))
  <2> TAKE k \in DOMAIN c
  <2>1. CASE k = 1
    BY <1>11, <1>13, <1>14, <2>1
  <2>2. CASE k # 1
    <3>1. PICK i \in 1..Len(col) : k = i + 1
      <4>1. k \in 1..(Len(col) + 1)
        BY <1>13
      <4>2. k - 1 \in 1..Len(col) /\ k = (k - 1) + 1
        BY <1>15, <2>2, <4>1
      <4> QED
        BY <4>2
    <3>2. Tile(col[i], StartOf(col, i))
      BY <1>1, <1>15, <3>1 DEF Tiled
    <3> QED
      BY <1>13, <3>1, <3>2
  <2> QED
    BY <2>1, <2>2
<1>17. Tiled' /\ Edge' = p
  BY <1>5, <1>12, <1>14, <1>16, TiledNext
<1>18. col' # << >>
  <2>1. 1 \in DOMAIN c
    BY <1>13, <1>15
  <2> QED
    BY <1>5, <1>12, <2>1
<1> QED
  BY <1>5, <1>8, <1>17, <1>18 DEF AtPlace

LEMMA DecodeHeaderTiles ==
  ASSUME TileInv, DecodeHeader
  PROVE  Tiled' /\ AtPlace'
<1>1. \/ Fail
      \/ pc' = "failed" /\ col' = << >>
      \/ /\ ~(Blocks < Total) /\ HeaderOf(At(Blocks - Total, H)) # {} /\ Cat(Blocks - Total)
  BY Zenon DEF DecodeHeader, CheckHeader, CatFails, Reject, ReadFails, FaultIn
<1>2. CASE pc' = "failed" /\ col' = << >>
  BY <1>2 DEF Tiled, AtPlace
<1>3. pc = "header"
  BY DEF DecodeHeader
<1> QED
  BY <1>1, <1>2, <1>3, FailTiles, CatTiles

LEMMA InitTile == Init => TileInv
<1> SUFFICES ASSUME Init  PROVE TileInv
  OBVIOUS
<1>1. /\ pc = "stream" /\ col = << >> /\ file \in Files /\ pos = Size(file)
      /\ col \in Seq(Entries)
  BY DEF Init
<1>2. Edge = Size(file)
  BY <1>1, EdgeType
<1>3. Tiled /\ AtPlace
  BY <1>1, <1>2 DEF Tiled, AtPlace
<1> QED
  BY <1>3, InitParse DEF TileInv

LEMMA StepTile == TileInv /\ [Next]_vars => TileInv'
<1> SUFFICES ASSUME TileInv, [Next]_vars  PROVE TileInv'
  OBVIOUS
<1>1. ParseInv'
  BY StepParse DEF TileInv
<1>2. CASE UNCHANGED vars
  <2>1. Edge' = Edge /\ Tiled' /\ Contents(file)' = Contents(file) /\ Streams' = Streams
    BY <1>2, SamePlace DEF TileInv, vars
  <2>2. AtPlace' = AtPlace
    BY <1>2, <2>1 DEF vars, AtPlace, FooterIs, EndsAt, At, Footer, Index, Words
  <2> QED
    BY <1>1, <2>1, <2>2 DEF TileInv
<1>3. CASE NextStream
  BY <1>1, <1>3, NextStreamTiles DEF TileInv
<1>4. CASE FindFooter
  BY <1>1, <1>4, FindFooterTiles DEF TileInv
<1>5. CASE DecodeFooter
  BY <1>1, <1>5, DecodeFooterTiles DEF TileInv
<1>6. CASE DecodeIndex
  BY <1>1, <1>6, DecodeIndexTiles DEF TileInv
<1>7. CASE DecodeHeader
  BY <1>1, <1>7, DecodeHeaderTiles DEF TileInv
<1>8. CASE RefuseLeftover
  BY <1>1, <1>8, FailTiles DEF RefuseLeftover, Reject, TileInv
<1> QED
  BY <1>2, <1>3, <1>4, <1>5, <1>6, <1>7, <1>8 DEF Next

THEOREM TileInvariant == Spec => []TileInv
<1> QED
  BY InitTile, StepTile, PTL DEF Spec

(* Whatever the file holds and whatever fails: the streams of the collected *)
(* index lie in the file where the index says, and those of a returned one  *)
(* are all of the file (the arithmetic of pos in read_index's loop).        *)
THEOREM TheIndexTilesTheFile == Spec => []IndexTilesFile
<1>1. TileInv => IndexTilesFile
  <2> SUFFICES ASSUME TileInv  PROVE IndexTilesFile
    OBVIOUS
  <2>1. Tiled /\ (pc = "stream" => pos = Edge) /\ (pc = "ok" => col # << >> /\ Edge = 0)
    BY DEF TileInv, AtPlace
  <2> QED
    BY <2>1 DEF IndexTilesFile, Tiled, Tile, Edge, StartOf, Extents
<1> QED
  BY <1>1, TileInvariant, PTL

-----------------------------------------------------------------------------
(* What is accepted.  K is the stream that read_index is in: those behind   *)
(* it are collected, and the file's lengths say where it lies.              *)
Lens(f) == [i \in 1..Len(f.streams) |-> Len(StreamWords(f, i))]
Mems(f) == [i \in DOMAIN f.streams |-> f.streams[i].mem]

K == Len(file.streams) - Len(col)
Pad(i) == file.streams[i].padding

Collected ==
  /\ K \in 0..Len(file.streams)
  /\ \A i \in 1..Len(col) : col[i] = [stream |-> K + i, padding |-> Pad(K + i)]
  /\ Edge = Sums(Lens(file))[K]
  /\ Mem(file, col) = SumOf(Mems(file)) - Sums(Mems(file))[K]

GoesOn ==
  /\ pc \notin {"leftover", "failed"} /\ (pc = "ok" <=> K = 0)
  /\ pc = "footer" => padding % H = 0 /\ padding <= Pad(K)
  /\ pc \in {"index", "decode", "header"} => padding = Pad(K)
  /\ pc = "index" => buf = Footer(K)
  /\ pc = "decode" => left > 0
  /\ pc \in {"decode", "header"} => footer = K

Aligned == \A i \in DOMAIN file.streams : file.streams[i].padding % H = 0
Acceptable == fault = "none" /\ WellFormed(file) /\ Aligned

AcceptInv == TileInv /\ MemBounded /\ (Acceptable => Collected /\ GoesOn)

(* Where the sequences lie in their concatenation *)
LEMMA Layout ==
  ASSUME NEW s, Len(s) \in Nat \ {0}, NEW S, \A i \in 1..Len(s) : s[i] \in Seq(S),
         NEW lens \in Seq(Nat), Len(lens) = Len(s), \A i \in 1..Len(s) : lens[i] = Len(s[i])
  PROVE  /\ Len(FlattenSeq(s)) = SumOf(lens)
         /\ \A i \in 1..Len(s) :
              /\ Sums(lens)[i] <= Len(FlattenSeq(s))
              /\ \A k \in 1..Len(s[i]) : FlattenSeq(s)[Sums(lens)[i - 1] + k] = s[i][k]
<1>1. PICK g : Flat(s, g, Len(s)) /\ FlattenSeq(s) = g[Len(s)]
  BY Flattening
<1>2. PICK sum : sum = Sums(lens)
  OBVIOUS
<1>3. /\ sum[0] = 0 /\ \A k \in 0..Len(s) : sum[k] \in Nat
      /\ \A k \in 1..Len(s) : sum[k] = sum[k - 1] + lens[k]
  BY <1>2, SumsStep, SumsType
<1>4. \A k \in 1..Len(s) : sum[k] = sum[k - 1] + Len(s[k]) /\ Len(s[k]) \in Nat
                           /\ sum[k - 1] \in Nat
  <2> TAKE k \in 1..Len(s)
  <2>1. k - 1 \in 0..Len(s)
    OBVIOUS
  <2>2. Len(s[k]) \in Nat
    BY LenProperties
  <2> QED
    BY <1>3, <2>1, <2>2
<1> DEFINE PlacedIn(w, i) ==
             /\ sum[i] <= Len(w)
             /\ \A k \in 1..Len(s[i]) : w[sum[i - 1] + k] = s[i][k]
           Good(n) == /\ g[n] \in Seq(S) /\ Len(g[n]) = sum[n]
                      /\ \A i \in 1..n : PlacedIn(g[n], i)
           T == { n \in Nat : n + 1 <= Len(s) => Good(n + 1) }
<1>5. 0 \in T
  <2>1. 0 + 1 = 1 /\ 1 \in 1..Len(s) /\ 1 - 1 = 0
    OBVIOUS
  <2>2. g[1] = s[1] /\ s[1] \in Seq(S)
    BY <1>1, <2>1 DEF Flat
  <2>3. Len(s[1]) = sum[1] /\ Len(s[1]) \in Nat
    BY <1>3, <1>4, <2>1
  <2>4. PlacedIn(s[1], 1)
    <3>1. \A k \in 1..Len(s[1]) : sum[1 - 1] + k = k
      BY <1>3, <2>1
    <3> QED
      BY <2>3, <3>1
  <2> HIDE DEF PlacedIn
  <2>5. \A i \in 1..1 : i = 1
    OBVIOUS
  <2>6. \A i \in 1..1 : PlacedIn(g[1], i)
    BY <2>2, <2>4, <2>5, Zenon
  <2>7. Good(1)
    BY <2>1, <2>2, <2>3, <2>6
  <2> QED
    BY <2>1, <2>7
<1>6. ASSUME NEW n \in Nat, n \in T  PROVE n + 1 \in T
  <2> SUFFICES ASSUME (n + 1) + 1 <= Len(s)  PROVE Good((n + 1) + 1)
    OBVIOUS
  <2>1. n + 1 <= Len(s)
    OBVIOUS
  <2>2. Good(n + 1)
    BY <1>6, <2>1
  <2> HIDE DEF T
  <2>3. PICK m \in Nat : m = n + 1
    OBVIOUS
  <2>4. /\ m \in 1..Len(s) /\ m + 1 \in 1..Len(s) /\ m + 1 # 1 /\ (m + 1) - 1 = m
        /\ m \in 0..Len(s)
    BY <2>3
  <2>5. g[m + 1] = g[m] \o s[m + 1]
    BY <1>1, <2>4 DEF Flat
  <2>6. PICK u, v, w : u = g[m] /\ v = s[m + 1] /\ w = g[m + 1]
    OBVIOUS
  <2>7. /\ u \in Seq(S) /\ v \in Seq(S) /\ w = u \o v /\ Len(u) = sum[m]
        /\ \A i \in 1..m : PlacedIn(u, i)
    <3> HIDE DEF PlacedIn
    <3> QED
      BY <2>2, <2>3, <2>4, <2>5, <2>6
  <2>8. w \in Seq(S) /\ Joins(u, Len(u), v, Len(v), w)
    BY <2>7, Joined, Zenon
  <2>9. /\ Len(w) = Len(u) + Len(v) /\ Len(u) \in Nat /\ Len(v) \in Nat
        /\ \A k \in 1..Len(u) : w[k] = u[k]
        /\ \A k \in 1..Len(v) : w[Len(u) + k] = v[k]
    BY <2>8 DEF Joins
  <2>10. Len(w) = sum[m + 1]
    BY <1>4, <2>4, <2>6, <2>7, <2>9
  <2>11. ASSUME NEW i \in 1..(m + 1)  PROVE PlacedIn(w, i)
    <3>1. CASE i = m + 1
      <4>1. sum[i] = Len(w) /\ sum[i - 1] = Len(u) /\ s[i] = v
        BY <2>4, <2>6, <2>7, <2>10, <3>1
      <4> QED
        BY <2>9, <4>1
    <3>2. CASE i # m + 1
      <4>1. i \in 1..m /\ i \in 1..Len(s)
        BY <2>4, <3>2
      <4>2. /\ sum[i] <= Len(u) /\ sum[i - 1] \in Nat
            /\ sum[i] = sum[i - 1] + Len(s[i]) /\ Len(s[i]) \in Nat
            /\ \A k \in 1..Len(s[i]) : u[sum[i - 1] + k] = s[i][k]
        BY <1>4, <2>7, <4>1
      <4>3. PICK a, b : a = sum[i - 1] /\ b = Len(s[i])
        OBVIOUS
      <4>4. a \in Nat /\ b \in Nat /\ sum[i] = a + b /\ a + b <= Len(u)
        BY <4>2, <4>3
      <4>5. sum[i] <= Len(w)
        BY <2>9, <4>4
      <4>6. \A k \in 1..b : a + k \in 1..Len(u)
        BY <2>9, <4>4
      <4>7. \A k \in 1..Len(s[i]) : w[sum[i - 1] + k] = s[i][k]
        BY <2>9, <4>2, <4>3, <4>6
      <4> QED
        BY <4>5, <4>7
    <3> QED
      BY <3>1, <3>2
  <2> HIDE DEF PlacedIn
  <2>12. Good(m + 1)
    BY <2>6, <2>8, <2>10, <2>11
  <2> QED
    BY <2>3, <2>12
<1>7. Nat \subseteq T
  <2> HIDE DEF T
  <2> QED
    BY <1>5, <1>6, AllNumbers
<1>8. Good(Len(s))
  <2>1. Len(s) - 1 \in Nat /\ (Len(s) - 1) + 1 = Len(s)
    OBVIOUS
  <2>2. Len(s) - 1 \in T
    BY <1>7, <2>1
  <2> HIDE DEF Good
  <2>3. (Len(s) - 1) + 1 <= Len(s) => Good((Len(s) - 1) + 1)
    BY <2>2
  <2> QED
    BY <2>1, <2>3
<1> QED
  BY <1>1, <1>2, <1>8 DEF SumOf

LEMMA LensType ==
  ASSUME NEW f \in Files
  PROVE  /\ Lens(f) \in Seq(Nat) /\ Len(Lens(f)) = Len(f.streams) /\ Len(f.streams) \in Nat
         /\ \A i \in DOMAIN f.streams : Lens(f)[i] = Len(StreamWords(f, i))
<1>1. Len(f.streams) \in Nat /\ DOMAIN f.streams = 1..Len(f.streams)
  BY ParseAssumption
<1>2. \A i \in 1..Len(f.streams) : Len(StreamWords(f, i)) \in Nat
  <2> TAKE i \in 1..Len(f.streams)
  <2>1. StreamWords(f, i) \in OrderlySeqs
    BY <1>1, StreamOrderly
  <2> QED
    BY <2>1, LenProperties DEF OrderlySeqs
<1> QED
  BY <1>1, <1>2 DEF Lens

(* A well-formed file is its streams, one after the other *)
LEMMA StreamAt ==
  ASSUME NEW f \in Files, WellFormed(f), NEW i \in DOMAIN f.streams, NEW w, w = StreamWords(f, i)
  PROVE  /\ SumOf(Lens(f)) = Size(f) /\ Sums(Lens(f))[i] <= Size(f)
         /\ \A k \in 1..Len(w) : Contents(f)[Sums(Lens(f))[i - 1] + k] = w[k]
<1> DEFINE ss == [j \in DOMAIN f.streams |-> StreamWords(f, j)]  n == Len(f.streams)
<1>1. n \in Nat \ {0} /\ DOMAIN f.streams = 1..n /\ i \in 1..n /\ f.junk = << >>
  BY ParseAssumption DEF WellFormed
<1>2. Len(ss) = n /\ \A j \in 1..n : ss[j] = StreamWords(f, j)
  BY <1>1
<1>3. \A j \in 1..n : ss[j] \in OrderlySeqs /\ ss[j] \in Seq(Word)
  BY <1>1, <1>2, StreamOrderly DEF OrderlySeqs
<1>4. Contents(f) = << >> \o FlattenSeq(ss)
  BY <1>1 DEF Contents
<1> HIDE DEF ss
<1>5. FlattenSeq(ss) \in Seq(Word)
  <2>1. FlattenSeq(ss) \in OrderlySeqs
    BY <1>1, <1>2, <1>3, OrderlyJoin, FlattenIn
  <2> QED
    BY <2>1 DEF OrderlySeqs
<1>6. Contents(f) = FlattenSeq(ss)
  BY <1>4, <1>5, ConcatEmptySeq
<1>7. PICK lens : lens = Lens(f)
  OBVIOUS
<1>8. lens \in Seq(Nat) /\ Len(lens) = Len(ss) /\ \A j \in 1..Len(ss) : lens[j] = Len(ss[j])
  BY <1>1, <1>2, <1>7, LensType
<1>9. /\ Len(FlattenSeq(ss)) = SumOf(lens)
      /\ \A j \in 1..Len(ss) :
           /\ Sums(lens)[j] <= Len(FlattenSeq(ss))
           /\ \A k \in 1..Len(ss[j]) : FlattenSeq(ss)[Sums(lens)[j - 1] + k] = ss[j][k]
  <2>1. \A j \in 1..Len(ss) : ss[j] \in Seq(Word)
    BY <1>2, <1>3
  <2>2. Len(ss) \in Nat \ {0}
    BY <1>1, <1>2
  <2> QED
    BY <1>8, <2>1, <2>2, Layout
<1>10. i \in 1..Len(ss) /\ ss[i] = w
  BY <1>1, <1>2
<1> QED
  BY <1>6, <1>7, <1>9, <1>10 DEF Size

(* Where the parts of a stream end *)
LEMMA LiesPlace ==
  ASSUME NEW f \in Files, WellFormed(f), NEW i \in DOMAIN f.streams, NEW s, s = f.streams[i],
         NEW b, b = Sums(Lens(f))[i - 1], NEW e, e = b + H + s.total + s.index
  PROVE  /\ b \in Nat /\ e \in Nat /\ e >= s.index /\ e - s.index = b + H + s.total
         /\ e + H + s.padding = Sums(Lens(f))[i]
         /\ Sums(Lens(f))[i] <= Size(f) /\ Size(f) \in Nat
         /\ \A k \in 1..H : Contents(f)[b + k] = Header(i)[k]
         /\ \A k \in 1..s.index : Contents(f)[(e - s.index) + k] = Index(f, i)[k]
         /\ \A k \in 1..H : Contents(f)[e + k] = Footer(i)[k]
         /\ \A k \in 1..s.padding : Contents(f)[e + H + k] = Zero
<1>1. s.gap = 0 /\ s.total = s.blocks
  BY DEF WellFormed
<1>2. PICK t, x, p : t = s.total /\ x = s.index /\ p = s.padding
  OBVIOUS
<1>3. t \in Nat /\ x \in Nat /\ p \in Nat
  BY <1>1, <1>2, StreamLengths
<1>4. PICK w : w = StreamWords(f, i)
  OBVIOUS
<1>5. /\ Len(w) = H + t + x + 0 + H + p
      /\ \A k \in 1..H : w[k] = Header(i)[k]
      /\ \A k \in 1..x : w[H + t + k] = Index(f, i)[k]
      /\ \A k \in 1..H : w[H + t + x + 0 + k] = Footer(i)[k]
      /\ \A k \in 1..p : w[H + t + x + 0 + H + k] = Zero
  <2>1. /\ Len(w) = H + s.blocks + s.index + s.gap + H + s.padding
        /\ \A k \in 1..H : w[k] = Header(i)[k]
        /\ \A k \in 1..s.index : w[H + s.blocks + k] = Index(f, i)[k]
        /\ \A k \in 1..H : w[H + s.blocks + s.index + s.gap + k] = Footer(i)[k]
        /\ \A k \in 1..s.padding :
             w[H + s.blocks + s.index + s.gap + H + k] = Zero
    BY <1>4, StreamPlaces
  <2>2. s.blocks = t /\ s.index = x /\ s.gap = 0 /\ s.padding = p
    BY <1>1, <1>2
  <2>3. /\ Len(w) = H + t + x + 0 + H + p
        /\ \A k \in 1..H : w[k] = Header(i)[k]
    BY <2>1, <2>2
  <2>4. \A k \in 1..x : w[H + t + k] = Index(f, i)[k]
    BY <2>1, <2>2
  <2>5. \A k \in 1..H : w[H + t + x + 0 + k] = Footer(i)[k]
    BY <2>1, <2>2, Zenon
  <2>6. \A k \in 1..p : w[H + t + x + 0 + H + k] = Zero
    BY <2>1, <2>2, Zenon
  <2> QED
    BY <2>3, <2>4, <2>5, <2>6
<1>6. PICK sum : sum = Sums(Lens(f))
  OBVIOUS
<1>7. /\ b \in Nat /\ sum[i] = b + Len(w)
  <2>1. PICK lens : lens = Lens(f)
    OBVIOUS
  <2>2. lens \in Seq(Nat) /\ i \in 1..Len(lens) /\ lens[i] = Len(w) /\ i - 1 \in 0..Len(lens)
        /\ Len(lens) \in Nat
    BY <1>4, <2>1, LensType, StreamLengths
  <2>3. sum[i] = sum[i - 1] + lens[i] /\ sum[i - 1] \in Nat
    BY <1>6, <2>1, <2>2, SumsType, SumsStep
  <2> QED
    BY <1>6, <2>2, <2>3
<1>8. sum[i] <= Size(f) /\ Size(f) \in Nat /\ \A k \in 1..Len(w) : Contents(f)[b + k] = w[k]
  BY <1>4, <1>6, StreamAt, SizeType
<1>9. PICK c : c = Contents(f)
  OBVIOUS
<1>10. \A k \in 1..(H + t + x + 0 + H + p) : c[b + k] = w[k]
  BY <1>5, <1>8, <1>9
<1>11. /\ b \in Nat /\ t \in Nat /\ x \in Nat /\ p \in Nat /\ H = 3 /\ e = b + H + t + x
  BY <1>2, <1>3, <1>7 DEF H
<1>12. e \in Nat /\ e >= x /\ e - x = b + H + t
  BY <1>11
<1>13. e + H + p = sum[i]
  BY <1>5, <1>7, <1>11
<1>14. \A k \in 1..H : c[b + k] = Header(i)[k]
  <2>1. \A k \in 1..H : k \in 1..(H + t + x + 0 + H + p)
    BY <1>11
  <2> QED
    BY <1>5, <1>10, <2>1
<1>15. \A k \in 1..x : c[(e - x) + k] = Index(f, i)[k]
  <2>1. \A k \in 1..x : H + t + k \in 1..(H + t + x + 0 + H + p)
                        /\ b + (H + t + k) = (e - x) + k
    BY <1>11
  <2> QED
    BY <1>5, <1>10, <2>1
<1>16. \A k \in 1..H : c[e + k] = Footer(i)[k]
  <2>1. \A k \in 1..H : H + t + x + 0 + k \in 1..(H + t + x + 0 + H + p)
                        /\ b + (H + t + x + 0 + k) = e + k
    BY <1>11
  <2> QED
    BY <1>5, <1>10, <2>1
<1>17. \A k \in 1..p : c[e + H + k] = Zero
  <2>1. \A k \in 1..p : H + t + x + 0 + H + k \in 1..(H + t + x + 0 + H + p)
                        /\ b + (H + t + x + 0 + H + k) = e + H + k
    BY <1>11
  <2> QED
    BY <1>5, <1>10, <2>1
<1> QED
  BY <1>2, <1>6, <1>7, <1>8, <1>9, <1>12, <1>13, <1>14, <1>15, <1>16, <1>17

(* The stream that read_index is in, at b with its footer at e *)
Now(b, e) ==
  LET s == file.streams[K]
  IN  /\ K \in Streams /\ K \in Nat \ {0} /\ Size(file) \in Nat
      /\ s.total \in Nat /\ s.index \in Nat \ {0} /\ s.padding \in Nat /\ s.padding % H = 0
      /\ s.backward = s.index /\ s.header = s.footer /\ s.footer # "bad"
      /\ b \in Nat /\ e \in Nat /\ e = b + H + s.total + s.index
      /\ Edge = e + H + s.padding /\ Edge <= Size(file)
      /\ b = Sums(Lens(file))[K - 1] /\ (b = 0 <=> K = 1)
      /\ At(b, H) = Header(K) /\ At(e - s.index, s.index) = Index(file, K)
      /\ At(e, H) = Footer(K) /\ \A k \in 1..s.padding : Contents(file)[e + H + k] = Zero

LEMMA FirstStart ==
  ASSUME NEW f \in Files, NEW i \in DOMAIN f.streams
  PROVE  Sums(Lens(f))[i - 1] = 0 <=> i = 1
<1>1. PICK lens : lens = Lens(f)
  OBVIOUS
<1>2. /\ lens \in Seq(Nat) /\ Len(lens) \in Nat /\ i \in 1..Len(lens) /\ i \in Nat
  BY <1>1, LensType, StreamLengths
<1>3. Sums(lens)[0] = 0
  BY <1>2, SumsStep
<1>4. ASSUME i # 1  PROVE Sums(lens)[i - 1] # 0
  <2>1. PICK j : j = i - 1
    OBVIOUS
  <2>2. j \in 1..Len(lens) /\ j - 1 \in 0..Len(lens)
    BY <1>2, <1>4, <2>1
  <2>3. j \in DOMAIN f.streams
    BY <1>1, <2>2, LensType, StreamLengths
  <2>4. lens[j] = Len(StreamWords(f, j))
    BY <1>1, <2>3, LensType
  <2>5. Sums(lens)[j] = Sums(lens)[j - 1] + lens[j] /\ Sums(lens)[j - 1] \in Nat
    BY <1>2, <2>2, SumsStep, SumsType
  <2>6. lens[j] > 0
    <3>1. Len(StreamWords(f, j)) = H + f.streams[j].blocks + f.streams[j].index
                                     + f.streams[j].gap + H + f.streams[j].padding
      BY <2>3, StreamPlaces
    <3>2. /\ f.streams[j].blocks \in Nat /\ f.streams[j].index \in Nat
          /\ f.streams[j].gap \in Nat /\ f.streams[j].padding \in Nat /\ H = 3
      BY <2>3, StreamLengths DEF H
    <3> QED
      BY <2>4, <3>1, <3>2, SMTT(30)
  <2>7. lens[j] \in Nat
    BY <1>2, <2>2, ElementOfSeq
  <2> QED
    BY <2>1, <2>5, <2>6, <2>7
<1>5. i = 1 => i - 1 = 0
  OBVIOUS
<1> QED
  BY <1>1, <1>3, <1>4, <1>5

LEMMA HeaderWords ==
  ASSUME file \in Files, NEW i \in Streams
  PROVE  Header(i) \in Seq(Word) /\ Len(Header(i)) = H
<1>1. i \in Nat /\ H \in Nat
  BY StreamLengths DEF H, Streams
<1>2. Own(i) \subseteq Word
  BY <1>1 DEF Own, Word, Zero, Parts
<1>3. "header" \in Parts
  BY DEF Parts
<1>4. Header(i) \in Seq(Own(i)) /\ Len(Header(i)) = H
  BY <1>1, <1>3, OwnWords DEF Header
<1> QED
  BY <1>2, <1>4, SeqMonotonic

LEMMA NowIs ==
  ASSUME TileInv, Acceptable, Collected, K # 0
  PROVE  \E b, e : Now(b, e)
<1> DEFINE s == file.streams[K]
<1>1. /\ file \in Files /\ K \in DOMAIN file.streams /\ K \in Streams /\ K \in Nat \ {0}
      /\ WellFormed(file)
  <2>1. file \in Files /\ WellFormed(file) /\ K \in 0..Len(file.streams)
    BY DEF TileInv, ParseInv, Types, Acceptable, Collected
  <2>2. DOMAIN file.streams = 1..Len(file.streams) /\ Len(file.streams) \in Nat
    BY <2>1, ParseAssumption
  <2> QED
    BY <2>1, <2>2 DEF Streams
<1>2. /\ s.total \in Nat /\ s.index \in Nat \ {0} /\ s.padding \in Nat
  BY <1>1, StreamLengths
<1>3. s.backward = s.index /\ s.header = s.footer /\ s.footer # "bad" /\ s.padding % H = 0
  BY <1>1 DEF WellFormed, Acceptable, Aligned
<1>4. PICK b : b = Sums(Lens(file))[K - 1]
  OBVIOUS
<1>5. PICK e : e = b + H + s.total + s.index
  OBVIOUS
<1>6. /\ b \in Nat /\ e \in Nat /\ e >= s.index /\ e - s.index = b + H + s.total
      /\ e + H + s.padding = Sums(Lens(file))[K]
      /\ Sums(Lens(file))[K] <= Size(file) /\ Size(file) \in Nat
      /\ \A k \in 1..H : Contents(file)[b + k] = Header(K)[k]
      /\ \A k \in 1..s.index : Contents(file)[(e - s.index) + k] = Index(file, K)[k]
      /\ \A k \in 1..H : Contents(file)[e + k] = Footer(K)[k]
      /\ \A k \in 1..s.padding : Contents(file)[e + H + k] = Zero
  BY <1>1, <1>4, <1>5, LiesPlace
<1>7. Edge = e + H + s.padding /\ Edge <= Size(file)
  BY <1>6 DEF Collected
<1>8. b = 0 <=> K = 1
  BY <1>1, <1>4, FirstStart
<1>9. PICK x, t, m : x = s.index /\ t = s.total /\ m = s.padding
  OBVIOUS
<1>10. /\ b + H <= Size(file) /\ (e - x) + x <= Size(file) /\ e - x \in Nat /\ e + H <= Size(file)
       /\ H \in Nat
  <2>1. /\ b \in Nat /\ e = b + H + t + x /\ e + H + m <= Size(file) /\ t \in Nat /\ x \in Nat
        /\ m \in Nat /\ Size(file) \in Nat /\ H = 3
    BY <1>2, <1>5, <1>6, <1>9 DEF H
  <2> QED
    BY <2>1, SMTT(30)
<1>11. /\ Header(K) \in Seq(Word) /\ Len(Header(K)) = H
       /\ Index(file, K) \in Seq(Word) /\ Len(Index(file, K)) = x /\ x \in Nat
       /\ Footer(K) \in Seq(Word) /\ Len(Footer(K)) = H
  BY <1>1, <1>2, <1>9, HeaderWords, PartWords
<1> HIDE DEF s
<1>12. PICK n : n = K
  OBVIOUS
<1>13. At(b, H) = Header(n)
  <2>1. PICK v : v = Header(n)
    OBVIOUS
  <2>2. v \in Seq(Word) /\ Len(v) = H /\ \A k \in 1..H : v[k] = Contents(file)[b + k]
    BY <1>6, <1>11, <1>12, <2>1
  <2>3. At(b, H) = v
    BY <1>1, <1>6, <1>10, <2>2, AtIs
  <2> QED
    BY <2>1, <2>3
<1>14. At(e - x, x) = Index(file, n)
  <2>1. \A k \in 1..x : Index(file, n)[k] = Contents(file)[(e - x) + k]
    BY <1>6, <1>9, <1>12
  <2> QED
    BY <1>1, <1>10, <1>11, <1>12, <2>1, AtIs
<1>15. At(e, H) = Footer(n)
  <2>1. PICK v : v = Footer(n)
    OBVIOUS
  <2>2. v \in Seq(Word) /\ Len(v) = H /\ \A k \in 1..H : v[k] = Contents(file)[e + k]
    BY <1>6, <1>11, <1>12, <2>1
  <2>3. At(e, H) = v
    BY <1>1, <1>6, <1>10, <2>2, AtIs
  <2> QED
    BY <2>1, <2>3
<1>16. Now(b, e)
  BY <1>1, <1>2, <1>3, <1>4, <1>5, <1>6, <1>7, <1>8, <1>9, <1>12, <1>13, <1>14, <1>15, Zenon
     DEF Now, s
<1> QED
  BY <1>16

LEMMA OwnFooter ==
  ASSUME file \in Files, NEW i \in Streams, NEW j \in Streams, Footer(i) = Footer(j)
  PROVE  i = j
<1>1. 1 \in 1..H
  BY DEF H
<1>2. Footer(i)[1] = [part |-> "footer", of |-> i, no |-> 1]
  BY <1>1, PartWords
<1>3. Footer(j)[1] = [part |-> "footer", of |-> j, no |-> 1]
  BY <1>1, PartWords
<1>4. [part |-> "footer", of |-> i, no |-> 1].of = [part |-> "footer", of |-> j, no |-> 1].of
  BY <1>2, <1>3
<1> QED
  BY <1>4

(* A step that collects nothing *)
LEMMA StillCollected ==
  ASSUME UNCHANGED <<file, col>>, Collected
  PROVE  Collected' /\ K' = K /\ Pad(K)' = Pad(K) /\ Footer(K)' = Footer(K)
<1>1. K' = K /\ Edge' = Edge /\ (\A i : Pad(i)' = Pad(i))
  BY SamePlace DEF K, Pad
<1>2. Lens(file)' = Lens(file) /\ Mems(file)' = Mems(file) /\ Mem(file, col)' = Mem(file, col)
  BY DEF Lens, StreamWords, Index, Words, Mems, Mem
<1>3. Sums(Lens(file))' = Sums(Lens(file)) /\ Sums(Mems(file))' = Sums(Mems(file))
      /\ SumOf(Mems(file))' = SumOf(Mems(file))
  BY <1>2 DEF Sums, SumOf
<1>4. Pad(K)' = Pad(K) /\ Footer(K)' = Footer(K)
  BY <1>1 DEF K, Pad, Footer, Words
<1>5. \A i : Pad(K + i)' = Pad(K + i)
  BY DEF K, Pad
<1>6. Collected'
  BY <1>1, <1>2, <1>3, <1>5 DEF Collected
<1> QED
  BY <1>1, <1>4, <1>6

LEMMA NextStreamAccepts ==
  ASSUME TileInv, Acceptable, Collected, GoesOn, NextStream
  PROVE  Collected' /\ GoesOn'
<1>1. pc = "stream" /\ pos = Edge /\ K # 0
  BY DEF NextStream, TileInv, AtPlace, GoesOn
<1>2. PICK b, e : Now(b, e)
  BY <1>1, NowIs
<1>3. PICK p, x, t : /\ p = file.streams[K].padding /\ x = file.streams[K].index
                     /\ t = file.streams[K].total
  OBVIOUS
<1>4. /\ b \in Nat /\ e = b + H + t + x /\ pos = e + H + p /\ H = 3
      /\ p \in Nat /\ x \in Nat /\ t \in Nat
  BY <1>1, <1>2, <1>3 DEF Now, H
<1>5. ~(pos < 2 * H)
  BY <1>4, SMTT(30)
<1>6. padding' = 0 /\ pc' = "footer" /\ UNCHANGED <<file, col>>
  BY <1>5 DEF NextStream
<1>7. Collected' /\ K' = K /\ Pad(K)' = p
  BY <1>3, <1>6, StillCollected DEF Pad
<1>8. 0 % H = 0 /\ 0 <= p
  BY <1>4
<1> QED
  BY <1>1, <1>6, <1>7, <1>8 DEF GoesOn

(* What is left of a padding is a whole number of headers *)
LEMMA Aligning ==
  ASSUME NEW p \in Nat, NEW q \in Nat, p % 3 = 0, q % 3 = 0, q <= p, q # p
  PROVE  q + 3 <= p /\ (q + 3) % 3 = 0
OBVIOUS

LEMMA FindFooterAccepts ==
  ASSUME TileInv, Acceptable, Collected, GoesOn, FindFooter, fault' = "none"
  PROVE  Collected' /\ GoesOn'
<1>1. /\ pc = "footer" /\ EndsAt(pos) /\ K # 0 /\ padding % H = 0 /\ padding <= Pad(K)
      /\ file \in Files /\ pos \in Nat /\ padding \in Nat /\ H = 3
  BY DEF FindFooter, TileInv, AtPlace, ParseInv, Types, GoesOn, H
<1>2. PICK b, e : Now(b, e)
  BY <1>1, NowIs
<1>3. PICK p, x, t : /\ p = file.streams[K].padding /\ x = file.streams[K].index
                     /\ t = file.streams[K].total
  OBVIOUS
<1>4. /\ b \in Nat /\ e \in Nat /\ e = b + H + t + x /\ Edge = e + H + p /\ Edge <= Size(file)
      /\ p \in Nat /\ x \in Nat /\ t \in Nat /\ Size(file) \in Nat /\ p % H = 0
  BY <1>2, <1>3 DEF Now
<1>5. pos + H + padding = e + H + p /\ Pad(K) = p
  BY <1>1, <1>3, <1>4 DEF EndsAt, Pad
<1>6. pos >= H /\ pos = e + p - padding /\ pos + H <= Size(file)
  <2>1. padding <= p
    BY <1>1, <1>5
  <2> QED
    BY <1>1, <1>4, <1>5, <2>1, SMTT(30)
<1>7. Inside(pos, H)
  BY <1>1, <1>6 DEF Inside
<1>8. /\ buf' = At(pos, H) /\ padding' = padding + ZeroTail(buf')
      /\ pc' = (IF ZeroTail(buf') = H THEN "footer" ELSE "index") /\ UNCHANGED <<file, col>>
  BY <1>1, <1>6, <1>7 DEF FindFooter, Reject, ReadFails, FaultIn
<1>9. Collected' /\ K' = K /\ Pad(K)' = p /\ Footer(K)' = Footer(K)
  BY <1>5, <1>8, StillCollected
<1>10. PICK n : n = ZeroTail(buf')
  OBVIOUS
<1>11. /\ n \in 0..H /\ \A k \in 1..H : k > H - n => buf'[k] = Zero
       /\ n < H => buf'[H - n] # Zero
  BY <1>10, ZeroTailType
<1>12. CASE padding = p
  <2>1. pos = e /\ buf' = Footer(K)
    <3>1. pos = e
      BY <1>4, <1>6, <1>12
    <3> QED
      BY <1>2, <1>8, <3>1 DEF Now
  <2>2. K \in Streams
    BY <1>2 DEF Now
  <2>3. buf'[H] # Zero
    BY <1>1, <2>1, <2>2, FooterEnds
  <2>4. n = 0
    BY <1>1, <1>11, <2>3
  <2>5. pc' = "index" /\ padding' = p
    BY <1>1, <1>8, <1>10, <1>12, <2>4
  <2> QED
    BY <1>1, <1>9, <2>1, <2>5 DEF GoesOn
<1>13. CASE padding # p
  <2>1. padding + 3 <= p /\ (padding + 3) % 3 = 0
    BY <1>1, <1>4, <1>5, <1>13, Aligning
  <2>2. \A k \in 1..p : Contents(file)[e + H + k] = Zero
    BY <1>2, <1>3 DEF Now
  <2>3. \A k \in 1..H : buf'[k] = Contents(file)[pos + k]
    <3>1. H \in Nat
      BY <1>1
    <3>2. \A k \in 1..H : At(pos, H)[k] = Contents(file)[pos + k]
      BY <1>1, <1>6, <3>1, AtWords
    <3> QED
      BY <1>8, <3>2
  <2>4. \A k \in 1..H : buf'[k] = Zero
    <3> TAKE k \in 1..H
    <3>1. PICK j \in 1..p : j = p - padding - H + k
      BY <1>1, <1>4, <2>1
    <3>2. pos + k = e + H + j
      BY <1>1, <1>4, <1>6, <3>1
    <3>3. buf'[k] = Contents(file)[e + H + j]
      BY <2>3, <3>2
    <3> QED
      BY <2>2, <3>3
  <2>5. n = H
    <3>1. n < H => H - n \in 1..H
      BY <1>1, <1>11
    <3> QED
      BY <1>1, <1>11, <2>4, <3>1
  <2>6. pc' = "footer" /\ padding' = padding + 3
    BY <1>1, <1>8, <1>10, <2>5
  <2> QED
    BY <1>1, <1>9, <2>1, <2>6 DEF GoesOn
<1> QED
  BY <1>12, <1>13

LEMMA DecodeFooterAccepts ==
  ASSUME TileInv, MemBounded, Acceptable, Collected, GoesOn, DecodeFooter, fault' = "none"
  PROVE  Collected' /\ GoesOn'
<1>1. /\ pc = "index" /\ EndsAt(pos) /\ K # 0 /\ padding = Pad(K) /\ buf = Footer(K)
      /\ file \in Files /\ pos \in Nat /\ padding \in Nat /\ H = 3
      /\ cur \in Seq(EntriesOf(file)) /\ col \in Seq(EntriesOf(file))
  BY DEF DecodeFooter, TileInv, AtPlace, ParseInv, Types, GoesOn, H, Entries, EntriesOf
<1>2. PICK b, e : Now(b, e)
  BY <1>1, NowIs
<1>3. PICK p, x, t : /\ p = file.streams[K].padding /\ x = file.streams[K].index
                     /\ t = file.streams[K].total
  OBVIOUS
<1>4. /\ b \in Nat /\ e \in Nat /\ e = b + H + t + x /\ Edge = e + H + p
      /\ p \in Nat /\ x \in Nat \ {0} /\ t \in Nat /\ K \in Streams
      /\ file.streams[K].backward = x
  BY <1>2, <1>3 DEF Now
<1>5. pos = e
  <2>1. pos + H + p = e + H + p
    BY <1>1, <1>3, <1>4 DEF EndsAt, Pad
  <2>2. pos \in Nat /\ e \in Nat /\ p \in Nat /\ H = 3
    BY <1>1, <1>4
  <2> QED
    BY <2>1, <2>2
<1>6. ~(pos < x + H)
  BY <1>1, <1>4, <1>5
<1>7. ~(Mem(file, col) > MemLimit)
  <2>1. Mem(file, cur) \in Nat /\ Mem(file, col) \in Nat
    BY <1>1, MemType
  <2> QED
    BY <2>1, ParseAssumption DEF MemBounded
<1>8. FooterOf(buf) = {K}
  <2>1. K \in FooterOf(buf)
    BY <1>1, <1>2, <1>4 DEF FooterOf, Now, Streams
  <2>2. \A i \in FooterOf(buf) : i = K
    BY <1>1, <1>4, OwnFooter DEF FooterOf, Streams
  <2> QED
    BY <2>1, <2>2
<1>9. StartDecoder(K)
  BY <1>4, <1>6, <1>7, <1>8 DEF DecodeFooter
<1>10. /\ left' = x /\ footer' = K /\ pc' = "decode" /\ padding' = padding
       /\ UNCHANGED <<file, col>>
  BY <1>4, <1>9 DEF StartDecoder, FaultIn
<1>11. Collected' /\ K' = K /\ Pad(K)' = Pad(K)
  BY <1>10, StillCollected
<1> QED
  BY <1>1, <1>4, <1>10, <1>11 DEF GoesOn

(* What the decoder sees of an index, and when it is complete *)
LEMMA IndexBegun ==
  ASSUME file \in Files, NEW i \in Streams, NEW q \in Nat, NEW n, n = file.streams[i].index,
         q + n <= Size(file), At(q, n) = Index(file, i), NEW m \in Nat
  PROVE  /\ m < n => i \in Begun(At(q, m))
         /\ Begun(At(q, n)) = {}
<1>1. PICK v : v = Index(file, i)
  OBVIOUS
<1>2. /\ v \in Seq(Word) /\ Len(v) = n /\ n \in Nat \ {0}
      /\ \A k \in 1..n : v[k] = [part |-> "index", of |-> i, no |-> k]
  BY <1>1, PartWords
<1>3. Size(file) \in Nat
  BY SizeType
<1>4. ASSUME m < n  PROVE i \in Begun(At(q, m))
  <2>1. q + m <= Size(file)
    BY <1>2, <1>3, <1>4
  <2>2. PICK u : u = At(q, m)
    OBVIOUS
  <2>3. /\ u \in Seq(Word) /\ Len(u) = m /\ \A k \in 1..m : u[k] = Contents(file)[q + k]
    BY <2>1, <2>2, AtWords
  <2>4. \A k \in 1..n : At(q, n)[k] = Contents(file)[q + k]
    BY <1>2, AtWords
  <2>5. \A k \in 1..n : v[k] = Contents(file)[q + k]
    BY <1>1, <2>4
  <2>6. \A k \in 1..m : k \in 1..n
    BY <1>2, <1>4
  <2>7. \A k \in 1..m : u[k] = v[k]
    BY <2>3, <2>5, <2>6
  <2>8. SubSeq(v, 1, m) = u
    <3>1. \A k \in 1..m : v[k] \in Word
      BY <1>2, <2>6, ElementOfSeq
    <3>2. /\ SubSeq(v, 1, m) \in Seq(Word)
          /\ Len(SubSeq(v, 1, m)) = IF 1 <= m THEN m - 1 + 1 ELSE 0
          /\ \A k \in 1..(m - 1 + 1) : SubSeq(v, 1, m)[k] = v[1 + k - 1]
      BY <3>1, SubSeqProperties
    <3>3. Len(SubSeq(v, 1, m)) = m
      BY <3>2
    <3>4. \A k \in 1..m : SubSeq(v, 1, m)[k] = v[k]
      <4>1. \A k \in 1..m : k \in 1..(m - 1 + 1) /\ 1 + k - 1 = k
        OBVIOUS
      <4> QED
        BY <3>2, <4>1
    <3> QED
      BY <2>3, <2>7, <3>2, <3>3, <3>4, SeqEqual
  <2>9. SubSeq(u, 1, m) = u
    <3>1. u = SubSeq(u, 1, Len(u))
      BY <2>3
    <3> QED
      BY <2>3, <3>1
  <2>10. u # v
    BY <1>2, <1>4, <2>3
  <2>11. IsPrefix(u, v)
    BY <1>2, <1>4, <2>3, <2>8, <2>9 DEF IsPrefix
  <2> QED
    BY <1>1, <2>2, <2>10, <2>11 DEF Begun, IsStrictPrefix, Streams
<1>5. ASSUME NEW j \in Begun(v)  PROVE FALSE
  <2>1. j \in Streams /\ IsPrefix(v, Index(file, j)) /\ v # Index(file, j)
    BY <1>5 DEF Begun, IsStrictPrefix, Streams
  <2>2. PICK w : w = Index(file, j)
    OBVIOUS
  <2>3. /\ w \in Seq(Word) /\ Len(w) \in Nat \ {0}
        /\ \A k \in 1..Len(w) : w[k] = [part |-> "index", of |-> j, no |-> k]
    <3>1. PICK l : l = file.streams[j].index
      OBVIOUS
    <3>2. /\ w \in Seq(Word) /\ Len(w) = l /\ l \in Nat \ {0}
          /\ \A k \in 1..l : w[k] = [part |-> "index", of |-> j, no |-> k]
      BY <2>1, <2>2, <3>1, PartWords
    <3> QED
      BY <3>2
  <2>4. n <= Len(w) /\ SubSeq(v, 1, n) = SubSeq(w, 1, n)
    BY <1>2, <2>1, <2>2 DEF IsPrefix
  <2>5. v[1] = w[1]
    <3>1. ASSUME NEW z \in Seq(Word), n <= Len(z)  PROVE SubSeq(z, 1, n)[1] = z[1]
      <4>1. \A k \in 1..n : z[k] \in Word
        <5> TAKE k \in 1..n
        <5>1. k \in 1..Len(z)
          BY <1>2, <3>1
        <5> QED
          BY <5>1, ElementOfSeq
      <4>2. \A k \in 1..(n - 1 + 1) : SubSeq(z, 1, n)[k] = z[1 + k - 1]
        BY <1>2, <4>1, SubSeqProperties
      <4>3. 1 \in 1..(n - 1 + 1) /\ 1 + 1 - 1 = 1
        BY <1>2
      <4> QED
        BY <4>2, <4>3
    <3>2. SubSeq(v, 1, n)[1] = v[1] /\ SubSeq(w, 1, n)[1] = w[1]
      BY <1>2, <2>3, <2>4, <3>1
    <3> QED
      BY <2>4, <3>2
  <2>6. 1 \in 1..n /\ 1 \in 1..Len(w)
    BY <1>2, <2>3
  <2>7. [part |-> "index", of |-> i, no |-> 1].of = [part |-> "index", of |-> j, no |-> 1].of
    BY <1>2, <2>3, <2>5, <2>6
  <2>8. i = j
    BY <2>7
  <2> QED
    BY <1>1, <2>1, <2>8
<1> QED
  BY <1>1, <1>4, <1>5

(* The memory that the collected indexes leave has room for the next *)
LEMMA RoomForNext ==
  ASSUME file \in Files, WellFormed(file), Collected, K \in Streams
  PROVE  /\ file.streams[K].mem <= DecoderLimit
         /\ Sums(Mems(file))[K] = Sums(Mems(file))[K - 1] + file.streams[K].mem
<1>1. PICK i, mems, m : i = K /\ mems = Mems(file) /\ m = file.streams[i].mem
  OBVIOUS
<1>2. /\ Len(file.streams) \in Nat /\ DOMAIN file.streams = 1..Len(file.streams)
      /\ i \in DOMAIN file.streams /\ i \in 1..Len(file.streams) /\ m \in Nat
  BY <1>1, ParseAssumption, StreamLengths DEF Streams
<1>3. \A j \in 1..Len(file.streams) : file.streams[j].mem \in Nat
  BY <1>2, StreamLengths
<1>4. mems \in Seq(Nat) /\ Len(mems) = Len(file.streams) /\ mems[i] = m
  BY <1>1, <1>2, <1>3 DEF Mems
<1>5. /\ Sums(mems)[i] = Sums(mems)[i - 1] + m /\ Sums(mems)[i - 1] \in Nat
      /\ SumOf(mems) \in Nat
  <2>1. i - 1 \in 0..Len(mems) /\ i \in 1..Len(mems) /\ Len(mems) \in 0..Len(mems)
        /\ Len(mems) \in Nat
    BY <1>2, <1>4
  <2> QED
    BY <1>4, <2>1, SumsStep, SumsType DEF SumOf
<1>6. SumOf(mems) <= MemLimit /\ MemLimit \in Nat
  BY <1>1, ParseAssumption DEF WellFormed, Mems
<1>7. Mem(file, col) = SumOf(mems) - Sums(mems)[i]
  BY <1>1 DEF Collected
<1>8. m <= MemLimit - Mem(file, col)
  BY <1>2, <1>5, <1>6, <1>7, SMTT(30)
<1> QED
  BY <1>1, <1>5, <1>8 DEF DecoderLimit

LEMMA DecodeIndexAccepts ==
  ASSUME TileInv, Acceptable, Collected, GoesOn, DecodeIndex, fault' = "none"
  PROVE  Collected' /\ GoesOn'
<1>1. /\ pc = "decode" /\ K # 0 /\ padding = Pad(K) /\ footer = K /\ left > 0
      /\ file \in Files /\ WellFormed(file) /\ pos \in Nat /\ left \in Nat /\ H = 3
      /\ EndsAt(pos + left)
      /\ left <= file.streams[footer].backward
      /\ fed = At(pos + left - file.streams[footer].backward,
                  file.streams[footer].backward - left)
  BY DEF DecodeIndex, TileInv, AtPlace, ParseInv, Types, GoesOn, FooterIs, Acceptable, H
<1>2. PICK b, e : Now(b, e)
  BY <1>1, NowIs
<1>3. PICK p, x, t : /\ p = file.streams[K].padding /\ x = file.streams[K].index
                     /\ t = file.streams[K].total
  OBVIOUS
<1>4. /\ b \in Nat /\ e \in Nat /\ e = b + H + t + x /\ Edge = e + H + p /\ Edge <= Size(file)
      /\ p \in Nat /\ x \in Nat \ {0} /\ t \in Nat /\ K \in Streams /\ Size(file) \in Nat
      /\ file.streams[K].backward = x /\ At(e - x, x) = Index(file, K)
  BY <1>2, <1>3 DEF Now
<1>5. pos + left = e
  <2>1. pos + left + H + p = e + H + p
    BY <1>1, <1>3, <1>4 DEF EndsAt, Pad
  <2> QED
    BY <1>1, <1>4, <2>1
<1>6. /\ Want \in Nat \ {0} /\ Want <= left
  BY <1>1, ParseAssumption DEF Want
<1>7. PICK q, m, n, r : q = e - x /\ m = x - left /\ n = Want /\ r = left - n
  OBVIOUS
<1>8. /\ q \in Nat /\ m \in Nat /\ n \in Nat \ {0} /\ r \in Nat /\ n <= left
      /\ q + m = pos /\ m + n = x - r /\ m + n \in Nat
      /\ q + m + n <= Size(file) /\ q + x <= Size(file) /\ pos + n <= Size(file)
      /\ left <= x
  <2>1. left <= x
    BY <1>1, <1>4
  <2> QED
    BY <1>1, <1>4, <1>5, <1>6, <1>7, <2>1, SMTT(30)
<1>9. fed = At(q, m)
  BY <1>1, <1>4, <1>5, <1>7
<1>10. PICK seen : seen = fed \o At(pos, Want)
  OBVIOUS
<1>11. seen = At(q, m + n)
  <2>1. At(q, m) \o At(q + m, n) = At(q, m + n)
    BY <1>1, <1>8, AtJoin
  <2>2. fed \o At(pos, Want) = At(q, m) \o At(q + m, n)
    BY <1>7, <1>8, <1>9
  <2> QED
    BY <1>10, <2>1, <2>2
<1>12. Inside(pos, Want)
  BY <1>1, <1>7, <1>8 DEF Inside
<1>13. /\ r # 0 => Begun(seen) # {}
       /\ r = 0 => Begun(seen) = {}
  <2>1. At(q, x) = Index(file, K)
    BY <1>4, <1>7
  <2>2. /\ m + n < x => K \in Begun(At(q, m + n))
        /\ Begun(At(q, x)) = {}
    <3>1. x = file.streams[K].index
      BY <1>3
    <3> QED
      BY <1>1, <1>4, <1>8, <2>1, <3>1, IndexBegun
  <2>3. (r # 0 => m + n < x) /\ (r = 0 => m + n = x)
    BY <1>4, <1>8
  <2> QED
    BY <1>11, <2>2, <2>3
<1>14. r = 0 => K \in Ends(seen, r)
  <2> SUFFICES ASSUME r = 0  PROVE K \in Ends(seen, r)
    OBVIOUS
  <2>1. m + n = x
    BY <1>4, <1>8
  <2>2. seen = Index(file, K) /\ Len(seen) = x /\ seen \in Seq(Word)
    <3>1. At(q, x) = Index(file, K)
      BY <1>4, <1>7
    <3>2. Index(file, K) \in Seq(Word) /\ Len(Index(file, K)) = x
      BY <1>1, <1>3, <1>4, PartWords
    <3> QED
      BY <1>11, <2>1, <3>1, <3>2
  <2>3. IsPrefix(Index(file, K), seen)
    BY <2>2 DEF IsPrefix
  <2>4. file.streams[K].mem <= DecoderLimit
    BY <1>1, <1>4, RoomForNext
  <2> QED
    BY <1>3, <1>4, <2>2, <2>3, <2>4 DEF Ends, Decoded, Streams
<1>15. \A j \in Ends(seen, r) : r = 0
  BY DEF Ends
<1>16. \/ /\ Want > 0 /\ Begun(seen) # {} /\ left' = r
          /\ UNCHANGED <<file, padding, buf, footer, col, pc>>
       \/ \E i \in Ends(seen, r) :
          /\ left' = r /\ pc' = "header" /\ UNCHANGED <<file, padding, buf, footer, col>>
       \/ ~(Want > 0 /\ Begun(seen) # {}) /\ Ends(seen, r) = {}
  BY <1>7, <1>10, <1>12, Zenon DEF DecodeIndex, ReadFails, FaultIn, IndexMade
<1>17. CASE r = 0
  <2>1. pc' = "header" /\ UNCHANGED <<file, padding, footer, col>>
    BY <1>13, <1>14, <1>16, <1>17
  <2>2. Collected' /\ K' = K /\ Pad(K)' = Pad(K)
    BY <2>1, StillCollected
  <2> QED
    BY <1>1, <2>1, <2>2 DEF GoesOn
<1>18. CASE r # 0
  <2>1. left' = r /\ pc' = pc /\ UNCHANGED <<file, padding, footer, col>>
    BY <1>6, <1>13, <1>15, <1>16, <1>18
  <2>2. Collected' /\ K' = K /\ Pad(K)' = Pad(K)
    BY <2>1, StillCollected
  <2> QED
    BY <1>1, <1>8, <1>18, <2>1, <2>2 DEF GoesOn
<1> QED
  BY <1>17, <1>18

LEMMA DecodeHeaderAccepts ==
  ASSUME TileInv, TileInv', Acceptable, Collected, GoesOn, DecodeHeader, fault' = "none"
  PROVE  Collected' /\ GoesOn'
<1>1. /\ pc = "header" /\ K # 0 /\ padding = Pad(K) /\ footer = K
      /\ file \in Files /\ WellFormed(file) /\ pos \in Nat /\ H = 3 /\ EndsAt(pos)
      /\ cur = << [stream |-> K, padding |-> 0] >> /\ col \in Seq(Entries)
  BY DEF DecodeHeader, TileInv, AtPlace, ParseInv, Types, GoesOn, FooterIs, Acceptable, H
<1>2. PICK b, e : Now(b, e)
  BY <1>1, NowIs
<1>3. PICK p, x, t : /\ p = file.streams[K].padding /\ x = file.streams[K].index
                     /\ t = file.streams[K].total
  OBVIOUS
<1>4. /\ b \in Nat /\ e \in Nat /\ e = b + H + t + x /\ Edge = e + H + p /\ Edge <= Size(file)
      /\ p \in Nat /\ x \in Nat \ {0} /\ t \in Nat /\ K \in Streams /\ K \in Nat \ {0}
      /\ Size(file) \in Nat /\ file.streams[K].backward = x
      /\ At(b, H) = Header(K) /\ b = Sums(Lens(file))[K - 1] /\ (b = 0 <=> K = 1)
      /\ file.streams[K].header = file.streams[K].footer /\ file.streams[K].footer # "bad"
  BY <1>2, <1>3 DEF Now
<1>5. pos = e
  <2>1. pos + H + p = e + H + p
    BY <1>1, <1>3, <1>4 DEF EndsAt, Pad
  <2>2. pos \in Nat /\ e \in Nat /\ p \in Nat /\ H = 3
    BY <1>1, <1>4
  <2> QED
    BY <2>1, <2>2
<1>6. Blocks - Total = b /\ ~(Blocks < Total) /\ b + H <= Size(file)
  <2>1. Blocks = e - (x + H) /\ Total = t
    BY <1>1, <1>3, <1>4, <1>5 DEF Blocks, Total
  <2>2. (e - (x + H)) - t = b /\ ~(e - (x + H) < t) /\ b + H <= Size(file)
    <3>1. /\ b \in Nat /\ e = b + H + t + x /\ e + H + p <= Size(file) /\ p \in Nat
          /\ x \in Nat /\ t \in Nat /\ Size(file) \in Nat /\ H = 3
      BY <1>1, <1>4
    <3> QED
      BY <3>1, SMTT(30)
  <2> QED
    BY <2>1, <2>2
<1>7. Inside(b, H)
  BY <1>1, <1>4, <1>6 DEF Inside
<1>8. HeaderOf(At(b, H)) # {}
  <2>1. K \in HeaderOf(At(b, H))
    BY <1>1, <1>4 DEF HeaderOf, Streams
  <2> QED
    BY <2>1
<1>9. Cat(b)
  BY <1>6, <1>7, <1>8, Zenon DEF DecodeHeader, CheckHeader, CatFails, ReadFails, FaultIn
<1>10. PICK i : i = K
  OBVIOUS
<1>11. PICK d : d = [stream |-> i, padding |-> p]
  OBVIOUS
<1>12. [cur[1] EXCEPT !.padding = padding] = d
  BY <1>1, <1>3, <1>10, <1>11 DEF Pad
<1>13. PICK c : c = << d >> \o col
  OBVIOUS
<1>14. /\ col' = c /\ pos' = b /\ pc' = (IF b > 0 THEN "stream" ELSE "ok") /\ UNCHANGED file
  BY <1>9, <1>12, <1>13 DEF Cat
<1>15. d \in Entries /\ d.stream = i
  BY <1>4, <1>10, <1>11 DEF Entries, Streams
<1>16. /\ Len(c) = Len(col) + 1 /\ Len(col) \in Nat /\ c[1] = d
       /\ \A k \in 1..Len(col) : c[k + 1] = col[k]
  BY <1>1, <1>13, <1>15
<1>17. PICK n : n = Len(file.streams)
  OBVIOUS
<1>18. n \in Nat /\ i = n - Len(col) /\ i \in 1..n /\ i \in Nat
  BY <1>1, <1>4, <1>10, <1>17, ParseAssumption DEF Streams, K
<1>19. K' = i - 1 /\ n - Len(c) = i - 1
  <2>1. n - Len(c) = i - 1
    BY <1>16, <1>18
  <2> QED
    BY <1>14, <1>17, <2>1 DEF K
<1>20. \A k \in 1..Len(c) :
         c[k] = [stream |-> (i - 1) + k, padding |-> file.streams[(i - 1) + k].padding]
  <2> TAKE k \in 1..Len(c)
  <2>1. CASE k = 1
    <3>1. (i - 1) + k = i
      BY <1>18, <2>1
    <3> QED
      BY <1>3, <1>10, <1>11, <1>16, <2>1, <3>1
  <2>2. CASE k # 1
    <3>1. PICK j \in 1..Len(col) : k = j + 1
      <4>1. k - 1 \in 1..Len(col) /\ k = (k - 1) + 1
        BY <1>16, <2>2
      <4> QED
        BY <4>1
    <3>2. (i - 1) + k = i + j
      BY <1>18, <3>1
    <3>3. col[j] = [stream |-> i + j, padding |-> file.streams[i + j].padding]
      BY <1>10 DEF Collected, Pad
    <3> QED
      BY <1>16, <3>1, <3>2, <3>3
  <2> QED
    BY <2>1, <2>2
<1>21. Edge' = b
  <2>1. /\ pc' = "stream" => pos' = Edge'
        /\ pc' = "ok" => Edge' = 0
    BY DEF TileInv, AtPlace
  <2>2. CASE b > 0
    BY <1>14, <2>1, <2>2
  <2>3. CASE b = 0
    BY <1>14, <2>1, <2>3
  <2> QED
    BY <1>4, <2>2, <2>3
<1>22. Mem(file, c) = SumOf(Mems(file)) - Sums(Mems(file))[i - 1]
  <2>1. PICK m, s, r : /\ m = file.streams[i].mem /\ s = Sums(Mems(file))[i]
                       /\ r = SumOf(Mems(file))
    OBVIOUS
  <2>2. PICK q : q = Sums(Mems(file))[i - 1]
    OBVIOUS
  <2>3. Mem(file, c) = m + Mem(file, col)
    <3>1. Entries = EntriesOf(file)
      BY DEF Entries, EntriesOf
    <3> QED
      BY <1>1, <1>13, <1>15, <2>1, <3>1, MemPrepend
  <2>4. Mem(file, col) = r - s
    BY <1>10, <2>1 DEF Collected
  <2>5. s = q + m
    BY <1>1, <1>4, <1>10, <2>1, <2>2, RoomForNext
  <2>6. m \in Nat /\ q \in Nat /\ r \in Nat
    <3>1. m \in Nat
      BY <1>1, <1>4, <1>10, <2>1, StreamLengths DEF Streams
    <3>2. Mems(file) \in Seq(Nat) /\ Len(Mems(file)) = n
      <4>1. DOMAIN file.streams = 1..n
        BY <1>1, <1>17, ParseAssumption
      <4>2. \A j \in 1..n : file.streams[j].mem \in Nat
        BY <1>1, <4>1, StreamLengths
      <4> QED
        BY <1>18, <4>1, <4>2 DEF Mems
    <3>3. i - 1 \in 0..n /\ n \in 0..n
      BY <1>18
    <3> QED
      BY <2>1, <2>2, <3>1, <3>2, <3>3, SumsType DEF SumOf
  <2>7. m + (r - s) = r - q
    BY <2>5, <2>6
  <2> QED
    BY <2>1, <2>2, <2>3, <2>4, <2>7
<1>23. Collected'
  <2>1. K' \in 0..Len(file.streams)'
    BY <1>14, <1>17, <1>18, <1>19
  <2>2. \A k \in 1..Len(col') :
          col'[k] = [stream |-> K' + k, padding |-> Pad(K + k)']
    <3>1. \A k : Pad(K + k)' = file.streams[(i - 1) + k].padding
      BY <1>14, <1>19 DEF Pad
    <3> QED
      BY <1>14, <1>19, <1>20, <3>1
  <2>3. Edge' = Sums(Lens(file))'[K']
    <3>1. Lens(file)' = Lens(file)
      BY <1>14 DEF Lens, StreamWords, Index, Words
    <3>2. Sums(Lens(file))' = Sums(Lens(file))
      BY <3>1 DEF Sums
    <3> QED
      BY <1>4, <1>10, <1>19, <1>21, <3>2
  <2>4. Mem(file, col)' = SumOf(Mems(file))' - Sums(Mems(file))'[K']
    <3>1. Mems(file)' = Mems(file) /\ Mem(file, col)' = Mem(file, c)
      BY <1>14 DEF Mems, Mem
    <3>2. Sums(Mems(file))' = Sums(Mems(file)) /\ SumOf(Mems(file))' = SumOf(Mems(file))
      BY <3>1 DEF Sums, SumOf
    <3> QED
      BY <1>19, <1>22, <3>1, <3>2
  <2> QED
    BY <2>1, <2>2, <2>3, <2>4 DEF Collected
<1>24. GoesOn'
  <2>1. b > 0 <=> K' # 0
    BY <1>4, <1>10, <1>18, <1>19
  <2> QED
    BY <1>14, <2>1 DEF GoesOn
<1> QED
  BY <1>23, <1>24

LEMMA InitAccept == Init => AcceptInv
<1> SUFFICES ASSUME Init  PROVE AcceptInv
  OBVIOUS
<1>1. file \in Files /\ cur = << >> /\ col = << >> /\ pc = "stream" /\ Len(col) = 0
  BY DEF Init
<1>2. << >> \in Seq(EntriesOf(file)) /\ << >> \in Seq(Entries)
  OBVIOUS
<1>3. Mem(file, << >>) = 0
  BY <1>1, <1>2, MemType
<1>4. MemBounded
  BY <1>1, <1>3, ParseAssumption DEF MemBounded
<1>5. ASSUME Acceptable  PROVE Collected /\ GoesOn
  <2>1. PICK n : n = Len(file.streams)
    OBVIOUS
  <2>2. WellFormed(file) /\ n \in Nat \ {0} /\ DOMAIN file.streams = 1..n /\ 1 \in DOMAIN file.streams
    BY <1>1, <1>5, <2>1, ParseAssumption DEF Acceptable, WellFormed
  <2>3. K = n /\ K # 0
    BY <1>1, <2>1, <2>2 DEF K
  <2>4. SumOf(Lens(file)) = Size(file)
    BY <1>1, <2>2, StreamAt
  <2>5. Edge = Sums(Lens(file))[K]
    <3>1. Edge = Size(file)
      BY <1>1, <1>2, EdgeType
    <3>2. Len(Lens(file)) = n
      BY <1>1, <2>1, LensType
    <3> QED
      BY <2>3, <2>4, <3>1, <3>2 DEF SumOf
  <2>6. Mem(file, col) = SumOf(Mems(file)) - Sums(Mems(file))[K]
    <3>1. Mems(file) \in Seq(Nat) /\ Len(Mems(file)) = n
      BY <1>1, <2>2, StreamLengths DEF Mems
    <3>2. Sums(Mems(file))[n] \in Nat
      BY <2>2, <3>1, SumsType
    <3>3. SumOf(Mems(file)) = Sums(Mems(file))[n]
      BY <3>1 DEF SumOf
    <3> QED
      BY <1>1, <1>3, <2>3, <3>2, <3>3
  <2>7. Collected
    BY <1>1, <2>1, <2>2, <2>3, <2>5, <2>6 DEF Collected
  <2>8. GoesOn
    BY <1>1, <2>3 DEF GoesOn
  <2> QED
    BY <2>7, <2>8
<1> QED
  BY <1>4, <1>5, InitTile DEF AcceptInv

LEMMA StepAccept == AcceptInv /\ [Next]_vars => AcceptInv'
<1> SUFFICES ASSUME AcceptInv, [Next]_vars  PROVE AcceptInv'
  OBVIOUS
<1>1. TileInv /\ MemBounded /\ TileInv' /\ MemBounded'
  BY StepTile, StepMem DEF AcceptInv, TileInv
<1>2. ASSUME Acceptable'  PROVE Collected' /\ GoesOn'
  <2>1. CASE UNCHANGED vars
    <3>1. Acceptable /\ UNCHANGED <<file, col>>
      BY <1>2, <2>1 DEF Acceptable, Aligned, WellFormed, vars
    <3>2. Collected /\ GoesOn
      BY <3>1 DEF AcceptInv
    <3>3. Collected' /\ K' = K /\ Pad(K)' = Pad(K) /\ Footer(K)' = Footer(K)
      BY <3>1, <3>2, StillCollected
    <3> QED
      BY <2>1, <3>2, <3>3 DEF GoesOn, vars
  <2>2. CASE Next
    <3>1. UNCHANGED file /\ fault' = "none"
      BY <1>2, <2>2, Zenon
         DEF Acceptable, Next, NextStream, FindFooter, DecodeFooter, DecodeIndex, DecodeHeader,
             RefuseLeftover, IndexMade, CheckHeader, CatFails, Cat, StartDecoder, ReadFails,
             FaultIn, Reject, Fail
    <3>2. pc # "failed"
      BY <2>2 DEF Next, NextStream, FindFooter, DecodeFooter, DecodeIndex, RefuseLeftover,
                  DecodeHeader
    <3>3. Acceptable
      <4>1. fault = "none"
        BY <1>1, <3>2 DEF TileInv, ParseInv, Owned
      <4>2. WellFormed(file) /\ Aligned
        BY <1>2, <3>1 DEF Acceptable, Aligned, WellFormed
      <4> QED
        BY <4>1, <4>2 DEF Acceptable
    <3>4. Collected /\ GoesOn
      BY <3>3 DEF AcceptInv
    <3>5. ~RefuseLeftover
      BY <3>4 DEF GoesOn, RefuseLeftover
    <3> QED
      BY <1>1, <2>2, <3>5, <3>1, <3>3, <3>4, NextStreamAccepts, FindFooterAccepts,
         DecodeFooterAccepts, DecodeIndexAccepts, DecodeHeaderAccepts DEF Next
  <2> QED
    BY <2>1, <2>2
<1> QED
  BY <1>1, <1>2 DEF AcceptInv

THEOREM AcceptInvariant == Spec => []AcceptInv
<1> QED
  BY InitAccept, StepAccept, PTL DEF Spec

(* A well-formed file whose paddings are whole headers is accepted, however  *)
(* many streams it has: no check of read_index's loop refuses it, and its    *)
(* index is that of all streams with their paddings.                         *)
THEOREM AlignedFilesAccepted == Spec => []AlignedAccepted
<1>1. AcceptInv => AlignedAccepted
  <2> SUFFICES ASSUME AcceptInv, Aligned, Done, fault = "none", WellFormed(file)
               PROVE  /\ pc = "ok"
                      /\ col = [i \in DOMAIN file.streams |->
                                  [stream |-> i, padding |-> file.streams[i].padding]]
    BY DEF AlignedAccepted, WellFormedAccepted, Aligned
  <2>1. Collected /\ GoesOn /\ col \in Seq(Entries) /\ file \in Files
    BY DEF AcceptInv, Acceptable, TileInv, ParseInv, Types
  <2>2. pc = "ok" /\ K = 0
    BY <2>1 DEF GoesOn, Done
  <2>3. /\ DOMAIN col = 1..Len(col) /\ Len(col) \in Nat
        /\ DOMAIN file.streams = 1..Len(file.streams) /\ Len(file.streams) \in Nat
    BY <2>1, ParseAssumption
  <2>4. Len(col) = Len(file.streams)
    BY <2>2, <2>3 DEF K
  <2>5. \A i \in 1..Len(col) : col[i] = [stream |-> i, padding |-> file.streams[i].padding]
    <3> TAKE i \in 1..Len(col)
    <3>1. K + i = i
      BY <2>2, <2>3
    <3>2. col[i] = [stream |-> K + i, padding |-> Pad(K + i)]
      BY <2>1 DEF Collected
    <3> QED
      BY <3>1, <3>2 DEF Pad
  <2>6. col = [i \in 1..Len(col) |-> col[i]]
    BY <2>1
  <2> QED
    BY <2>2, <2>3, <2>4, <2>5, <2>6
<1> QED
  BY <1>1, AcceptInvariant, PTL

-----------------------------------------------------------------------------
(* Why read_index returns                                                   *)

(* Where the footer lies, or will be looked for, then how far its stream is *)
(* done with, then what is left of its index                                *)
Rank == CASE pc = "stream" -> 5 [] pc = "footer" -> 4 [] pc = "index" -> 3
          [] pc = "decode" -> 2 [] pc \in {"leftover", "header"} -> 1 [] OTHER -> 0

Descends ==
  \/ pos' + left' < pos + left
  \/ pos' + left' = pos + left /\ Rank' < Rank
  \/ pos' + left' = pos + left /\ Rank' = Rank /\ left' < left

LEMMA FailDescends ==
  ASSUME Fail, pc \in {"stream", "footer", "index", "decode", "leftover", "header"}
  PROVE  Descends
<1>1. pc' = "failed" /\ pos' = pos /\ left' = left
  BY DEF Fail
<1>2. Rank' = 0 /\ Rank > 0
  BY <1>1 DEF Rank
<1> QED
  BY <1>1, <1>2 DEF Descends

LEMMA StepDescends ==
  ASSUME ParseInv, Next
  PROVE  Descends
<1>1. pos \in Nat /\ left \in Nat /\ H = 3
  BY DEF ParseInv, Types, H
<1>2. CASE NextStream
  <2>1. CASE Reject
    BY <1>2, <2>1, FailDescends DEF NextStream, Reject
  <2>2. CASE pos >= 2 * H /\ pos' = pos - H /\ left' = left
    BY <1>1, <2>2 DEF Descends
  <2> QED
    BY <1>2, <2>1, <2>2 DEF NextStream
<1>3. CASE FindFooter
  <2>1. CASE Fail
    BY <1>3, <2>1, FailDescends DEF FindFooter
  <2>2. ASSUME NEW n \in 0..H, pos >= H, pos' = pos - n, left' = left,
               pc' = IF n = H THEN "footer" ELSE "index"
        PROVE  Descends
    <3>1. CASE n = 0
      <4>1. pc' = "index" /\ pc = "footer"
        BY <1>1, <1>3, <2>2, <3>1 DEF FindFooter
      <4>2. Rank' = 3 /\ Rank = 4
        BY <4>1 DEF Rank
      <4>3. pos' + left' = pos + left
        BY <1>1, <2>2, <3>1
      <4> QED
        BY <4>2, <4>3 DEF Descends
    <3>2. CASE n # 0
      BY <1>1, <2>2, <3>2 DEF Descends
    <3> QED
      BY <3>1, <3>2
  <2>3. \/ Fail
        \/ /\ pos >= H /\ pos' = pos - ZeroTail(buf') /\ left' = left
           /\ pc' = IF ZeroTail(buf') = H THEN "footer" ELSE "index"
    BY <1>3 DEF FindFooter, Reject, ReadFails, FaultIn
  <2>4. ZeroTail(buf') \in 0..H
    BY ZeroTailType
  <2> QED
    BY <2>1, <2>2, <2>3, <2>4
<1>4. CASE DecodeFooter
  <2>1. CASE Fail
    BY <1>4, <2>1, FailDescends DEF DecodeFooter
  <2>2. ASSUME NEW i \in Streams, ~(pos < file.streams[i].backward + H),
               pos' = pos - file.streams[i].backward, left' = file.streams[i].backward,
               pc' = "decode"
        PROVE  Descends
    <3>1. PICK size : size = file.streams[i].backward
      OBVIOUS
    <3>2. size \in Nat /\ left = 0 /\ pc = "index"
      BY <1>4, <3>1, FileFacts DEF DecodeFooter, ParseInv, Types, Placed
    <3>3. pos' + left' = pos + left
      BY <1>1, <2>2, <3>1, <3>2
    <3>4. Rank' = 2 /\ Rank = 3
      BY <2>2, <3>2 DEF Rank
    <3> QED
      BY <3>3, <3>4 DEF Descends
  <2>3. \/ Fail
        \/ \E i \in Streams :
             /\ ~(pos < file.streams[i].backward + H)
             /\ pos' = pos - file.streams[i].backward /\ left' = file.streams[i].backward
             /\ pc' = "decode"
    BY <1>4 DEF DecodeFooter, StartDecoder, Reject, FaultIn, FooterOf, Streams
  <2> QED
    BY <2>1, <2>2, <2>3
<1>5. CASE DecodeIndex
  <2>1. CASE Fail
    BY <1>5, <2>1, FailDescends DEF DecodeIndex
  <2>2. Want \in Nat /\ Want <= left /\ pc = "decode"
    BY <1>1, <1>5, ParseAssumption DEF Want, DecodeIndex
  <2>3. ASSUME pos' = pos + Want, left' = left - Want,
               pc' \in {"leftover", "header"} \/ (Want > 0 /\ pc' = pc)
        PROVE  Descends
    <3>1. pos' + left' = pos + left
      BY <1>1, <2>2, <2>3
    <3>2. CASE pc' \in {"leftover", "header"}
      <4>1. Rank' = 1 /\ Rank = 2
        BY <2>2, <3>2 DEF Rank
      <4> QED
        BY <3>1, <4>1 DEF Descends
    <3>3. CASE Want > 0 /\ pc' = pc
      <4>1. Rank' = Rank
        BY <3>3 DEF Rank
      <4>2. left' < left
        BY <1>1, <2>2, <2>3, <3>3
      <4> QED
        BY <3>1, <4>1, <4>2 DEF Descends
    <3> QED
      BY <2>3, <3>2, <3>3
  <2>4. \/ Fail
        \/ /\ pos' = pos + Want /\ left' = left - Want
           /\ pc' \in {"leftover", "header"} \/ (Want > 0 /\ pc' = pc)
    BY <1>5, Zenon DEF DecodeIndex, ReadFails, FaultIn, IndexMade
  <2> QED
    BY <2>1, <2>3, <2>4
<1>6. CASE DecodeHeader
  <2>1. CASE pc' = "failed" /\ UNCHANGED <<pos, left>>
    <3>1. pc = "header" /\ pos' + left' = pos + left
      BY <1>6, <2>1 DEF DecodeHeader
    <3>2. Rank' = 0 /\ Rank = 1
      BY <2>1, <3>1 DEF Rank
    <3> QED
      BY <3>1, <3>2 DEF Descends
  <2>2. CASE ~(Blocks < Total) /\ pos' = Blocks - Total /\ left' = left
    <3>1. /\ footer \in Streams /\ cur \in Seq(Entries) /\ Len(cur) <= 1 /\ cur # << >>
          /\ file \in Files
      BY <1>6 DEF DecodeHeader, ParseInv, Types, Owned, Placed
    <3>2. cur[1] \in Entries
      BY <3>1, OneElement
    <3>3. cur[1].stream \in Streams
      BY <3>2 DEF Entries, Streams
    <3>4. Total \in Nat /\ file.streams[footer].backward \in Nat
      BY <3>1, <3>3, FileFacts DEF Total
    <3>5. Blocks < pos /\ Blocks \in Int
      BY <1>1, <3>4 DEF Blocks
    <3>6. pos' < pos /\ pos' \in Int
      BY <1>1, <2>2, <3>4, <3>5
    <3> QED
      BY <1>1, <2>2, <3>6 DEF Descends
  <2>3. \/ pc' = "failed" /\ UNCHANGED <<pos, left>>
        \/ ~(Blocks < Total) /\ pos' = Blocks - Total /\ left' = left
    BY <1>6, Zenon DEF DecodeHeader, CheckHeader, CatFails, Cat, Reject, ReadFails, FaultIn, Fail
  <2> QED
    BY <2>1, <2>2, <2>3
<1>7. CASE RefuseLeftover
  BY <1>7, FailDescends DEF RefuseLeftover, Reject
<1> QED
  BY <1>2, <1>3, <1>4, <1>5, <1>6, <1>7 DEF Next

(* Every turn of read_index's loops is a step down in a well-founded order  *)
(* (three numbers, compared one after the other): whatever lengths the file *)
(* claims, none of the loops can go on for ever.                            *)
THEOREM EveryTurnDescends == Spec => [][Descends]_vars
<1>1. ParseInv /\ [Next]_vars => [Descends]_vars
  BY StepDescends
<1> QED
  BY <1>1, ParseInvariant, PTL DEF Spec
=============================================================================
