--------------------------- MODULE MCXzIndexParse ---------------------------
(* read_index on small files: up to two streams, each well-formed or damaged *)
(* in one way, after nothing, some junk or enough junk to look for a footer  *)
(* in it.  The blocks' and indexes' lengths lie around the buffer's.         *)
EXTENDS XzIndexParse

Good(b, i, p) ==
  [blocks |-> b, index |-> i, gap |-> 0, padding |-> p,
   backward |-> i, total |-> b, mem |-> 1,
   header |-> "crc32", footer |-> "crc32"]

MCPaddings == {0, 3, 6}
MCSound == { Good(b, i, p) : b \in {0, 2}, i \in {2, 5}, p \in MCPaddings }

(* The ways a stream can be damaged, and an index that is large *)
MCBase == Good(2, 5, 0)
MCDamaged ==
  { [MCBase EXCEPT !.backward = n] : n \in {1, 4, 7, 100} }
    \cup { [MCBase EXCEPT !.gap = 1, !.backward = n] : n \in {5, 6} }
    \cup { [MCBase EXCEPT !.total = n] : n \in {0, 1, 3, 100} }
    \cup { [MCBase EXCEPT !.header = s] : s \in {"crc64", "bad"} }
    \cup { [MCBase EXCEPT !.footer = s] : s \in {"crc64", "bad"} }
    \cup { [MCBase EXCEPT !.header = "crc64", !.footer = "crc64"] }
    \cup { [MCBase EXCEPT !.mem = n] : n \in {2, 3, 4} }
    \cup { [MCBase EXCEPT !.padding = n] : n \in {1, 2, 4} }

(* A second stream that claims the first one's bytes as its blocks *)
MCSwallow == << Good(2, 2, 0), [Good(2, 2, 0) EXCEPT !.total = 2 + 2 + H + H + 2] >>

MCJunk == { << >>, <<Junk>>, [k \in 1..7 |-> Junk], [k \in 1..7 |-> Zero] }

MCFiles ==
  [junk : MCJunk, streams : BoundedSeq(MCSound \cup MCDamaged, 2)]
    \cup { [junk |-> << >>, streams |-> MCSwallow] }
    \cup { [junk |-> << >>, streams |-> << Good(0, 2, 3), s, Good(2, 2, 0) >>] : s \in MCSound }

(* Paddings that are a multiple of a word, not of a header *)
MCPadded == { [junk |-> << >>, streams |-> << Good(2, 5, p), Good(0, 2, q) >>] :
                p \in 0..7, q \in 0..7 }
=============================================================================
