---------------------------- MODULE MCIdxArchive ----------------------------
(* Archives for read_index and inputs for the tools.  Archives from         *)
(* elsewhere are sound ones with indexes of up to three numbers, and one    *)
(* archive of two full blocks damaged in each of the places that            *)
(* read_index looks at.                                                     *)
EXTENDS IdxArchive

Footer(i, b, f, l) ==
  [index_size |-> i, block_size |-> b, full_blocks |-> f, last_block |-> l]

(* Blocks of the lengths lens, a last one of z bytes, an index of c bytes *)
Archive(lens_, z, c) ==
  [size |-> HeaderBytes + 2 * Len(lens_) + z + c + FooterBytes, magic |-> TRUE,
   footer |-> Footer(c, 3, Len(lens_), 2), lens |-> lens_, tail |-> 0,
   clen |-> c, intact |-> TRUE]

Sound == { Archive(ls, z, c) : ls \in {<< >>, <<2>>, <<2, 2>>, <<2, 2, 2>>},
                               z \in {0, 2}, c \in {1, 2, 3, 5} }
One == Archive(<<2, 2>>, 2, 5)
Footers(field, values) == { [One EXCEPT !.footer[field] = n] : n \in values }

Damaged ==
  { [One EXCEPT !.size = n] : n \in 0..40 }
    \cup { [One EXCEPT !.magic = FALSE], [One EXCEPT !.intact = FALSE] }
    \cup { [One EXCEPT !.tail = n] : n \in 1..3 }
    \cup { [One EXCEPT !.clen = n] : n \in {1, 4, 6, 10} }
    \cup { [One EXCEPT !.lens = ls] :
             ls \in {<<0, 0>>, <<2, 9>>, <<4, 0>>, <<5, 0>>, <<2, 2, 2, 2>>} }
    \cup Footers("index_size", 0..16)
    \cup { [One EXCEPT !.size = n, !.footer.index_size = 15] : n \in 24..36 }
    \cup Footers("block_size", {0, 10, 14, 15, 16})
    \cup Footers("full_blocks", {0, 1, 3, 4, 5, 15, 16})
    \cup Footers("last_block", {0, 4, 15, 16})
    \cup { [One EXCEPT !.footer.block_size = 15, !.footer.full_blocks = n,
                       !.lens = [k \in 1..n |-> 1]] : n \in {3, 4} }

MCArchives == Sound \cup Damaged

(* Inputs that an int counts fit; idx_large has others *)
ASSUME SmallInputsFit == (\A n \in Inputs : n <= MaxInt) => InputsFit
=============================================================================
