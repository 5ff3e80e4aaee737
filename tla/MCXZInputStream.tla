-------------------------- MODULE MCXZInputStream --------------------------
(* Two threads, arrays of six ints, contents of two ints and a byte.  Byte  *)
(* counts up to 11 fit: two ints do, three and four do not and wrap around  *)
(* to a negative number, six to 0, and minus five to a positive one.  An    *)
(* archive ends there, goes on with its last four bytes, or has an empty    *)
(* last block.                                                              *)
EXTENDS XZInputStream, TLC

CONSTANTS t1, t2

MCThreads == {t1, t2}
Symmetric == Permutations(MCThreads)
One == [offset |-> 1, start |-> 1, length |-> 1]
MCArgs == [offset : {1, 4}, start : {2}, length : {2}]
            \cup { [One EXCEPT !.offset = o] : o \in {-1, 7, 9, 10} }
            \cup { [One EXCEPT !.start = s] : s \in {-1, 5, 6, 7} }
            \cup { [One EXCEPT !.length = n] : n \in {-5, -1, 0, 3, 5, 6} }
            \cup { [One EXCEPT !.start = 0, !.length = 6],
                  [One EXCEPT !.start = -1, !.length = 2] }
MCLasts == {NoMore, 5, 9}
MCFewArgs == [offset : {0, 4}, start : {0}, length : {1}]
=============================================================================
