---------------------------- MODULE MCFileReader ----------------------------
(* Two readers over a file of each kind and one that could not be opened;   *)
(* buffers and pages are of 2 bytes.  Addresses are interchangeable.        *)
EXTENDS FileReader, TLC

CONSTANTS r1, r2, plain, mapped, packed, missing, s1, s2

MCReaders == {r1, r2}
MCFiles   == {plain, mapped, packed, missing}
MCStates  == {s1, s2}
MCKind    == plain :> "normal" @@ mapped :> "mmapped" @@ packed :> "compressed"
               @@ missing :> "mmapped"
MCSize    == plain :> 3 @@ mapped :> 4 @@ packed :> 3 @@ missing :> 0
MCOpened  == MCFiles \ {missing}
MCOffsets == {-1, 0, 1, 5}
MCLengths == {2, ToEnd}
MCRequests == {1, 3}
Symmetric == Permutations(MCReaders) 
=============================================================================
