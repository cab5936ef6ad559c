--------------------------- MODULE MCSharedStore ---------------------------
(***************************************************************************)
(* SharedStore for TLC.  An int has 3 bits and a long 5, so that the       *)
(* lengths below are a malformed and a good one, and the indices a good    *)
(* one, one that wraps to 0, and LongMax, which wraps to -1.               *)
(***************************************************************************)
EXTENDS SharedStore

MCLengths == {0, 1}
MCIndices == {1, 8, 15}
=============================================================================
