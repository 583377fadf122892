---------------------------- MODULE MCPostFilter ----------------------------
(* Instances of PostFilter for TLC: the sizes of the frames. *)
EXTENDS PostFilter

\* two rows of four superblocks, with two rows of 64x64 blocks, and a narrow
\* frame with three
TwoSizes == {[sbRows |-> 2, sbCols |-> 4, fbRows |-> 2],
             [sbRows |-> 2, sbCols |-> 1, fbRows |-> 3]}
=============================================================================
