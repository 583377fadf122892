------------------------------ MODULE MCEncRowMT ------------------------------
(* Instances of EncRowMT for TLC: the sizes of the tiles. *)
EXTENDS EncRowMT

\* a tile of four rows of five superblocks, and one of two rows of one
MixedRows == [t \in Tiles |-> IF t = 0 THEN 4 ELSE 2]
MixedCols == [t \in Tiles |-> IF t = 0 THEN 5 ELSE 1]
=============================================================================
