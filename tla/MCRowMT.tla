------------------------------- MODULE MCRowMT -------------------------------
(* Instances of RowMT for TLC: the sizes of the tiles. *)
EXTENDS RowMT

\* three rows of three superblocks
TallRows == [t \in Tiles |-> 3]
TallCols == [t \in Tiles |-> 3]

\* a tile of three rows of three superblocks, and one of a single superblock
MixedRows == [t \in Tiles |-> IF t = 0 THEN 3 ELSE 1]
MixedCols == [t \in Tiles |-> IF t = 0 THEN 3 ELSE 1]
=============================================================================
