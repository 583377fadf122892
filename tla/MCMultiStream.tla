--------------------------- MODULE MCMultiStream ---------------------------
(* Instances of MultiStream for TLC. *)
EXTENDS MultiStream, TLC

\* Buffers are found by a linear search, and any free one will do.
BufferSymmetry == Permutations(Buffers)
=============================================================================
