------------------------------- MODULE MCDPB -------------------------------
(* Instances of DPB for TLC. *)
EXTENDS DPB, TLC

\* Buffers are found by a linear search, and any free one will do.
BufferSymmetry == Permutations(Buffers)
=============================================================================
