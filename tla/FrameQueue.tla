---------------------------- MODULE FrameQueue ----------------------------
(***************************************************************************)
(* What the encoder's look-ahead promises to its readers.  The source      *)
(* frames are numbered 1, 2, ... in the order the application hands them   *)
(* in.  Every reader is given each of them once and in that order, and the *)
(* stage that codes never overtakes the stage that analyses.               *)
(***************************************************************************)
EXTENDS Integers

CONSTANTS
  Encode,   \* the reader that codes the frames
  Lap       \* the reader that analyses them first

VARIABLES
  readers,  \* the readers in use
  given,    \* number of frames handed in
  taken,    \* number of frames a reader has taken
  got       \* the frame a reader took last, 0 before the first

vars == <<readers, given, taken, got>>

Init ==
  /\ readers \in {{Encode}, {Encode, Lap}}
  /\ given = 0
  /\ taken = [r \in {Encode, Lap} |-> 0]
  /\ got = [r \in {Encode, Lap} |-> 0]

Accept ==
  /\ given' = given + 1
  /\ UNCHANGED <<readers, taken, got>>

Take(r) ==
  /\ taken[r] < given
  /\ r = Encode /\ Lap \in readers => taken[Encode] < taken[Lap]
  /\ taken' = [taken EXCEPT ![r] = @ + 1]
  /\ got' = [got EXCEPT ![r] = taken[r] + 1]
  /\ UNCHANGED <<readers, given>>

Next == Accept \/ \E r \in readers : Take(r)

Spec == Init /\ [][Next]_vars
=============================================================================
