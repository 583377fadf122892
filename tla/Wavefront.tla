------------------------------ MODULE Wavefront ------------------------------
(***************************************************************************)
(* What the row-parallel decoding or encoding of one frame promises: the    *)
(* superblocks are processed by anybody, in any order, one at a time or     *)
(* many at once, but each of them once, and none before the superblocks of  *)
(* its tile it is predicted from: those to its left, and those above up to  *)
(* the one above and to the right (decodeframe.c, comment of sync_read's    *)
(* distance nsync).  A frame that is reported good is complete.  Modules    *)
(* RowMT (decoder) and EncRowMT (encoder) implement this specification; the *)
(* names are the decoder's.                                                 *)
(***************************************************************************)
EXTENDS Integers

CONSTANTS NumTiles, \* tiles of the frame
          Rows,     \* superblock rows of each tile
          Cols      \* superblock columns of each tile

Tiles == 0..(NumTiles - 1)
SbRows == UNION {{t} \X (0..(Rows[t] - 1)) : t \in Tiles}
Sbs == UNION {{t} \X (0..(Rows[t] - 1)) \X (0..(Cols[t] - 1)) : t \in Tiles}

\* the superblocks <<t, r, c>> is predicted from, beyond those of earlier rows
\* that these already needed
Neighbours(t, r, c) ==
  {<<t, r, k>> : k \in 0..(c - 1)} \cup
  {<<t, r - 1, k>> : k \in {j \in 0..(c + 1) : r > 0 /\ j < Cols[t]}}

VARIABLES busy,     \* a frame is being decoded
          decoding, \* superblocks somebody is working on
          decoded,  \* superblocks that are finished
          good      \* the last frame was reported to be good

vars == <<busy, decoding, decoded, good>>

Init == /\ busy = FALSE
        /\ decoding = {}
        /\ decoded = {}
        /\ good = TRUE

Start == /\ ~busy
         /\ busy' = TRUE
         /\ decoded' = {}
         /\ UNCHANGED <<decoding, good>>

Begin(sb) == /\ busy
             /\ sb \notin decoding \cup decoded
             /\ Neighbours(sb[1], sb[2], sb[3]) \subseteq decoded
             /\ decoding' = decoding \cup {sb}
             /\ UNCHANGED <<busy, decoded, good>>

Finish(sb) == /\ sb \in decoding
              /\ decoding' = decoding \ {sb}
              /\ decoded' = decoded \cup {sb}
              /\ UNCHANGED <<busy, good>>

End == /\ busy
       /\ decoding = {}
       /\ busy' = FALSE
       /\ good' \in BOOLEAN
       /\ good' => decoded = Sbs
       /\ UNCHANGED <<decoding, decoded>>

Next == \/ Start
        \/ \E sb \in Sbs : Begin(sb) \/ Finish(sb)
        \/ End

Spec == Init /\ [][Next]_vars
=============================================================================
