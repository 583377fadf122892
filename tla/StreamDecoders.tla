--------------------------- MODULE StreamDecoders ---------------------------
(***************************************************************************)
(* What the decoding of several multiplexed streams promises: as many       *)
(* decoders as streams, each with references of its own ("Each substream    *)
(* has its own sub-DPB", enums.h), and no frame among the references of     *)
(* two streams.  A multi-stream decoder operation that is repeated starts   *)
(* all of them anew.                                                        *)
(***************************************************************************)
EXTENDS Naturals

CONSTANTS Streams, Buffers

VARIABLES decoding, \* the stream of the current frame
          refs,     \* the reference frames of every stream
          restarts  \* repeated multi-stream decoder operations

vars == <<decoding, refs, restarts>>

Init == /\ decoding \in Streams
        /\ refs = [s \in Streams |-> {}]
        /\ restarts = 0

Begin(s) == /\ decoding' = s
            /\ UNCHANGED <<refs, restarts>>

\* Some references are given up, and the frame that has been decoded may
\* become one.
Decode == /\ \E kept \in SUBSET refs[decoding],
                new \in {{}} \cup {{b} : b \in Buffers \ UNION {refs[s] : s \in Streams}} :
               refs' = [refs EXCEPT ![decoding] = kept \cup new]
          /\ UNCHANGED <<decoding, restarts>>

Restart == /\ refs' = [s \in Streams |-> {}]
           /\ restarts' = restarts + 1
           /\ UNCHANGED decoding

Next == (\E s \in Streams : Begin(s)) \/ Decode \/ Restart

Spec == Init /\ [][Next]_vars
=============================================================================
