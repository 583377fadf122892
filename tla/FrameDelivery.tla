---------------------------- MODULE FrameDelivery ----------------------------
(***************************************************************************)
(* What the decoder promises about the delivery of its frames.  A buffer    *)
(* of the pool goes through life after life; in each, the frame in it is    *)
(* handed to the application at most once, however many calls the life      *)
(* spans.  A frame that waits for its turn stays until it is handed over:   *)
(* only the header of a later frame can give it up.  What the current call  *)
(* has handed over is not taken for another frame before the next call.     *)
(***************************************************************************)
EXTENDS Sequences, Naturals

CONSTANT Frames  \* the buffers of the pool

VARIABLES
  phase,  \* "call": of the application, or between calls; "header": the header
          \* of a frame is being read; "over": the stream has ended
  life,   \* of each buffer: "free"; "held" by the decoder; "waiting" in a slot
          \* for its turn; "past": handed over, or not to be handed over any more
  queue   \* what the current call hands over

vars == <<phase, life, queue>>

Queued == {f \in Frames : \E i \in DOMAIN queue : queue[i] = f}
With(S, l) == [f \in Frames |-> IF f \in S THEN l ELSE life[f]]

Init ==
  /\ phase = "call"
  /\ life = [f \in Frames |-> "free"]
  /\ queue = <<>>

\* a call begins: the frames of the last one may be used again
Call ==
  /\ phase = "call"
  /\ \E S \in SUBSET Queued : life' = With(S, "free")
  /\ queue' = <<>>
  /\ UNCHANGED phase

\* a buffer for the next frame
Take(f) ==
  /\ phase = "call"
  /\ life[f] = "free"
  /\ life' = [life EXCEPT ![f] = "held"]
  /\ phase' = "header"
  /\ UNCHANGED queue

\* frames that nobody refers to any more
Unneeded == {f \in Frames \ Queued : life[f] # "waiting"}

\* references end, and the decoder goes on to or from a header
Release ==
  /\ phase # "over" /\ phase' \in {"call", "header"}
  /\ \E S \in SUBSET Unneeded : life' = With(S, "free")
  /\ UNCHANGED queue

\* a header empties slots: key frames, a resynchronisation, the end of the
\* leading pictures
Reset ==
  /\ phase = "header" /\ phase' \in {"call", "header"}
  /\ \E S \in SUBSET (Frames \ Queued) : life' = With(S, "free")
  /\ UNCHANGED queue

\* a header declares frames unfit for output (restricted_prediction_switch)
Retire ==
  /\ phase = "header"
  /\ \E S \in SUBSET {f \in Frames : life[f] # "free"} : life' = With(S, "past")
  /\ UNCHANGED <<phase, queue>>

\* a decoded frame is stored in a slot, where it waits; the slot's last frame goes
Store(f) ==
  /\ phase = "call"
  /\ life[f] = "held"
  /\ \E S \in SUBSET (Unneeded \ {f}) :
       life' = [With(S, "free") EXCEPT ![f] = "waiting"]
  /\ UNCHANGED <<phase, queue>>

\* a frame is handed to the application
Hand(f) ==
  /\ phase = "call"
  /\ life[f] \in {"held", "waiting"}
  /\ life' = [life EXCEPT ![f] = "past"]
  /\ queue' = Append(queue, f)
  /\ UNCHANGED phase

\* the stream has ended: the application still reads the last frames
End ==
  /\ phase = "call" /\ phase' = "over"
  /\ \E S \in SUBSET Queued : life' = With(S, "free")
  /\ UNCHANGED queue

Next ==
  \/ Call
  \/ \E f \in Frames : Take(f)
  \/ Release
  \/ Reset
  \/ Retire
  \/ \E f \in Frames : Store(f)
  \/ \E f \in Frames : Hand(f)
  \/ End

Spec == Init /\ [][Next]_vars
=============================================================================
