---------------------------- MODULE LookAhead -----------------------------
(***************************************************************************)
(* The encoder's look-ahead (encoder/lookahead.c) and the calls that drive *)
(* it: a ring of source frames with two read positions, one of the encoder *)
(* itself and one of the look-ahead pass (LAP) that collects statistics    *)
(* ahead of it; the buffer of those statistics; and encoder_encode, which  *)
(* pushes a frame, lets LAP take at most one and codes frames until one is *)
(* visible.                                                                *)
(*                                                                         *)
(* Which hidden frames are coded, and when, is decided by the GOP          *)
(* structure: here any frame ahead may be coded hidden, once; and whether  *)
(* the hidden frames that wait in cx_data for a shown one leave room for   *)
(* another is a choice, cx_data being of one size throughout.  The ring of *)
(* BRU (extra_sz) and errors raised while coding are left out.             *)
(***************************************************************************)
EXTENDS Integers, Sequences

CONSTANTS
  Lags,         \* the values of g_lag_in_frames considered
  MaxLap,       \* bound on num_lap_buffers: MAX_LAP_BUFFERS, key distance
  LapLag,       \* LAP_LAG_IN_FRAMES
  Sizes,        \* frame sizes, ordered
  AllocFails,   \* whether an allocation in av2_lookahead_push may fail
  MaxFrames     \* bound on the frames the application hands in

ASSUME LagsAssumption == Lags \subseteq Nat /\ MaxLap \in Nat
ASSUME LapLagAssumption == LapLag \in Nat \ {0}
ASSUME SizesAssumption == Sizes \subseteq Nat
ASSUME AllocAssumption == AllocFails \in BOOLEAN

Encode == "encode"
Lap == "lap"
Stages == {Encode, Lap}

VARIABLES
  lag,         \* g_lag_in_frames
  cbr,         \* constant bit rate: no look-ahead pass, frames may be dropped
  frmSize,     \* the size set last by encoder_set_config
  given,       \* number of images the look-ahead accepted
  buf,         \* buf[i].img: the number of the image in an entry, 0 if none
  bufSize,     \* the size an entry is allocated for
  write_idx,
  read_idx,    \* read_ctxs[stage].read_idx
  sz,          \* read_ctxs[stage].sz
  stats,       \* stats_in_start .. stats_in_end: the frames they describe
  pc,          \* "app", or the stage encoder_encode is at
  flush,       \* img == NULL
  hidden,      \* frames coded as hidden and not yet shown
  filtered,    \* the next frame was coded as a filtered key frame
  visible,     \* is_frame_visible: a packet was added in this call
  got,         \* the source each stage popped last
  pending,     \* pending_cx_data: "none", "some", or "half" if what it leaves
               \* of cx_data is less than half
  room,        \* the while condition on cx_data_sz - index_size
  cut          \* history: that condition has ended some call

config == <<lag, cbr>>
ring == <<buf, bufSize, write_idx>>
output == <<pending, room, cut>>
vars == <<config, frmSize, given, ring, read_idx, sz, stats, pc, flush,
          hidden, filtered, visible, got, output>>

NoPreFrames == 0
MAX_PRE_FRAMES == 1
AtMost(a, b) == IF a <= b THEN a ELSE b
AtLeast(a, b) == IF a >= b THEN a ELSE b

-----------------------------------------------------------------------------
(* The sizes encoder_init and av2_lookahead_init choose.                    *)

num_lap_buffers == IF cbr THEN 0 ELSE AtMost(lag, MaxLap)

lag_in_frames ==
  IF num_lap_buffers = 0 THEN lag
  ELSE IF lag - num_lap_buffers >= LapLag THEN LapLag ELSE 0

pop_sz == [s \in Stages |-> IF s = Lap THEN AtLeast(1, lag_in_frames)
                            ELSE AtLeast(1, lag_in_frames + num_lap_buffers)]

max_sz == pop_sz[Encode] + MAX_PRE_FRAMES

valid == IF num_lap_buffers > 0 THEN Stages ELSE {Encode}

get_stats_buf_size == num_lap_buffers + 1

WrapLate(i) ==
  IF i > max_sz THEN i - max_sz ELSE IF i < 0 THEN i + max_sz ELSE i
Wrap(i) == IF i >= max_sz THEN i - max_sz ELSE IF i < 0 THEN i + max_sz ELSE i

-----------------------------------------------------------------------------
Init ==
  /\ lag \in Lags
  /\ cbr \in BOOLEAN
  /\ frmSize \in Sizes
  /\ given = 0
  /\ buf = [i \in 0..max_sz - 1 |-> 0]
  /\ bufSize = [i \in 0..max_sz - 1 |-> frmSize]
  /\ write_idx = 0
  /\ read_idx = [s \in Stages |-> 0]
  /\ sz = [s \in Stages |-> 0]
  /\ stats = <<>>
  /\ pc = "app"
  /\ flush = FALSE
  /\ hidden = {}
  /\ filtered = FALSE
  /\ visible = FALSE
  /\ got = [s \in Stages |-> 0]
  /\ pending = "none"
  /\ room = TRUE
  /\ cut = FALSE

Peek(index, s) == buf[Wrap(read_idx[s] + index)]

CanPopFull(s) == sz[s] > 0 /\ sz[s] = pop_sz[s]
CanPop(s) == sz[s] > 0 /\ (flush \/ sz[s] = pop_sz[s])

av2_lookahead_pop(s) ==
  /\ got' = [got EXCEPT ![s] = Peek(0, s)]
  /\ read_idx' = [read_idx EXCEPT ![s] = Wrap(@ + 1)]
  /\ sz' = [sz EXCEPT ![s] = @ - 1]

-----------------------------------------------------------------------------
(* The application.                                                         *)

\* The frame size may change only with a lag of at most one, and without LAP
\* the same call may shorten the lag: the ring keeps the sizes it has.
encoder_set_config(s) ==
  /\ pc = "app"
  /\ s # frmSize
  /\ num_lap_buffers = 0 \/ lag <= 1
  /\ frmSize' = s
  /\ UNCHANGED <<config, given, ring, read_idx, sz, stats, pc, flush, hidden,
                 filtered, visible, got, output>>

CalledNoLapInFlush(drain) ==
  /\ pc = "app"
  /\ flush' = drain
  /\ visible' = FALSE
  /\ room' = (pending # "half")
  /\ pc' = CASE ~room' -> "app"
             [] room' /\ num_lap_buffers > 0 /\ ~drain -> "lap"
             [] OTHER -> "encode"
  /\ UNCHANGED <<config, frmSize, stats, hidden, filtered, got, pending, cut>>

\* A call of encoder_encode, after the push: it fails at once if the frames
\* that are pending leave too little of cx_data.
Called(drain) ==
  /\ pc = "app"
  /\ flush' = drain
  /\ visible' = FALSE
  /\ room' = (pending # "half")
  /\ pc' = CASE ~room' -> "app"
             [] room' /\ num_lap_buffers > 0 -> "lap"
             [] OTHER -> "encode"
  /\ UNCHANGED <<config, frmSize, stats, hidden, filtered, got, pending, cut>>

\* av2_lookahead_push: the indices advance before the entry is filled, and an
\* entry that is too small is allocated anew in between.
av2_lookahead_push(img) ==
  /\ sz' = [s \in Stages |-> IF s \in valid THEN sz[s] + 1 ELSE sz[s]]
  /\ write_idx' = Wrap(write_idx + 1)
  /\ \/ /\ buf' = [buf EXCEPT ![write_idx] = img]
        /\ bufSize' = [bufSize EXCEPT ![write_idx] = AtLeast(@, frmSize)]
     \/ /\ AllocFails /\ frmSize > bufSize[write_idx]
        /\ UNCHANGED <<buf, bufSize>>

Full == sz[Encode] + 1 + MAX_PRE_FRAMES > max_sz

\* encoder_encode with an image.  A push that is refused, or whose allocation
\* fails, sets no error code: the call goes on as if it had succeeded.
Push ==
  /\ given < MaxFrames
  /\ Called(FALSE)
  /\ \/ /\ ~Full
        /\ given' = given + 1
        /\ av2_lookahead_push(given + 1)
     \/ /\ Full
        /\ UNCHANGED <<given, ring, sz>>
  /\ UNCHANGED read_idx

Flush ==
  /\ Called(TRUE)
  /\ UNCHANGED <<given, ring, read_idx, sz>>

-----------------------------------------------------------------------------
(* encoder_encode after the push.                                           *)

\* The look-ahead pass takes a frame if it may and stores its statistics.
LapStage ==
  /\ pc = "lap"
  /\ pc' = "encode"
  /\ IF CanPop(Lap)
       THEN /\ av2_lookahead_pop(Lap)
            /\ stats' = Append(stats, got'[Lap])
       ELSE UNCHANGED <<got, read_idx, sz, stats>>
  /\ UNCHANGED <<config, frmSize, given, ring, flush, hidden, filtered, visible,
                 output>>

ReadStatsAgain ==
  stats' = IF stats = <<>> THEN stats ELSE Tail(stats)

\* input_stats_lap: the first statistics are read and the others moved down.
ReadStats ==
  stats' = IF stats = <<>> \/ filtered THEN stats ELSE Tail(stats)

Encodes == pc = "encode" /\ ~visible /\ room /\ CanPop(Encode)

Kept == UNCHANGED <<config, frmSize, given, ring, pc, flush, cut>>

\* A frame that is not shown stays in cx_data.  What it leaves may be less than
\* half of the buffer, or only once the bytes of an index are counted.
Pends ==
  /\ pending' \in {"some", "half"}
  /\ room' \in BOOLEAN
  /\ pending' = "half" => ~room'

\* A hidden frame: the source is read in place.
CodeHidden(k) ==
  /\ Encodes
  /\ Peek(k, Encode) \notin hidden
  /\ hidden' = hidden \union {Peek(k, Encode)}
  /\ Pends
  /\ Kept
  /\ UNCHANGED <<read_idx, sz, stats, filtered, visible, got>>

\* A filtered key frame: hidden, to be shown by its overlay.
CodeFiltered ==
  /\ Encodes
  /\ ~filtered
  /\ filtered' = TRUE
  /\ ReadStats
  /\ Pends
  /\ Kept
  /\ UNCHANGED <<read_idx, sz, hidden, visible, got>>

\* The frame is coded and shown: a packet of it and of what is pending ends
\* the call.
CodeShown ==
  /\ Encodes
  /\ av2_lookahead_pop(Encode)
  /\ ReadStats
  /\ visible' = TRUE
  /\ hidden' = hidden \ {got'[Encode]}
  /\ filtered' = FALSE
  /\ pending' = "none"
  /\ Kept
  /\ UNCHANGED room

\* av2_rc_drop_frame: the frame is popped and no packet made of it.
Drop ==
  /\ Encodes
  /\ cbr
  /\ got[Encode] > 0
  /\ ~filtered
  /\ av2_lookahead_pop(Encode)
  /\ hidden' = hidden \ {got'[Encode]}
  /\ Kept
  /\ UNCHANGED <<stats, filtered, visible, pending, room>>

\* The loop ends with a packet, when there is nothing to code yet, or for want
\* of room: the call is then as good as one that has nothing to code.
Return ==
  /\ pc = "encode"
  /\ visible \/ ~room \/ ~CanPop(Encode)
  /\ pc' = "app"
  /\ cut' = (cut \/ ~(visible \/ room))
  /\ UNCHANGED <<config, frmSize, given, ring, read_idx, sz, stats, flush,
                 hidden, filtered, visible, got, pending, room>>

EncodeStage ==
  \/ \E k \in 1..sz[Encode] - 1 : CodeHidden(k)
  \/ CodeFiltered
  \/ CodeShown
  \/ Drop
  \/ Return

Next ==
  \/ \E s \in Sizes : encoder_set_config(s)
  \/ Push \/ Flush
  \/ LapStage
  \/ EncodeStage

Spec == Init /\ [][Next]_vars

-----------------------------------------------------------------------------
(* Properties.                                                              *)

TypeOK ==
  /\ lag \in Lags /\ cbr \in BOOLEAN /\ frmSize \in Sizes
  /\ given \in Nat
  /\ buf \in [0..max_sz - 1 -> 0..given]
  /\ bufSize \in [0..max_sz - 1 -> Sizes]
  /\ write_idx \in 0..max_sz - 1
  /\ read_idx \in [Stages -> 0..max_sz - 1]
  /\ sz \in [Stages -> 0..pop_sz[Encode]]
  /\ stats \in Seq(1..given)
  /\ pc \in {"app", "lap", "encode"}
  /\ flush \in BOOLEAN /\ filtered \in BOOLEAN /\ visible \in BOOLEAN
  /\ hidden \subseteq 1..given
  /\ got \in [Stages -> 0..given]
  /\ pending \in {"none", "some", "half"} /\ room \in BOOLEAN /\ cut \in BOOLEAN

FramesKept ==
  \A s \in valid, k \in -1..max_sz - 2 :
    k < sz[s] /\ given - sz[s] + k + 1 > 0
      => Peek(k, s) = given - sz[s] + k + 1

\* The frames a reader can peek at are the frames it has not taken, in order,
\* and one before them is the frame it took last (av2_lookahead_peek of -1,
\* the last source): no push overwrites either (lookahead.c:108).  And the next
\* image finds an entry of the ring, so that av2_receive_raw_frame does not
\* lose it, unless the last call failed or was cut short for want of room.
PeeksInOrder ==
  /\ FramesKept
  /\ pc = "app" /\ room => ~Full

\* The statistics wait in the order of the frames, and the first are of the
\* frame to be coded next.  As long as no call is cut short for want of room,
\* they never outgrow the array of num_lap_buffers + 1 entries that
\* update_firstpass_stats fills without a check.
StatsMatch ==
  LET next == got[Encode] + (IF filtered THEN 2 ELSE 1)
  IN num_lap_buffers > 0 =>
       /\ ~cut => Len(stats) <= get_stats_buf_size
       /\ \A i \in 1..Len(stats) : stats[i] = next + i - 1
       /\ pc = "encode" /\ CanPop(Encode) /\ ~filtered /\ ~visible
            => stats # <<>>

\* A call to flush that returns without a packet has nothing left to code, as
\* the documentation of avm_codec_encode tells the application: true of every
\* flush that neither fails nor ends because hidden frames fill half of cx_data
\* (the first condition of the loop at av2_cx_iface.c:3256), in which case
\* frames are left behind.
FlushMeansDone ==
  pc = "app" /\ flush /\ ~visible /\ room
    => \A s \in valid : sz[s] = 0 /\ got[s] = given

\* Every frame accepted reaches each reader once and in order, and the
\* encoder never takes a frame the look-ahead pass has not taken.
Queue == INSTANCE FrameQueue WITH
  readers <- valid,
  taken <- [s \in Stages |-> IF s \in valid THEN given - sz[s] ELSE 0]

Implements == Queue!Spec

\* "This function will copy the source image into a new framebuffer"
\* (lookahead.h:78): once the push of a call is done, the newest entry holds
\* the image of that call.
CopiesImage ==
  pc # "app" /\ ~flush => buf[Wrap(write_idx - 1)] = given
=============================================================================
