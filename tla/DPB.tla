-------------------------------- MODULE DPB --------------------------------
(***************************************************************************)
(* The decoded picture buffer of the AV2 decoder: the pool of reference     *)
(* counted frame buffers, the reference slots ref_frame_map, the current    *)
(* frame, and the queue of frames handed to the application.                *)
(*                                                                          *)
(* One call of avm_codec_decode() with n frame units is Decode(n) followed  *)
(* by the steps of its units; a call with no data is Flush.  An error (a    *)
(* longjmp to av2_receive_compressed_data) may strike a unit at any step of *)
(* its header and of its tiles: Fail.                                       *)
(*                                                                          *)
(* Modelled: one stream, one embedded layer (max_mlayer_id = 0), no random  *)
(* access, no bridge frames, BRU and still pictures.                        *)
(***************************************************************************)
EXTENDS Integers, Sequences, FiniteSets

CONSTANTS
  Buffers,          \* pool->frame_bufs
  NoBuf,            \* a NULL RefCntBuffer pointer
  NumSlots,         \* REF_FRAMES
  RefFramesChoices, \* the ref_frames of the sequence headers of the stream
  MaxOrder,         \* bound on display order hints
  LongTermIds,      \* the long_term_id a key frame may carry
  MaxUnits,         \* frame units in one call, at most
  Kinds,            \* the OBU types of the stream
  ReuseAfterFlush   \* the application decodes or flushes again after a flush

Slots == 0..(NumSlots - 1)
AllKinds == {"CLK", "OLK", "REGULAR", "LEADING", "SWITCH", "RAS",
             "REGULAR_SEF", "LEADING_SEF"}

ASSUME BuffersAssumption == IsFiniteSet(Buffers) /\ NoBuf \notin Buffers
ASSUME NumSlotsAssumption == NumSlots \in Nat \ {0}
ASSUME RefFramesAssumption == RefFramesChoices \subseteq 1..NumSlots
ASSUME MaxOrderAssumption == MaxOrder \in Nat
ASSUME LongTermIdsAssumption == LongTermIds \subseteq Nat /\ 0 \in LongTermIds
ASSUME MaxUnitsAssumption == MaxUnits \in Nat \ {0}
ASSUME KindsAssumption == Kinds \subseteq AllKinds
ASSUME ReuseAssumption == ReuseAfterFlush \in BOOLEAN

VARIABLES
  pc,         \* where the decoder is in the call
  units,      \* frame units left in the call
  unit,       \* what the headers of the current frame unit said
  todo,       \* slots update_frame_buffers has still to refresh
  trigger,    \* trigger_frame of output_frame_buffers
  reach,      \* the last order hint output after the trigger frame
  ret,        \* where output_frame_buffers returns to
  refFrames,  \* cm->seq_params.ref_frames; 0: no sequence header active
  refMap,     \* cm->ref_frame_map
  longTerm,   \* pbi->long_term_ids_in_buffer
  cur,        \* cm->cur_frame
  outputs,    \* pbi->output_frames, num_output_frames of them
  dropped,    \* how many of them a flush has already dropped its reference to
  refCount,   \* RefCntBuffer.ref_count
  data,       \* raw_frame_buffer.data # NULL
  frame,      \* other fields of a RefCntBuffer; history: is it a leading picture
  olk,        \* pbi->olk_encountered
  olkFlags,   \* cm->olk_refresh_frame_flags ({} stands for -1 too)
  olkCoFlags, \* cm->olk_co_vcl_refresh_frame_flags ({} stands for -1 too)
  lastOlk,    \* cm->last_olk_disp_order_hint
  needResync, \* pbi->need_resync
  decodingFirst, \* pbi->decoding_first_frame
  beforeError \* history: the buffers in ref_frame_map when a unit last failed

bufferVars == <<refCount, data, frame>>
loopVars == <<todo, trigger, reach, ret>>
olkVars == <<olk, olkFlags, olkCoFlags, lastOlk>>
stateVars == <<needResync, decodingFirst>>
vars == <<pc, units, unit, loopVars, refFrames, refMap, longTerm, cur, outputs,
          dropped, bufferVars, olkVars, stateVars, beforeError>>

-----------------------------------------------------------------------------
NoLongTerm == -1
RestrictedDOH == MaxOrder + 1  \* REF_RESTRICTED_DOH, above every order hint
Orders == 0..RestrictedDOH

Frames == [order : Orders, implicit : BOOLEAN, immediate : BOOLEAN,
           done : BOOLEAN, restricted : BOOLEAN, leading : BOOLEAN]
Blank == [order |-> 0, implicit |-> FALSE, immediate |-> FALSE,
          done |-> FALSE, restricted |-> FALSE, leading |-> FALSE]

FrameTypes == {"NONE", "KEY", "INTRA_ONLY", "INTER", "S"}
Units == [kind : AllKinds \cup {"NONE"}, first : BOOLEAN, type : FrameTypes,
          show : BOOLEAN, sef : {"no", "copy", "derive"}, target : Buffers \cup {NoBuf},
          lt : LongTermIds \cup {NoLongTerm}, flags : SUBSET Slots]
NoUnit == [kind |-> "NONE", first |-> FALSE, type |-> "NONE", show |-> FALSE,
           sef |-> "no", target |-> NoBuf, lt |-> NoLongTerm, flags |-> {}]

IsKey(kind) == kind \in {"CLK", "OLK"}
IsSEF(kind) == kind \in {"REGULAR_SEF", "LEADING_SEF"}
IsLeading(kind) == kind \in {"LEADING", "LEADING_SEF"}
\* is_regular_non_olk_obu
IsRegularNonOLK(kind) == kind \in {"REGULAR", "SWITCH", "RAS", "REGULAR_SEF"}

ActiveSlots(n) == 0..(n - 1)

\* the smallest element of S, if there is one
First(S) == {s \in S : \A t \in S : s <= t}

\* mutant: a frame that has been output may be output again
EligibleDespiteDone(b) == b # NoBuf /\ frame[b].implicit

\* is_frame_eligible_for_output
Eligible(b) == b # NoBuf /\ frame[b].implicit /\ ~frame[b].done

\* the slots among S whose frame waits for output
Pending(S) == {s \in S : Eligible(refMap[s])}

SlotRefs(S, b) == Cardinality({s \in S : refMap[s] = b})
OutputRefs(from, b) == Cardinality({i \in from..Len(outputs) : outputs[i] = b})

\* check_ref_count_status_dec; a flush has taken back the references of the
\* first "dropped" frames of the queue
RefCountsMatch ==
  \A b \in Buffers :
    refCount[b] = SlotRefs(Slots, b) + (IF cur = b THEN 1 ELSE 0)
                  + OutputRefs(dropped + 1, b)

\* mutant: the pixels are never given back
DropRefsKeepPixels(lost, d, f) ==
  /\ refCount' = [b \in Buffers |-> refCount[b] - lost[b]]
  /\ data' = d
  /\ frame' = [b \in Buffers |-> IF refCount[b] = lost[b] THEN Blank ELSE f[b]]

\* decrease_ref_count, lost[b] times on each b (a negative number where more
\* references to b are taken).  The pixels go with the last reference.  The
\* fields of a buffer without references are written before they are read
\* again; d and f hold data and frame as the rest of the step leaves them.
DropRefs(lost, d, f) ==
  /\ refCount' = [b \in Buffers |-> refCount[b] - lost[b]]
  /\ data' = [b \in Buffers |-> d[b] /\ (lost[b] <= 0 \/ refCount[b] # lost[b])]
  /\ frame' = [b \in Buffers |-> IF refCount[b] = lost[b] THEN Blank ELSE f[b]]

\* release the slots of S and set them to NULL
DropSlots(S, d) ==
  /\ DropRefs([b \in Buffers |-> SlotRefs(S, b)], d, frame)
  /\ refMap' = [s \in Slots |-> IF s \in S THEN NoBuf ELSE refMap[s]]

\* mutant: frame_output_done is not set
OutputNotDone(b) ==
  /\ outputs' = Append(outputs, b)
  /\ refCount' = [refCount EXCEPT ![b] = @ + 1]
  /\ UNCHANGED frame

\* assign_output_frame_buffer_p, then frame_output_done = 1
Output(b) ==
  /\ outputs' = Append(outputs, b)
  /\ refCount' = [refCount EXCEPT ![b] = @ + 1]
  /\ frame' = [frame EXCEPT ![b].done = TRUE]

NextUnit == IF units = 0 THEN "idle" ELSE "units"

-----------------------------------------------------------------------------
\* init_decoder, av2_decoder_create
Init ==
  /\ pc = "idle"
  /\ units = 0
  /\ unit = NoUnit
  /\ todo = {} /\ trigger = NoBuf /\ reach = 0 /\ ret = "update"
  /\ refFrames = 0
  /\ refMap = [s \in Slots |-> NoBuf]
  /\ longTerm = [s \in Slots |-> 0]
  /\ cur = NoBuf
  /\ outputs = <<>>
  /\ dropped = 0
  /\ refCount = [b \in Buffers |-> 0]
  /\ data = [b \in Buffers |-> FALSE]
  /\ frame = [b \in Buffers |-> Blank]
  /\ olk = FALSE /\ olkFlags = {} /\ olkCoFlags = {} /\ lastOlk = 0
  /\ needResync = TRUE
  /\ decodingFirst = TRUE
  /\ beforeError = {}

-----------------------------------------------------------------------------
(* decoder_decode                                                           *)

\* mutant: the queue is emptied and its references stay
ForgetOutputs ==
  /\ outputs' = <<>>
  /\ dropped' = 0
  /\ UNCHANGED bufferVars

\* every call first gives up the frames the previous call queued
ReleaseOutputs ==
  /\ DropRefs([b \in Buffers |-> OutputRefs(1, b)], data, frame)
  /\ outputs' = <<>>
  /\ dropped' = 0

Decode(n) ==
  /\ pc = "idle"
  /\ ReleaseOutputs
  /\ units' = n
  /\ pc' = "units"
  /\ UNCHANGED <<unit, loopVars, refFrames, refMap, longTerm, cur, olkVars,
                 stateVars, beforeError>>

Flush ==
  /\ pc = "idle"
  /\ ReleaseOutputs
  /\ pc' = "flush"
  /\ UNCHANGED <<units, unit, loopVars, refFrames, refMap, longTerm, cur, olkVars,
                 stateVars, beforeError>>

\* this_is_first_keyframe_unit_in_tu and this_is_first_vcl_obu_in_tu are the
\* same flag for a key frame; no other frame is a first key frame
StartUnit(kind, first) ==
  /\ pc = "units"
  /\ units > 0
  /\ units' = units - 1
  /\ unit' = [NoUnit EXCEPT !.kind = kind, !.first = first]
  /\ pc' = IF kind = "CLK" /\ first THEN "keyflush" ELSE "assign"
  /\ UNCHANGED <<loopVars, refFrames, refMap, longTerm, cur, outputs, dropped,
                 bufferVars, olkVars, stateVars, beforeError>>

\* flush_remaining_frames: over all REF_FRAMES slots, the frame with the
\* smallest order hint (the last one of several)
FlushOne ==
  /\ pc \in {"keyflush", "flush"}
  /\ \E s \in Pending(Slots) :
       /\ \A t \in Pending(Slots) :
            LET os == frame[refMap[s]].order
                ot == frame[refMap[t]].order
            IN os < ot \/ (os = ot /\ s >= t)
       /\ Output(refMap[s])
  /\ UNCHANGED <<pc, units, unit, loopVars, refFrames, refMap, longTerm, cur,
                 dropped, data, olkVars, stateVars, beforeError>>

\* mutant: a key frame does not flush the frames that wait
KeyNotFlushed ==
  /\ pc = "keyflush"
  /\ pc' = "assign"
  /\ UNCHANGED <<units, unit, loopVars, refFrames, refMap, longTerm, cur, outputs,
                 dropped, bufferVars, olkVars, stateVars, beforeError>>

KeyFlushed ==
  /\ pc = "keyflush"
  /\ Pending(Slots) = {}
  /\ pc' = "assign"
  /\ UNCHANGED <<units, unit, loopVars, refFrames, refMap, longTerm, cur, outputs,
                 dropped, bufferVars, olkVars, stateVars, beforeError>>

\* decoder_decode(NULL, 0) drops the references of the frames it has queued,
\* and leaves them queued for the application to fetch
Flushed ==
  /\ pc = "flush"
  /\ Pending(Slots) = {}
  /\ DropRefs([b \in Buffers |-> OutputRefs(1, b)], data, frame)
  /\ dropped' = Len(outputs)
  /\ pc' = IF ReuseAfterFlush THEN "idle" ELSE "eos"
  /\ UNCHANGED <<units, unit, loopVars, refFrames, refMap, longTerm, cur, outputs,
                 olkVars, stateVars, beforeError>>

-----------------------------------------------------------------------------
(* av2_receive_compressed_data                                              *)

\* mutant: the decoder goes on after an error
UnitFailsUnnoticed ==
  /\ pc' = "idle"
  /\ units' = 0
  /\ unit' = NoUnit
  /\ beforeError' = {b \in Buffers : \E s \in Slots : refMap[s] = b}
  /\ UNCHANGED needResync

UnitFails ==
  /\ needResync' = TRUE
  /\ pc' = "idle"
  /\ units' = 0
  /\ unit' = NoUnit
  /\ beforeError' = {b \in Buffers : \E s \in Slots : refMap[s] = b}

\* assign_cur_frame_new_fb: cur_frame is NULL here.  A wrong count found by
\* check_ref_count_status_dec sets error_code, and no OBU is then read.
AssignBuffer ==
  /\ pc = "assign"
  /\ \E b \in Buffers :
       /\ refCount[b] = 0
       /\ cur' = b
       /\ refCount' = [refCount EXCEPT ![b] = 1]
       /\ beforeError' = beforeError \ {b}
  /\ pc' = IF RefCountsMatch THEN "sequence" ELSE "broken"
  /\ UNCHANGED <<units, unit, loopVars, refFrames, refMap, longTerm, outputs,
                 dropped, data, frame, olkVars, stateVars>>

\* "Unable to find free frame buffer"
AssignFails ==
  /\ pc = "assign"
  /\ \A b \in Buffers : refCount[b] # 0
  /\ UnitFails
  /\ UNCHANGED <<loopVars, refFrames, refMap, longTerm, cur, outputs, dropped,
                 bufferVars, olkVars, decodingFirst>>

HeaderPCs == {"sequence", "frame", "olk", "refresh", "sef", "sefOlk", "broken",
              "tiles"}

\* mutant: an error leaves the reference of the current frame behind
FailKeepsFrame ==
  /\ pc \in HeaderPCs
  /\ cur' = NoBuf
  /\ UnitFails
  /\ UNCHANGED <<loopVars, refFrames, refMap, longTerm, outputs, dropped, bufferVars,
                 olkVars, decodingFirst>>

\* avm_internal_error, or a negative result: release_current_frame, and
\* frame_worker_hook asks for a resynchronisation
Fail ==
  /\ pc \in HeaderPCs
  /\ DropRefs([b \in Buffers |-> IF b = cur THEN 1 ELSE 0], data, frame)
  /\ cur' = NoBuf
  /\ UnitFails
  /\ UNCHANGED <<loopVars, refFrames, refMap, longTerm, outputs, dropped, olkVars,
                 decodingFirst>>

-----------------------------------------------------------------------------
(* read_uncompressed_header                                                 *)

\* mutant: ref_frames may be one more than REF_FRAMES
ReadSequenceOneMore ==
  /\ pc = "sequence"
  /\ decodingFirst => IsKey(unit.kind)
  /\ \E n \in RefFramesChoices : refFrames' = n + 1
  /\ pc' = IF IsSEF(unit.kind) THEN "sef" ELSE "frame"
  /\ UNCHANGED <<units, unit, loopVars, refMap, longTerm, cur, outputs, dropped,
                 bufferVars, olkVars, stateVars, beforeError>>

\* handle_sequence_header: a CLK activates its sequence header first, and the
\* first CLK of a temporal unit then empties the slots of the new sequence
ReadSequence ==
  /\ pc = "sequence"
  /\ decodingFirst => IsKey(unit.kind)
  /\ \E n \in IF unit.kind = "CLK" THEN RefFramesChoices ELSE {refFrames} \ {0} :
       /\ refFrames' = n
       /\ IF unit.kind = "CLK" /\ unit.first
          THEN /\ DropSlots(ActiveSlots(n), data)
               /\ olkFlags' = {}
               /\ olkCoFlags' = {}
          ELSE UNCHANGED <<refMap, bufferVars, olkFlags, olkCoFlags>>
  /\ pc' = IF IsSEF(unit.kind) THEN "sef" ELSE "frame"
  /\ UNCHANGED <<units, unit, loopVars, longTerm, cur, outputs, dropped, olk,
                 lastOlk, stateVars, beforeError>>

TypeChoices(kind) ==
  CASE IsKey(kind) -> {"KEY"}
    [] kind \in {"SWITCH", "RAS"} -> {"S"}
    [] OTHER -> {"INTRA_ONLY", "INTER"}

\* frame type, restricted_prediction_switch, long_term_id, the two output
\* flags and the display order hint (get_disp_order_hint)
ReadFrame(type, restrict, lt, show, implicit, order) ==
  /\ pc = "frame"
  /\ type \in TypeChoices(unit.kind)
  /\ restrict => type = "S"
  /\ lt = NoLongTerm <=> type # "KEY"
  /\ unit.kind = "OLK" => ~show
  /\ show => ~implicit
  /\ unit' = [unit EXCEPT !.type = type, !.lt = lt, !.show = show]
  /\ LET switched == {s \in Slots : restrict /\ refMap[s] # NoBuf}
         IsIn(b, S) == \E s \in S : refMap[s] = b
     IN frame' = [b \in Buffers |->
          IF b = cur
          THEN [frame[b] EXCEPT !.order = order, !.implicit = implicit,
                                !.immediate = show, !.done = FALSE,
                                !.leading = IsLeading(unit.kind)]
          ELSE [frame[b] EXCEPT
                  !.restricted = @ \/ IsIn(b, switched),
                  !.done = @ \/ IsIn(b, switched),
                  !.order = IF IsIn(b, switched \cap ActiveSlots(refFrames))
                            THEN RestrictedDOH ELSE @]]
  /\ pc' = "olk"
  /\ UNCHANGED <<units, loopVars, refFrames, refMap, longTerm, cur, outputs, dropped,
                 refCount, data, olkVars, stateVars, beforeError>>

\* reset_buffer_other_than_OLK; it clears olk_encountered when unit.first
ResetOtherThanOLK ==
  IF unit.first
  THEN /\ DropSlots({s \in ActiveSlots(refFrames) :
                       s \notin olkFlags \cup olkCoFlags /\ longTerm[s] = NoLongTerm},
                    data)
       /\ olkFlags' = {}
       /\ olkCoFlags' = {}
  ELSE UNCHANGED <<refMap, bufferVars, olkFlags, olkCoFlags>>

EndsLeading == olk /\ (unit.kind = "OLK" \/ IsRegularNonOLK(unit.kind))

\* the leading pictures of an OLK end with the next OLK or regular frame
ReadOlk ==
  /\ pc = "olk"
  /\ IF EndsLeading THEN ResetOtherThanOLK
     ELSE UNCHANGED <<refMap, bufferVars, olkFlags, olkCoFlags>>
  /\ olk' = CASE unit.kind = "CLK" -> FALSE
              [] unit.kind = "OLK" -> TRUE
              [] OTHER -> olk /\ ~(EndsLeading /\ unit.first)
  /\ pc' = "refresh"
  /\ UNCHANGED <<units, unit, loopVars, refFrames, longTerm, cur, outputs, dropped,
                 lastOlk, stateVars, beforeError>>

\* the refresh_frame_flags the syntax allows (RAS: ras_frame_refresh_frame_
\* flags_derivation); an inter frame that waits for a resynchronisation keeps
\* those of an earlier frame
FlagChoices(kind, type) ==
  LET A == ActiveSlots(refFrames)
  IN CASE kind = "CLK" -> {A}
       [] type = "INTRA_ONLY" -> (SUBSET A) \ (IF refFrames > 1 THEN {A} ELSE {})
       [] kind = "RAS" /\ ~needResync ->
            {{s \in A : refMap[s] = NoBuf \/ longTerm[s] \notin ids} :
               ids \in SUBSET LongTermIds}
       [] OTHER -> SUBSET A

\* mutant: a leading picture may overwrite the OLK
OverwritesNothing(flags) == FALSE

\* a leading picture may not be stored in a slot of the OLK
OverwritesOLK(flags) == IsLeading(unit.kind) /\ flags \cap olkFlags # {}

\* A key or intra-only frame ends a resynchronisation with an empty map.  A
\* leading frame may not overwrite an OLK; then the frame buffer is allocated
\* (setup_buffer_pool).  Inter frames are refused while need_resync is set.
ReadRefresh(flags) ==
  LET resync == needResync /\ unit.type \in {"KEY", "INTRA_ONLY"}
      bad == OverwritesOLK(flags) \/ (needResync /\ ~resync)
  IN
  /\ pc = "refresh"
  /\ flags \in FlagChoices(unit.kind, unit.type)
  /\ unit' = [unit EXCEPT !.flags = flags]
  /\ needResync' = (needResync /\ ~resync)
  /\ DropSlots(IF resync THEN ActiveSlots(refFrames) ELSE {},
               IF bad THEN data ELSE [data EXCEPT ![cur] = TRUE])
  /\ IF unit.kind = "OLK"
     THEN olkFlags' = flags /\ lastOlk' = frame[cur].order
     ELSE UNCHANGED <<olkFlags, lastOlk>>
  /\ olkCoFlags' = IF olk /\ IsRegularNonOLK(unit.kind) /\ ~unit.first
                   THEN olkCoFlags \cup flags ELSE olkCoFlags
  /\ pc' = IF bad THEN "broken" ELSE "tiles"
  /\ UNCHANGED <<units, loopVars, refFrames, longTerm, cur, outputs, dropped, olk,
                 decodingFirst, beforeError>>

-----------------------------------------------------------------------------
(* read_show_existing_frame                                                 *)

\* The frame to show is in a slot and is not restricted.  Either it gets a new
\* order hint, no larger than those of the slots, and is copied to cur_frame;
\* or it is a hidden frame and keeps its order hint.
ReadSEF(slot, derive, order) ==
  LET b == refMap[slot] IN
  /\ pc = "sef"
  /\ slot \in ActiveSlots(refFrames)
  /\ b # NoBuf
  /\ ~frame[b].restricted
  /\ IF derive THEN /\ ~frame[b].implicit /\ ~frame[b].immediate
                    /\ order = frame[b].order
                    /\ UNCHANGED data
               ELSE /\ \E s \in ActiveSlots(refFrames) :
                         refMap[s] # NoBuf /\ order <= frame[refMap[s]].order
                    /\ data' = [data EXCEPT ![cur] = TRUE]
  /\ frame' = [frame EXCEPT ![cur].order = order]
  /\ unit' = [unit EXCEPT !.sef = IF derive THEN "derive" ELSE "copy", !.target = b]
  /\ pc' = IF unit.kind = "REGULAR_SEF" /\ olk THEN "sefOlk" ELSE "sefShow"
  /\ UNCHANGED <<units, loopVars, refFrames, refMap, longTerm, cur, outputs, dropped,
                 refCount, olkVars, stateVars, beforeError>>

SEFEndsLeading ==
  /\ pc = "sefOlk"
  /\ frame[cur].order >= lastOlk
  /\ ResetOtherThanOLK
  /\ olk' = ~unit.first
  /\ pc' = "sefShow"
  /\ UNCHANGED <<units, unit, loopVars, refFrames, longTerm, cur, outputs, dropped,
                 lastOlk, stateVars, beforeError>>

\* assert(frame_to_show->ref_count > 0): the program stops if it fails.  Then
\* assign_frame_buffer_p, which releases no pixels.  A frame shown before with
\* its own order hint may not be shown again.
ShowSEF ==
  LET t == unit.target
      derive == unit.sef = "derive"
  IN
  /\ pc = "sefShow"
  /\ refCount[t] > 0
  /\ IF derive
     THEN /\ refCount' = [refCount EXCEPT ![cur] = @ - 1, ![t] = @ + 1]
          /\ frame' = [frame EXCEPT ![cur] = Blank]
          /\ cur' = t
     ELSE UNCHANGED <<cur, refCount, frame>>
  /\ unit' = [unit EXCEPT !.show = TRUE, !.flags = {}]
  /\ pc' = IF derive /\ frame[t].done THEN "broken" ELSE "tiles"
  /\ UNCHANGED <<units, loopVars, refFrames, refMap, longTerm, outputs, dropped,
                 data, olkVars, stateVars, beforeError>>

-----------------------------------------------------------------------------
(* The tiles are decoded (or there are none: SEF).                          *)

\* av2_frame_clears_multiple_inserted_in_one: the refreshed slots that get the
\* frame; the others are only cleared
InsertedSlots ==
  IF unit.type \in {"KEY", "S"} THEN First(unit.flags) ELSE unit.flags

\* frame_decoded = 1; update_long_term_frame_id, start of update_frame_buffers
DecodeTiles ==
  /\ pc = "tiles"
  /\ longTerm' = [s \in Slots |->
       IF s \notin unit.flags \cap ActiveSlots(refFrames) THEN longTerm[s]
       ELSE IF s \in InsertedSlots THEN unit.lt ELSE NoLongTerm]
  /\ frame' = [frame EXCEPT ![cur].restricted = FALSE]
  /\ todo' = unit.flags
  /\ pc' = "update"
  /\ UNCHANGED <<units, unit, trigger, reach, ret, refFrames, refMap, cur, outputs,
                 dropped, refCount, data, olkVars, stateVars, beforeError>>

-----------------------------------------------------------------------------
(* update_frame_buffers                                                     *)

\* a frame that waits for output leaves its slot through output_frame_buffers
OutputEvicted ==
  /\ pc = "update"
  /\ \E s \in First(todo) : Eligible(refMap[s]) /\ trigger' = refMap[s]
  /\ ret' = "update"
  /\ pc' = "prev"
  /\ UNCHANGED <<units, unit, todo, reach, refFrames, refMap, longTerm, cur, outputs,
                 dropped, bufferVars, olkVars, stateVars, beforeError>>

\* one reference is dropped, one is taken
SetSlot(s, new) ==
  LET Ref(b, c) == IF b = c THEN 1 ELSE 0
  IN /\ DropRefs([b \in Buffers |-> Ref(b, refMap[s]) - Ref(b, new)], data, frame)
     /\ refMap' = [refMap EXCEPT ![s] = new]
     /\ todo' = todo \ {s}

\* mutant: a frame that waits for output is overwritten
RefreshAnySlot ==
  /\ pc = "update"
  /\ \E s \in First(todo) : SetSlot(s, IF s \in InsertedSlots THEN cur ELSE NoBuf)
  /\ UNCHANGED <<pc, units, unit, trigger, reach, ret, refFrames, longTerm, cur,
                 outputs, dropped, olkVars, stateVars, beforeError>>

RefreshSlot ==
  /\ pc = "update"
  /\ \E s \in First(todo) :
       /\ ~Eligible(refMap[s])
       /\ SetSlot(s, IF s \in InsertedSlots THEN cur ELSE NoBuf)
  /\ UNCHANGED <<pc, units, unit, trigger, reach, ret, refFrames, longTerm, cur,
                 outputs, dropped, olkVars, stateVars, beforeError>>

\* the frame is output if its header, or a show_existing_frame, says so
OutputCurrent ==
  /\ pc = "update"
  /\ todo = {}
  /\ IF (unit.show /\ ~frame[cur].done) \/ unit.sef # "no"
     THEN trigger' = cur /\ ret' = "final" /\ pc' = "prev"
     ELSE pc' = "final" /\ UNCHANGED <<trigger, ret>>
  /\ UNCHANGED <<units, unit, todo, reach, refFrames, refMap, longTerm, cur, outputs,
                 dropped, bufferVars, olkVars, stateVars, beforeError>>

FinishUnit ==
  /\ pc = "final"
  /\ DropRefs([b \in Buffers |-> IF b = cur THEN 1 ELSE 0], data, frame)
  /\ cur' = NoBuf
  /\ decodingFirst' = FALSE
  /\ unit' = NoUnit
  /\ pc' = NextUnit
  /\ UNCHANGED <<units, loopVars, refFrames, refMap, longTerm, outputs, dropped,
                 olkVars, needResync, beforeError>>

\* the data is used up, or the next frame unit cannot be parsed and the call
\* returns without giving it to av2_receive_compressed_data
CallEnds ==
  /\ pc = "units"
  /\ units' = 0
  /\ pc' = "idle"
  /\ UNCHANGED <<unit, loopVars, refFrames, refMap, longTerm, cur, outputs,
                 dropped, bufferVars, olkVars, stateVars, beforeError>>

-----------------------------------------------------------------------------
(* output_frame_buffers: the frames before the trigger frame in output      *)
(* order, the trigger frame, and the frames that follow it without a gap.   *)

\* mutant: the last slot is left out
BeforeButLast == {s \in Pending(ActiveSlots(refFrames - 1)) :
                    frame[refMap[s]].order < frame[trigger].order}

Before == {s \in Pending(ActiveSlots(refFrames)) :
             frame[refMap[s]].order < frame[trigger].order}

OutputBefore ==
  /\ pc = "prev"
  /\ \E s \in Before :
       /\ \A t \in Before :
            LET os == frame[refMap[s]].order
                ot == frame[refMap[t]].order
            IN os < ot \/ (os = ot /\ s <= t)
       /\ Output(refMap[s])
  /\ UNCHANGED <<pc, units, unit, loopVars, refFrames, refMap, longTerm, cur, dropped,
                 data, olkVars, stateVars, beforeError>>

OutputTrigger ==
  /\ pc = "prev"
  /\ Before = {}
  /\ Output(trigger)
  /\ reach' = frame[trigger].order
  /\ pc' = "next"
  /\ UNCHANGED <<units, unit, todo, trigger, ret, refFrames, refMap, longTerm, cur,
                 dropped, data, olkVars, stateVars, beforeError>>

\* the pending frames with the order hint that is being output, then those
\* with the next one, at most refFrames after the trigger frame
At(order) == {s \in Pending(ActiveSlots(refFrames)) : frame[refMap[s]].order = order}

NextOrder ==
  IF reach > frame[trigger].order /\ At(reach) # {} THEN reach ELSE reach + 1

Successors ==
  IF NextOrder > frame[trigger].order + refFrames THEN {} ELSE At(NextOrder)

OutputNext ==
  /\ pc = "next"
  /\ \E s \in First(Successors) : Output(refMap[s])
  /\ reach' = NextOrder
  /\ UNCHANGED <<pc, units, unit, todo, trigger, ret, refFrames, refMap, longTerm, cur,
                 dropped, data, olkVars, stateVars, beforeError>>

\* mutant: the loop ends at its bound only
OutputEndsAtBound ==
  /\ pc = "next"
  /\ reach >= frame[trigger].order + refFrames
  /\ trigger' = NoBuf
  /\ reach' = 0
  /\ pc' = ret
  /\ UNCHANGED <<units, unit, todo, ret, refFrames, refMap, longTerm, cur, outputs,
                 dropped, bufferVars, olkVars, stateVars, beforeError>>

OutputEnds ==
  /\ pc = "next"
  /\ Successors = {}
  /\ trigger' = NoBuf
  /\ reach' = 0
  /\ pc' = ret
  /\ UNCHANGED <<units, unit, todo, ret, refFrames, refMap, longTerm, cur, outputs,
                 dropped, bufferVars, olkVars, stateVars, beforeError>>

-----------------------------------------------------------------------------
CallSteps ==
  \/ \E kind \in Kinds, first \in BOOLEAN : StartUnit(kind, first)
  \/ FlushOne
  \/ KeyFlushed
  \/ Flushed
  \/ AssignBuffer
  \/ AssignFails
  \/ Fail
  \/ CallEnds

HeaderSteps ==
  \/ ReadSequence
  \/ \E type \in FrameTypes, restrict, show, implicit \in BOOLEAN,
        lt \in LongTermIds \cup {NoLongTerm}, order \in 0..MaxOrder :
       ReadFrame(type, restrict, lt, show, implicit, order)
  \/ ReadOlk
  \/ \E flags \in SUBSET Slots : ReadRefresh(flags)
  \/ \E slot \in Slots, derive \in BOOLEAN, order \in Orders :
       ReadSEF(slot, derive, order)
  \/ SEFEndsLeading
  \/ ShowSEF

UpdateSteps ==
  \/ DecodeTiles
  \/ OutputEvicted
  \/ RefreshSlot
  \/ OutputCurrent
  \/ OutputBefore
  \/ OutputTrigger
  \/ OutputNext
  \/ OutputEnds
  \/ FinishUnit

Decoder == CallSteps \/ HeaderSteps \/ UpdateSteps

Next == (\E n \in 1..MaxUnits : Decode(n)) \/ Flush \/ Decoder

\* A call runs on the thread of the application until it returns; the
\* application may stop calling.
Spec == Init /\ [][Next]_vars /\ WF_vars(Decoder)

-----------------------------------------------------------------------------
(* Properties                                                               *)

PCs == {"idle", "units", "keyflush", "flush", "eos", "assign", "update", "prev",
        "next", "final", "sefShow"} \cup HeaderPCs

TypeOK ==
  /\ pc \in PCs
  /\ units \in 0..MaxUnits
  /\ unit \in Units
  /\ todo \in SUBSET Slots
  /\ trigger \in Buffers \cup {NoBuf}
  /\ reach \in Nat
  /\ ret \in {"update", "final"}
  /\ refFrames \in 0..NumSlots
  /\ refMap \in [Slots -> Buffers \cup {NoBuf}]
  /\ longTerm \in [Slots -> LongTermIds \cup {NoLongTerm}]
  /\ cur \in Buffers \cup {NoBuf}
  /\ outputs \in Seq(Buffers)
  /\ dropped \in Nat
  /\ refCount \in [Buffers -> Int]
  /\ data \in [Buffers -> BOOLEAN]
  /\ frame \in [Buffers -> Frames]
  /\ olk \in BOOLEAN
  /\ olkFlags \in SUBSET Slots
  /\ olkCoFlags \in SUBSET Slots
  /\ lastOlk \in Orders
  /\ needResync \in BOOLEAN
  /\ decodingFirst \in BOOLEAN
  /\ beforeError \in SUBSET Buffers

InMap(b) == \E s \in Slots : refMap[s] = b

\* The pixels of a frame stay allocated as long as a reference slot or the
\* application's queue needs them, and are given back with the last reference
\* (decoder.h decrease_ref_count; assign_frame_buffer_p gives nothing back).
DataHeld ==
  \A b \in Buffers :
    /\ InMap(b) \/ OutputRefs(dropped + 1, b) > 0 => data[b]
    /\ refCount[b] = 0 => ~data[b]

\* get_free_fb: "We should never run out of free buffers": the slots, the
\* current frame and what the call has queued never take the whole pool.
NeverOutOfBuffers ==
  pc = "assign" => \E b \in Buffers : refCount[b] = 0

\* The queue of one decode call fits RefCntBuffer *output_frames[REF_FRAMES + 1]
\* when the call holds one frame unit.
QueueWithinArray == Len(outputs) <= NumSlots + 1

\* No frame is queued twice: a frame leaves a slot, is flushed, triggers the
\* output or is shown by a show_existing_frame with its own order hint once.
NoFrameTwice ==
  \A b \in Buffers : OutputRefs(1, b) <= 1

\* A frame that waits in a slot for its implicit output reaches the application,
\* unless the leading pictures of an OLK end (reset_buffer_other_than_OLK), the
\* decoder resynchronises (reset_ref_frame_map), or an S frame restricts the
\* references (restricted_prediction_switch).
Waits(b) == InMap(b) /\ Eligible(b)
NoPendingLost ==
  [][\A b \in Buffers :
       Waits(b) /\ ~Waits(b)'
         => \/ \E i \in DOMAIN outputs' : outputs'[i] = b
            \/ pc \in {"olk", "sefOlk"}
            \/ pc = "refresh" /\ needResync
            \/ pc = "frame" /\ unit'.type = "S"]_vars

\* The first regular frame after the leading pictures of an OLK finds no leading
\* picture in the slots, so that it decodes alike when these were dropped; the
\* slots of the frames in the temporal unit of the OLK are kept as they are.
RegularSeesNoLeading ==
  [][EndsLeading /\ unit.first /\ ~needResync /\ pc \in {"olk", "sefOlk"}
       /\ pc' \in {"refresh", "sefShow"}
     => \A s \in ActiveSlots(refFrames) \ olkCoFlags :
          refMap'[s] # NoBuf => ~frame[refMap'[s]].leading]_vars

\* The steps that read a header, and the life of a buffer.
ReadPCs == {"sequence", "frame", "olk", "refresh", "sef", "sefOlk", "sefShow", "broken"}
Phase == CASE pc = "eos" -> "over" [] pc \in ReadPCs -> "header" [] OTHER -> "call"
Life(b) ==
  CASE refCount[b] = 0 -> "free"
    [] refCount[b] # 0 /\ frame[b].done -> "past"
    [] refCount[b] # 0 /\ Waits(b) -> "waiting"
    [] OTHER -> "held"

Delivery == INSTANCE FrameDelivery WITH
  Frames <- Buffers, phase <- Phase, life <- [b \in Buffers |-> Life(b)],
  queue <- outputs

\* Every frame reaches the application at most once, also when its buffer is held
\* over many calls and shown by frames without data of their own; a frame that waits
\* is given up by a frame header or not at all; a queued frame is not overwritten
\* before the next call (frame_output_done, ref_count).
ImplementsDelivery == Delivery!Spec

\* Output order (output_frame_buffers): a frame is queued only when no frame
\* that waits in a slot of the sequence has a smaller order hint, so that the
\* application never receives a frame that should have come earlier from the
\* pictures present in the buffer.
Queued == Len(outputs') > Len(outputs)
OutputsInOrder ==
  [][Queued =>
       \A s \in Pending(ActiveSlots(refFrames)) :
         \/ frame[refMap[s]].order >= frame[outputs'[Len(outputs')]].order
         \/ pc = "next" /\ frame[refMap[s]].order <= frame[trigger].order]_vars

\* After a decoding error no inter frame is decoded while a slot it may refer to
\* still holds a frame from before the error: the decoder waits for a key or intra-only
\* frame, and that empties the slots (need_resync).
NoStaleReferenceAfterError ==
  pc = "tiles" /\ unit.type \in {"INTER", "S"} /\ unit.sef = "no"
    => \A s \in ActiveSlots(refFrames) : refMap[s] \notin beforeError

\* avm_codec_decode() returns: no loop over the units of a call, the slots to
\* refresh or the frames to output runs for ever.
CallReturns == pc # "idle" ~> pc \in {"idle", "eos"}

-----------------------------------------------------------------------------
(* What the source says of the program and the program does not do          *)

\* assert(frame_to_show->ref_count > 0) in read_show_existing_frame
ShownFrameIsHeld ==
  pc = "sefShow" => refCount[unit.target] > 0
=============================================================================
