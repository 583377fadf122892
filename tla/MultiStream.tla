---------------------------- MODULE MultiStream ----------------------------
(***************************************************************************)
(* The decoder with several multiplexed streams (x-layers): one set of      *)
(* reference slots is live, those of the other streams are stored, and the  *)
(* OBUs of a frame unit switch between them one by one.                     *)
(*                                                                          *)
(* A call of avm_codec_decode() holds one frame unit: StartUnit, its steps, *)
(* Update or a failure.  Modelled of every context: the reference slots.    *)
(* Output order is that of DPB and left open here.                          *)
(***************************************************************************)
EXTENDS Integers, Sequences, FiniteSets

CONSTANTS
  Streams,   \* cm->stream_ids
  Global,    \* GLOBAL_XLAYER_ID
  NoStream,  \* an x-layer id that is neither
  TDLayers,  \* the x-layer ids of temporal delimiters (0 if they carry none)
  Buffers,   \* pool->frame_bufs
  NoBuf,     \* a NULL RefCntBuffer pointer
  NumSlots,  \* REF_FRAMES
  MaxMSDO    \* bound on the multi-stream decoder operations of the bitstream

XLayers == Streams \cup {Global, NoStream}
Slots == 0..(NumSlots - 1)
Maps == [Slots -> Buffers \cup {NoBuf}]
EmptyMap == [i \in Slots |-> NoBuf]

ASSUME StreamsAssumption == IsFiniteSet(Streams)
ASSUME LayersAssumption == Global \notin Streams /\ NoStream \notin Streams \cup {Global}
ASSUME TDLayersAssumption == TDLayers \subseteq XLayers
ASSUME BuffersAssumption == IsFiniteSet(Buffers) /\ NoBuf \notin Buffers
ASSUME BoundsAssumption == NumSlots \in Nat \ {0} /\ MaxMSDO \in Nat \ {0}

VARIABLES
  pc,         \* where the decoder is in the call
  unit,       \* the frame unit: its stream and kind; history: the layer live before it
  obus,       \* the OBUs of the frame unit still to be read
  live,       \* cm->xlayer_id
  mode,       \* pbi->multi_stream_mode
  msdo,       \* pbi->msdo_is_present_in_tu
  msdos,      \* history: multi-stream decoder operations read
  map,        \* cm->ref_frame_map
  stored,     \* pbi->stream_info[].ref_frame_map_buf
  needResync, \* pbi->need_resync
  cur,        \* cm->cur_frame
  outputs,    \* pbi->output_frames
  refCount,   \* RefCntBuffer.ref_count
  waits,      \* the buffers that is_frame_eligible_for_output accepts
  lost        \* history: references discarded without being released

streamVars == <<live, mode, msdo, msdos, lost>>
frameVars == <<outputs, refCount, waits>>
vars == <<pc, unit, obus, streamVars, map, stored, needResync, cur, frameVars>>

-----------------------------------------------------------------------------
Refs(m) == {m[i] : i \in Slots} \ {NoBuf}
Waiting == waits \cap Refs(map)

\* the reference slots of a stream, live or stored
Context(s) == IF live = s THEN map ELSE stored[s]

ContextRefs(b) ==
  Cardinality({p \in Streams \X Slots : Context(p[1])[p[2]] = b})

\* decrease_ref_count once for every slot or list entry counted by gone[b];
\* nothing reads the flags of a buffer without references
DropRefs(gone, counts, w) ==
  /\ refCount' = [b \in Buffers |-> counts[b] - gone[b]]
  /\ waits' = {b \in w : counts[b] > gone[b]}

SlotRefs(m, S) == [b \in Buffers |-> Cardinality({i \in S : m[i] = b})]
OneRef(S) == [b \in Buffers |-> IF b \in S THEN 1 ELSE 0]
Plus(c, d) == [b \in Buffers |-> c[b] + d[b]]

-----------------------------------------------------------------------------
\* init_decoder, av2_decoder_create
Init ==
  /\ pc = "idle"
  /\ unit \in [stream : Streams, kind : {"INTER"}, before : {Global}]
  /\ obus = <<>>
  /\ live \in TDLayers
  /\ mode = FALSE /\ msdo = FALSE /\ msdos = 0
  /\ map = EmptyMap
  /\ stored = [s \in Streams |-> EmptyMap]
  /\ lost = [b \in Buffers |-> 0]
  /\ needResync = TRUE
  /\ cur = NoBuf
  /\ outputs = {}
  /\ refCount = [b \in Buffers |-> 0]
  /\ waits = {}

-----------------------------------------------------------------------------
(* decoder_decode, av2_receive_compressed_data                              *)

One(type, x) == <<[type |-> type, layer |-> x]>>
Optional(type, layers) == {<<>>} \cup {One(type, x) : x \in layers}

\* only a key frame may follow a multi-stream decoder operation
Operations(kind) ==
  IF kind = "CLK" /\ msdos < MaxMSDO THEN Optional("MSDO", {Global}) ELSE {<<>>}

SequenceHeader(s, kind) == IF kind = "CLK" THEN One("SH", s) ELSE <<>>

\* the OBUs of a frame unit in the order of the temporal unit, see
\* check_temporal_unit_structure
UnitOBUs(s, kind) ==
  \E td \in Optional("TD", TDLayers), ms \in Operations(kind),
     lcr \in Optional("LCR", {Global}) :
    obus' = td \o ms \o lcr \o SequenceHeader(s, kind) \o One("FRAME", s)

\* A call with one frame unit gives up the frames the previous call queued; the
\* first unit of the stream holds a multi-stream decoder operation.
StartUnit(s, kind) ==
  /\ pc = "idle"
  /\ UnitOBUs(s, kind)
  /\ mode \/ msdo \/ \E i \in DOMAIN obus' : obus'[i].type = "MSDO"
  /\ unit' = [stream |-> s, kind |-> kind, before |-> live]
  /\ DropRefs(OneRef(outputs), refCount, waits)
  /\ outputs' = {}
  /\ pc' = IF kind = "CLK" THEN "flush" ELSE "assign"
  /\ UNCHANGED <<streamVars, map, stored, needResync, cur>>

\* mutant: the queue takes no reference
OutputUncounted(S) ==
  /\ outputs' = outputs \cup S
  /\ waits' = waits \ S
  /\ UNCHANGED refCount

\* assign_output_frame_buffer_p and frame_output_done for the frames of S
OutputAll(S) ==
  /\ outputs' = outputs \cup S
  /\ waits' = waits \ S
  /\ refCount' = Plus(refCount, OneRef(S))

\* flush_remaining_frames before the OBUs of a key frame are read: it looks at
\* the slots of the stream that is live
KeyFlush ==
  /\ pc = "flush"
  /\ OutputAll(Waiting)
  /\ pc' = "assign"
  /\ UNCHANGED <<unit, obus, streamVars, map, stored, needResync, cur>>

UnitFails ==
  /\ needResync' = TRUE
  /\ pc' = "idle"
  /\ obus' = <<>>

\* assign_cur_frame_new_fb; avm_decode_frame_from_obus then turns what the
\* previous unit has seen into the mode of this one
AssignBuffer ==
  /\ pc = "assign"
  /\ \E b \in Buffers :
       /\ refCount[b] = 0
       /\ cur' = b
       /\ refCount' = [refCount EXCEPT ![b] = 1]
  /\ mode' = (mode \/ msdo)
  /\ msdo' = FALSE
  /\ pc' = "obu"
  /\ UNCHANGED <<unit, obus, live, msdos, lost, map, stored, needResync, outputs,
                 waits>>

AssignFails ==
  /\ pc = "assign"
  /\ \A b \in Buffers : refCount[b] # 0
  /\ UnitFails
  /\ UNCHANGED <<unit, streamVars, map, stored, cur, frameVars>>

\* release_current_frame
Fail ==
  /\ pc \in {"obu", "header"}
  /\ DropRefs(OneRef({cur}), refCount, waits)
  /\ cur' = NoBuf
  /\ UnitFails
  /\ UNCHANGED <<unit, streamVars, map, stored, outputs>>

\* decoder_decode(NULL, 0) queues what waits in the slots of the live stream
\* and drops the references it has taken for the queue
Flush ==
  /\ pc = "idle"
  /\ DropRefs(OneRef(outputs), refCount, waits \ Waiting)
  /\ outputs' = Waiting
  /\ pc' = "eos"
  /\ UNCHANGED <<unit, obus, streamVars, map, stored, needResync, cur>>

-----------------------------------------------------------------------------
(* avm_decode_frame_from_obus                                               *)

NextOBU == Head(obus)

\* mutant: a layer of the whole bitstream does not store the live stream
SwitchWithoutStore(x) ==
  /\ live' = x
  /\ IF mode /\ x # live /\ x \in Streams THEN map' = stored[x] ELSE UNCHANGED map
  /\ stored' = IF mode /\ x # live /\ x # Global /\ live \in Streams
               THEN [stored EXCEPT ![live] = map] ELSE stored

\* mutant: the context of the new stream is overwritten before it is restored
SwitchTooEarly(x) ==
  /\ live' = x
  /\ IF mode /\ x # live
     THEN /\ stored' = IF live \in Streams /\ x \in Streams
                       THEN [stored EXCEPT ![x] = map] ELSE stored
          /\ map' = IF x \in Streams THEN stored'[x] ELSE map
     ELSE UNCHANGED <<map, stored>>

\* store_xlayer_context and restore_xlayer_context do nothing for a layer
\* that is not a stream
Switch(x) ==
  /\ live' = x
  /\ IF mode /\ x # live
     THEN /\ stored' = IF live \in Streams THEN [stored EXCEPT ![live] = map] ELSE stored
          /\ map' = IF x \in Streams THEN stored[x] ELSE map
     ELSE UNCHANGED <<map, stored>>

\* a temporal delimiter, a layer configuration record or a sequence header
ReadOBU ==
  /\ pc = "obu"
  /\ NextOBU.type \in {"TD", "LCR", "SH"}
  /\ Switch(NextOBU.layer)
  /\ obus' = Tail(obus)
  /\ UNCHANGED <<pc, unit, mode, msdo, msdos, lost, needResync, cur, frameVars>>

\* read_multi_stream_decoder_operation_obu allocates the contexts anew: what
\* the old ones refer to is not released.  The slots of the stream that was
\* live stay in the map, and are overwritten by the next context restored.
ReadMSDO ==
  /\ pc = "obu"
  /\ NextOBU.type = "MSDO"
  /\ live' = Global
  /\ stored' = [s \in Streams |-> EmptyMap]
  /\ lost' = [b \in Buffers |-> lost[b] + ContextRefs(b)]
  /\ msdo' = TRUE
  /\ msdos' = msdos + 1
  /\ obus' = Tail(obus)
  /\ UNCHANGED <<pc, unit, mode, map, needResync, cur, frameVars>>

ReadFrame ==
  /\ pc = "obu"
  /\ NextOBU.type = "FRAME"
  /\ Switch(NextOBU.layer)
  /\ pc' = "header"
  /\ obus' = Tail(obus)
  /\ UNCHANGED <<unit, mode, msdo, msdos, lost, needResync, cur, frameVars>>

\* handle_sequence_header and read_uncompressed_header: a key frame empties the
\* slots, and is what any stream waits for after an error; an inter frame needs
\* references
ReadHeader ==
  /\ pc = "header"
  /\ IF unit.kind = "CLK"
     THEN /\ DropRefs(SlotRefs(map, Slots), refCount, waits)
          /\ map' = EmptyMap
          /\ needResync' = FALSE
     ELSE /\ ~needResync
          /\ Refs(map) # {}
          /\ UNCHANGED <<refCount, waits, map, needResync>>
  /\ pc' = "update"
  /\ UNCHANGED <<unit, obus, streamVars, stored, cur, outputs>>

-----------------------------------------------------------------------------
(* update_frame_buffers                                                     *)

\* mutant: a slot is refreshed before its frame has been output
NothingEvicted(flags) == {}

\* the frames that wait in the slots to be refreshed
Evicted(flags) == waits \cap {map[i] : i \in flags}

\* av2_frame_clears_multiple_inserted_in_one: a key frame keeps one slot
Inserted(flags) ==
  IF unit.kind = "CLK" THEN {i \in flags : \A j \in flags : i <= j} ELSE flags

\* The frames the unit outputs: those it evicts, and with one of these or a
\* frame shown at once any others of the stream (output_frame_buffers); the
\* current frame among them if it is in a slot before an evicted frame is met.
Outputs(flags, output) ==
  LET ev == Evicted(flags)
      now == IF output = "shown" THEN {cur} ELSE {}
      others == IF ev # {} \/ output = "shown" THEN Waiting ELSE {}
      early == IF /\ output = "implicit"
                  /\ \E i, j \in flags : i < j /\ map[j] \in ev
               THEN {cur} ELSE {}
  IN {ev \cup now \cup more : more \in SUBSET (others \cup early)}

Update(flags, output) ==
  /\ pc = "update"
  /\ unit.kind = "CLK" => flags = Slots
  /\ map' = [i \in Slots |-> IF i \notin flags THEN map[i]
                             ELSE IF i \in Inserted(flags) THEN cur ELSE NoBuf]
  /\ \E out \in Outputs(flags, output) :
       /\ outputs' = outputs \cup out
       /\ DropRefs(Plus(SlotRefs(map, flags), OneRef({cur})),
                   Plus(refCount, Plus(OneRef(out), SlotRefs(map', flags))),
                   (waits \cup (IF output = "implicit" THEN {cur} ELSE {})) \ out)
  /\ cur' = NoBuf
  /\ pc' = "idle"
  /\ UNCHANGED <<unit, obus, streamVars, stored, needResync>>

-----------------------------------------------------------------------------
Next ==
  \/ \E s \in Streams, kind \in {"CLK", "INTER"} : StartUnit(s, kind)
  \/ KeyFlush \/ AssignBuffer \/ AssignFails
  \/ ReadOBU \/ ReadMSDO \/ ReadFrame \/ ReadHeader
  \/ \E flags \in SUBSET Slots, output \in {"hidden", "implicit", "shown"} :
       Update(flags, output)
  \/ Fail \/ Flush

Spec == Init /\ [][Next]_vars

-----------------------------------------------------------------------------
\* every variable has a value the C type admits
TypeOK ==
  /\ pc \in {"idle", "flush", "assign", "obu", "header", "update", "eos"}
  /\ unit \in [stream : Streams, kind : {"CLK", "INTER"}, before : XLayers]
  /\ obus \in Seq([type : {"TD", "MSDO", "LCR", "SH", "FRAME"}, layer : XLayers])
  /\ live \in XLayers
  /\ mode \in BOOLEAN /\ msdo \in BOOLEAN /\ msdos \in Nat
  /\ map \in Maps
  /\ stored \in [Streams -> Maps]
  /\ lost \in [Buffers -> Nat]
  /\ needResync \in BOOLEAN
  /\ cur \in Buffers \cup {NoBuf}
  /\ outputs \subseteq Buffers
  /\ refCount \in [Buffers -> Nat]
  /\ waits \subseteq Buffers

\* The count of a buffer is the number of slots of all streams, live or stored,
\* that hold it, with the current frame, the queue, and the references a
\* repeated multi-stream decoder operation has discarded.
\* check_ref_count_status_dec gives this check up when there are two streams.
RefsAccounted ==
  \A b \in Buffers :
    refCount[b] = ContextRefs(b) + lost[b]
                  + (IF cur = b THEN 1 ELSE 0)
                  + (IF b \in outputs /\ pc # "eos" THEN 1 ELSE 0)

\* The streams are decoded as by decoders of their own: a frame unit changes
\* the references of its stream only, whatever the order in which its OBUs
\* store and restore contexts, and no frame is a reference in two streams.
Decoders == INSTANCE StreamDecoders
  WITH decoding <- unit.stream,
       refs <- [s \in Streams |-> Refs(Context(s))],
       restarts <- IF msdos = 0 THEN 0 ELSE msdos - 1

ImplementsStreams == Decoders!Spec

\* a frame that has yet to be output and is a reference of its stream
IsPending(b) == b \in waits /\ \E s \in Streams : b \in Refs(Context(s))

\* A frame that waits for output leaves the slots of its stream only by being
\* output, except in the two places where the code lets go of it: a repeated
\* multi-stream decoder operation, and a key frame of a stream that was not
\* live when av2_receive_compressed_data flushed the slots.
PendingKept ==
  [][\A b \in Buffers :
       IsPending(b) /\ ~IsPending(b)' =>
         \/ b \in outputs'
         \/ pc = "obu" /\ NextOBU.type = "MSDO"
         \/ pc = "header" /\ unit.before # unit.stream]_vars
=============================================================================
