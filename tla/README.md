# Verification of the AV2 codec (libavm) in TLA+

This directory holds TLA+ models of the parts of this repository whose correctness
depends on order, sharing and failure rather than on arithmetic: the worker threads
every parallel stage is built on, the row-parallel decoding of tiles, the in-loop filter
stages that follow it, the row-parallel encoding of tiles, the look-ahead queue of the
encoder, the derivation of display order hints, the decoded picture buffer (DPB), where
reference counts, reference slots, output order and error recovery meet, and the
contexts of several multiplexed streams that share one decoder. Line numbers below are
those of `src/`.

## 1. Inventory of the system

| Component | State | Operations | Hard part | What makes it correct |
|---|---|---|---|---|
| Worker threads, `avm_util/avm_thread.c` | `status_`, mutex, ONE condition variable, `had_error`, hook and arguments | reset, launch, sync, execute, end; `thread_loop` | two threads signal and wait on the same condition | no lost wake-up, sync means idle, destruction is quiet, every job runs once |
| Decoded picture buffer, `av2/decoder/decoder.c`, `decoder.h`, parts of `decodeframe.c`, `av2_common_int.h` | pool of reference-counted buffers, `ref_frame_map`, `cur_frame`, `output_frames`, OLK flags, `long_term_ids_in_buffer`, `need_resync` | assign, refresh, output, flush, reset, show existing, fail | longjmp out of any header step; three output loops; slots emptied on five paths | counts equal references; nothing lost, doubled or out of order; no stale reference after an error |
| Frame buffer callbacks, `av2/common/frame_buffers.c` | list of internal buffers | get, release | exhaustion, reallocation | a buffer in use is never handed out |
| Display order hints, `get_disp_order_hint` (`decodeframe.c` 6786) | the hints of the slots | derive, refresh | modular unwrapping near half the range, an early return past the check of the range | the derived order is the one the encoder meant |
| Decoder interface, `av2/av2_dx_iface.c` | first-in-TU detection, random access, grain buffers | decode, get_frame, flush | calls in any order, errors between units | frames delivered once, in order |
| OBU parser, `av2/decoder/obu.c` | TU state machine, one live context and a stored one per stream | one OBU at a time; store, restore, start all contexts anew | order of some 25 OBU types; contexts swapped OBU by OBU, in units that may fail half-way | only legal units accepted; each stream finds the references it left |
| Row-MT decoder, `decodeframe.c` 4470-5283 | job queue, rows parsed and started, progress per row | parse, take a row, wait for the row above | workers that fail while others wait | every row after its neighbours, everybody leaves |
| In-loop filter rows, `av2/common/thread_common.c`, and `decode_tiles_mt` | one pool of workers, a job queue and progress per row and plane for each stage | fill a queue, launch, take a job, wait for a row, publish, sync | five stages share the workers and the arrays; the arrays outlive the frame | edges filtered in order, lines read from this frame, one stage after the other |
| Encoder threads, `av2/encoder/ethread.c` | progress per row, symbol contexts per row, rows and workers per tile | choose a tile, take a row, wait, publish, go home | workers that leave while rows remain; contexts allocated for another mode | every superblock once, from the statistics of the row above |
| Look-ahead queue, `av2/encoder/lookahead.c`, and `encoder_encode` (`av2_cx_iface.c`) | ring of source frames with two read positions, statistics buffer | push, pop, peek, leave, flush | a look-ahead pass and the encoder read at different paces; an allocation fails in the middle of a push | readers see frames once, in order, with their statistics |
| Encoder references and GOP, `av2/encoder/encode_strategy.c`, `gop_structure.c`, `subgop.c` | reference slots, display order | choose, refresh, show | sub-GOP configurations | decodable with the decoder's DPB |
| Rate control and search, entropy coder, prediction, filters, DSP | numbers | pure, or heuristics | data | compared with C references by the tests |
| Applications, tests, tools, third party | - | - | - | not part of the codec |

How they interact. An application calls `avm_codec_decode()` with a temporal unit;
`decoder_decode` (`av2_dx_iface.c` 913) gives up the frames queued by the previous call,
cuts the data into frame units and, for each, runs `frame_worker_hook` on the calling
thread through a worker's `execute`. That calls `av2_receive_compressed_data`
(`decoder.c` 791), which takes a buffer from the pool, lets the OBU parser read the
headers (which may empty slots, change the sequence or refuse the frame by a longjmp),
decodes tiles with other workers (`launch`, `sync`), filters the frame on the same
workers, and finally updates the slots and the queue of frames to output. The
application then fetches the queue with `avm_codec_get_frame()` until the next call.

On the other side `encoder_encode` (`av2_cx_iface.c`) pushes an image into the
look-ahead ring, lets the look-ahead pass (a second encoder on the same ring) read it
and store its statistics, and lets the encoder read it when the ring is full enough or
the application flushes; the tiles of the frame are coded by workers that wait for each
other's rows (`ethread.c`).

`PROJECT.json` lists these components with their sources, and the hazards: what can go
wrong here that a test would hardly reach, at the line where it bites, with the
properties that look for it.

## 2. Modules

| Module | Models |
|---|---|
| `WorkerInterface` | what `avm_thread.h` promises of a worker: one job at a time, run once, errors accumulate |
| `Worker` | `avm_thread.c`, pthread build: mutex, condition variable, status, both threads step by step |
| `MCWorker` | instance of `Worker` for TLC |
| `WorkerProofs` | five invariants, the refinement of `WorkerInterface`, no deadlock and a variant, proved |
| `Wavefront` | what the row-parallel decoding or encoding of a frame promises, whoever does the work |
| `RowMT` | `decode_tiles_row_mt`: tile queue, row scheduler, row synchronisation, failing workers |
| `MCRowMT` | instances of `RowMT` for TLC: the sizes of the tiles |
| `RowMTProofs` | five invariants, the refinement of `Wavefront`, no deadlock and a variant, proved |
| `PostFilter` | `decode_tiles_mt`, deblocking, CDEF, CCSO and loop restoration on one pool of workers |
| `MCPostFilter` | instance of `PostFilter` for TLC: the sizes of the frames |
| `PostFilterProofs` | five properties of `PostFilter`, no deadlock and a variant, proved |
| `EncRowMT` | `av2_encode_tiles_row_mt`: tile choice, row synchronisation, contexts inherited by rows |
| `MCEncRowMT` | instances of `EncRowMT` for TLC |
| `EncRowMTProofs` | the contexts, the refinement of `Wavefront`, no deadlock and a variant, proved |
| `FrameQueue` | what the look-ahead promises: frames come out in the order they went in |
| `LookAhead` | `lookahead.c`, the statistics of the look-ahead pass, and `encoder_encode` |
| `MCLookAhead` | instance of `LookAhead` for TLC |
| `LookAheadProofs` | three invariants and the refinement of `FrameQueue`, proved |
| `FrameDelivery` | what the decoder promises of its frames: each handed over at most once, none that waits lost |
| `DPB` | the decoded picture buffer and the calls that drive it |
| `MCDPB` | instances of `DPB` for TLC, with the symmetry of the buffers |
| `DPBProofs` | reference counts, pool, pixels, queue, output order, leading pictures, recovery, a variant of the calls, and the refinement of `FrameDelivery`, proved |
| `StreamDecoders` | what the decoding of several streams promises: decoders that share nothing |
| `MultiStream` | the contexts of several streams in one decoder: the OBUs of a frame unit that swap them |
| `MCMultiStream` | instance of `MultiStream` for TLC |
| `MultiStreamProofs` | three properties of `MultiStream` and the refinement of `StreamDecoders`, proved |
| `OrderHint` | `get_disp_order_hint`, with its theorem; checked by proof only |

### Worker

One action per critical step: `MainLock`, `MainWait`, `MainSet`, `MainUnlock` are the
body of `change_state`; `ThreadLock` to `ThreadSignal` are that of `thread_loop`. A
thread that waits releases the mutex and joins `waiters` atomically, as
`pthread_cond_wait` does. `Signal` releases at least one waiter and perhaps several, and
`SpuriousWakeup` releases one without a signal, as POSIX allows. In `thread_loop` the
hook runs with the mutex held, and so it does in the model. The client may call any
operation at any time, except that it keeps the rule of `avm_thread.h` 351-354 (hook,
arguments and `had_error` are only written while no launched job is outstanding); the
callers in `decodeframe.c` 5426-5443 and `ethread.c` keep it.

Simplifications. The branch of `reset()` for a busy worker cannot be reached under the
client rule. Calls on a worker that never came up are no-ops and are left out. A NULL
hook is a job that does nothing. One thread controls a worker.

### Row-parallel decoding

`RowMT` composes the workers of one tile group; the worker interface appears as
`LaunchWorker` and as the wait of `EndFrame` for all of them, as `Worker` and its proofs
justify. A worker goes through the two loops of `row_mt_worker_hook`:

    idle -LaunchWorker-> tile -TakeTile-> init -BeginTile-> parse (ParseRow)*
      -> endTile -> tile ... -NoTile-> take           parsing, tile by tile
    init, parse -ParseError-> abort -Abort-> returned; endTile -> abort
    take -StartRow-> read (-> rowWait ->) decode -> write -> read ... -> endRow -> take
    take -WaitForJob-> wait -> take                    decoding, row by row
    take -LeaveLoop-> returned                         all rows started, or row_mt_exit

What runs under one mutex is one action, and nothing else is: `BeginTile` and `StartRow`
increment `num_threads_working` in different critical sections, and a worker reads the
progress of the row above (`SyncRead`), decodes (`DecodeSb`) and publishes its own
(`SyncWrite`) in three. `Signal` wakes one waiter of the ones there are, any one;
`SpuriousWakeup` may wake more. `Waiting`, `Candidates` and `Best` are the loops of
`get_next_job_info` as sets: the minimum over the tiles with rows to decode, the limit
per tile, the most left, the first of several.

`decoded` is a history variable: the superblocks whose reconstruction is finished.
`Wavefront` sees it, with the superblocks being decoded, and knows neither workers nor
rows nor counters.

Simplifications. Rows and columns are superblocks, since every count in the code is a
multiple of a superblock. The queue is in any order rather than sorted by size. Errors
in the second loop of the hook are those raised through `cm->error` only: the checks
through `xd->error_info` repeat, on the same parsed values, checks that passed in the
first loop. An error raised through `cm->error` by a thread that is not the main thread
is a jump into another thread's stack, undefined, and left out; `SpecWithErrors` adds
those of the main thread to `Spec`. The build without threads has nothing to wait for.
`decode_tiles_mt`, whose workers decode whole tiles and share only the queue, is the
first stage of `PostFilter`.

### In-loop filters

`PostFilter` takes a frame through the stages of `av2_decode_tg_tiles_and_wrapup` that
share `pbi->tile_workers`:

    StartTiles -> (StartFilter: deblock -> cdef -> ccso -> restore) -> EndFrame

In every stage the main thread fills a queue with jobs, launches the workers, works as
the last of them and waits for all (`Synced`); `Take`, `Leave` and `Finish` are the loop
of every hook, and `Fail` is a tile that reports an error, after which the stages that
follow are skipped and `EndFrame` waits once more. A deblocking job is a row of
superblocks in one direction and plane; the horizontal edges of a row wait for the
vertical ones of the row and of the row above (`ReadAbove`, `ReadOwn`), which report
every `SyncRange` columns (`Write`) in `cur_sb_col`. A CDEF job is a row of 64x64
blocks; it copies the lines the next row needs (`Copy`), reports (`Report`, in
`is_row_done`) and waits for the lines of the row above (`ReadLines`). CCSO and
restoration jobs depend on nothing within their stage.

The arrays `cur` and `flag` outlive the stage and the frame, as in the code: they are
reset or reallocated where the code does so (`StartFilter`, `Allocated`), and frames of
two sizes in turn put that to the test. `copied` and `done` are history variables.

Simplifications. Which stages a frame has is chosen freely. The pool exists before the
first frame. `sync_range` is one constant: the code may keep that of an earlier, wider
frame, which is harmless, since what is proved holds for each value. CCSO and
restoration rows are counted in the rows of CDEF. `partial_frame` is 0, as in every
call. Left out: the single-threaded variants (CDEF, CCSO and restoration run on one
thread with `disable_loopfilters_across_tiles`), the queue of TIP frames, GDF and the
boundary lines, which the main thread handles alone, and errors raised through
`cm->error` inside a filter hook (`cdef.c` 390, `av2_loopfilter.c` 622, `ccso.c` 374,
380, 533), which are a jump into the stack of another thread.

### Row-parallel encoding

`EncRowMT` is `av2_encode_tiles_row_mt` with `enc_row_mt_worker_hook`:

    idle -LaunchWorker-> job -TakeRow-> read (-> rowWait ->) load -> encode
      -> save -> write -> read ... -> endRow -> job
    job -EndOfFrame-> returned

A worker keeps to its tile while that has rows and otherwise takes the tile with the
fewest workers (`Best`); it goes home when no tile may take one more, even if rows
remain. Row synchronisation is that of the decoder with `sync_range` 1 (`ethread.c`
141). A row starts a superblock from the symbol statistics the row above left in
`row_ctx` (`LoadContext`), and overwrites the entry for the row below (`SaveContext`) in
an array with one entry per column, not per row: `rowCtx` remembers which row wrote an
entry. Worker 0 is the main thread. `EncRowMT` implements the same `Wavefront` as the
decoder.

Simplifications. Rows are counted in superblocks (the tie-break between tiles compares
rows in units of mode info). The arrays of contexts are as large as each tile needs; in
the code all have the size for the widest. With `cdf_update_mode` 2 a frame may go
without updates (`update`). `SpecWithModes` lets the application change the mode between
frames. Left out: the first pass and TPL, which use the same synchronisation for rows of
macroblocks without contexts, the tile-parallel encoder, the jobs of global motion,
threads that cannot be created, and geometry that changes between frames.

### Look-ahead

`LookAhead` is the ring of `lookahead.c` with its two read positions and the calls of
`encoder_encode`: `Push` (an image) or `Flush` (none), `LapStage` (the look-ahead pass
takes at most one frame and writes its statistics), `EncodeStage` (the encoder codes
frames, hidden, filtered or shown, until one is visible or the ring is not full enough),
`Return`. `num_lap_buffers`, `lag_in_frames`, `pop_sz` and `max_sz` are computed from
`g_lag_in_frames` as the code does it. `FrameQueue` knows two queues of frame numbers
and nothing of a ring.

Hidden frames stay in the output buffer `cx_data` until one is shown, and the loop of
`encoder_encode` ends, with or without a visible frame, when they leave less than half
of it (`av2_cx_iface.c` 3256). `Pends` chooses what they leave: enough; too little only
once the bytes of an index are counted (`room` false), so that this call ends and the
next goes on; or too little in any case (`pending` is `"half"`), so that the next call,
and every one after it, fails (3204), after the push and before the look-ahead pass
(`Called`). A call that ends for want of room leaves the ring full: `Push` models the
refusal of the next image (`Full`), which goes unnoticed like a failed allocation. `cut`
remembers that a call has ended so, for `StatsMatch` only.

Simplifications. Which frames are coded hidden is decided by the GOP structure; here any
frame that can be peeked at may be, once. `cx_data` keeps its size (the code allocates a
larger one for a larger frame, whatever is pending). A frame size that changes needs a
new `g_lag_in_frames <= 1` (`av2_cx_iface.c` 1753); without a look-ahead pass the same
call may lower it, and the ring keeps the sizes it has. The ring exists from the start
rather than from the first image. Left out: the extra entries of BRU, errors raised
while a frame is coded, overlays of OLK frames.

### Order hints

`OrderHint` derives the display order of one frame after the other, the loop of
`get_disp_order_hint` step by step; `order` is the place the encoder gave the frame, of
which only the low bits are in the stream. It has no run of its own: orders grow without
bound, which is the point of the theorem. The return in the middle of the loop (6853)
goes past the check of the range that follows the loop; `ReturnBeyond` is that return.
`get_disp_order_hint_keyobu` is the same loop.

### DPB

State: `refCount`, `data` (pixels allocated) and `frame` (the output flags, the order
hint) of each buffer of the pool; `refMap`, `longTerm`, `cur`, `outputs` with the counts
behind them; the OLK flags; `needResync` and `decodingFirst`. `pc` tells where the
decoder is in a call:

    idle -Decode-> units -StartUnit-> (keyflush) -> assign -> sequence
      -> frame -> olk -> refresh -> tiles -> update -> final -> units ... idle
      sequence -> sef (-> sefOlk) -> sefShow -> tiles        show existing frame
      update -> prev -> next -> update | final               output_frame_buffers
    idle -Flush-> flush -> eos

From assignment to tiles, `Fail` may strike in each state: the jump back to
`av2_receive_compressed_data`, which releases the current frame and nothing else. What
the headers contain is chosen by the model (`ReadFrame`, `ReadRefresh`, `ReadSEF` take
their parameters from small sets, limited as the syntax and the checks of the code limit
them). `RefCountsMatch` is at once `check_ref_count_status_dec`, executed by the model
where the code executes it before a frame, and the property that the check never fails.

Three history variables serve the properties only: `dropped` (queue entries a flush has
given up), `beforeError` (buffers held when a unit last failed) and the field `leading`
of `frame`.

`FrameDelivery` is what `DPB` promises: buffers go through life after life. It knows a
`phase`, the `life` of each buffer and the `queue` of the call, and neither slots, nor
reference counts, nor output flags. `DPB` maps to it with `Phase` (a header is being
read, or not, or the stream has ended), with `Life(b)` (`free` without references;
`past` with `frame_output_done`; `waiting` in a slot and eligible for output; `held`
otherwise), and with `outputs`. The steps correspond as follows:

| `FrameDelivery` | `DPB` |
|---|---|
| `Call`, `End` | `Decode` and `Flush`; `Flushed` |
| `Take(f)` | `AssignBuffer` |
| `Hand(f)` | `FlushOne`, `OutputBefore`, `OutputTrigger`, `OutputNext` |
| `Store(f)` | the refresh of a slot (`RefreshSlot`) that puts a frame there to wait |
| `Retire` | `ReadFrame` with `restricted_prediction_switch` |
| `Reset` | the headers that empty slots: `ReadSequence`, `ReadOlk`, `ReadRefresh`, `SEFEndsLeading` |
| `Release` | whatever else drops references: `Fail`, `RefreshSlot`, `ShowSEF`, `FinishUnit` |

Abstractions, each with its reason:

* A buffer is any free one rather than the free one of lowest index; hence the symmetry.
* The fields of a buffer without references are blanked, since every path writes them
  before it reads them again.
* Flags of -1 and 0 in `olk_refresh_frame_flags` both read as "no slot".
* Display order hints are chosen from a small range, and `OrderHint` derives them;
  `REF_RESTRICTED_DOH` is a value above them all.
* An inter frame that arrives during a resynchronisation keeps the refresh flags of an
  earlier frame (`decodeframe.c` 8017): any flags.
* A unit that the scan of `decoder_decode` refuses ends the call (`CallEnds`).
* An OLK needs a sequence header activated by a CLK, as it does without random access.
* `Fail` is not offered inside a `read_show_existing_frame` that has passed its checks,
  since no error is raised there except the one `ShowSEF` models.
* Left out: several layers and streams, stream switching, random access, bridge frames,
  BRU, still pictures and single-picture headers, frame units without a coded frame,
  film grain, delivery to the application.

### Several streams

A bitstream may multiplex streams (x-layers) that are decoded by one decoder. The
reference slots and the other parameters of one stream are live; those of the others are
in `stream_info`, and the first OBU of another layer swaps them (`Switch`, `obu.c`
2979-3001). `MultiStream` takes a call of `avm_codec_decode()` with one frame unit
through

    idle -StartUnit-> (flush -KeyFlush->) assign -AssignBuffer-> obu (ReadOBU | ReadMSDO)*
      -ReadFrame-> header -ReadHeader-> update -Update-> idle;   obu, header -Fail-> idle
    idle -Flush-> eos

`obus` are the OBUs of the unit that are still to be read, each with its layer. A
temporal delimiter may carry the layer of a stream or of none, layer configurations and
multi-stream decoder operations (MSDO) have the global layer. The mode takes effect at
the unit after the first MSDO. `KeyFlush`, which outputs what waits before a key frame,
runs before any OBU is read and thus on the stream that happens to be live. Of a context
only the reference slots are modelled, of the output process which frames it may take
(their order is the subject of `DPB`).

`lost` is a history variable: the references that a repeated MSDO forgets when it frees
the contexts without releasing them (`obu.c` 432). `unit.before` remembers the layer
live before the unit. `StreamDecoders` knows a set of references for each stream and
nothing of layers or slots.

Simplifications. One frame unit per call. Key frames are CLKs that come with a sequence
header, as the encoder writes them, so that each is the first of its temporal unit, and
`stream_switched` has no effect on the slots. Left out: OLKs, intra-only, switch and
show-existing frames, which `DPB` has; embedded layers; the conformance checks of MSDO
against layer configurations, which are errors like others.

## 3. Runs

| Run | Bounds | Question |
|---|---|---|
| `worker` | 2 jobs, 2 spurious wake-ups | interleavings of both threads: four invariants, `CallsReturn`, refinement of `WorkerInterface` |
| `row_mt_tiles` | 3 workers, a tile of 3 x 3 superblocks and one of 1 x 1 | row synchronisation, counters, refinement of `Wavefront`, and that every frame ends although workers fail |
| `post_filter` | 3 workers, 4 tiles, 2 planes, frames of 2 x 4 superblocks with 2 CDEF rows and of 2 x 1 with 3, `SyncRange` 2 | edges and lines in order, one stage after the other, and that every frame ends |
| `enc_row_mt` | 3 workers, a tile of 4 x 5 superblocks and one of 2 x 1 | contexts of the row above, refinement of `Wavefront`, and that every frame ends |
| `look_ahead` | lags 0, 1, 3, 5; 3 buffers for the look-ahead pass; 2 sizes; 8 images | order of the frames, their statistics, what a flush leaves, refinement of `FrameQueue`, also when the output buffer fills |
| `dpb_core` | 3 buffers, 2 slots, hints 0..2, one unit per call; CLK, regular, SEF, switch, RAS | pixels, queue, output order, restricted references, recovery, size of the pool, refinement of `FrameDelivery` |
| `dpb_olk` | 3 buffers; OLK, leading, regular, SEF; one hint | what the end of the leading pictures drops |
| `dpb_small_pool` | 2 buffers, 2 units per call, `ref_frames` 1 or 2, no symmetry | the pool does not suffice, counts stay right, and every call returns |
| `multi_stream` | 2 streams, 2 slots, 4 buffers, 2 MSDOs; a delimiter on the layer of a stream or of none | counts over all contexts, refinement of `StreamDecoders`, what is lost before it is output |
| `dpb_shown_frame`, `row_mt_frame_error`, `enc_row_mt_modes` | small | disagreements 1 to 3 of section 5 |

Why the bounds are enough. Two slots and a trigger frame give every case of the output
loops: a pending frame before, at and after the trigger, next to it or behind a gap
(which needs the hints 0, 1 and 2). Two slots also give a frame held twice, a refresh of
several slots with one insertion, and a slot outside a smaller sequence. A frame in a
slot, one in the queue and the current one need three buffers, which is `NumSlots +
MaxUnits` in `dpb_core`; the pool of the program has `FRAME_BUFFERS` = 24 for each of 32
possible streams (`av2_common_int.h`), so that one stream with its 16 slots cannot empty
it within any sensible number of units in a call (section 4).
`dpb_small_pool` has fewer. Two spurious wake-ups allow one on each side of a job; the
proofs need no bound.

Three workers are one more than may decode a tile, so that one waits for a job, parses
the other tile or fails meanwhile. Two rows let one wait for the other, three columns
let it wait in the middle and at the end (`Published`) and have a neighbour above and to
the right, and with three rows the third starts while the second is still being decoded.
In the encoder five columns admit all three workers, and with four rows a context entry
is overwritten several times while rows below read it.

Four columns with `SyncRange` 2 have a column that reports, one that does not, and a
last column that reports out of turn; a frame of one column has only that one. Two
frames of different size, in any order, find the progress of a smaller and of a larger
frame in the arrays. Chroma planes differ from luma by the queue only, so two planes do.

Lag 0 and 1 have no room to look ahead, 3 equals and 5 exceeds what the look-ahead pass
may buffer. The largest ring has six entries, so that eight images write two of them a
second time.

Two streams are one to be live and one to be stored. With two slots each, four buffers
do not suffice when a repeated MSDO has leaked some, so that the pool runs out, too. Two
MSDOs are the one every such bitstream starts with and one that is repeated.

Deadlock is checked in all runs but those of the DPB and of several streams. In the
models with threads a thread that waits may wake up spuriously, so that the liveness
properties, and not the check for deadlock, say that nobody is stuck. `multi_stream` and
the DPB runs switch the check off, for both models stop after the flush at the end of
the stream, and `DPB` when the assertion in `read_show_existing_frame` would fail (what
follows a release of the shown frame is undefined).

Fairness. Both threads of a worker are scheduled (`WF` on the steps of each); the client
need not call, and wake-ups need not be spurious. In `DPB`, a call runs on the thread of
the application until it returns (`WF_vars(Decoder)`); `Decode` and `Flush` are not
fair. In `RowMT`, `PostFilter` and `EncRowMT` every worker's thread is scheduled, and
the main thread finishes launching and waiting (`WF` on each); errors, spurious wake-ups
and the next frame are not fair. `LookAhead` and `MultiStream` assume none: the
application need not call, and no liveness is claimed. No other fairness is assumed.

The main properties, beside the type invariants:

* `NoLostWakeup`: with the mutex free, the client sleeps only while a job is outstanding
  and the worker only while there is none, although they share one condition variable.
* `QuitsOnlyOnEnd`: the worker's thread, which starts while `status_` is still `NOT_OK`,
  never takes that for the order to finish.
* `NeighboursDecoded`: no superblock is decoded before those to its left, above, and
  above to the right, on which prediction and motion vector contexts rest.
* `OneOwner` (`RowMT`): a row has one worker, and at most one waits on its condition
  variable, which is why `pthread_cond_signal` suffices in `sync_write`.
* `WorkersCounted`: `num_threads_working` is right and keeps the limit although a parser
  does not look at it (a tile that begins has nobody on it: its rows are not parsed).
* `ImplementsWavefront` (`RowMT`, `EncRowMT`): no superblock is decoded twice, and a
  good frame is complete.
* `FrameEnds`: nobody waits for ever, also when a worker fails while others wait.
* `EdgesReady`: the horizontal edges of a superblock are filtered after the vertical
  edges of itself, its right neighbour and the two above them, although the wait looks
  at every second column only.
* `LinesReady`: CDEF filters a row when the row above has copied the lines between them
  in this frame, before either was filtered, although `is_row_done` outlives frames.
* `StageComplete`: a stage begins when every job of the one before it is finished,
  unless the frame has failed.
* `ContextOfRowAbove`: a superblock starts from the context that the row directly above
  wrote, which the row itself or a faster one might have overwritten.
* `PeeksInOrder`, `StatsMatch`: each reader finds consecutive frames, and the statistics
  the encoder reads are those of the frame it codes, at two read paces, through a flush
  and after calls that were cut short for want of room in the output buffer. Unless the
  last call was cut short no image is refused, and unless some call was the statistics
  fit their array.
* `FlushMeansDone`: a flush that returns no packet leaves nothing behind
  (`avm/avm_encoder.h` 1321-1325), unless it fails or was cut short. It is not true
  without that exception (section 5).
* `RefCountsMatch`, `DataHeld`: a count is the number of references; pixels live exactly
  as long as they are needed, also on the paths of errors.
* `NoPendingLost`, `OutputsInOrder`: what waits for output is output in order, or is
  dropped by one of the three named causes.
* `ImplementsDelivery`: a frame is handed over at most once while its buffer lives, in
  whichever calls (shown from a slot, flushed, overwritten, output in its turn); one
  that waits is not overwritten, nor lost in an error; a queued one keeps its buffer
  until the next call.
* `RegularSeesNoLeading`: after an OLK, the first regular frame finds no leading
  picture, so that it decodes alike whether or not they were dropped.
* `NoStaleReferenceAfterError`: no inter frame is decoded from slots that an error left.
* `NeverOutOfBuffers`, `QueueWithinArray`: the bounds the code relies on without
  checking, the second for calls with one frame unit.
* `RefsAccounted`: with several streams a count is the number of slots of all streams,
  live and stored, with the current frame, the queue and what an MSDO has forgotten;
  `check_ref_count_status_dec` gives up its check then (`decoder.h` 673).
* `ImplementsStreams`: the streams are decoded as by decoders of their own, although
  contexts are swapped OBU by OBU and a unit may fail between two of them.
* `PendingKept`: a frame that waits for output leaves the slots of its stream by being
  output, except in the two places of section 5 where the code lets go of it.

Every property of every passing run has a mutant in `PROJECT.json`: a change a plausible
bug would make in a definition, under which TLC finds the property violated.

## 4. Proofs

All constants are arbitrary within the assumptions named in the modules.

`WorkerProofs`. The inductive invariant `IInv` adds to the type invariant who holds the
mutex in which state, that a thread in `waiters` is asleep, how `status` follows the
state of both threads, and `outstanding`. It is needed because `NoLostWakeup` alone says
nothing of the states in which the mutex is held. From it: `TypeCorrect` (not in a run),
`WakeupsArrive`, `SyncWaits`, `SafeDestruction`, `NoEarlyQuit`, and `RefinesInterface`:
initial states map to initial states and every step to a step or a stutter of
`WorkerInterface`. Also `NoDeadlock` and `CallTerminates` (below).

`RowMTProofs`, for any number of workers and tiles of any size. The inductive invariant
adds to the five properties: who parses which tile and how far (`ParseInv`: the tile has
left the queue, nobody else parses it, `mi_rows_parse_done` is its row), which column a
worker on a row has reached (`RowInv`), which superblocks are decoded (`DecodedInv`:
those of a worker's row below its column, none of a row not started, all that
`cur_sb_col` announces), what a failure leaves behind (`FailInv`), the counters as
cardinalities (`CountInv`, `CompleteInv`). None can be left out: that
`NeighboursDecoded` is kept needs `DecodedInv`, which needs `OneOwner`, which needs
`RowInv`; that `num_threads_working` does not become negative needs `CountInv`, and its
limit needs `ParseInv`, `RowInv` and `DecodeBehindParse`. The lemmas say where each
action takes its worker, what it leaves alone and what it does to the workers on a tile;
then there is one step per part. From it: `TypeCorrect`, `NoRowBeforeItsParse`,
`OneWorkerPerRow`, `CountsAreRight`, `RefinesWavefront`, and `PredictionIsSafe`, the
last also for `SpecWithErrors`. `NoDeadlock` and `FrameTerminates` (below) hold for
`Spec` only: with `SpecWithErrors` the frame of disagreement 2 is stuck.

`PostFilterProofs`, for any number of workers, tiles, rows and columns and for each
`SyncRange`. `StageInv` says which jobs each stage has, `WorkInv` that a worker holds a
job of the stage within its row, `AccountInv` that a job is in the queue, with one
worker, or finished, `ColumnInv` which blocks a value of `cur_sb_col` vouches for,
`LineInv` the same for `is_row_done`. From it: `TypeCorrect`, `ExclusiveJobs`,
`VerticalBeforeHorizontal`, `LinesOfThisFrame`, `StagesInTurn`; `NoDeadlock` and
`FrameTerminates` (below).

`EncRowMTProofs`, for any number of workers and tiles of any size. A column that is
coded has been reported by all the rows above that a worker waits for (`ReadyInv`), so
that the rows that write an entry of `row_ctx` come one after the other (`ContextInv`),
the row above last. That a frame is complete when all have gone home, although workers
go home while rows remain, is `CompleteInv`: a tile with rows left once somebody has
gone home still has a worker. From it: `TypeCorrect`, `StatisticsOfRowAbove`,
`RefinesWavefront`; `NoDeadlock` and `FrameTerminates` (below). `ModeInv` says that the
contexts are there exactly when the mode asks for them, as long as it does not change:
`ContextsThereInOneMode`, for `Spec`; disagreement 3 shows it false for `SpecWithModes`.

`LookAheadProofs`, without failing allocations and for every lag, limit and number of
images. `RingInv` ties both read positions to the write position, `PaceInv` the number
of frames each reader has taken, `StatsInv` the statistics to those numbers, `FlushInv`
and `FilteredInv` what a flush and a filtered key frame leave open. `PaceInv` says what
the exit of the loop for want of room changes: the ring may then be full between two
calls, and as flushes go on the look-ahead pass may get further ahead than the array of
statistics has room for; it never falls behind, and what the readers find stays in
order. From it: `TypeCorrect`, `FramesInOrder`, `StatsOfTheFrame`, `FlushIsComplete`,
`ImplementsQueue`.

`DPBProofs`. `TInv` adds to the type invariant where `cur`, `unit.target` and `trigger`
are not NULL. `RInv` adds `RefCountsMatch` and that no queue entry has been given up
before the end of the stream. The lemmas say what dropping or overwriting slots,
appending to the queue and releasing it do to the number of holders of a buffer
(cardinalities of finite sets); then one step per action. `CountsAlwaysMatch` assumes
`~ReuseAfterFlush`: after a flush the application is done, as in `apps/avmdec.c` and
`test/decode_test_driver.cc`. Without it the theorem is false (section 5).

The other theorems of the module rest on this one. Because counts match, a buffer is
held just when a slot, the current frame or the queue refers to it, so that `PoolBound`
can count: the held buffers and those that the units left in the call may still take are
at most `NumSlots + MaxUnits`. Hence `NeverRunsOut` for a pool of that size; the share
of one stream in `FRAME_BUFFERS`, 24, is enough for 16 slots and 8 units per call, and
the pool has 32 such shares. `UnheldInv`, `HeldInv`, `CurrentInv`: a buffer has pixels
just when it is held, except the current one before its header is read (`PixelsHeld`).
`OutputInv`, `DoneInv`: what is queued has been marked as output and is held, so nothing
is queued twice in a call (`QueuedOnce`, which states `NoFrameTwice`; the refinement
below says it across calls), and the queue has at most `NumSlots + MaxUnits` entries;
with one unit per call it fits its array (`QueueFits`). `ResyncBeforeInter` proves
`NoStaleReferenceAfterError` for sequences that keep `ref_frames`. These theorems also
assume `~ReuseAfterFlush`.

`DisplayOrder` needs one fact of the loop that outputs the frames after the trigger:
what still waits comes no later than the trigger or no earlier than the next hint
looked for (`ReachInv`). It assumes nothing of flushes. `WaitingFramesReachApplication`
goes through the actions that empty or overwrite a slot; that a key frame which starts
a unit finds nothing waiting (`NothingPending`) is what the flush before it is for.
`LeadingPicturesGone` follows a leading picture from its header to the slot
(`UnitInv`), through the loop that refreshes slots one by one (`TodoInv`), and says that
no slot with one has a long-term id (`LongTermInv`) and that none is in a slot of the
OLK once the OLK is decoded (`OlkInv`); of these the end of the leading pictures leaves
nothing. `ShownFrameHeld` (`ShownInv`) is the assertion of disagreement 1 with the one
case excepted in which it fails, so that there is no other.

`RefinesDelivery`: every step of `DPB` is a step or a stutter of `FrameDelivery`, for
any pool, number of slots and units in a call. The invariants above suffice. A life ends
only with the last reference (`CountsAlwaysMatch`), and a queued frame is marked and
referenced (`DoneInv`), so that no step but the next call frees it (`QueuedLive`). A
step that gives references up changes a life to `free` or not at all, and a waiting one
only while a header empties slots (`GivesLife`): errors drop the current frame, which is
in no slot yet (`CurrentInv`). Whatever takes a buffer finds it blank (`UnheldInv`), and
whatever is queued was not marked before (`QueuesOne`). It assumes `~ReuseAfterFlush`:
with a call after a flush, references are given up twice (section 5).

The step lemmas share four facts about control flow, one for each group of actions
(`CallFlow`, `ReadFrameKeeps`, `HeaderFlow`, `UpdateFlow`): from which `pc` to which,
and which variables stay. `StepParts` splits `Next` into these groups.

Liveness, as far as it is safety. What `FrameEnds`, `CallReturns` and `CallsReturn` say
is proved but for its last step. `NoDeadlock` (in `DPBProofs`: `CallsGoOn`) says that
until the end is reached some thread can take a step. A variant (`FrameTerminates`,
`CallTerminates`, `CallsTerminate`) says that each step brings the end nearer in a
lexicographic order of numbers and finite sets, a wake-up without a signal excepted.
Fairness and the well-foundedness of the order give the liveness property; these two
stay with TLC, since a temporal proof would need `WF` and ENABLED.

The argument against deadlock is alike in all: no wake-up is lost (who waits, waits for
something that has not happened: `WaitersInv`, `WaitInv`, `RowWaitInv`, `SleepInv`), and
who is waited for is held by a worker that has still to report (`ReportInv`, `EdgesInv`,
`RowsInv`). Of the workers that wait for a row, the one with the least row waits for one
that does not wait for a row. In `RowMT` a worker may wait for a job as well: when all
do, nobody parses and the queue is empty (`QueueInv`), so that every tile is parsed and,
unless a worker has failed and ended the frame, has a row to take (`JobWaitInv`). In
`PostFilter` the vertical edges of all rows are taken before the horizontal ones, and
vertical edges wait for nobody; a row of CDEF waits for the lines of the row above,
which that row reports before it waits itself.

`OrderHint`. `OrderDerived`: if the encoder keeps a frame less than half the range
before the largest order in the slots and at most half the range after it, the decoder
derives the order the encoder meant, for every number of bits. The two ends of the
window differ, and with wider ones the theorem is false.

`MultiStreamProofs`, for any number of streams, slots and buffers. What makes the counts
provable is `ContextsKept`: an OBU of another layer changes where the contexts are kept,
and no context. It needs `ModeInv`: contexts are swapped only once an MSDO has been read
in an earlier unit, and until then the stored contexts and, while a unit is read, the
live slots are empty. That the first frame is decoded with an MSDO seen needs `ObusInv`
(the frame is the last OBU of its unit), that a refresh changes the context of its
stream `LiveInv`, that the new frame is no reference of any stream `CurInv`.
`CountChange` says, in cardinalities, what a change of some slots of one stream does to
the references counted over all streams. `WaitsInv` and `FlushInv` say which frames may
wait. From it: `TypeCorrect`, `ReferencesAccounted`, `RefinesStreams`, `FramesKept`. No
assumption is made about errors, repeated MSDOs or the size of the pool.

Only model-checked: the liveness properties themselves, for the reason above
(`FrameEnds` of three models, `CallReturns`, `CallsReturn`), and the fairness part of
`ImplementsInterface`; every other property of a passing run is stated by a theorem. No
definition is RECURSIVE, and no theorem is about what a recursion computes. Where a
least element is needed (the least row that waits, the earliest frame), `NatMin` gives
it, which follows from the well-foundedness of `<` on the naturals and replaces
induction.

## 5. Where code and documentation disagree

Shown by a run:

1. `dpb_shown_frame`: a regular show-existing frame that ends the leading pictures of an
   OLK may empty the slot it shows; `assert(ref_count > 0)` (`decodeframe.c` 7189) then
   fails.
2. `row_mt_frame_error`: some checks of a block report through `cm->error`
   (`decodeframe.c` 1058-1066, 1219-1240; `reconinter.c` 1974). When the main thread
   runs into one in its hook, `row_mt_exit` stays 0 and the handler of
   `av2_receive_compressed_data` waits for workers that wait for the main thread.
3. `enc_row_mt_modes`: `cdf_update_mode` switched on between two frames leaves `row_ctx`
   NULL, since `ethread.c` 986-993 allocates only when the tiles change, and the rows
   read and write it. Switched off, the array is leaked (`ethread.c` 218).

Met while modelling, without a run of their own:

* `decoder_decode(NULL, 0)` drops the references of the frames it leaves queued
  (`av2_dx_iface.c` 953-955), and the next call drops them again (935-938), against
  `decoder.h` 648 and 692. `ReuseAfterFlush = TRUE` in `DPBCore.cfg` shows the counts
  fall below the references. An application that flushes once, at the end, never sees
  it.
* `reset_ref_frame_map` says it resets all elements of `ref_frame_map` (`decodeframe.c`
  6658); it resets those of the sequence just activated (6662). What is left stays
  counted, and `dpb_small_pool` finds no harm in it.
* The comment on `get_next_job_info` (4968-4973) does not name `num_threads_working`, on
  which it depends too and which changes without a signal. Nobody is stuck: whoever
  changes it looks for a job next (`FrameEnds`).
* `av2_lookahead_push` has advanced its indices when an allocation fails (`lookahead.c`
  105-124); the error does not reach the caller (`av2_cx_iface.c` 3182), and an entry
  with an older image is coded. `AllocFails = TRUE` in `LookAhead.cfg`, with
  `CopiesImage` as an invariant, shows it.
* "Encoding is complete when avm_codec_encode() is called with img set to NULL and
  avm_codec_get_cx_data() returns no data" (`avm/avm_encoder.h` 1323). When hidden
  frames leave less than half of `cx_data`, the loop of `encoder_encode` ends
  (`av2_cx_iface.c` 3256): a flush then returns success and no packet although frames
  are left, and the next call fails (3204). If only the index makes the difference, the
  next call goes on, but its image is refused without an error (3180-3183), and the
  look-ahead pass may have more statistics than its array has entries. `FlushMeansDone`
  without `room`, `PeeksInOrder` without `room` and `StatsMatch` without `cut` fail in
  `LookAhead.cfg`.
* `output_frames` has `REF_FRAMES + 1` entries (`decoder.h` 354), enough for one frame
  unit per call. `decoder_decode` takes several (`av2_dx_iface.c` 1023-1028) and never
  compares `num_output_frames` with the size. With `MaxUnits = 2` and four buffers in
  `DPBCore.cfg`, `QueueWithinArray` fails; the bound that holds is `NumSlots + MaxUnits`
  (section 4).
* Frames of a stream that wait for output while another stream is live are lost at the
  next key frame of their stream: the flush before a key frame looks at the live slots,
  before the OBUs that switch streams are read (`decoder.c` 814-818). The flush at the
  end of the stream outputs the waiting frames of the live stream only, too
  (`av2_dx_iface.c` 944-952), against "Each substream has its own sub-DPB" (`enums.h`
  1113). `PendingKept` without its last disjunct fails.
* A repeated MSDO, as `tools/stream_multiplexer.cc` 156-180 writes one per key unit of
  the first stream, frees the contexts (`obu.c` 432) without releasing their references:
  the buffers are never used again (`lost`), and the other streams find empty slots.
* `need_resync` is one flag for all streams (`decodeframe.c` 7993): the key frame of one
  ends the resynchronisation of another.
* The message at `obu.c` 395 says at most 4 streams, where `AVM_MAX_NUM_STREAMS` is 32.
* `get_disp_order_hint` returns at 6853 without the check of the range at its end. Only
  a frame at the upper end of the window of `OrderDerived`, or beyond it, returns there.

## 6. Not modelled

* Frame buffer callbacks: the internal list hands out the first unused entry; its calls
  are sequential, and what depends on their order, that a buffer with pixels is in use,
  is `DataHeld`.
* Decoder interface: delivery through an index of the application, grain images, random
  access and the drop of leading pictures, first-in-unit detection, control calls. Grain
  images are released at the next call, whether or not the application still uses them
  (`av2_dx_iface.c` 944), and `obu_list` is lost when a unit fails (1138): neither is a
  question of states.
* OBU parser: the order of the OBUs of a temporal unit (`MultiStream` has those that
  switch contexts), and of a context everything but the reference slots. The DPB model
  chooses what headers contain within what the parser accepts.
* DPB: several embedded layers, bridge frames, BRU (with `bru_opt_mode` the refresh
  of the BRU slot is skipped, `decoder.c` 723), still pictures.
* Filters: the TIP queue (`thread_common.c` 814) and the errors of filter hooks, see
  section 2.
* Encoder references and GOP structure: configuration files decide what is coded when;
  rate control, search and entropy coding are arithmetic.
* Prediction, transforms, filters of samples, DSP, memory and ports: data, compared with
  C references by the tests of the repository.
* Applications, tests, tools and third-party code are not part of the codec.

By its lines the repository is mostly arithmetic, tables and search; what is modelled
here is a small share of them, and the share in which order and failure matter.

## 7. Plan

Left, most important first:

1. The OBU order state machine of a temporal unit.
2. The decoder interface: delivery, random access and the drop of leading pictures,
   first-in-unit detection; composed with `DPB`.
3. A pool of workers over `WorkerInterface` (`reset_dec_workers`, `launch_dec_workers`,
   `sync_dec_workers` and their error path), composed with `RowMT` and `PostFilter`.
4. Encoder references, against the decoder's `DPB`; the TPL and first-pass users of the
   row synchronisation.
