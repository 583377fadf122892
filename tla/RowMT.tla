-------------------------------- MODULE RowMT --------------------------------
(***************************************************************************)
(* Row-parallel decoding of the tiles of one frame (av2/decoder/            *)
(* decodeframe.c, decode_tiles_row_mt).  Every worker first parses whole    *)
(* tiles, taken from a queue, and then decodes superblock rows: rows whose  *)
(* tile has been parsed that far, handed out by get_next_job_info.  Two     *)
(* rows of a tile run at the same time; sync_read and sync_write keep the   *)
(* lower one behind the upper one.  The last worker is the main thread.     *)
(*                                                                          *)
(* A step between two lock operations is one action: what runs with         *)
(* row_mt_mutex_, job_mutex or the mutex of a row held is atomic.  Rows and *)
(* columns are counted in superblocks.                                      *)
(***************************************************************************)
EXTENDS Integers, FiniteSets

CONSTANTS NumWorkers,  \* workers that are launched, the main thread included
          NumTiles,    \* tiles of the tile group
          Rows, Cols   \* superblock rows and columns of each tile

Tiles == 0..(NumTiles - 1)
Workers == 1..NumWorkers

ASSUME NumWorkersAssumption == NumWorkers \in Nat \ {0}
ASSUME TilesAssumption == /\ NumTiles \in Nat \ {0}
                          /\ Rows \in [Tiles -> Nat \ {0}]
                          /\ Cols \in [Tiles -> Nat \ {0}]

VARIABLES
  busy,      \* the main thread is between row_mt_frame_init and the last sync
  good,      \* ~pbi->dcb.corrupted after sync_dec_workers
  queue,     \* tiles of job_queue that have not been dequeued
  parsed,    \* mi_rows_parse_done of each tile
  started,   \* mi_rows_decode_started of each tile
  working,   \* num_threads_working of each tile
  parseDone,     \* mi_rows_parse_done of the frame
  decodeStarted, \* mi_rows_decode_started of the frame
  exit,      \* row_mt_exit
  col,       \* cur_sb_col of each row
  pc, job,   \* where each worker is, and the tile, row and column it works on
  failed,    \* td->dcb.corrupted of each worker
  decoded    \* history: the superblocks whose decoding is finished

frameVars == <<busy, good>>
jobVars == <<parsed, started, parseDone, decodeStarted>>
vars == <<busy, good, queue, parsed, started, working, parseDone, decodeStarted,
          exit, col, pc, job, failed, decoded>>

\* the promise: see module Wavefront
W == INSTANCE Wavefront WITH
       decoding <- {<<job[w].tile, job[w].row, job[w].col>> :
                      w \in {w \in Workers : pc[w] = "decode"}}

PCs == {"idle", "tile", "init", "parse", "endTile", "abort",
        "take", "wait", "read", "rowWait", "decode", "write", "endRow", "returned"}
Jobs == [tile : Tiles, row : Nat, col : Nat]
NoJob == [tile |-> 0, row |-> 0, col |-> 0]

RowsToDecode == Cardinality(W!SbRows)

\* get_max_row_mt_workers_per_tile
MaxWorkers(t) == IF Rows[t] = 1 THEN 1 ELSE 2

-----------------------------------------------------------------------------
(* Threads that wait.  pthread_cond_signal releases one waiter (and perhaps *)
(* more, like a spurious wake-up), pthread_cond_broadcast all of them.      *)

JobWaiters == {w \in Workers : pc[w] = "wait"}
RowWaiters(t, r) ==
  {w \in Workers : pc[w] = "rowWait" /\ job[w].tile = t /\ job[w].row = r + 1}

Signal(waiters) == IF waiters = {} THEN {{}} ELSE {{w} : w \in waiters}

\* worker w goes on at "to"; the woken ones check their condition again
Goto(w, to, woken) ==
  pc' = [v \in Workers |-> IF v = w THEN to
                           ELSE IF v \notin woken THEN pc[v]
                           ELSE IF pc[v] = "wait" THEN "take" ELSE "read"]

-----------------------------------------------------------------------------
(* The main thread: decode_tiles_row_mt                                     *)

Init ==
  /\ busy = FALSE
  /\ good = TRUE
  /\ queue = {}
  /\ parsed = [t \in Tiles |-> 0]
  /\ started = [t \in Tiles |-> 0]
  /\ working = [t \in Tiles |-> 0]
  /\ parseDone = 0
  /\ decodeStarted = 0
  /\ exit = FALSE
  /\ col = [s \in W!SbRows |-> -1]
  /\ pc = [w \in Workers |-> "idle"]
  /\ job = [w \in Workers |-> NoJob]
  /\ failed = [w \in Workers |-> FALSE]
  /\ decoded = {}

\* mutant: the progress of the rows is that of the frame before
StartFrameOldProgress ==
  /\ ~busy
  /\ busy' = TRUE
  /\ queue' = Tiles
  /\ parsed' = [t \in Tiles |-> 0]
  /\ started' = [t \in Tiles |-> 0]
  /\ working' = [t \in Tiles |-> 0]
  /\ parseDone' = 0
  /\ decodeStarted' = 0
  /\ exit' = FALSE
  /\ failed' = [w \in Workers |-> FALSE]
  /\ job' = [w \in Workers |-> NoJob]
  /\ decoded' = {}
  /\ UNCHANGED <<good, col, pc>>

\* tile_mt_queue, row_mt_frame_init, reset_dec_workers.  The queue is sorted
\* by the sizes of the tiles: any order.
StartFrame ==
  /\ ~busy
  /\ busy' = TRUE
  /\ queue' = Tiles
  /\ parsed' = [t \in Tiles |-> 0]
  /\ started' = [t \in Tiles |-> 0]
  /\ working' = [t \in Tiles |-> 0]
  /\ parseDone' = 0
  /\ decodeStarted' = 0
  /\ exit' = FALSE
  /\ col' = [s \in W!SbRows |-> -1]
  /\ failed' = [w \in Workers |-> FALSE]
  /\ job' = [w \in Workers |-> NoJob]
  /\ decoded' = {}
  /\ UNCHANGED <<good, pc>>

\* launch_dec_workers: in the order of the workers; the main thread is the last
LaunchWorker(w) ==
  /\ busy
  /\ pc[w] = "idle"
  /\ \A v \in 1..(w - 1) : pc[v] # "idle"
  /\ Goto(w, "tile", {})
  /\ UNCHANGED <<frameVars, queue, jobVars, working, exit, col, job, failed, decoded>>

\* mutant: only the result of the main thread counts
EndFrameMainOnly ==
  /\ busy
  /\ \A w \in Workers : pc[w] = "returned"
  /\ busy' = FALSE
  /\ good' = ~failed[NumWorkers]
  /\ pc' = [w \in Workers |-> "idle"]
  /\ UNCHANGED <<queue, jobVars, working, exit, col, job, failed, decoded>>

\* sync_dec_workers, or the handler in av2_receive_compressed_data
EndFrame ==
  /\ busy
  /\ \A w \in Workers : pc[w] = "returned"
  /\ busy' = FALSE
  /\ good' = (\A w \in Workers : ~failed[w])
  /\ pc' = [w \in Workers |-> "idle"]
  /\ UNCHANGED <<queue, jobVars, working, exit, col, job, failed, decoded>>

-----------------------------------------------------------------------------
(* row_mt_worker_hook, first loop: whole tiles are parsed                   *)

\* get_dec_job_info
TakeTile(w) ==
  /\ pc[w] = "tile"
  /\ \E t \in queue : /\ queue' = queue \ {t}
                      /\ job' = [job EXCEPT ![w] = [NoJob EXCEPT !.tile = t]]
  /\ Goto(w, "init", {})
  /\ UNCHANGED <<frameVars, jobVars, working, exit, col, failed, decoded>>

NoTile(w) ==
  /\ pc[w] = "tile"
  /\ queue = {}
  /\ Goto(w, "take", {})
  /\ UNCHANGED <<frameVars, queue, jobVars, working, exit, col, job, failed, decoded>>

BeginTile(w) ==
  /\ pc[w] = "init"
  /\ working' = [working EXCEPT ![job[w].tile] = @ + 1]
  /\ Goto(w, "parse", {})
  /\ UNCHANGED <<frameVars, queue, jobVars, exit, col, job, failed, decoded>>

\* a row of parse_tile_row_mt, and signal_parse_sb_row_done
ParseRow(w) ==
  LET t == job[w].tile IN
  /\ pc[w] = "parse"
  /\ job[w].row < Rows[t]
  /\ parsed' = [parsed EXCEPT ![t] = @ + 1]
  /\ parseDone' = parseDone + 1
  /\ job' = [job EXCEPT ![w].row = @ + 1]
  /\ \E woken \in Signal(JobWaiters) : Goto(w, "parse", woken)
  /\ UNCHANGED <<frameVars, queue, started, working, decodeStarted, exit, col,
                 failed, decoded>>

\* the reader has run past the end of the tile's data
Overflow(w) ==
  /\ pc[w] = "parse"
  /\ job[w].row < Rows[job[w].tile]
  /\ failed' = [failed EXCEPT ![w] = TRUE]
  /\ Goto(w, "endTile", {})
  /\ UNCHANGED <<frameVars, queue, jobVars, working, exit, col, job, decoded>>

\* check_trailing_bits_after_symbol_coder
TrailingBits(w) ==
  /\ pc[w] = "parse"
  /\ job[w].row = Rows[job[w].tile]
  /\ \E bad \in BOOLEAN : failed' = [failed EXCEPT ![w] = bad]
  /\ Goto(w, "endTile", {})
  /\ UNCHANGED <<frameVars, queue, jobVars, working, exit, col, job, decoded>>

EndTile(w) ==
  /\ pc[w] = "endTile"
  /\ working' = [working EXCEPT ![job[w].tile] = @ - 1]
  /\ Goto(w, IF failed[w] THEN "abort" ELSE "tile", {})
  /\ UNCHANGED <<frameVars, queue, jobVars, exit, col, job, failed, decoded>>

\* a longjmp to the hook (no data, impossible partition, ...): the worker
\* leaves the tile, and num_threads_working stays as it is
ParseError(w) ==
  /\ \/ pc[w] = "init"
     \/ pc[w] = "parse" /\ job[w].row < Rows[job[w].tile]
  /\ failed' = [failed EXCEPT ![w] = TRUE]
  /\ Goto(w, "abort", {})
  /\ UNCHANGED <<frameVars, queue, jobVars, working, exit, col, job, decoded>>

\* mutant: one worker learns of the failure, the others wait
AbortSignalsOne(w) ==
  /\ pc[w] = "abort"
  /\ exit' = TRUE
  /\ \E woken \in Signal(JobWaiters) : Goto(w, "returned", woken)
  /\ UNCHANGED <<frameVars, queue, jobVars, working, col, job, failed, decoded>>

Abort(w) ==
  /\ pc[w] = "abort"
  /\ exit' = TRUE
  /\ Goto(w, "returned", JobWaiters)
  /\ UNCHANGED <<frameVars, queue, jobVars, working, col, job, failed, decoded>>

\* An error raised through cm->error while the main thread runs its hook
\* (BRU and bridge frame checks, BAWP): the jump leaves the hook.
FrameError(w) ==
  /\ w = NumWorkers
  /\ pc[w] = "decode" \/ (pc[w] = "parse" /\ job[w].row < Rows[job[w].tile])
  /\ failed' = [failed EXCEPT ![w] = TRUE]
  /\ Goto(w, "returned", {})
  /\ UNCHANGED <<frameVars, queue, jobVars, working, exit, col, job, decoded>>

-----------------------------------------------------------------------------
(* row_mt_worker_hook, second loop: get_next_job_info                       *)

EndOfFrame == decodeStarted = RowsToDecode \/ exit

Waiting == {t \in Tiles : parsed[t] > started[t]}

\* mutant: any number of workers may decode a tile
CandidatesUncapped == {t \in Waiting : \A u \in Waiting : working[t] <= working[u]}

\* among the tiles with a row to decode, those with the fewest workers; then
\* the one with the most superblocks left, the first of several
Candidates ==
  {t \in Waiting : /\ working[t] < MaxWorkers(t)
                   /\ \A u \in Waiting : working[t] <= working[u]}

Left(t) == (Rows[t] - started[t]) * Cols[t]

Best == {t \in Candidates :
           \A u \in Candidates : Left(t) > Left(u) \/ (Left(t) = Left(u) /\ t <= u)}

\* the return value of get_next_job_info
JobFound == EndOfFrame \/ (parseDone # decodeStarted /\ Best # {})

LeaveLoop(w) ==
  /\ pc[w] = "take"
  /\ EndOfFrame
  /\ Goto(w, "returned", {})
  /\ UNCHANGED <<frameVars, queue, jobVars, working, exit, col, job, failed, decoded>>

\* mutant: the row stays the next one of its tile
StartRowTwice(w) ==
  /\ pc[w] = "take"
  /\ ~EndOfFrame
  /\ JobFound
  /\ \E t \in Best :
       /\ job' = [job EXCEPT ![w] = [tile |-> t, row |-> started[t], col |-> 0]]
       /\ working' = [working EXCEPT ![t] = @ + 1]
  /\ decodeStarted' = decodeStarted + 1
  /\ Goto(w, "read", IF decodeStarted' = RowsToDecode THEN JobWaiters ELSE {})
  /\ UNCHANGED <<frameVars, queue, parsed, started, parseDone, exit, col, failed,
                 decoded>>

StartRow(w) ==
  /\ pc[w] = "take"
  /\ ~EndOfFrame
  /\ JobFound
  /\ \E t \in Best :
       /\ job' = [job EXCEPT ![w] = [tile |-> t, row |-> started[t], col |-> 0]]
       /\ working' = [working EXCEPT ![t] = @ + 1]
       /\ started' = [started EXCEPT ![t] = @ + 1]
  /\ decodeStarted' = decodeStarted + 1
  /\ Goto(w, "read", IF decodeStarted' = RowsToDecode THEN JobWaiters ELSE {})
  /\ UNCHANGED <<frameVars, queue, parsed, parseDone, exit, col, failed, decoded>>

WaitForJob(w) ==
  /\ pc[w] = "take"
  /\ ~JobFound
  /\ Goto(w, "wait", {})
  /\ UNCHANGED <<frameVars, queue, jobVars, working, exit, col, job, failed, decoded>>

-----------------------------------------------------------------------------
(* decode_tile_sb_row                                                       *)

\* sync_read, with nsync = 1
MayDecode(t, r, c) == r = 0 \/ c <= col[<<t, r - 1>>] - 1

SyncRead(w) ==
  /\ pc[w] = "read"
  /\ Goto(w, IF MayDecode(job[w].tile, job[w].row, job[w].col) THEN "decode"
             ELSE "rowWait", {})
  /\ UNCHANGED <<frameVars, queue, jobVars, working, exit, col, job, failed, decoded>>

\* decode_partition_sb
DecodeSb(w) ==
  /\ pc[w] = "decode"
  /\ decoded' = decoded \cup {<<job[w].tile, job[w].row, job[w].col>>}
  /\ Goto(w, "write", {})
  /\ UNCHANGED <<frameVars, queue, jobVars, working, exit, col, job, failed>>

\* what sync_write stores in cur_sb_col: no reader waits for a finished row
Published(t, c) == IF c < Cols[t] - 1 THEN c ELSE Cols[t] + 1

\* sync_write, and the next round of the loop over the columns
SyncWrite(w) ==
  LET t == job[w].tile
      r == job[w].row
      c == job[w].col
  IN
  /\ pc[w] = "write"
  /\ col' = [col EXCEPT ![<<t, r>>] = Published(t, c)]
  /\ job' = [job EXCEPT ![w].col = c + 1]
  /\ \E woken \in Signal(RowWaiters(t, r)) :
       Goto(w, IF c < Cols[t] - 1 THEN "read" ELSE "endRow", woken)
  /\ UNCHANGED <<frameVars, queue, jobVars, working, exit, failed, decoded>>

EndRow(w) ==
  /\ pc[w] = "endRow"
  /\ working' = [working EXCEPT ![job[w].tile] = @ - 1]
  /\ Goto(w, "take", {})
  /\ UNCHANGED <<frameVars, queue, jobVars, exit, col, job, failed, decoded>>

\* pthread_cond_wait may return without a signal
SpuriousWakeup(w) ==
  /\ pc[w] \in {"wait", "rowWait"}
  /\ Goto(w, IF pc[w] = "wait" THEN "take" ELSE "read", {})
  /\ UNCHANGED <<frameVars, queue, jobVars, working, exit, col, job, failed, decoded>>

-----------------------------------------------------------------------------
ParseSteps(w) ==
  TakeTile(w) \/ NoTile(w) \/ BeginTile(w) \/ ParseRow(w) \/ Overflow(w)
  \/ TrailingBits(w) \/ EndTile(w) \/ ParseError(w) \/ Abort(w)

DecodeSteps(w) ==
  LeaveLoop(w) \/ StartRow(w) \/ WaitForJob(w) \/ SyncRead(w) \/ DecodeSb(w)
  \/ SyncWrite(w) \/ EndRow(w)

Worker(w) == ParseSteps(w) \/ DecodeSteps(w)

Next ==
  \/ StartFrame
  \/ EndFrame
  \/ \E w \in Workers : LaunchWorker(w) \/ Worker(w) \/ SpuriousWakeup(w)

\* The main thread finishes what it began, and every thread is scheduled.
\* Nothing is assumed of errors, of spurious wake-ups, or of the next frame.
Fairness == /\ WF_vars(EndFrame)
            /\ \A w \in Workers : WF_vars(LaunchWorker(w)) /\ WF_vars(Worker(w))

Spec == Init /\ [][Next]_vars /\ Fairness

\* the same, with the errors of the main thread that bypass its hook
NextWithErrors == Next \/ \E w \in Workers : FrameError(w)

SpecWithErrors == Init /\ [][NextWithErrors]_vars /\ Fairness

-----------------------------------------------------------------------------
TypeOK ==
  /\ busy \in BOOLEAN
  /\ good \in BOOLEAN
  /\ queue \in SUBSET Tiles
  /\ parsed \in [Tiles -> Nat]
  /\ started \in [Tiles -> Nat]
  /\ working \in [Tiles -> Nat]
  /\ parseDone \in Nat
  /\ decodeStarted \in Nat
  /\ exit \in BOOLEAN
  /\ col \in [W!SbRows -> Int]
  /\ pc \in [Workers -> PCs]
  /\ job \in [Workers -> Jobs]
  /\ failed \in [Workers -> BOOLEAN]
  /\ decoded \in SUBSET W!Sbs

RowPCs == {"read", "rowWait", "decode", "write", "endRow"}
OnRow(w) == pc[w] \in RowPCs
OnTile(t) ==
  {w \in Workers : pc[w] \in RowPCs \cup {"parse", "endTile"} /\ job[w].tile = t}

\* decoder.h, AV2DecRowMTInfo: mi_rows_parse_done never falls behind
\* mi_rows_decode_started; nor does it for a single tile, where it means that a
\* row is decoded only after it has been parsed.
DecodeBehindParse ==
  /\ decodeStarted <= parseDone
  /\ \A t \in Tiles : started[t] <= parsed[t] /\ parsed[t] <= Rows[t]

\* A worker decodes a superblock only when those it is predicted from are
\* finished, whoever decodes them (sync_read, sync_write).
NeighboursDecoded ==
  \A w \in Workers : pc[w] = "decode" =>
    W!Neighbours(job[w].tile, job[w].row, job[w].col) \subseteq decoded

\* No two workers decode the same row, and at most one waits for a row:
\* pthread_cond_signal in sync_write reaches everybody it concerns.
OneOwner ==
  \A v, w \in Workers :
    v # w /\ OnRow(v) /\ OnRow(w) /\ job[v].tile = job[w].tile => job[v].row # job[w].row

\* num_threads_working, which decides who gets which row, is the number of
\* workers on the tile until somebody fails, and never above the limit of
\* get_max_row_mt_workers_per_tile, although a parser does not look at it.
WorkersCounted ==
  (\A w \in Workers : ~failed[w]) =>
    \A t \in Tiles : /\ working[t] = Cardinality(OnTile(t))
                     /\ working[t] <= MaxWorkers(t)

\* Every frame ends: no worker waits for ever for a row to be parsed, for a
\* superblock above, or for the end of the frame, whoever fails and when.
\* decoder.c 832: after an error all threads are synchronized immediately.
FrameEnds == busy ~> ~busy

\* A frame is decoded as Wavefront says, and is complete when it is good.
ImplementsWavefront == W!Spec
=============================================================================
