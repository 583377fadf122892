------------------------------- MODULE EncRowMT -------------------------------
(***************************************************************************)
(* Row-parallel encoding of one frame (av2/encoder/ethread.c,              *)
(* av2_encode_tiles_row_mt).  Workers take superblock rows under one       *)
(* mutex, keep to their tile while it has rows, and otherwise move to the  *)
(* tile with the fewest workers.  Rows of a tile run side by side;         *)
(* sync_read and sync_write keep each behind the one above.  A row also    *)
(* inherits its symbol statistics: the contexts in row_ctx, one array per  *)
(* tile, are written by the row above and overwritten by the row itself.   *)
(* Worker 0 is the main thread.  Rows are counted in superblocks; what     *)
(* runs with a mutex held is one action.  The first pass uses the same     *)
(* protocol for rows of macroblocks, without contexts.                     *)
(***************************************************************************)
EXTENDS Integers, FiniteSets

CONSTANTS NumWorkers,  \* workers that are launched, the main thread included
          NumTiles,    \* tiles of the frame
          Rows, Cols   \* superblock rows and columns of each tile

Tiles == 0..(NumTiles - 1)
Workers == 0..(NumWorkers - 1)

ASSUME NumWorkersAssumption == NumWorkers \in Nat \ {0}
ASSUME TilesAssumption == /\ NumTiles \in Nat \ {0}
                          /\ Rows \in [Tiles -> Nat \ {0}]
                          /\ Cols \in [Tiles -> Nat \ {0}]

VARIABLES
  busy,      \* av2_encode_tiles_row_mt is running
  cdfMode,   \* cdf_update_mode is not 0
  update,    \* allow_update_cdf of the tiles of this frame
  memory,    \* the arrays of row_mt_mem_alloc exist
  hasCtx,    \* row_ctx is not NULL
  rowCtx,    \* the row that wrote an entry of row_ctx, -1 if none of this frame
  next,      \* next_mi_row of each tile
  working,   \* num_threads_working of each tile
  finished,  \* num_finished_cols of each row
  pc, job,   \* where each worker is, and the tile, row and column it works on
  coded      \* history: the superblocks whose encoding is finished

ctxVars == <<cdfMode, update, memory, hasCtx>>
vars == <<busy, ctxVars, rowCtx, next, working, finished, pc, job, coded>>

\* the promise: see module Wavefront.  The hook reports no errors.
W == INSTANCE Wavefront WITH
       decoding <- {<<job[w].tile, job[w].row, job[w].col>> :
                      w \in {w \in Workers : pc[w] = "encode"}},
       decoded <- coded,
       good <- TRUE

PCs == {"idle", "job", "read", "rowWait", "load", "encode", "save", "write",
        "endRow", "returned"}
Jobs == [tile : Tiles, row : Nat, col : Nat]

\* row_ctx of each tile: max_cols - 1 entries, at least one
Entries(t) == 0..(IF Cols[t] = 1 THEN 0 ELSE Cols[t] - 2)
Contexts == UNION {{t} \X Entries(t) : t \in Tiles}

\* theoretical_limit_on_threads
Limit(t) == LET pairs == (Cols[t] + 1) \div 2
            IN IF pairs < Rows[t] THEN pairs ELSE Rows[t]

\* worker w goes on at "to"; the woken ones check their condition again
Goto(w, to, woken) ==
  pc' = [v \in Workers |-> IF v = w THEN to ELSE IF v \in woken THEN "read" ELSE pc[v]]

-----------------------------------------------------------------------------
(* The main thread: av2_encode_tiles_row_mt                                 *)

Init ==
  /\ busy = FALSE
  /\ cdfMode \in BOOLEAN
  /\ update = FALSE
  /\ memory = FALSE
  /\ hasCtx = FALSE
  /\ rowCtx = [x \in Contexts |-> -1]
  /\ next = [t \in Tiles |-> 0]
  /\ working = [t \in Tiles |-> 0]
  /\ finished = [s \in W!SbRows |-> -1]
  /\ pc = [w \in Workers |-> "idle"]
  /\ job = [w \in Workers |-> [tile |-> 0, row |-> 0, col |-> 0]]
  /\ coded = {}

\* mutant: the progress of the rows is left from the frame before
StartFrameOldProgress ==
  /\ ~busy
  /\ busy' = TRUE
  /\ update' \in {u \in BOOLEAN : u => cdfMode}
  /\ memory' = TRUE
  /\ hasCtx' = IF memory THEN hasCtx ELSE cdfMode
  /\ rowCtx' = [x \in Contexts |-> -1]
  /\ next' = [t \in Tiles |-> 0]
  /\ working' = [t \in Tiles |-> 0]
  /\ job' = [w \in Workers |-> [tile |-> w % NumTiles, row |-> 0, col |-> 0]]
  /\ coded' = {}
  /\ UNCHANGED <<cdfMode, finished, pc>>

\* av2_init_tile_data, row_mt_mem_alloc, assign_tile_to_thread.  With mode 2
\* a frame may go without updates.
StartFrame ==
  /\ ~busy
  /\ busy' = TRUE
  /\ update' \in {u \in BOOLEAN : u => cdfMode}
  /\ memory' = TRUE
  /\ hasCtx' = IF memory THEN hasCtx ELSE cdfMode
  /\ rowCtx' = [x \in Contexts |-> -1]
  /\ next' = [t \in Tiles |-> 0]
  /\ working' = [t \in Tiles |-> 0]
  /\ finished' = [s \in W!SbRows |-> -1]
  /\ job' = [w \in Workers |-> [tile |-> w % NumTiles, row |-> 0, col |-> 0]]
  /\ coded' = {}
  /\ UNCHANGED <<cdfMode, pc>>

\* launch_enc_workers: the main thread is the last
LaunchWorker(w) ==
  /\ busy
  /\ pc[w] = "idle"
  /\ \A v \in (w + 1)..(NumWorkers - 1) : pc[v] # "idle"
  /\ Goto(w, "job", {})
  /\ UNCHANGED <<busy, ctxVars, rowCtx, next, working, finished, job, coded>>

\* sync_enc_workers
EndFrame ==
  /\ busy
  /\ \A w \in Workers : pc[w] = "returned"
  /\ busy' = FALSE
  /\ pc' = [w \in Workers |-> "idle"]
  /\ UNCHANGED <<ctxVars, rowCtx, next, working, finished, job, coded>>

-----------------------------------------------------------------------------
(* enc_row_mt_worker_hook                                                   *)

HasRows(t) == next[t] < Rows[t]

\* switch_tile_and_get_next_job: the fewest workers, then the most rows left
\* (the code counts them in mode info units, where a last row may be less)
Eligible == {t \in Tiles : HasRows(t) /\ working[t] < Limit(t)}
Left(t) == Rows[t] - next[t]
Best ==
  {t \in Eligible : \A u \in Eligible :
     \/ working[t] < working[u]
     \/ working[t] = working[u] /\ Left(t) > Left(u)
     \/ working[t] = working[u] /\ Left(t) = Left(u) /\ t <= u}

\* get_next_job
TakeRow(w, t) ==
  /\ job' = [job EXCEPT ![w] = [tile |-> t, row |-> next[t], col |-> 0]]
  /\ working' = [working EXCEPT ![t] = @ + 1]
  /\ next' = [next EXCEPT ![t] = @ + 1]

\* the tile of the last row first, whatever its limit
NextJob(w) ==
  /\ pc[w] = "job"
  /\ \E t \in IF HasRows(job[w].tile) THEN {job[w].tile} ELSE Best : TakeRow(w, t)
  /\ Goto(w, "read", {})
  /\ UNCHANGED <<busy, ctxVars, rowCtx, finished, coded>>

\* no tile has rows left and fewer workers than its limit
EndOfFrame(w) ==
  /\ pc[w] = "job"
  /\ ~HasRows(job[w].tile)
  /\ Eligible = {}
  /\ Goto(w, "returned", {})
  /\ UNCHANGED <<busy, ctxVars, rowCtx, next, working, finished, job, coded>>

EndRow(w) ==
  /\ pc[w] = "endRow"
  /\ working' = [working EXCEPT ![job[w].tile] = @ - 1]
  /\ Goto(w, "job", {})
  /\ UNCHANGED <<busy, ctxVars, rowCtx, next, finished, job, coded>>

-----------------------------------------------------------------------------
(* encode_sb_row                                                            *)

\* av2_row_mt_sync_read, with sync_range = 1
MayEncode(t, r, c) == r = 0 \/ c <= finished[<<t, r - 1>>] - 1

SyncRead(w) ==
  /\ pc[w] = "read"
  /\ Goto(w, IF ~MayEncode(job[w].tile, job[w].row, job[w].col) THEN "rowWait"
             ELSE IF update /\ job[w].row > 0 THEN "load" ELSE "encode", {})
  /\ UNCHANGED <<busy, ctxVars, rowCtx, next, working, finished, job, coded>>

\* where the context of the superblock above and to the right is found
LoadEntry(t, c) == IF c = 0 \/ c < Cols[t] - 1 THEN c ELSE c - 1

\* the context of the tile is restored, or averaged with that of the row above
LoadContext(w) ==
  /\ pc[w] = "load"
  /\ Goto(w, "encode", {})
  /\ UNCHANGED <<busy, ctxVars, rowCtx, next, working, finished, job, coded>>

Saves(t, r, c) == update /\ r < Rows[t] - 1 /\ (Cols[t] = 1 \/ c >= 1)
SaveEntry(t, c) == IF Cols[t] = 1 THEN 0 ELSE c - 1

\* encode_rd_sb
EncodeSb(w) ==
  /\ pc[w] = "encode"
  /\ coded' = coded \cup {<<job[w].tile, job[w].row, job[w].col>>}
  /\ Goto(w, IF Saves(job[w].tile, job[w].row, job[w].col) THEN "save" ELSE "write", {})
  /\ UNCHANGED <<busy, ctxVars, rowCtx, next, working, finished, job>>

SaveContext(w) ==
  /\ pc[w] = "save"
  /\ rowCtx' = [rowCtx EXCEPT
                  ![<<job[w].tile, SaveEntry(job[w].tile, job[w].col)>>] = job[w].row]
  /\ Goto(w, "write", {})
  /\ UNCHANGED <<busy, ctxVars, next, working, finished, job, coded>>

RowWaiters(t, r) ==
  {w \in Workers : pc[w] = "rowWait" /\ job[w].tile = t /\ job[w].row = r + 1}

\* mutants: a distance of one superblock less; a last column like the others
PublishedEarly(t, c) == c + 1
PublishedAsIs(t, c) == c

Published(t, c) == IF c < Cols[t] - 1 THEN c ELSE Cols[t] + 1

\* av2_row_mt_sync_write: pthread_cond_signal wakes one waiter of the row
SyncWrite(w) ==
  LET t == job[w].tile
      r == job[w].row
      c == job[w].col
  IN
  /\ pc[w] = "write"
  /\ finished' = [finished EXCEPT ![<<t, r>>] = Published(t, c)]
  /\ job' = [job EXCEPT ![w].col = c + 1]
  /\ \E woken \in IF RowWaiters(t, r) = {} THEN {{}} ELSE {{v} : v \in RowWaiters(t, r)} :
       Goto(w, IF c < Cols[t] - 1 THEN "read" ELSE "endRow", woken)
  /\ UNCHANGED <<busy, ctxVars, rowCtx, next, working, coded>>

\* pthread_cond_wait may return without a signal
SpuriousWakeup(w) ==
  /\ pc[w] = "rowWait"
  /\ Goto(w, "read", {})
  /\ UNCHANGED <<busy, ctxVars, rowCtx, next, working, finished, job, coded>>

-----------------------------------------------------------------------------
Worker(w) ==
  NextJob(w) \/ EndOfFrame(w) \/ EndRow(w) \/ SyncRead(w) \/ LoadContext(w)
  \/ EncodeSb(w) \/ SaveContext(w) \/ SyncWrite(w)

Next ==
  \/ StartFrame
  \/ EndFrame
  \/ \E w \in Workers : LaunchWorker(w) \/ Worker(w) \/ SpuriousWakeup(w)

\* The main thread finishes what it began, and every thread is scheduled.
Fairness == /\ WF_vars(EndFrame)
            /\ \A w \in Workers : WF_vars(LaunchWorker(w)) /\ WF_vars(Worker(w))

Spec == Init /\ [][Next]_vars /\ Fairness

\* The application may also change the mode between frames
\* (AV2E_SET_CDF_UPDATE_MODE).
SetCdfUpdateMode ==
  /\ ~busy
  /\ cdfMode' = ~cdfMode
  /\ UNCHANGED <<busy, update, memory, hasCtx, rowCtx, next, working, finished, pc, job,
                 coded>>

SpecWithModes == Init /\ [][Next \/ SetCdfUpdateMode]_vars /\ Fairness

-----------------------------------------------------------------------------
TypeOK ==
  /\ busy \in BOOLEAN /\ cdfMode \in BOOLEAN /\ update \in BOOLEAN
  /\ memory \in BOOLEAN /\ hasCtx \in BOOLEAN
  /\ rowCtx \in [Contexts -> Int]
  /\ next \in [Tiles -> Nat] /\ \A t \in Tiles : next[t] <= Rows[t]
  /\ working \in [Tiles -> Nat]
  /\ finished \in [W!SbRows -> Int]
  /\ pc \in [Workers -> PCs]
  /\ job \in [Workers -> Jobs]
  /\ coded \in SUBSET W!Sbs

\* Whatever the timing of the workers, the statistics a superblock starts from
\* are those of the superblock above and to its right: the entry it reads was
\* written last by the row above, in this frame, and nobody is writing it.
ContextOfRowAbove ==
  \A w \in Workers : pc[w] = "load" =>
    LET t == job[w].tile
        i == LoadEntry(t, job[w].col)
    IN /\ rowCtx[<<t, i>>] = job[w].row - 1
       /\ \A v \in Workers : pc[v] = "save" /\ job[v].tile = t => SaveEntry(t, job[v].col) # i

\* Every frame ends: nobody waits for ever for the row above, although a worker
\* goes home as soon as the tiles that have rows have workers enough.
FrameEnds == busy ~> ~busy

\* The superblocks are encoded as Wavefront says: each once, after those it is
\* predicted from, and all of them before the frame is packed.
ImplementsWavefront == W!Spec

\* "Codec control function to set CDF update mode ... 1: update on every frame"
\* (avmcx.h 423): the contexts are loaded and saved where there is memory.
ContextsAllocated ==
  \A w \in Workers : pc[w] \in {"load", "save"} => hasCtx
=============================================================================
