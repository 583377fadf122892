----------------------------- MODULE PostFilter -----------------------------
(***************************************************************************)
(* The stages of one frame that share the pool pbi->tile_workers: the tiles *)
(* (decode_tiles_mt), then deblocking, CDEF, CCSO and loop restoration      *)
(* (av2_decode_tg_tiles_and_wrapup with av2/common/thread_common.c).  In    *)
(* every stage the main thread fills a queue of jobs, launches the workers, *)
(* works as the last one of them, and waits for all.  Within deblocking and *)
(* CDEF the jobs depend on each other, through cur_sb_col and is_row_done.  *)
(*                                                                          *)
(* What runs with a mutex held is one action.  A job is a tile, a row of    *)
(* superblocks in one direction and plane, or a row of 64x64 blocks.        *)
(***************************************************************************)
EXTENDS Integers, FiniteSets

CONSTANTS NumWorkers, \* threads of the pool, the main thread included
          NumTiles,   \* tiles of a frame
          Planes,     \* planes of the sequence; 0 is luma
          Sizes,      \* sizes a frame can have, see FrameSizes
          SyncRange   \* get_sync_range: how often a row reports progress

Workers == 1..NumWorkers
FrameSizes == [sbRows : Nat \ {0}, sbCols : Nat \ {0}, fbRows : Nat \ {0}]

ASSUME NumWorkersAssumption == NumWorkers \in Nat \ {0}
ASSUME NumTilesAssumption == NumTiles \in Nat \ {0}
ASSUME PlanesAssumption == 0 \in Planes /\ Planes \subseteq 0..2
ASSUME SizesAssumption == Sizes # {} /\ Sizes \subseteq FrameSizes
ASSUME SyncRangeAssumption == SyncRange \in {1, 2, 4, 8}

VARIABLES
  stage,   \* the stage the frame is in; "idle" between two frames
  size,    \* superblock rows and columns, and rows of 64x64 blocks
  jobs,    \* the jobs that were enqueued for the stage
  queue,   \* those of them that have not been dequeued
  cur,     \* cur_sb_col of each plane and superblock row
  flag,    \* is_row_done of each allocated row of 64x64 blocks
  pc, job, \* where each worker is, and the job and the column it works on
  waiting, \* the workers that are in pthread_cond_wait
  failed,  \* the workers whose hook returned an error
  copied,  \* history: the rows whose border lines are in the line buffers
  done     \* history: the blocks the stage has finished

vars == <<stage, size, jobs, queue, cur, flag, pc, job, waiting, failed, copied, done>>
stageVars == <<stage, size, jobs>>
syncVars == <<cur, flag>>

Stages == {"tiles", "deblock", "cdef", "ccso", "restore"}
PCs == {"idle", "take", "above", "own", "copy", "report", "lines", "filter", "write",
        "returned"}

\* the order of the stages in av2_decode_tg_tiles_and_wrapup
Rank(s) == CASE s = "tiles" -> 1 [] s = "deblock" -> 2 [] s = "cdef" -> 3
             [] s = "ccso" -> 4 [] OTHER -> 5

SbRows == 0..(size.sbRows - 1)
FbRows == 0..(size.fbRows - 1)

Jobs == [dir : {0, 1}, plane : 0..2, row : Nat]
NoWork == [dir |-> 0, plane |-> 0, row |-> 0, col |-> 0]
JobOf(b) == [dir |-> b.dir, plane |-> b.plane, row |-> b.row]
Holds(w) == pc[w] \notin {"idle", "take", "returned"}

\* columns of a job
LastCol == IF stage = "deblock" THEN size.sbCols - 1 ELSE 0

\* deblock has one queue: the vertical edges (dir 0) of all rows come first.
\* CDEF counts its rows, the others sort their jobs by their expected cost.
Before(j, k) ==
  \/ j.dir < k.dir
  \/ j.dir = k.dir /\ j.plane < k.plane
  \/ j.dir = k.dir /\ j.plane = k.plane /\ j.row < k.row

First(j) ==
  /\ j \in queue
  /\ stage \in {"deblock", "cdef"} => \A k \in queue : ~Before(k, j)

-----------------------------------------------------------------------------
(* The main thread                                                          *)

\* what a stage may enqueue: with deblocking luma is always filtered; CCSO
\* leaves out rows without a block and has no stage when nothing is left
Enqueued(s) ==
  CASE s = "tiles" -> {[dir : {0}, plane : {0}, row : a..b] :
                         a, b \in 0..(NumTiles - 1)} \ {{}}
    [] s = "deblock" -> {[dir : {0, 1}, plane : P, row : SbRows] :
                           P \in {Q \in SUBSET Planes : 0 \in Q}}
    [] s = "cdef" -> {[dir : {0}, plane : {0}, row : FbRows]}
    [] s = "ccso" -> (SUBSET [dir : {0}, plane : Planes, row : FbRows]) \ {{}}
    [] OTHER -> {[dir : {0}, plane : P, row : FbRows] : P \in (SUBSET Planes) \ {{}}}

\* decode_tiles_mt launches no more workers than there are tiles; a single tile
\* is decoded by the main thread alone
Launched(s, js) ==
  IF s = "tiles" THEN {w \in Workers : w <= Cardinality(js)} ELSE Workers

Launch(s) ==
  /\ stage' = s
  /\ jobs' \in Enqueued(s)
  /\ queue' = jobs'
  /\ pc' = [w \in Workers |-> IF w \in Launched(s, jobs') THEN "take" ELSE "idle"]
  /\ job' = [w \in Workers |-> NoWork]
  /\ waiting' = {}
  /\ failed' = {}
  /\ copied' = {}
  /\ done' = {}

Init ==
  /\ stage = "idle"
  /\ size \in Sizes
  /\ jobs = {}
  /\ queue = {}
  /\ cur = [x \in Planes \X SbRows |-> -1]
  /\ flag = [r \in FbRows |-> FALSE]
  /\ pc = [w \in Workers |-> "idle"]
  /\ job = [w \in Workers |-> NoWork]
  /\ waiting = {}
  /\ failed = {}
  /\ copied = {}
  /\ done = {}

\* reset_dec_workers, launch_dec_workers for the first tile group of a frame
StartFrame ==
  /\ stage = "idle"
  /\ size' \in Sizes
  /\ Launch("tiles")
  /\ \E j \in jobs' : j.row = 0
  /\ UNCHANGED syncVars

\* mutant: the main thread waits for itself and the first worker only
SyncedFirst == \A w \in {1, NumWorkers} : pc[w] \in {"idle", "returned"}

\* winterface->sync of all workers
Synced == \A w \in Workers : pc[w] \in {"idle", "returned"}

LastTileDone == stage = "tiles" => \E j \in jobs : j.row = NumTiles - 1

\* the next tile group of the frame
StartTiles ==
  /\ stage = "tiles"
  /\ Synced
  /\ failed = {}
  /\ Launch("tiles")
  /\ \A j \in jobs, k \in jobs' : j.row < k.row
  /\ \E j \in jobs, k \in jobs' : k.row = j.row + 1
  /\ UNCHANGED <<size, syncVars>>

\* mutant: the flags of the frame before are kept when there are more rows
AllocatedKept == [r \in FbRows |-> IF r \in DOMAIN flag THEN flag[r] ELSE FALSE]

\* av2_alloc_cdef_buffers: new flags when the number of rows has changed
Allocated == IF DOMAIN flag = FbRows THEN flag ELSE [r \in FbRows |-> FALSE]

\* the frame header says which filters are used
StartFilter(s) ==
  /\ stage # "idle"
  /\ Synced
  /\ failed = {}
  /\ LastTileDone
  /\ Rank(s) > Rank(stage)
  /\ flag' = Allocated
  /\ cur' = IF s = "deblock" THEN [x \in Planes \X SbRows |-> -1] ELSE cur
  /\ Launch(s)
  /\ UNCHANGED size

\* the last filter is done, or the frame is given up between two tile groups or
\* by the error that decode_tiles_mt raises
EndFrame ==
  /\ stage # "idle"
  /\ Synced
  /\ stage' = "idle"
  /\ flag' = IF failed = {} /\ LastTileDone THEN Allocated ELSE flag
  /\ pc' = [w \in Workers |-> "idle"]
  /\ UNCHANGED <<size, jobs, queue, cur, job, waiting, failed, copied, done>>

-----------------------------------------------------------------------------
(* The loop of the hooks                                                    *)

\* worker w goes on at "to", and the woken ones check their condition again
Goto(w, to, woken) ==
  /\ pc' = [pc EXCEPT ![w] = to]
  /\ waiting' = waiting \ woken

At(w, p) == pc[w] = p /\ w \notin waiting

Wait(w) ==
  /\ waiting' = waiting \cup {w}
  /\ UNCHANGED <<queue, syncVars, pc, job, copied, done>>

\* where a job begins
Entry(j) == IF stage = "cdef" THEN "copy"
            ELSE IF stage = "deblock" /\ j.dir = 1 THEN "above" ELSE "filter"

\* mutant: the job stays in the queue
TakeAndKeep(w) ==
  /\ At(w, "take")
  /\ \E j \in queue :
       /\ First(j)
       /\ queue' \in {queue, queue \ {j}}
       /\ job' = [job EXCEPT ![w] = [dir |-> j.dir, plane |-> j.plane,
                                     row |-> j.row, col |-> 0]]
       /\ Goto(w, Entry(j), {})
  /\ UNCHANGED <<stageVars, syncVars, failed, copied, done>>

\* get_dec_job_info, get_lf_job_info, get_cdef_row_next_job, get_ccso_job_info,
\* get_lr_job_info
Take(w) ==
  /\ At(w, "take")
  /\ \E j \in queue :
       /\ First(j)
       /\ queue' = queue \ {j}
       /\ job' = [job EXCEPT ![w] = [dir |-> j.dir, plane |-> j.plane,
                                     row |-> j.row, col |-> 0]]
       /\ Goto(w, Entry(j), {})
  /\ UNCHANGED <<stageVars, syncVars, failed, copied, done>>

Leave(w) ==
  /\ At(w, "take")
  /\ queue = {}
  /\ Goto(w, "returned", {})
  /\ UNCHANGED <<stageVars, queue, syncVars, job, failed, copied, done>>

\* tile_worker_hook: decode_tile raised an error
Fail(w) ==
  /\ stage = "tiles"
  /\ At(w, "filter")
  /\ failed' = failed \cup {w}
  /\ Goto(w, "returned", {})
  /\ UNCHANGED <<stageVars, queue, syncVars, job, copied, done>>

\* the next column of a row, or the next job
Proceed(w, to, woken) ==
  IF job[w].col < LastCol
  THEN job' = [job EXCEPT ![w].col = @ + 1] /\ Goto(w, to, woken)
  ELSE job' = [job EXCEPT ![w] = NoWork] /\ Goto(w, "take", woken)

\* a tile is decoded, a block filtered
Finish(w) ==
  /\ At(w, "filter")
  /\ done' = done \cup {job[w]}
  /\ IF stage = "deblock" /\ job[w].dir = 0
     THEN job' = job /\ Goto(w, "write", {})
     ELSE Proceed(w, "above", {})
  /\ UNCHANGED <<stageVars, queue, syncVars, failed, copied>>

-----------------------------------------------------------------------------
(* Deblocking                                                               *)

\* the threads that wait for a row of a plane
ColumnWaiters(p, r) ==
  {w \in waiting : /\ job[w].plane = p
                   /\ \/ pc[w] = "above" /\ job[w].row = r + 1
                      \/ pc[w] = "own" /\ job[w].row = r}

\* only some columns are reported, the last one always
Reports(c) == c = LastCol \/ c % SyncRange = 0

\* mutant: one thread is woken
WriteSignalsOne(w) ==
  LET p == job[w].plane
      r == job[w].row
      c == job[w].col
  IN
  /\ At(w, "write")
  /\ IF Reports(c)
     THEN /\ cur' = [cur EXCEPT ![<<p, r>>] = IF c < LastCol THEN c ELSE c + 1 + SyncRange]
          /\ \E woken \in (IF ColumnWaiters(p, r) = {} THEN {{}}
                           ELSE {{v} : v \in ColumnWaiters(p, r)}) :
               Proceed(w, "filter", woken)
     ELSE cur' = cur /\ Proceed(w, "filter", {})
  /\ UNCHANGED <<stageVars, queue, flag, failed, copied, done>>

\* sync_write
Write(w) ==
  LET p == job[w].plane
      r == job[w].row
      c == job[w].col
  IN
  /\ At(w, "write")
  /\ IF Reports(c)
     THEN /\ cur' = [cur EXCEPT ![<<p, r>>] = IF c < LastCol THEN c ELSE c + 1 + SyncRange]
          /\ Proceed(w, "filter", ColumnWaiters(p, r))
     ELSE cur' = cur /\ Proceed(w, "filter", {})
  /\ UNCHANGED <<stageVars, queue, flag, failed, copied, done>>

\* mutant: the column itself is enough
MayReadBelow(p, r, c) == r = 0 \/ c % SyncRange # 0 \/ c <= cur[<<p, r - 1>>]

\* the condition of sync_read(r, c): row r - 1 is SyncRange columns ahead
MayRead(p, r, c) == r = 0 \/ c % SyncRange # 0 \/ c <= cur[<<p, r - 1>>] - SyncRange

\* sync_read of the row above, and of the row itself
Read(w, at, row, to) ==
  /\ At(w, at)
  /\ IF MayRead(job[w].plane, row, job[w].col)
     THEN Goto(w, to, {}) /\ UNCHANGED <<queue, syncVars, job, copied, done>>
     ELSE Wait(w)
  /\ UNCHANGED <<stageVars, failed>>

ReadAbove(w) == Read(w, "above", job[w].row, "own")
ReadOwn(w) == Read(w, "own", job[w].row + 1, "filter")

-----------------------------------------------------------------------------
(* CDEF: a row is filtered in place and needs the lines of its neighbours   *)
(* as they were, so that each row keeps its last lines for the row below    *)
(* and the first lines of the row below for itself.                         *)

\* av2_cdef_init_fb_row_mt
Copy(w) ==
  /\ At(w, "copy")
  /\ copied' = copied \cup {job[w].row}
  /\ Goto(w, "report", {})
  /\ UNCHANGED <<stageVars, queue, syncVars, job, failed, done>>

LineWaiters(r) == {w \in waiting : pc[w] = "lines" /\ job[w].row = r + 1}

\* cdef_row_mt_sync_write
Report(w) ==
  LET r == job[w].row IN
  /\ At(w, "report")
  /\ flag' = [flag EXCEPT ![r] = TRUE]
  /\ \E woken \in (IF LineWaiters(r) = {} THEN {{}} ELSE {{v} : v \in LineWaiters(r)}) :
       Goto(w, "lines", woken)
  /\ UNCHANGED <<stageVars, queue, cur, job, failed, copied, done>>

\* cdef_row_mt_sync_read: the flag is reset for the next frame
ReadLines(w) ==
  LET r == job[w].row IN
  /\ At(w, "lines")
  /\ IF r = 0 \/ flag[r - 1]
     THEN /\ flag' = IF r = 0 THEN flag ELSE [flag EXCEPT ![r - 1] = FALSE]
          /\ Goto(w, "filter", {})
          /\ UNCHANGED <<queue, cur, job, copied, done>>
     ELSE Wait(w)
  /\ UNCHANGED <<stageVars, failed>>

SpuriousWakeup(w) ==
  /\ w \in waiting
  /\ waiting' = waiting \ {w}
  /\ UNCHANGED <<stageVars, queue, syncVars, pc, job, failed, copied, done>>

-----------------------------------------------------------------------------
Worker(w) ==
  \/ Take(w) \/ Leave(w) \/ Finish(w)
  \/ Write(w) \/ ReadAbove(w) \/ ReadOwn(w)
  \/ Copy(w) \/ Report(w) \/ ReadLines(w)

Main == StartTiles \/ (\E s \in Stages : StartFilter(s)) \/ EndFrame

Next == \/ StartFrame
        \/ Main
        \/ \E w \in Workers : Worker(w) \/ Fail(w) \/ SpuriousWakeup(w)

\* Every thread is scheduled; nothing is assumed of the next frame, of errors
\* and of spurious wake-ups.
Fairness == WF_vars(Main) /\ \A w \in Workers : WF_vars(Worker(w))

Spec == Init /\ [][Next]_vars /\ Fairness

-----------------------------------------------------------------------------
Blocks == [dir : {0, 1}, plane : 0..2, row : Nat, col : Nat]

\* all blocks of the jobs of the stage
AllBlocks == {[dir |-> j.dir, plane |-> j.plane, row |-> j.row, col |-> c] :
                j \in jobs, c \in 0..LastCol}

TypeOK ==
  /\ stage \in Stages \cup {"idle"}
  /\ size \in Sizes
  /\ jobs \in SUBSET Jobs
  /\ queue \in SUBSET jobs
  /\ \E s \in Sizes : cur \in [Planes \X (0..(s.sbRows - 1)) -> Int]
  /\ \E s \in Sizes : flag \in [0..(s.fbRows - 1) -> BOOLEAN]
  /\ pc \in [Workers -> PCs]
  /\ job \in [Workers -> Blocks]
  /\ waiting \in SUBSET Workers
  /\ failed \in SUBSET Workers
  /\ copied \in SUBSET Nat
  /\ done \in SUBSET Blocks

\* No job is done by two workers, although the pool takes the jobs of five
\* stages from five queues.
OneOwner ==
  \A v, w \in Workers : v # w /\ Holds(v) /\ Holds(w) => JobOf(job[v]) # JobOf(job[w])

\* The horizontal edges of a block are filtered only after the vertical edges
\* of the block, of its right neighbour, and of the two above them (comments
\* in thread_loop_filter_rows), although a row tells only every SyncRange-th
\* column.
EdgesReady ==
  \A w \in Workers :
    LET b == job[w] IN
    stage = "deblock" /\ pc[w] = "filter" /\ b.dir = 1 =>
      \A r \in {b.row - 1, b.row} \cap Nat, c \in {b.col, b.col + 1} \cap (0..LastCol) :
        [dir |-> 0, plane |-> b.plane, row |-> r, col |-> c] \in done

\* CDEF works on unfiltered lines of this frame: a row is filtered only when
\* the row above has saved the lines between them, which it does before either
\* of the two is filtered.
LinesReady ==
  stage = "cdef" =>
    \A w \in Workers :
      /\ pc[w] = "filter" /\ job[w].row > 0 => job[w].row - 1 \in copied
      /\ pc[w] = "copy" =>
           /\ \A b \in done : b.row \notin {job[w].row, job[w].row + 1}
           /\ \A v \in Workers :
                pc[v] = "filter" => job[v].row \notin {job[w].row, job[w].row + 1}

\* A stage, or a tile group, is left only when all its blocks are finished and no
\* worker is in its hook, so that the next one, which runs other hooks on the same workers
\* and the same frame, sees all of it; only an error in a tile leaves earlier.
StageComplete ==
  [][stage # "idle" /\ stageVars' # stageVars /\ failed = {} =>
       /\ done = AllBlocks
       /\ \A w \in Workers : ~Holds(w)]_vars

\* Every frame ends, with an error or not: no worker waits for ever for
\* another row.
FrameEnds == stage # "idle" ~> stage = "idle"
=============================================================================
