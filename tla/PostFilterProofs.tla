-------------------------- MODULE PostFilterProofs --------------------------
(***************************************************************************)
(* Proofs about PostFilter, for any pool, any set of frame sizes and every  *)
(* SyncRange the code can choose.  The inductive invariant accounts for the *)
(* jobs of a stage (queued, held by one worker, or finished) and says what  *)
(* cur_sb_col and is_row_done stand for.                                    *)
(***************************************************************************)
EXTENDS PostFilter, FiniteSetTheorems, WellFoundedInduction, TLAPS

Block(j, c) == [dir |-> j.dir, plane |-> j.plane, row |-> j.row, col |-> c]

\* a stage that is running, and its jobs
StageInv ==
  /\ stage = "idle" => \A w \in Workers : pc[w] = "idle"
  /\ stage # "idle" => pc[1] # "idle"
  /\ stage \notin {"idle", "tiles"} => failed = {} /\ DOMAIN flag = FbRows
  /\ stage = "deblock" => /\ cur \in [Planes \X SbRows -> Int]
                          /\ \A j \in jobs : j.plane \in Planes /\ j.row \in SbRows
  /\ stage = "cdef" => jobs = [dir : {0}, plane : {0}, row : FbRows]
  /\ \A w \in Workers : pc[w] = "returned" => queue = {} \/ failed # {}

\* what a worker in its hook works on
Work(w) ==
  /\ JobOf(job[w]) \in jobs \ queue
  /\ job[w].col \in 0..LastCol
  /\ pc[w] \in {"above", "own"} => stage = "deblock" /\ job[w].dir = 1
  /\ pc[w] = "write" => stage = "deblock" /\ job[w].dir = 0 /\ job[w] \in done
  /\ pc[w] \in {"copy", "report", "lines"} => stage = "cdef"
  /\ \A c \in 0..(job[w].col - 1) : Block(job[w], c) \in done

WorkInv == \A w \in Workers : Holds(w) => Work(w)

\* a job that has been dequeued is held or finished
AccountInv ==
  stage # "idle" =>
    /\ done \subseteq AllBlocks
    /\ failed = {} =>
         \A j \in jobs \ queue :
           \/ \E w \in Workers : Holds(w) /\ JobOf(job[w]) = j
           \/ \A c \in 0..LastCol : Block(j, c) \in done

\* the block of columns that c belongs to is filtered, and one column more
Ahead(p, r, c) == (c - (c % SyncRange)) + SyncRange <= cur[<<p, r>>]

\* cur_sb_col never runs ahead of the vertical edges, and a reader that has
\* passed sync_read may go on to the next multiple of SyncRange
ColumnWork(w) ==
  LET b == job[w] IN
  /\ b.dir = 0 => cur[<<b.plane, b.row>>] <= b.col
  /\ b.dir = 1 /\ b.row > 0 /\ (pc[w] # "above" \/ b.col % SyncRange # 0) =>
       Ahead(b.plane, b.row - 1, b.col)
  /\ b.dir = 1 /\ (pc[w] = "filter" \/ b.col % SyncRange # 0) =>
       Ahead(b.plane, b.row, b.col)

ColumnInv ==
  stage = "deblock" =>
    /\ \A p \in Planes, r \in SbRows, c \in 0..LastCol :
         c <= cur[<<p, r>>] =>
           [dir |-> 0, plane |-> p, row |-> r, col |-> c] \in done
    /\ \A j \in queue : j.dir = 0 => cur[<<j.plane, j.row>>] = -1
    /\ \A w \in Workers : Holds(w) => ColumnWork(w)

FbJob(r) == [dir |-> 0, plane |-> 0, row |-> r]

\* row r has read the lines above it
Past(r) == \/ Block(FbJob(r), 0) \in done
           \/ \E w \in Workers : pc[w] = "filter" /\ job[w].row = r

\* row r has reported its lines, or is about to wait for those above
Reported(r) == /\ FbJob(r) \notin queue
               /\ \A w \in Workers : pc[w] \in {"copy", "report"} => job[w].row # r

\* is_row_done is set from the report of a row until the row below has read it
LineInv ==
  /\ \A r \in DOMAIN flag : r + 1 \in DOMAIN flag /\ stage # "cdef" => ~flag[r]
  /\ stage = "cdef" =>
       /\ \A r \in FbRows : r + 1 \in FbRows =>
            /\ flag[r] => r \in copied /\ Reported(r) /\ ~Past(r + 1)
            /\ Past(r + 1) => r \in copied /\ Reported(r) /\ ~flag[r]
       /\ \A w \in Workers : pc[w] \in {"report", "lines", "filter"} => job[w].row \in copied
       /\ \A b \in done : JobOf(b) \notin queue
       /\ \A b \in done, w \in Workers : Holds(w) => job[w].row # b.row

IInv == TypeOK /\ StageInv /\ WorkInv /\ OneOwner /\ AccountInv /\ ColumnInv /\ LineInv

-----------------------------------------------------------------------------
(* Sizes, and the arithmetic of SyncRange.                                  *)

LEMMA SizeFacts ==
  ASSUME TypeOK
  PROVE  /\ size.sbRows \in Nat \ {0} /\ size.sbCols \in Nat \ {0}
         /\ size.fbRows \in Nat \ {0}
         /\ LastCol \in Nat
         /\ SbRows \subseteq Nat /\ FbRows \subseteq Nat
<1>1. size \in FrameSizes
  BY SizesAssumption DEF TypeOK
<1> QED
  BY <1>1 DEF FrameSizes, LastCol, SbRows, FbRows

LEMMA RangeFacts ==
  ASSUME NEW c \in Nat
  PROVE  /\ SyncRange \in Nat \ {0}
         /\ c % SyncRange \in 0..(SyncRange - 1)
         /\ (c + 1) % SyncRange # 0 => (c + 1) % SyncRange = (c % SyncRange) + 1
<1>1. CASE SyncRange = 1
  BY <1>1
<1>2. CASE SyncRange = 2
  BY <1>2
<1>3. CASE SyncRange = 4
  BY <1>3
<1>4. CASE SyncRange = 8
  BY <1>4
<1> QED
  BY <1>1, <1>2, <1>3, <1>4, SyncRangeAssumption

-----------------------------------------------------------------------------
(* What a worker's step leaves alone.                                       *)

Others(w) ==
  /\ UNCHANGED stageVars
  /\ pc' \in [Workers -> PCs]
  /\ job' \in [Workers -> Blocks]
  /\ \A v \in Workers : v # w => pc'[v] = pc[v] /\ job'[v] = job[v]

LEMMA GotoType ==
  ASSUME TypeOK, NEW w \in Workers, NEW to \in PCs, NEW woken, Goto(w, to, woken)
  PROVE  /\ pc' \in [Workers -> PCs] /\ pc'[w] = to
         /\ \A v \in Workers : v # w => pc'[v] = pc[v]
         /\ waiting' \in SUBSET Workers
BY DEF TypeOK, Goto

LEMMA JobType ==
  ASSUME TypeOK, NEW w \in Workers
  PROVE  /\ job[w] \in Blocks
         /\ job[w].dir \in {0, 1} /\ job[w].plane \in 0..2
         /\ job[w].row \in Nat /\ job[w].col \in Nat
         /\ job[w] = Block(job[w], job[w].col)
         /\ NoWork \in Blocks
BY DEF TypeOK, Blocks, NoWork, Block

LEMMA TookJob ==
  ASSUME TypeOK, NEW w \in Workers, Take(w)
  PROVE  \E j \in queue :
           /\ First(j)
           /\ queue' = queue \ {j}
           /\ job'[w] = Block(j, 0) /\ JobOf(job'[w]) = j
           /\ pc'[w] = Entry(j)
           /\ Others(w)
           /\ waiting' \in SUBSET Workers
<1>1. PICK j \in queue :
        /\ First(j)
        /\ queue' = queue \ {j}
        /\ job' = [job EXCEPT ![w] = [dir |-> j.dir, plane |-> j.plane,
                                      row |-> j.row, col |-> 0]]
        /\ Goto(w, Entry(j), {})
  BY DEF Take
<1>2. j \in Jobs
  BY DEF TypeOK
<1>3. [dir |-> j.dir, plane |-> j.plane, row |-> j.row, col |-> 0] \in Blocks
  BY <1>2 DEF Jobs, Blocks
<1>4. job' \in [Workers -> Blocks] /\ job'[w] = Block(j, 0)
      /\ \A v \in Workers : v # w => job'[v] = job[v]
  BY <1>1, <1>3 DEF TypeOK, Block
<1>5. JobOf(Block(j, 0)) = j
  BY <1>2 DEF JobOf, Block, Jobs
<1>6. Entry(j) \in PCs
  BY DEF Entry, PCs
<1> QED
  BY <1>1, <1>4, <1>5, <1>6, GotoType DEF Take, Others

\* Proceed: the next column, or the next job
LEMMA Proceeded ==
  ASSUME TypeOK, NEW w \in Workers, NEW to \in PCs, NEW woken, UNCHANGED stageVars,
         Proceed(w, to, woken)
  PROVE  /\ Others(w)
         /\ waiting' \in SUBSET Workers
         /\ job[w].col < LastCol =>
              pc'[w] = to /\ job'[w] = Block(job[w], job[w].col + 1)
         /\ ~(job[w].col < LastCol) => pc'[w] = "take" /\ job'[w] = NoWork
<1>1. "take" \in PCs
  BY DEF PCs
<1>2. CASE job[w].col < LastCol
  <2>1. job' = [job EXCEPT ![w].col = @ + 1] /\ Goto(w, to, woken)
    BY <1>2 DEF Proceed
  <2>2. \A b \in Blocks : /\ [b EXCEPT !.col = b.col + 1] = Block(b, b.col + 1)
                          /\ Block(b, b.col + 1) \in Blocks
    BY DEF Block, Blocks
  <2>3. job'[w] = Block(job[w], job[w].col + 1) /\ job'[w] \in Blocks
    BY <2>1, <2>2, JobType DEF TypeOK
  <2>4. job' \in [Workers -> Blocks] /\ \A v \in Workers : v # w => job'[v] = job[v]
    BY <2>1, <2>3 DEF TypeOK
  <2> QED
    BY <1>2, <2>1, <2>3, <2>4, GotoType DEF Others
<1>3. CASE ~(job[w].col < LastCol)
  <2>1. job' = [job EXCEPT ![w] = NoWork] /\ Goto(w, "take", woken)
    BY <1>3 DEF Proceed
  <2>2. job' \in [Workers -> Blocks] /\ job'[w] = NoWork
        /\ \A v \in Workers : v # w => job'[v] = job[v]
    BY <2>1, JobType DEF TypeOK
  <2> QED
    BY <1>1, <1>3, <2>1, <2>2, GotoType DEF Others
<1> QED
  BY <1>2, <1>3

\* every other step moves the worker and keeps its job
Stays(w, to) ==
  /\ Others(w)
  /\ pc'[w] = to
  /\ UNCHANGED job
  /\ waiting' \in SUBSET Workers

LEMMA GotoStays ==
  ASSUME TypeOK, NEW w \in Workers, NEW to \in PCs, NEW woken, Goto(w, to, woken),
         UNCHANGED stageVars, UNCHANGED job
  PROVE  Stays(w, to)
BY GotoType DEF Stays, Others, TypeOK

LEMMA WaitStays ==
  ASSUME TypeOK, NEW w \in Workers, Wait(w), UNCHANGED stageVars
  PROVE  /\ Stays(w, pc[w])
         /\ UNCHANGED <<queue, cur, flag, copied, done>>
BY DEF Wait, Stays, Others, TypeOK, syncVars

LEMMA Read_ ==
  ASSUME TypeOK, NEW w \in Workers
  PROVE  /\ ReadAbove(w) =>
              /\ pc[w] = "above"
              /\ \/ Stays(w, "own") /\ MayRead(job[w].plane, job[w].row, job[w].col)
                 \/ Stays(w, "above")
              /\ UNCHANGED <<queue, cur, flag, failed, copied, done>>
         /\ ReadOwn(w) =>
              /\ pc[w] = "own"
              /\ \/ /\ Stays(w, "filter")
                    /\ MayRead(job[w].plane, job[w].row + 1, job[w].col)
                 \/ Stays(w, "own")
              /\ UNCHANGED <<queue, cur, flag, failed, copied, done>>
<1> USE DEF PCs
<1>1. ASSUME ReadAbove(w)
      PROVE  /\ pc[w] = "above"
             /\ \/ Stays(w, "own") /\ MayRead(job[w].plane, job[w].row, job[w].col)
                \/ Stays(w, "above")
             /\ UNCHANGED <<queue, cur, flag, failed, copied, done>>
  BY <1>1, GotoStays, WaitStays DEF ReadAbove, Read, At, syncVars
<1>2. ASSUME ReadOwn(w)
      PROVE  /\ pc[w] = "own"
             /\ \/ /\ Stays(w, "filter")
                   /\ MayRead(job[w].plane, job[w].row + 1, job[w].col)
                \/ Stays(w, "own")
             /\ UNCHANGED <<queue, cur, flag, failed, copied, done>>
  BY <1>2, GotoStays, WaitStays DEF ReadOwn, Read, At, syncVars
<1> QED
  BY <1>1, <1>2

LEMMA Finished ==
  ASSUME TypeOK, NEW w \in Workers, Finish(w)
  PROVE  /\ pc[w] = "filter"
         /\ done' = done \cup {job[w]}
         /\ UNCHANGED <<queue, cur, flag, failed, copied>>
         /\ Others(w)
         /\ waiting' \in SUBSET Workers
         /\ \/ /\ stage = "deblock" /\ job[w].dir = 0
               /\ pc'[w] = "write" /\ job'[w] = job[w]
            \/ /\ ~(stage = "deblock" /\ job[w].dir = 0)
               /\ job[w].col < LastCol
               /\ pc'[w] = "above" /\ job'[w] = Block(job[w], job[w].col + 1)
            \/ /\ ~(stage = "deblock" /\ job[w].dir = 0)
               /\ ~(job[w].col < LastCol)
               /\ pc'[w] = "take" /\ job'[w] = NoWork
<1> USE DEF PCs
<1>1. UNCHANGED stageVars
  BY DEF Finish
<1>2. CASE stage = "deblock" /\ job[w].dir = 0
  <2>1. job' = job /\ Goto(w, "write", {})
    BY <1>2 DEF Finish
  <2>2. Stays(w, "write")
    BY <1>1, <2>1, GotoStays
  <2> QED
    BY <1>2, <2>1, <2>2 DEF Finish, At, syncVars, Stays
<1>3. CASE ~(stage = "deblock" /\ job[w].dir = 0)
  <2>1. Proceed(w, "above", {})
    BY <1>3 DEF Finish
  <2> QED
    BY <1>1, <1>3, <2>1, Proceeded DEF Finish, At, syncVars
<1> QED
  BY <1>2, <1>3

LEMMA Written ==
  ASSUME TypeOK, NEW w \in Workers, Write(w)
  PROVE  /\ pc[w] = "write"
         /\ UNCHANGED <<queue, flag, failed, copied, done>>
         /\ Others(w)
         /\ waiting' \in SUBSET Workers
         /\ \/ /\ job[w].col < LastCol
               /\ pc'[w] = "filter" /\ job'[w] = Block(job[w], job[w].col + 1)
            \/ /\ ~(job[w].col < LastCol)
               /\ pc'[w] = "take" /\ job'[w] = NoWork
         /\ \/ UNCHANGED cur /\ ~Reports(job[w].col)
            \/ cur' = [cur EXCEPT ![<<job[w].plane, job[w].row>>] =
                         IF job[w].col < LastCol THEN job[w].col
                         ELSE job[w].col + 1 + SyncRange]
<1> USE DEF PCs
<1>1. UNCHANGED stageVars
  BY DEF Write
<1>2. \E woken : Proceed(w, "filter", woken)
  BY DEF Write
<1>3. PICK woken : Proceed(w, "filter", woken)
  BY <1>2
<1> QED
  BY <1>1, <1>3, Proceeded DEF Write, At

LEMMA LineSteps ==
  ASSUME TypeOK, NEW w \in Workers
  PROVE  /\ Copy(w) =>
              /\ pc[w] = "copy" /\ Stays(w, "report")
              /\ copied' = copied \cup {job[w].row}
              /\ UNCHANGED <<queue, cur, flag, failed, done>>
         /\ Report(w) =>
              /\ pc[w] = "report" /\ Stays(w, "lines")
              /\ flag' = [flag EXCEPT ![job[w].row] = TRUE]
              /\ UNCHANGED <<queue, cur, failed, copied, done>>
         /\ ReadLines(w) =>
              /\ pc[w] = "lines"
              /\ UNCHANGED <<queue, cur, failed, copied, done>>
              /\ \/ Stays(w, "lines") /\ UNCHANGED flag
                 \/ /\ Stays(w, "filter")
                    /\ job[w].row = 0 /\ UNCHANGED flag
                 \/ /\ Stays(w, "filter")
                    /\ job[w].row # 0 /\ flag[job[w].row - 1]
                    /\ flag' = [flag EXCEPT ![job[w].row - 1] = FALSE]
<1> USE DEF PCs
<1>1. ASSUME Copy(w)
      PROVE  /\ pc[w] = "copy" /\ Stays(w, "report")
             /\ copied' = copied \cup {job[w].row}
             /\ UNCHANGED <<queue, cur, flag, failed, done>>
  BY <1>1, GotoStays DEF Copy, At, syncVars
<1>2. ASSUME Report(w)
      PROVE  /\ pc[w] = "report" /\ Stays(w, "lines")
             /\ flag' = [flag EXCEPT ![job[w].row] = TRUE]
             /\ UNCHANGED <<queue, cur, failed, copied, done>>
  <2>1. PICK woken : Goto(w, "lines", woken)
    BY <1>2 DEF Report
  <2> QED
    BY <1>2, <2>1, GotoStays DEF Report, At
<1>3. ASSUME ReadLines(w)
      PROVE  /\ pc[w] = "lines"
             /\ UNCHANGED <<queue, cur, failed, copied, done>>
             /\ \/ Stays(w, "lines") /\ UNCHANGED flag
                \/ /\ Stays(w, "filter")
                   /\ job[w].row = 0 /\ UNCHANGED flag
                \/ /\ Stays(w, "filter")
                   /\ job[w].row # 0 /\ flag[job[w].row - 1]
                   /\ flag' = [flag EXCEPT ![job[w].row - 1] = FALSE]
  <2>1. CASE job[w].row = 0 \/ flag[job[w].row - 1]
    BY <1>3, <2>1, GotoStays DEF ReadLines, At
  <2>2. CASE ~(job[w].row = 0 \/ flag[job[w].row - 1])
    <3>1. Wait(w) /\ UNCHANGED <<stageVars, failed>>
      BY <1>3, <2>2 DEF ReadLines
    <3> QED
      BY <1>3, <3>1, WaitStays DEF ReadLines, At
  <2> QED
    BY <2>1, <2>2
<1> QED
  BY <1>1, <1>2, <1>3

LEMMA Ending ==
  ASSUME TypeOK, NEW w \in Workers
  PROVE  /\ Leave(w) =>
              /\ pc[w] = "take" /\ Stays(w, "returned") /\ queue = {}
              /\ UNCHANGED <<queue, cur, flag, failed, copied, done>>
         /\ Fail(w) =>
              /\ pc[w] = "filter" /\ Stays(w, "returned") /\ stage = "tiles"
              /\ failed' = failed \cup {w}
              /\ UNCHANGED <<queue, cur, flag, copied, done>>
         /\ SpuriousWakeup(w) =>
              /\ Stays(w, pc[w])
              /\ UNCHANGED <<queue, cur, flag, failed, copied, done>>
<1> USE DEF PCs
<1>1. ASSUME Leave(w)
      PROVE  /\ pc[w] = "take" /\ Stays(w, "returned") /\ queue = {}
             /\ UNCHANGED <<queue, cur, flag, failed, copied, done>>
  BY <1>1, GotoStays DEF Leave, At, syncVars
<1>2. ASSUME Fail(w)
      PROVE  /\ pc[w] = "filter" /\ Stays(w, "returned") /\ stage = "tiles"
             /\ failed' = failed \cup {w}
             /\ UNCHANGED <<queue, cur, flag, copied, done>>
  BY <1>2, GotoStays DEF Fail, At, syncVars
<1>3. ASSUME SpuriousWakeup(w)
      PROVE  /\ Stays(w, pc[w])
             /\ UNCHANGED <<queue, cur, flag, failed, copied, done>>
  BY <1>3 DEF SpuriousWakeup, Stays, Others, TypeOK, syncVars
<1> QED
  BY <1>1, <1>2, <1>3

-----------------------------------------------------------------------------
(* The steps of the main thread.                                            *)

LEMMA EnqueuedJobs ==
  ASSUME TypeOK, NEW s \in Stages, NEW js \in Enqueued(s)
  PROVE  /\ js \in SUBSET Jobs /\ js # {}
         /\ s = "tiles" => \A j \in js : j.dir = 0 /\ j.plane = 0
         /\ s = "tiles" => IsFiniteSet(js)
         /\ s = "deblock" => \A j \in js : j.plane \in Planes /\ j.row \in SbRows
         /\ s = "cdef" => js = [dir : {0}, plane : {0}, row : FbRows]
<1>1. SbRows \subseteq Nat /\ FbRows \subseteq Nat /\ 0 \in SbRows /\ 0 \in FbRows
  BY SizeFacts DEF SbRows, FbRows
<1>2. CASE s = "tiles"
  <2>1. PICK a, b \in 0..(NumTiles - 1) : js = [dir : {0}, plane : {0}, row : a..b]
    BY <1>2 DEF Enqueued
  <2>2. a..b \subseteq Nat /\ js # {}
    BY <1>2, NumTilesAssumption DEF Enqueued
  <2>3. IsFiniteSet(a..b)
    BY <2>1, FS_Interval, NumTilesAssumption
  <2> DEFINE f == [r \in a..b |-> [dir |-> 0, plane |-> 0, row |-> r]]
  <2>4. f \in Surjection(a..b, js)
    BY <2>1 DEF Surjection
  <2>5. IsFiniteSet(js)
    BY <2>3, <2>4, FS_Surjection
  <2> QED
    BY <1>2, <2>1, <2>2, <2>5 DEF Jobs
<1>3. CASE s = "deblock"
  <2>1. PICK P \in {Q \in SUBSET Planes : 0 \in Q} :
          js = [dir : {0, 1}, plane : P, row : SbRows]
    BY <1>3 DEF Enqueued
  <2>2. [dir |-> 0, plane |-> 0, row |-> 0] \in js
    BY <1>1, <2>1
  <2> QED
    BY <1>1, <1>3, <2>1, <2>2, PlanesAssumption DEF Jobs
<1>4. CASE s = "cdef"
  <2>1. js = [dir : {0}, plane : {0}, row : FbRows]
    BY <1>4 DEF Enqueued
  <2>2. [dir |-> 0, plane |-> 0, row |-> 0] \in js
    BY <1>1, <2>1
  <2>3. js \subseteq Jobs
    BY <1>1, <2>1, 0 \in 0..2 DEF Jobs
  <2> QED
    BY <1>4, <2>1, <2>2, <2>3
<1>5. CASE s = "ccso"
  <2>1. js \subseteq [dir : {0}, plane : Planes, row : FbRows] /\ js # {}
    BY <1>5 DEF Enqueued
  <2>2. [dir : {0}, plane : Planes, row : FbRows] \subseteq Jobs
    BY <1>1, PlanesAssumption DEF Jobs
  <2> QED
    BY <1>5, <2>1, <2>2
<1>6. CASE s = "restore"
  <2>1. PICK P \in (SUBSET Planes) \ {{}} : js = [dir : {0}, plane : P, row : FbRows]
    BY <1>6 DEF Enqueued
  <2>2. PICK p \in P : TRUE
    BY <2>1
  <2>3. [dir |-> 0, plane |-> p, row |-> 0] \in js
    BY <1>1, <2>1, <2>2
  <2> QED
    BY <1>1, <1>6, <2>1, <2>3, PlanesAssumption DEF Jobs
<1> QED
  BY <1>2, <1>3, <1>4, <1>5, <1>6 DEF Stages

LEMMA LaunchEffect ==
  ASSUME TypeOK, NEW s \in Stages, Launch(s)
  PROVE  /\ stage' = s /\ jobs' \in Enqueued(s) /\ queue' = jobs'
         /\ pc' \in [Workers -> PCs] /\ job' \in [Workers -> Blocks]
         /\ \A w \in Workers : pc'[w] \in {"take", "idle"}
         /\ pc'[1] = "take"
         /\ waiting' = {} /\ failed' = {} /\ copied' = {} /\ done' = {}
<1>1. 1 \in Workers
  BY NumWorkersAssumption DEF Workers
<1>2. 1 \in Launched(s, jobs')
  <2>1. CASE s = "tiles"
    <3>1. IsFiniteSet(jobs') /\ jobs' # {}
      BY <2>1, EnqueuedJobs DEF Launch
    <3>2. Cardinality(jobs') \in Nat /\ Cardinality(jobs') # 0
      BY <3>1, FS_CardinalityType, FS_EmptySet
    <3> QED
      BY <1>1, <2>1, <3>2 DEF Launched
  <2>2. CASE s # "tiles"
    BY <1>1, <2>2 DEF Launched
  <2> QED
    BY <2>1, <2>2
<1>3. NoWork \in Blocks
  BY <1>1, JobType
<1> QED
  BY <1>1, <1>2, <1>3 DEF Launch, PCs

-----------------------------------------------------------------------------
(* Types.                                                                   *)

LEMMA InitType == Init => TypeOK
<1> SUFFICES ASSUME Init PROVE TypeOK
  OBVIOUS
<1>1. NoWork \in Blocks
  BY DEF NoWork, Blocks
<1>2. cur \in [Planes \X (0..(size.sbRows - 1)) -> Int]
  BY DEF Init, SbRows
<1>3. flag \in [0..(size.fbRows - 1) -> BOOLEAN]
  BY DEF Init, FbRows
<1>4. pc \in [Workers -> PCs] /\ job \in [Workers -> Blocks]
  BY <1>1 DEF Init, PCs
<1> QED
  BY <1>2, <1>3, <1>4 DEF Init, TypeOK

LEMMA AllocatedType ==
  ASSUME TypeOK
  PROVE  /\ Allocated \in [FbRows -> BOOLEAN]
         /\ \E s \in Sizes : Allocated \in [0..(s.fbRows - 1) -> BOOLEAN]
<1>1. Allocated \in [FbRows -> BOOLEAN]
  <2>1. CASE DOMAIN flag = FbRows
    BY <2>1 DEF Allocated, TypeOK
  <2>2. CASE DOMAIN flag # FbRows
    BY <2>2 DEF Allocated
  <2> QED
    BY <2>1, <2>2
<1> QED
  BY <1>1 DEF TypeOK, FbRows

\* av2_alloc_cdef_buffers, and the columns that deblocking starts from
LEMMA FilterStart ==
  ASSUME TypeOK, NEW s \in Stages, StartFilter(s)
  PROVE  /\ stage # "idle" /\ Synced /\ failed = {} /\ s # "tiles"
         /\ Launch(s) /\ UNCHANGED size /\ flag' = Allocated
         /\ cur' = IF s = "deblock" THEN [x \in Planes \X SbRows |-> -1] ELSE cur
<1>1. s # "tiles"
  BY DEF StartFilter, Rank, Stages, TypeOK
<1> QED
  BY <1>1 DEF StartFilter

LEMMA LaunchType ==
  ASSUME TypeOK, NEW s \in Stages, Launch(s), size' \in Sizes,
         \E z \in Sizes : cur' \in [Planes \X (0..(z.sbRows - 1)) -> Int],
         \E z \in Sizes : flag' \in [0..(z.fbRows - 1) -> BOOLEAN]
  PROVE  TypeOK'
<1>1. jobs' \in SUBSET Jobs
  BY LaunchEffect, EnqueuedJobs
<1> QED
  BY <1>1, LaunchEffect DEF TypeOK

\* a step of a worker that keeps the flags and columns in their domains
LEMMA WorkerType ==
  ASSUME TypeOK, NEW w \in Workers, Others(w), queue' \subseteq queue,
         \A S : cur \in [S -> Int] => cur' \in [S -> Int],
         \A S : flag \in [S -> BOOLEAN] => flag' \in [S -> BOOLEAN],
         waiting' \in SUBSET Workers, failed' \in SUBSET Workers,
         copied' \in SUBSET Nat, done' \in SUBSET Blocks
  PROVE  TypeOK'
BY DEF TypeOK, Others, stageVars

LEMMA TypeStep == TypeOK /\ Next => TypeOK'
<1> SUFFICES ASSUME TypeOK, Next PROVE TypeOK'
  OBVIOUS
<1>0. "tiles" \in Stages
  BY DEF Stages
<1>1. CASE StartFrame
  BY <1>0, <1>1, LaunchType DEF StartFrame, syncVars, TypeOK
<1>2. CASE StartTiles
  BY <1>0, <1>2, LaunchType DEF StartTiles, syncVars, TypeOK
<1>3. ASSUME NEW s \in Stages, StartFilter(s) PROVE TypeOK'
  <2>1. \E z \in Sizes : cur' \in [Planes \X (0..(z.sbRows - 1)) -> Int]
    <3>1. CASE s = "deblock"
      <4>0. cur' = [x \in Planes \X SbRows |-> -1]
        BY <1>3, <3>1, FilterStart
      <4>1. cur' \in [Planes \X SbRows -> Int]
        BY <4>0
      <4> QED
        BY <4>1 DEF TypeOK, SbRows
    <3>2. CASE s # "deblock"
      BY <1>3, <3>2, FilterStart DEF TypeOK
    <3> QED
      BY <3>1, <3>2
  <2> QED
    BY <1>3, <2>1, FilterStart, AllocatedType, LaunchType DEF TypeOK
<1>4. CASE EndFrame
  BY <1>4, AllocatedType DEF EndFrame, TypeOK, PCs
<1>5. ASSUME NEW w \in Workers, Worker(w) \/ Fail(w) \/ SpuriousWakeup(w) PROVE TypeOK'
  <2> USE DEF Stays
  <2> job[w] \in Blocks /\ job[w].row \in Nat /\ job[w].col \in Nat
    BY JobType
  <2> /\ failed \in SUBSET Workers /\ copied \in SUBSET Nat /\ done \in SUBSET Blocks
    BY DEF TypeOK
  <2>1. CASE Take(w)
    BY <2>1, TookJob, WorkerType DEF Take, syncVars
  <2>2. CASE Finish(w)
    BY <2>2, Finished, WorkerType
  <2>3. CASE Write(w)
    <3> DEFINE v == IF job[w].col < LastCol THEN job[w].col
                    ELSE job[w].col + 1 + SyncRange
    <3>1. v \in Int
      BY RangeFacts
    <3>2. cur' = cur \/ cur' = [cur EXCEPT ![<<job[w].plane, job[w].row>>] = v]
      BY <2>3, Written
    <3> HIDE DEF v
    <3>3. \A S : cur \in [S -> Int] => cur' \in [S -> Int]
      BY <3>1, <3>2
    <3>4. Others(w) /\ waiting' \in SUBSET Workers
          /\ UNCHANGED <<queue, flag, failed, copied, done>>
      BY <2>3, Written
    <3> QED
      BY <3>3, <3>4, WorkerType
  <2>4. CASE ReadAbove(w) \/ ReadOwn(w)
    BY <2>4, Read_, WorkerType
  <2>5. CASE Copy(w) \/ Report(w) \/ ReadLines(w)
    BY <2>5, LineSteps, WorkerType
  <2>6. CASE Leave(w) \/ Fail(w) \/ SpuriousWakeup(w)
    BY <2>6, Ending, WorkerType
  <2> QED
    BY <1>5, <2>1, <2>2, <2>3, <2>4, <2>5, <2>6 DEF Worker
<1> QED
  BY <1>1, <1>2, <1>3, <1>4, <1>5 DEF Next, Main

-----------------------------------------------------------------------------
(* Which jobs the workers hold.                                             *)

WorkerStep(w) == Worker(w) \/ Fail(w) \/ SpuriousWakeup(w)

\* a step in which w takes no job: it keeps the one it has, or drops it
Same(w) ==
  /\ Others(w)
  /\ queue' = queue
  /\ done \subseteq done'
  /\ failed \subseteq failed'
  /\ Holds(w)' => Holds(w) /\ JobOf(job'[w]) = JobOf(job[w])

LEMMA BlockFacts ==
  ASSUME NEW j, NEW c, NEW d
  PROVE  /\ JobOf(Block(j, c)) = JobOf(j)
         /\ Block(JobOf(j), c) = Block(j, c)
         /\ Block(Block(j, c), d) = Block(j, d)
         /\ Block(j, c).col = c /\ Block(j, c).row = j.row
         /\ Block(j, c).dir = j.dir /\ Block(j, c).plane = j.plane
BY DEF JobOf, Block

LEMMA SameSteps ==
  ASSUME TypeOK, NEW w \in Workers, WorkerStep(w), ~Take(w)
  PROVE  Same(w)
<1> USE DEF Same, Holds, Stays
<1>1. CASE Finish(w)
  <2>1. JobOf(Block(job[w], job[w].col + 1)) = JobOf(job[w])
    BY BlockFacts
  <2> QED
    BY <1>1, <2>1, Finished
<1>2. CASE Write(w)
  <2>1. JobOf(Block(job[w], job[w].col + 1)) = JobOf(job[w])
    BY BlockFacts
  <2> QED
    BY <1>2, <2>1, Written
<1>3. CASE ReadAbove(w) \/ ReadOwn(w)
  BY <1>3, Read_
<1>4. CASE Copy(w) \/ Report(w) \/ ReadLines(w)
  BY <1>4, LineSteps
<1>5. CASE Leave(w) \/ Fail(w) \/ SpuriousWakeup(w)
  BY <1>5, Ending
<1> QED
  BY <1>1, <1>2, <1>3, <1>4, <1>5 DEF WorkerStep, Worker

LEMMA Unchanged ==
  ASSUME UNCHANGED stageVars
  PROVE  /\ UNCHANGED <<stage, size, jobs>>
         /\ LastCol' = LastCol /\ SbRows' = SbRows /\ FbRows' = FbRows
         /\ AllBlocks' = AllBlocks
BY DEF stageVars, LastCol, SbRows, FbRows, AllBlocks

LEMMA WorkKept ==
  ASSUME TypeOK, WorkInv, NEW w \in Workers, Others(w), queue' \subseteq queue,
         done \subseteq done', Holds(w)' => Work(w)'
  PROVE  WorkInv'
<1> SUFFICES ASSUME NEW v \in Workers, v # w, Holds(v)' PROVE Work(v)'
  BY DEF WorkInv
<1>1. pc'[v] = pc[v] /\ job'[v] = job[v] /\ Holds(v)
  BY DEF Others, Holds
<1>2. Work(v)
  BY <1>1 DEF WorkInv
<1>3. UNCHANGED <<stage, size, jobs>> /\ LastCol' = LastCol
  BY Unchanged DEF Others
<1> QED
  BY <1>1, <1>2, <1>3 DEF Work

\* a worker that keeps its place in the row, or moves on in its job
LEMMA WorkStays ==
  ASSUME TypeOK, WorkInv, NEW w \in Workers, Stays(w, pc'[w]), queue' \subseteq queue,
         done \subseteq done', Holds(w)' => Holds(w),
         pc'[w] # pc[w] =>
           \/ pc[w] = "above" /\ pc'[w] = "own"
           \/ pc[w] \in {"copy", "report"} /\ pc'[w] \in {"report", "lines"}
           \/ pc'[w] \in {"filter", "returned"}
  PROVE  WorkInv'
<1>1. Holds(w)' => Work(w)'
  <2> SUFFICES ASSUME Holds(w)' PROVE Work(w)'
    OBVIOUS
  <2>1. Work(w)
    BY DEF WorkInv
  <2>2. UNCHANGED <<stage, size, jobs, job>> /\ LastCol' = LastCol
    BY Unchanged DEF Stays, Others
  <2> QED
    BY <2>1, <2>2 DEF Work
<1> QED
  BY <1>1, WorkKept DEF Stays

LEMMA WorkStep ==
  ASSUME TypeOK, WorkInv, NEW w \in Workers, WorkerStep(w)
  PROVE  WorkInv'
<1>1. CASE Take(w)
  <2>1. PICK j \in queue :
           /\ queue' = queue \ {j}
           /\ job'[w] = Block(j, 0) /\ JobOf(job'[w]) = j
           /\ pc'[w] = Entry(j)
           /\ Others(w)
    BY <1>1, TookJob
  <2>2. UNCHANGED <<stage, size, jobs, done>> /\ LastCol' = LastCol
    BY <1>1, <2>1, Unchanged DEF Take, Others
  <2>3. job'[w].col = 0 /\ job'[w].dir = j.dir
    BY <2>1, BlockFacts
  <2>4. LastCol \in Nat /\ j \in jobs
    BY SizeFacts DEF TypeOK
  <2>5. Work(w)'
    BY <2>1, <2>2, <2>3, <2>4 DEF Work, Entry
  <2> QED
    BY <2>1, <2>2, <2>5, WorkKept
<1>2. CASE Finish(w)
  <2> DEFINE b == job[w]
  <2>1. /\ Others(w) /\ queue' = queue /\ done' = done \cup {b} /\ Work(w)
    BY <1>2, Finished DEF WorkInv, Holds
  <2>2. UNCHANGED <<stage, size, jobs>> /\ LastCol' = LastCol
    BY <2>1, Unchanged DEF Others
  <2>3. b = Block(b, b.col) /\ b.col \in Nat /\ b.dir \in {0, 1}
    BY JobType
  <2>4. CASE pc'[w] = "write"
    BY <1>2, <2>1, <2>2, <2>4, Finished, WorkKept DEF Work
  <2>5. CASE pc'[w] = "above"
    <3>1. /\ ~(stage = "deblock" /\ b.dir = 0) /\ b.col < LastCol
          /\ job'[w] = Block(b, b.col + 1)
      BY <1>2, <2>5, Finished
    <3>2. stage = "deblock" /\ b.dir = 1
      BY <2>3, <3>1 DEF LastCol
    <3>3. /\ job'[w].col = b.col + 1 /\ job'[w].dir = b.dir
          /\ JobOf(job'[w]) = JobOf(b)
          /\ \A c : Block(job'[w], c) = Block(b, c)
      BY <3>1, BlockFacts
    <3>4. \A c \in 0..b.col : Block(b, c) \in done'
      BY <2>1, <2>3 DEF Work
    <3>5. LastCol \in Nat
      BY SizeFacts
    <3>6. Work(w)'
      BY <2>1, <2>2, <2>3, <2>5, <3>1, <3>2, <3>3, <3>4, <3>5 DEF Work
    <3> QED
      BY <2>1, <3>6, WorkKept
  <2>6. CASE pc'[w] = "take"
    BY <2>1, <2>6, WorkKept DEF Holds
  <2> QED
    BY <1>2, <2>4, <2>5, <2>6, Finished
<1>3. CASE Write(w)
  <2> DEFINE b == job[w]
  <2>1. /\ Others(w) /\ queue' = queue /\ done' = done /\ Work(w) /\ pc[w] = "write"
    BY <1>3, Written DEF WorkInv, Holds
  <2>2. UNCHANGED <<stage, size, jobs>> /\ LastCol' = LastCol
    BY <2>1, Unchanged DEF Others
  <2>3. b = Block(b, b.col) /\ b.col \in Nat
    BY JobType
  <2>4. CASE pc'[w] = "filter"
    <3>1. b.col < LastCol /\ job'[w] = Block(b, b.col + 1)
      BY <1>3, <2>4, Written
    <3>2. /\ job'[w].col = b.col + 1
          /\ JobOf(job'[w]) = JobOf(b)
          /\ \A c : Block(job'[w], c) = Block(b, c)
      BY <3>1, BlockFacts
    <3>3. \A c \in 0..b.col : Block(b, c) \in done'
      BY <2>1, <2>3 DEF Work
    <3>4. LastCol \in Nat
      BY SizeFacts
    <3>5. Work(w)'
      BY <2>1, <2>2, <2>3, <2>4, <3>1, <3>2, <3>3, <3>4 DEF Work
    <3> QED
      BY <2>1, <3>5, WorkKept
  <2>5. CASE pc'[w] = "take"
    BY <2>1, <2>5, WorkKept DEF Holds
  <2> QED
    BY <1>3, <2>4, <2>5, Written
<1>4. CASE ReadAbove(w) \/ ReadOwn(w)
  BY <1>4, Read_, WorkStays DEF Stays, Holds
<1>5. CASE Copy(w) \/ Report(w) \/ ReadLines(w)
  BY <1>5, LineSteps, WorkStays DEF Stays, Holds
<1>6. CASE Leave(w) \/ Fail(w) \/ SpuriousWakeup(w)
  BY <1>6, Ending, WorkStays DEF Stays, Holds
<1> QED
  BY <1>1, <1>2, <1>3, <1>4, <1>5, <1>6 DEF WorkerStep, Worker

LEMMA OwnerStep ==
  ASSUME TypeOK, WorkInv, OneOwner, NEW w \in Workers, WorkerStep(w)
  PROVE  OneOwner'
<1>1. CASE Take(w)
  <2>1. PICK j \in queue : /\ JobOf(job'[w]) = j
                          /\ Others(w)
    BY <1>1, TookJob
  <2>2. \A v \in Workers : Holds(v) => JobOf(job[v]) # j
    BY DEF WorkInv, Work
  <2> QED
    BY <2>1, <2>2 DEF OneOwner, Others, Holds
<1>2. CASE ~Take(w)
  BY <1>2, SameSteps DEF Same, OneOwner, Others, Holds
<1> QED
  BY <1>1, <1>2

-----------------------------------------------------------------------------
(* No job is lost.                                                          *)

\* what the worker holds is finished when it drops it
LEMMA Dropped ==
  ASSUME TypeOK, WorkInv, NEW w \in Workers, WorkerStep(w), ~Take(w), Holds(w)
  PROVE  /\ done' \subseteq done \cup {job[w]}
         /\ \/ Holds(w)'
            \/ failed' # {}
            \/ \A c \in 0..LastCol : Block(job[w], c) \in done'
<1> USE DEF Holds, Stays
<1>0. /\ Work(w) /\ job[w] = Block(job[w], job[w].col) /\ job[w].col \in Nat
      /\ LastCol \in Nat
  BY JobType, SizeFacts DEF WorkInv
<1>1. CASE Finish(w)
  <2>1. ~(job[w].col < LastCol) => \A c \in 0..LastCol : Block(job[w], c) \in done'
    BY <1>0, <1>1, Finished DEF Work
  <2> QED
    BY <1>1, <2>1, Finished
<1>2. CASE Write(w)
  <2>1. ~(job[w].col < LastCol) => \A c \in 0..LastCol : Block(job[w], c) \in done'
    <3>1. pc[w] = "write" /\ done' = done
      BY <1>2, Written
    <3>2. job[w] \in done /\ \A c \in 0..(job[w].col - 1) : Block(job[w], c) \in done
      BY <1>0, <3>1 DEF Work
    <3>3. \A c \in 0..job[w].col : Block(job[w], c) \in done
      BY <1>0, <3>2
    <3> QED
      BY <1>0, <3>1, <3>3
  <2> QED
    BY <1>2, <2>1, Written
<1>3. CASE ReadAbove(w) \/ ReadOwn(w)
  BY <1>3, Read_
<1>4. CASE Copy(w) \/ Report(w) \/ ReadLines(w)
  BY <1>4, LineSteps
<1>5. CASE Leave(w) \/ Fail(w) \/ SpuriousWakeup(w)
  BY <1>5, Ending
<1> QED
  BY <1>1, <1>2, <1>3, <1>4, <1>5 DEF WorkerStep, Worker

LEMMA NotHeld ==
  ASSUME TypeOK, NEW w \in Workers, WorkerStep(w), ~Take(w), ~Holds(w)
  PROVE  done' = done
BY Finished, Written, Read_, LineSteps, Ending DEF WorkerStep, Worker, Holds

LEMMA InAllBlocks ==
  ASSUME TypeOK, WorkInv, NEW w \in Workers, Holds(w)
  PROVE  job[w] \in AllBlocks
<1>1. JobOf(job[w]) \in jobs /\ job[w].col \in 0..LastCol
  BY DEF WorkInv, Work
<1>2. job[w] = Block(JobOf(job[w]), job[w].col)
  BY JobType, BlockFacts
<1> QED
  BY <1>1, <1>2 DEF AllBlocks, Block

LEMMA AccountStep ==
  ASSUME TypeOK, WorkInv, AccountInv, NEW w \in Workers, WorkerStep(w)
  PROVE  AccountInv'
<1>1. UNCHANGED <<stage, size, jobs>> /\ LastCol' = LastCol /\ AllBlocks' = AllBlocks
  <2>1. Others(w)
    BY TookJob, SameSteps DEF Same
  <2> QED
    BY <2>1, Unchanged DEF Others
<1> SUFFICES ASSUME stage # "idle"
             PROVE  /\ done' \subseteq AllBlocks
                    /\ failed' = {} =>
                         \A j \in jobs \ queue' :
                           \/ \E v \in Workers : Holds(v)' /\ JobOf(job'[v]) = j
                           \/ \A c \in 0..LastCol : Block(j, c) \in done'
  BY <1>1 DEF AccountInv
<1>2. CASE Take(w)
  <2>1. PICK j \in queue : /\ JobOf(job'[w]) = j
                          /\ queue' = queue \ {j}
                          /\ Others(w)
                          /\ pc'[w] = Entry(j)
    BY <1>2, TookJob
  <2>2. Holds(w)' /\ failed' = failed /\ done' = done /\ ~Holds(w)
    BY <1>2, <2>1 DEF Holds, Entry, Take, At
  <2>3. \A v \in Workers : Holds(v) => Holds(v)' /\ job'[v] = job[v]
    BY <2>1, <2>2 DEF Others, Holds
  <2> QED
    BY <2>1, <2>2, <2>3 DEF AccountInv
<1>3. CASE ~Take(w)
  <2>1. Same(w)
    BY <1>3, SameSteps
  <2>2. done' \subseteq AllBlocks
    BY <1>3, Dropped, NotHeld, InAllBlocks DEF AccountInv
  <2>3. ASSUME failed' = {}, NEW j \in jobs \ queue
        PROVE  \/ \E v \in Workers : Holds(v)' /\ JobOf(job'[v]) = j
               \/ \A c \in 0..LastCol : Block(j, c) \in done'
    <3>1. failed = {} /\ done \subseteq done'
      BY <2>1, <2>3 DEF Same
    <3>2. CASE \A c \in 0..LastCol : Block(j, c) \in done
      BY <3>1, <3>2
    <3>3. ASSUME NEW v \in Workers, Holds(v), JobOf(job[v]) = j
          PROVE  \/ \E u \in Workers : Holds(u)' /\ JobOf(job'[u]) = j
                 \/ \A c \in 0..LastCol : Block(j, c) \in done'
      <4>1. CASE v # w
        <5>1. Holds(v)' /\ job'[v] = job[v]
          BY <2>1, <3>3, <4>1 DEF Same, Others, Holds
        <5> QED
          BY <3>3, <5>1
      <4>2. CASE v = w
        <5>1. CASE Holds(w)'
          BY <2>1, <3>3, <4>2, <5>1 DEF Same
        <5>2. CASE ~Holds(w)'
          <6>1. \A c \in 0..LastCol : Block(job[w], c) \in done'
            BY <1>3, <2>3, <3>3, <4>2, <5>2, Dropped
          <6> QED
            BY <3>3, <4>2, <6>1, BlockFacts
        <5> QED
          BY <5>1, <5>2
      <4> QED
        BY <4>1, <4>2
    <3> QED
      BY <3>1, <3>2, <3>3 DEF AccountInv
  <2> QED
    BY <2>1, <2>2, <2>3 DEF Same
<1> QED
  BY <1>2, <1>3

LEMMA StageStep ==
  ASSUME TypeOK, StageInv, NEW w \in Workers, WorkerStep(w)
  PROVE  StageInv'
<1>0. /\ Others(w) /\ queue' \subseteq queue /\ failed \subseteq failed'
      /\ stage # "tiles" => failed' = failed
      /\ \A S : cur \in [S -> Int] => cur' \in [S -> Int]
      /\ DOMAIN flag' = DOMAIN flag
      /\ (pc[w] = "idle") = (pc'[w] = "idle")
      /\ pc'[w] = "returned" => pc[w] = "returned" \/ queue = {} \/ failed' # {}
  <2> USE DEF Stays
  <2>1. CASE Take(w)
    <3>1. PICK j \in queue : /\ queue' = queue \ {j} /\ Others(w) /\ pc'[w] = Entry(j)
      BY <2>1, TookJob
    <3> QED
      BY <2>1, <3>1 DEF Take, At, Entry, syncVars
  <2>2. CASE Finish(w)
    BY <2>2, Finished
  <2>3. CASE Write(w)
    <3> DEFINE v == IF job[w].col < LastCol THEN job[w].col
                    ELSE job[w].col + 1 + SyncRange
    <3>1. v \in Int
      BY RangeFacts, JobType
    <3>2. cur' = cur \/ cur' = [cur EXCEPT ![<<job[w].plane, job[w].row>>] = v]
      BY <2>3, Written
    <3> HIDE DEF v
    <3>3. \A S : cur \in [S -> Int] => cur' \in [S -> Int]
      BY <3>1, <3>2
    <3>4. /\ Others(w) /\ UNCHANGED <<queue, flag, failed>>
          /\ pc[w] # "idle" /\ pc'[w] \notin {"idle", "returned"}
      BY <2>3, Written
    <3> QED
      BY <3>3, <3>4
  <2>4. CASE ReadAbove(w) \/ ReadOwn(w)
    BY <2>4, Read_
  <2>5. CASE Copy(w) \/ Report(w) \/ ReadLines(w)
    BY <2>5, LineSteps
  <2>6. CASE Leave(w) \/ Fail(w) \/ SpuriousWakeup(w)
    BY <2>6, Ending
  <2> QED
    BY <2>1, <2>2, <2>3, <2>4, <2>5, <2>6 DEF WorkerStep, Worker
<1>1. UNCHANGED <<stage, size, jobs>> /\ SbRows' = SbRows /\ FbRows' = FbRows
  BY <1>0, Unchanged DEF Others
<1>2. 1 \in Workers
  BY NumWorkersAssumption DEF Workers
<1>3. \A v \in Workers : (pc[v] = "idle") = (pc'[v] = "idle")
  BY <1>0 DEF Others
<1>4. \A v \in Workers : pc'[v] = "returned" => queue' = {} \/ failed' # {}
  BY <1>0 DEF Others, StageInv
<1>5. stage = "deblock" => cur' \in [Planes \X SbRows -> Int]
  BY <1>0 DEF StageInv
<1> QED
  BY <1>0, <1>1, <1>2, <1>3, <1>4, <1>5 DEF StageInv

-----------------------------------------------------------------------------
(* Deblocking.                                                              *)

LEMMA OwnRow ==
  ASSUME TypeOK, StageInv, WorkInv, stage = "deblock", NEW w \in Workers, Holds(w)
  PROVE  /\ job[w].plane \in Planes /\ job[w].row \in SbRows
         /\ job[w].row > 0 => job[w].row - 1 \in SbRows
         /\ job[w].col \in 0..LastCol
         /\ cur[<<job[w].plane, job[w].row>>] \in Int
         /\ job[w].row > 0 => cur[<<job[w].plane, job[w].row - 1>>] \in Int
<1>1. /\ JobOf(job[w]) \in jobs /\ job[w].col \in 0..LastCol
  BY DEF WorkInv, Work
<1>2. job[w].plane \in Planes /\ job[w].row \in SbRows
  BY <1>1 DEF StageInv, JobOf
<1>3. job[w].row > 0 => job[w].row - 1 \in SbRows
  BY <1>2, SizeFacts DEF SbRows
<1>4. cur \in [Planes \X SbRows -> Int]
  BY DEF StageInv
<1> QED
  BY <1>1, <1>2, <1>3, <1>4

\* the columns stay: what the worker itself needs is left to show
LEMMA ColumnKept ==
  ASSUME TypeOK, ColumnInv, NEW w \in Workers, Others(w), UNCHANGED cur,
         queue' \subseteq queue, done \subseteq done',
         stage = "deblock" /\ Holds(w)' => ColumnWork(w)'
  PROVE  ColumnInv'
<1>1. UNCHANGED <<stage, size, jobs>> /\ LastCol' = LastCol /\ SbRows' = SbRows
  BY Unchanged DEF Others
<1> SUFFICES ASSUME stage = "deblock" PROVE ColumnInv'
  BY <1>1 DEF ColumnInv
<1>2. ASSUME NEW v \in Workers, v # w, Holds(v)' PROVE ColumnWork(v)'
  <2>1. pc'[v] = pc[v] /\ job'[v] = job[v] /\ Holds(v)
    BY <1>2 DEF Others, Holds
  <2> QED
    BY <2>1 DEF ColumnInv, ColumnWork, Ahead
<1> QED
  BY <1>1, <1>2 DEF ColumnInv

LEMMA ColumnTake ==
  ASSUME TypeOK, StageInv, ColumnInv, NEW w \in Workers, Take(w)
  PROVE  ColumnInv'
<1>1. PICK j \in queue : /\ queue' = queue \ {j}
                        /\ job'[w] = Block(j, 0)
                        /\ pc'[w] = Entry(j)
                        /\ Others(w)
  BY TookJob
<1>2. UNCHANGED <<cur, done>>
  BY DEF Take, syncVars
<1>3. ASSUME stage = "deblock" PROVE ColumnWork(w)'
  <2>1. /\ job'[w].dir = j.dir /\ job'[w].plane = j.plane /\ job'[w].row = j.row
        /\ job'[w].col = 0
    BY <1>1, BlockFacts
  <2>2. 0 % SyncRange = 0
    BY SyncRangeAssumption
  <2>3. j.dir = 0 => cur[<<j.plane, j.row>>] = -1
    BY <1>3 DEF ColumnInv
  <2>4. j.dir = 1 => pc'[w] = "above"
    BY <1>1, <1>3 DEF Entry
  <2> QED
    BY <1>2, <2>1, <2>2, <2>3, <2>4 DEF ColumnWork
<1> QED
  BY <1>1, <1>2, <1>3, ColumnKept

LEMMA ColumnFinish ==
  ASSUME TypeOK, StageInv, WorkInv, ColumnInv, NEW w \in Workers, Finish(w)
  PROVE  ColumnInv'
<1> DEFINE b == job[w]
<1>1. /\ pc[w] = "filter" /\ Others(w) /\ UNCHANGED <<queue, cur>> /\ done \subseteq done'
  BY Finished
<1>2. ASSUME stage = "deblock", Holds(w)' PROVE ColumnWork(w)'
  <2>1. ColumnWork(w)
    BY <1>1, <1>2 DEF ColumnInv, Holds
  <2>2. CASE pc'[w] = "write"
    BY <1>1, <2>1, <2>2, Finished DEF ColumnWork
  <2>3. CASE pc'[w] = "above"
    <3>1. b.dir = 1 /\ job'[w] = Block(b, b.col + 1) /\ b.col \in Nat
      BY <1>2, <2>3, Finished, JobType
    <3>2. /\ job'[w].dir = 1 /\ job'[w].plane = b.plane /\ job'[w].row = b.row
          /\ job'[w].col = b.col + 1
      BY <3>1, BlockFacts
    <3>3. \A p, r : Ahead(p, r, b.col) /\ (b.col + 1) % SyncRange # 0 =>
                      Ahead(p, r, b.col + 1)
      <4>1. (b.col + 1) % SyncRange # 0 =>
              (b.col + 1) - ((b.col + 1) % SyncRange) = b.col - (b.col % SyncRange)
        BY <3>1, RangeFacts
      <4> QED
        BY <4>1 DEF Ahead
    <3>4. /\ b.row > 0 => Ahead(b.plane, b.row - 1, b.col)
          /\ Ahead(b.plane, b.row, b.col)
      BY <1>1, <2>1, <3>1 DEF ColumnWork
    <3> QED
      BY <1>1, <2>3, <3>2, <3>3, <3>4 DEF ColumnWork, Ahead
  <2> QED
    BY <1>2, <2>2, <2>3, Finished DEF Holds
<1> QED
  BY <1>1, <1>2, ColumnKept

LEMMA ColumnRead ==
  ASSUME TypeOK, StageInv, WorkInv, ColumnInv, NEW w \in Workers,
         ReadAbove(w) \/ ReadOwn(w)
  PROVE  ColumnInv'
<1> DEFINE b == job[w]
<1>1. /\ pc[w] \in {"above", "own"} /\ Stays(w, pc'[w]) /\ Others(w)
      /\ UNCHANGED <<queue, cur, done, job>>
  BY Read_ DEF Stays
<1>2. ASSUME stage = "deblock" PROVE ColumnWork(w)'
  <2>1. ColumnWork(w) /\ Work(w) /\ b.dir = 1
    BY <1>1, <1>2 DEF ColumnInv, WorkInv, Work, Holds
  <2>3. /\ b.col \in Nat /\ b.row \in Nat
        /\ SyncRange \in Nat
        /\ cur[<<b.plane, b.row>>] \in Int
        /\ b.row > 0 => cur[<<b.plane, b.row - 1>>] \in Int
    BY <1>1, <1>2, JobType, RangeFacts, OwnRow DEF Holds
  <2>4. CASE pc'[w] = pc[w]
    BY <1>1, <2>1, <2>4 DEF ColumnWork, Ahead
  <2>5. CASE ReadAbove(w) /\ pc'[w] = "own"
    <3>1. MayRead(b.plane, b.row, b.col) /\ pc[w] = "above"
      BY <2>5, Read_ DEF Stays
    <3>2. b.row > 0 => Ahead(b.plane, b.row - 1, b.col)
      BY <2>1, <2>3, <3>1 DEF MayRead, ColumnWork, Ahead
    <3> QED
      BY <1>1, <2>1, <2>5, <3>1, <3>2 DEF ColumnWork, Ahead
  <2>6. CASE ReadOwn(w) /\ pc'[w] = "filter"
    <3>1. MayRead(b.plane, b.row + 1, b.col) /\ pc[w] = "own"
      BY <2>6, Read_ DEF Stays
    <3>2. (b.row + 1) - 1 = b.row /\ b.row + 1 # 0
      BY <2>3
    <3>3. Ahead(b.plane, b.row, b.col)
      BY <2>1, <2>3, <3>1, <3>2 DEF MayRead, ColumnWork, Ahead
    <3> QED
      BY <1>1, <2>1, <2>6, <3>1, <3>3 DEF ColumnWork, Ahead
  <2> QED
    BY <2>4, <2>5, <2>6, Read_ DEF Stays
<1> QED
  BY <1>1, <1>2, ColumnKept

LEMMA Excepted ==
  ASSUME NEW S, NEW f \in [S -> Int], NEW k \in S, NEW n \in Int, NEW g,
         g = [f EXCEPT ![k] = n]
  PROVE  /\ g[k] = n /\ \A x \in S : g[x] \in Int /\ (x # k => g[x] = f[x])
OBVIOUS

LEMMA ColumnWrite ==
  ASSUME TypeOK, StageInv, WorkInv, OneOwner, ColumnInv, NEW w \in Workers, Write(w)
  PROVE  ColumnInv'
<1> DEFINE b == job[w]
           k == <<b.plane, b.row>>
<1>1. /\ pc[w] = "write" /\ Holds(w) /\ Work(w) /\ Others(w)
      /\ UNCHANGED <<queue, done>>
  BY Written DEF WorkInv, Holds
<1>2. /\ stage = "deblock" /\ b.dir = 0 /\ ColumnWork(w)
      /\ cur \in [Planes \X SbRows -> Int]
  BY <1>1 DEF Work, ColumnInv, StageInv
<1>3. UNCHANGED <<stage, size, jobs>> /\ LastCol' = LastCol /\ SbRows' = SbRows
  BY <1>1, Unchanged DEF Others
<1>4. /\ b = Block(b, b.col) /\ b.col \in 0..LastCol /\ cur[k] \in Int /\ cur[k] <= b.col
      /\ k \in Planes \X SbRows /\ LastCol \in Nat /\ SyncRange \in Nat
  BY <1>1, <1>2, JobType, OwnRow, SizeFacts, RangeFacts DEF ColumnWork
<1>5. \A c \in 0..b.col : [dir |-> 0, plane |-> b.plane, row |-> b.row, col |-> c] \in done
  BY <1>1, <1>2, <1>4 DEF Work, Block
<1>6. /\ cur[k] <= cur'[k]
      /\ cur'[k] <= b.col \/ b.col = LastCol
      /\ \A x \in Planes \X SbRows : cur'[x] \in Int /\ (x # k => cur'[x] = cur[x])
  <2>1. CASE UNCHANGED cur
    BY <1>2, <1>4, <2>1
  <2>2. CASE cur' = [cur EXCEPT ![k] = IF b.col < LastCol THEN b.col
                                        ELSE b.col + 1 + SyncRange]
    <3> DEFINE n == IF b.col < LastCol THEN b.col ELSE b.col + 1 + SyncRange
    <3>1. n \in Int /\ cur[k] <= n /\ (n <= b.col \/ b.col = LastCol)
      BY <1>4
    <3>2. cur' = [cur EXCEPT ![k] = n]
      BY <2>2
    <3> HIDE DEF n, k, b
    <3>3. /\ cur'[k] = n
          /\ \A x \in Planes \X SbRows : cur'[x] \in Int /\ (x # k => cur'[x] = cur[x])
      BY <1>2, <1>4, <3>1, <3>2, Excepted
    <3> QED
      BY <3>1, <3>3
  <2> QED
    BY <2>1, <2>2, Written
<1>7. \A x \in Planes \X SbRows : cur'[x] \in Int /\ cur[x] <= cur'[x]
                                  /\ (x # k => cur'[x] = cur[x])
  <2> HIDE DEF k, b
  <2> QED
    BY <1>2, <1>4, <1>6
<1>8. ASSUME NEW p \in Planes, NEW r \in SbRows, NEW c \in 0..LastCol, c <= cur'[<<p, r>>]
      PROVE  [dir |-> 0, plane |-> p, row |-> r, col |-> c] \in done
  <2>1. CASE <<p, r>> # k
    BY <1>2, <1>7, <1>8, <2>1 DEF ColumnInv
  <2>2. CASE <<p, r>> = k
    <3>1. c <= cur'[k] /\ cur'[k] \in Int
      BY <1>4, <1>7, <1>8, <2>2
    <3>2. c <= b.col
      <4> HIDE DEF k, b
      <4> QED
        BY <1>4, <1>6, <3>1
    <3> QED
      BY <1>4, <1>5, <2>2, <3>2
  <2> QED
    BY <2>1, <2>2
<1>9. ASSUME NEW j \in queue, j.dir = 0 PROVE cur'[<<j.plane, j.row>>] = -1
  <2>1. j \in Jobs /\ j.plane \in Planes /\ j.row \in SbRows
    BY <1>2 DEF TypeOK, StageInv
  <2>2. <<j.plane, j.row>> # k
    <3>1. j # JobOf(b)
      BY <1>1 DEF Work
    <3> QED
      BY <1>2, <1>9, <2>1, <3>1 DEF JobOf, Jobs
  <2> QED
    BY <1>2, <1>7, <1>9, <2>1, <2>2 DEF ColumnInv
<1>10. ASSUME NEW v \in Workers, Holds(v)' PROVE ColumnWork(v)'
  <2>1. CASE v = w
    <3>1. b.col < LastCol /\ job'[w] = Block(b, b.col + 1)
      BY <1>10, <2>1, Written DEF Holds
    <3>2. /\ job'[w].dir = 0 /\ job'[w].plane = b.plane /\ job'[w].row = b.row
          /\ job'[w].col = b.col + 1
      BY <1>2, <3>1, BlockFacts
    <3>3. cur'[k] <= b.col + 1
      <4>1. cur'[k] \in Int
        BY <1>4, <1>7
      <4> HIDE DEF k, b
      <4> QED
        BY <1>4, <1>6, <3>1, <4>1
    <3> QED
      BY <2>1, <3>2, <3>3 DEF ColumnWork
  <2>2. CASE v # w
    <3>1. pc'[v] = pc[v] /\ job'[v] = job[v] /\ Holds(v)
      BY <1>1, <1>10, <2>2 DEF Others, Holds
    <3>2. ColumnWork(v)
      BY <1>2, <3>1 DEF ColumnInv
    <3>3. /\ job[v].plane \in Planes /\ job[v].row \in SbRows
          /\ job[v].row > 0 => job[v].row - 1 \in SbRows
          /\ job[v].col \in Nat
      BY <1>2, <3>1, OwnRow, JobType
    <3>4. job[v].dir = 0 => <<job[v].plane, job[v].row>> # k
      <4>1. JobOf(job[v]) # JobOf(b)
        BY <1>1, <2>2, <3>1 DEF OneOwner
      <4> QED
        BY <1>2, <4>1 DEF JobOf
    <3>5. \A r \in SbRows : Ahead(job[v].plane, r, job[v].col) =>
                             Ahead(job[v].plane, r, job[v].col)'
      <4>1. job[v].col % SyncRange \in Int /\ SyncRange \in Nat
        BY <3>3, RangeFacts
      <4> QED
        BY <1>2, <1>7, <3>1, <3>3, <4>1 DEF Ahead
    <3> QED
      BY <1>7, <3>1, <3>2, <3>3, <3>4, <3>5 DEF ColumnWork
  <2> QED
    BY <2>1, <2>2
<1> QED
  BY <1>1, <1>2, <1>3, <1>8, <1>9, <1>10 DEF ColumnInv

LEMMA ColumnStep ==
  ASSUME TypeOK, StageInv, WorkInv, OneOwner, ColumnInv, NEW w \in Workers, WorkerStep(w)
  PROVE  ColumnInv'
<1>1. CASE Copy(w) \/ Report(w) \/ ReadLines(w)
  <2>1. stage = "cdef"
    BY <1>1, LineSteps DEF WorkInv, Work, Holds
  <2> QED
    BY <1>1, <2>1, LineSteps, ColumnKept DEF Stays
<1>2. CASE Leave(w) \/ Fail(w)
  BY <1>2, Ending, ColumnKept DEF Stays, Holds
<1>3. CASE SpuriousWakeup(w)
  <2>1. Stays(w, pc[w]) /\ UNCHANGED <<queue, cur, done>>
    BY <1>3, Ending
  <2>2. stage = "deblock" /\ Holds(w)' => ColumnWork(w)'
    BY <2>1 DEF Stays, Holds, ColumnInv, ColumnWork, Ahead
  <2> QED
    BY <2>1, <2>2, ColumnKept DEF Stays
<1> QED
  BY <1>1, <1>2, <1>3, ColumnTake, ColumnFinish, ColumnRead, ColumnWrite
     DEF WorkerStep, Worker

-----------------------------------------------------------------------------
(* CDEF.                                                                    *)

\* in CDEF a job is a row, and a row is one block
LEMMA CdefJob ==
  ASSUME TypeOK, StageInv, WorkInv, stage = "cdef", NEW w \in Workers, Holds(w)
  PROVE  /\ job[w].row \in FbRows
         /\ JobOf(job[w]) = FbJob(job[w].row) /\ FbJob(job[w].row) \notin queue
         /\ job[w] = Block(FbJob(job[w].row), 0)
         /\ job[w].col = 0 /\ LastCol = 0
<1>1. /\ JobOf(job[w]) \in [dir : {0}, plane : {0}, row : FbRows]
      /\ JobOf(job[w]) \notin queue
      /\ job[w].col \in 0..LastCol /\ LastCol = 0
  BY DEF StageInv, WorkInv, Work, LastCol
<1>2. /\ JobOf(job[w]).dir = job[w].dir /\ JobOf(job[w]).plane = job[w].plane
      /\ JobOf(job[w]).row = job[w].row
  BY DEF JobOf
<1>3. job[w].dir = 0 /\ job[w].plane = 0 /\ job[w].row \in FbRows
  BY <1>1, <1>2
<1>4. job[w] = Block(job[w], job[w].col)
  BY JobType
<1> QED
  BY <1>1, <1>3, <1>4 DEF JobOf, FbJob, Block

LEMMA CdefOwner ==
  ASSUME TypeOK, StageInv, WorkInv, OneOwner, stage = "cdef",
         NEW v \in Workers, NEW w \in Workers, v # w, Holds(v), Holds(w)
  PROVE  job[v].row # job[w].row
BY CdefJob DEF OneOwner

LEMMA CdefDone ==
  ASSUME TypeOK, StageInv, AccountInv, stage = "cdef", NEW b \in done
  PROVE  JobOf(b) = FbJob(b.row) /\ b.row \in FbRows
<1>1. PICK j \in jobs, c \in 0..LastCol : b = Block(j, c)
  BY DEF AccountInv, AllBlocks, Block
<1>2. JobOf(b) = JobOf(j) /\ b.row = j.row
  BY <1>1, BlockFacts
<1>3. j \in [dir : {0}, plane : {0}, row : FbRows]
  BY DEF StageInv
<1> QED
  BY <1>2, <1>3 DEF JobOf, FbJob

\* the rows that a step of w does not concern
LineRow(r) ==
  /\ flag[r] => r \in copied /\ Reported(r) /\ ~Past(r + 1)
  /\ Past(r + 1) => r \in copied /\ Reported(r) /\ ~flag[r]

LEMMA LineRowKept ==
  ASSUME NEW r \in FbRows, LineRow(r), copied \subseteq copied',
         flag'[r] => flag[r], Past(r + 1)' => Past(r + 1), Reported(r) => Reported(r)'
  PROVE  LineRow(r)'
BY DEF LineRow

LEMMA LineRest ==
  ASSUME TypeOK, StageInv, LineInv, NEW w \in Workers, Others(w),
         DOMAIN flag' = DOMAIN flag, stage # "cdef" => UNCHANGED flag,
         stage = "cdef" =>
           /\ \A r \in FbRows : r + 1 \in FbRows => LineRow(r)'
           /\ copied \subseteq copied'
           /\ queue' \subseteq queue
           /\ pc'[w] \in {"report", "lines", "filter"} => job'[w].row \in copied'
           /\ \A b \in done' : JobOf(b) \notin queue'
           /\ \A b \in done', v \in Workers : Holds(v)' => job'[v].row # b.row
  PROVE  LineInv'
<1>1. UNCHANGED <<stage, size, jobs>> /\ FbRows' = FbRows
  BY Unchanged DEF Others
<1>2. CASE stage # "cdef"
  BY <1>1, <1>2 DEF LineInv
<1>3. CASE stage = "cdef"
  <2>1. \A v \in Workers : pc'[v] \in {"report", "lines", "filter"} =>
                             job'[v].row \in copied'
    BY <1>3 DEF LineInv, Others
  <2> QED
    BY <1>1, <1>3, <2>1 DEF LineInv, LineRow
<1> QED
  BY <1>2, <1>3

\* a step in which no row gets past the lines above it
LEMMA LineQuiet ==
  ASSUME TypeOK, StageInv, LineInv, NEW w \in Workers, Stays(w, pc'[w]),
         UNCHANGED <<queue, flag, done>>, copied' \in {copied, copied \cup {job[w].row}},
         pc'[w] # pc[w] =>
           /\ pc'[w] # "filter"
           /\ pc[w] = "filter" => stage # "cdef"
           /\ pc'[w] \in {"copy", "report"} => pc[w] \in {"copy", "report"}
           /\ Holds(w)' => Holds(w),
         pc'[w] \in {"report", "lines", "filter"} =>
           pc[w] \in {"report", "lines", "filter"} \/ job[w].row \in copied'
  PROVE  LineInv'
<1> SUFFICES ASSUME stage = "cdef" => \A r \in FbRows : r + 1 \in FbRows => LineRow(r)'
             PROVE  LineInv'
  <2> SUFFICES ASSUME stage = "cdef", NEW r \in FbRows, r + 1 \in FbRows PROVE LineRow(r)'
    OBVIOUS
  <2>1. LineRow(r)
    BY DEF LineInv, LineRow
  <2>2. Past(r + 1)' => Past(r + 1)
    BY DEF Past, Stays, Others
  <2>3. Reported(r) => Reported(r)'
    BY DEF Reported, Stays, Others
  <2> QED
    BY <2>1, <2>2, <2>3, LineRowKept
<1>1. Others(w) /\ UNCHANGED job
  BY DEF Stays
<1>2. stage = "cdef" =>
        /\ pc'[w] \in {"report", "lines", "filter"} => job'[w].row \in copied'
        /\ \A b \in done' : JobOf(b) \notin queue'
        /\ \A b \in done', v \in Workers : Holds(v)' => job'[v].row # b.row
  BY <1>1 DEF LineInv, Others, Holds
<1> QED
  BY <1>1, <1>2, LineRest

LEMMA LineTake ==
  ASSUME TypeOK, StageInv, AccountInv, LineInv, NEW w \in Workers, Take(w)
  PROVE  LineInv'
<1>1. PICK j \in queue : /\ queue' = queue \ {j}
                        /\ job'[w] = Block(j, 0)
                        /\ pc'[w] = Entry(j)
                        /\ Others(w)
  BY TookJob
<1>2. pc[w] = "take" /\ UNCHANGED <<flag, copied, done>>
  BY DEF Take, At, syncVars
<1> SUFFICES ASSUME stage = "cdef" PROVE LineInv'
  BY <1>1, <1>2, LineRest
<1>3. j \in [dir : {0}, plane : {0}, row : FbRows] /\ pc'[w] = "copy"
  BY <1>1 DEF StageInv, TypeOK, Entry
<1>4. j = FbJob(j.row) /\ job'[w].row = j.row
  BY <1>1, <1>3, BlockFacts DEF FbJob
<1>5. ASSUME NEW r \in FbRows, r + 1 \in FbRows PROVE LineRow(r)'
  <2>1. LineRow(r)
    BY <1>5 DEF LineInv, LineRow
  <2>2. Past(r + 1)' => Past(r + 1)
    BY <1>1, <1>2, <1>3 DEF Past, Others
  <2>3. CASE r # j.row
    <3>1. Reported(r) => Reported(r)'
      BY <1>1, <1>3, <1>4, <2>3 DEF Reported, Others
    <3> QED
      BY <1>2, <2>1, <2>2, <3>1, LineRowKept
  <2>4. CASE r = j.row
    <3>1. ~Reported(r)
      BY <1>4, <2>4 DEF Reported
    <3> QED
      BY <1>2, <2>1, <2>2, <3>1, LineRowKept
  <2> QED
    BY <2>3, <2>4
<1>6. ASSUME NEW b \in done, NEW v \in Workers, Holds(v)' PROVE job'[v].row # b.row
  <2>1. CASE v = w
    BY <1>4, <2>1, CdefDone DEF LineInv
  <2>2. CASE v # w
    BY <1>1, <1>6, <2>2 DEF LineInv, Others, Holds
  <2> QED
    BY <2>1, <2>2
<1> QED
  BY <1>1, <1>2, <1>3, <1>5, <1>6, LineRest DEF LineInv

LEMMA LineReport ==
  ASSUME TypeOK, StageInv, WorkInv, OneOwner, LineInv, NEW w \in Workers, Report(w)
  PROVE  LineInv'
<1> DEFINE x == job[w].row
<1>1. /\ pc[w] = "report" /\ Stays(w, "lines")
      /\ flag' = [flag EXCEPT ![x] = TRUE]
      /\ UNCHANGED <<queue, copied, done>>
  BY LineSteps
<1>2. stage = "cdef" /\ Holds(w) /\ Others(w) /\ UNCHANGED job /\ pc'[w] = "lines"
  BY <1>1 DEF WorkInv, Work, Holds, Stays
<1>3. x \in FbRows /\ FbJob(x) \notin queue /\ x \in copied
  BY <1>1, <1>2, CdefJob DEF LineInv
<1>4. \A r : r = x => Reported(r)' /\ ~Reported(r)
  BY <1>1, <1>2, <1>3, CdefOwner DEF Reported, Others, Holds
<1>5. ASSUME NEW r \in FbRows, r + 1 \in FbRows PROVE LineRow(r)'
  <2>1. LineRow(r)
    BY <1>2, <1>5 DEF LineInv, LineRow
  <2>2. Past(r + 1)' => Past(r + 1)
    BY <1>1, <1>2 DEF Past, Others
  <2>3. Reported(r) => Reported(r)'
    BY <1>1, <1>2 DEF Reported, Others
  <2>4. CASE r = x
    <3>1. r \in copied' /\ Reported(r)' /\ ~Past(r + 1)'
      BY <1>1, <1>3, <1>4, <2>1, <2>2, <2>4 DEF LineRow
    <3> QED
      BY <3>1 DEF LineRow
  <2>5. CASE r # x
    <3>1. flag'[r] => flag[r]
      BY <1>1, <1>2, <2>5 DEF StageInv
    <3> QED
      BY <1>1, <2>1, <2>2, <2>3, <3>1, LineRowKept
  <2> QED
    BY <2>4, <2>5
<1>6. \A b \in done, v \in Workers : Holds(v)' => job'[v].row # b.row
  BY <1>1, <1>2 DEF LineInv, Others, Holds
<1> QED
  BY <1>1, <1>2, <1>3, <1>5, <1>6, LineRest DEF LineInv

LEMMA LineRead ==
  ASSUME TypeOK, StageInv, WorkInv, OneOwner, LineInv, NEW w \in Workers, ReadLines(w)
  PROVE  LineInv'
<1> DEFINE x == job[w].row
<1>1. pc[w] = "lines" /\ UNCHANGED <<queue, copied, done>>
  BY LineSteps
<1>2. CASE Stays(w, "lines") /\ UNCHANGED flag
  BY <1>1, <1>2, LineQuiet DEF Stays
<1>3. CASE /\ Stays(w, "filter")
           /\ \/ x = 0 /\ UNCHANGED flag
              \/ x # 0 /\ flag[x - 1] /\ flag' = [flag EXCEPT ![x - 1] = FALSE]
  <2>1. /\ stage = "cdef" /\ Holds(w) /\ Others(w) /\ UNCHANGED job /\ pc'[w] = "filter"
        /\ x \in FbRows /\ x \in Nat /\ x \in copied
    BY <1>1, <1>3, CdefJob, JobType DEF WorkInv, Work, Holds, Stays, LineInv
  <2>2. ASSUME NEW r \in FbRows, r + 1 \in FbRows PROVE LineRow(r)'
    <3>0. r \in Nat
      BY SizeFacts
    <3>1. LineRow(r)
      BY <2>1, <2>2 DEF LineInv, LineRow
    <3>2. Reported(r) => Reported(r)'
      BY <1>1, <2>1 DEF Reported, Others
    <3>3. flag'[r] => flag[r]
      BY <1>3, <2>1 DEF StageInv
    <3>4. CASE r + 1 = x
      <4>1. x # 0 /\ r = x - 1 /\ flag[r]
        BY <1>3, <2>1, <3>0, <3>4
      <4>2. flag' = [flag EXCEPT ![r] = FALSE]
        BY <1>3, <4>1
      <4>3. ~flag'[r]
        BY <2>1, <4>2 DEF StageInv
      <4> QED
        BY <1>1, <3>1, <3>2, <4>1, <4>3 DEF LineRow
    <3>5. CASE r + 1 # x
      <4>1. Past(r + 1)' => Past(r + 1)
        BY <1>1, <2>1, <3>5 DEF Past, Others
      <4> QED
        BY <1>1, <3>1, <3>2, <3>3, <4>1, LineRowKept
    <3> QED
      BY <3>4, <3>5
  <2>3. \A b \in done, v \in Workers : Holds(v)' => job'[v].row # b.row
    BY <1>1, <2>1 DEF LineInv, Others, Holds
  <2> QED
    BY <1>1, <1>3, <2>1, <2>2, <2>3, LineRest DEF LineInv
<1> QED
  BY <1>2, <1>3, LineSteps

LEMMA LineFinish ==
  ASSUME TypeOK, StageInv, WorkInv, OneOwner, AccountInv, LineInv, NEW w \in Workers, Finish(w)
  PROVE  LineInv'
<1> DEFINE x == job[w].row
<1>1. /\ pc[w] = "filter" /\ Holds(w) /\ Others(w) /\ done' = done \cup {job[w]}
      /\ UNCHANGED <<queue, flag, copied>>
  BY Finished DEF Holds
<1> SUFFICES ASSUME stage = "cdef" PROVE LineInv'
  BY <1>1, LineRest
<1>2. pc'[w] = "take"
  <2>1. job[w].col = 0 /\ LastCol = 0
    BY <1>1, CdefJob
  <2> QED
    BY <2>1, Finished
<1>3. /\ x \in FbRows /\ job[w] = Block(FbJob(x), 0)
      /\ JobOf(job[w]) = FbJob(x) /\ FbJob(x) \notin queue
  BY <1>1, CdefJob
<1>4. ASSUME NEW r \in FbRows, r + 1 \in FbRows PROVE LineRow(r)'
  <2>1. LineRow(r)
    BY <1>4 DEF LineInv, LineRow
  <2>2. Reported(r) => Reported(r)'
    BY <1>1, <1>2 DEF Reported, Others
  <2>3. Past(r + 1)' => Past(r + 1)
    <3>1. Block(FbJob(r + 1), 0).row = r + 1
      BY DEF Block, FbJob
    <3> QED
      BY <1>1, <1>2, <3>1 DEF Past, Others
  <2> QED
    BY <1>1, <2>1, <2>2, <2>3, LineRowKept
<1>5. ASSUME NEW b \in done', NEW v \in Workers, Holds(v)' PROVE job'[v].row # b.row
  <2>1. v # w /\ Holds(v) /\ job'[v] = job[v]
    BY <1>1, <1>2, <1>5 DEF Holds, Others
  <2>2. CASE b \in done
    BY <2>1, <2>2 DEF LineInv
  <2>3. CASE b = job[w]
    BY <1>1, <2>1, <2>3, CdefOwner
  <2> QED
    BY <1>1, <2>2, <2>3
<1> QED
  BY <1>1, <1>2, <1>3, <1>4, <1>5, LineRest DEF LineInv

LEMMA LineStep ==
  ASSUME TypeOK, StageInv, WorkInv, OneOwner, AccountInv, LineInv,
         NEW w \in Workers, WorkerStep(w)
  PROVE  LineInv'
<1>1. CASE Copy(w)
  BY <1>1, LineSteps, LineQuiet DEF Stays, Holds
<1>2. CASE Leave(w) \/ Fail(w) \/ SpuriousWakeup(w)
  BY <1>2, Ending, LineQuiet DEF Stays, Holds
<1>3. CASE ReadAbove(w) \/ ReadOwn(w)
  <2>1. stage # "cdef"
    BY <1>3, Read_ DEF WorkInv, Work, Holds
  <2> QED
    BY <1>3, <2>1, Read_, LineRest DEF Stays
<1>4. CASE Write(w)
  <2>1. stage # "cdef"
    BY <1>4, Written DEF WorkInv, Work, Holds
  <2> QED
    BY <1>4, <2>1, Written, LineRest
<1> QED
  BY <1>1, <1>2, <1>3, <1>4, LineTake, LineReport, LineRead, LineFinish
     DEF WorkerStep, Worker

-----------------------------------------------------------------------------
(* The main thread.                                                         *)

\* when all workers are back, nothing is left of the stage
LEMMA Complete ==
  ASSUME TypeOK, StageInv, AccountInv, stage # "idle", Synced, failed = {}
  PROVE  done = AllBlocks /\ \A w \in Workers : ~Holds(w)
<1>1. \A w \in Workers : ~Holds(w)
  BY DEF Synced, Holds
<1>2. 1 \in Workers
  BY NumWorkersAssumption DEF Workers
<1>3. queue = {}
  BY <1>2 DEF StageInv, Synced
<1>4. \A j \in jobs, c \in 0..LastCol : Block(j, c) \in done
  BY <1>1, <1>3 DEF AccountInv
<1> QED
  BY <1>1, <1>4 DEF AccountInv, AllBlocks, Block

LEMMA LineDone ==
  ASSUME TypeOK, StageInv, AccountInv, LineInv, stage # "idle", Synced
  PROVE  \A r \in DOMAIN flag : r + 1 \in DOMAIN flag => ~flag[r]
<1>1. CASE stage # "cdef"
  BY <1>1 DEF LineInv
<1>2. CASE stage = "cdef"
  <2>1. failed = {} /\ DOMAIN flag = FbRows
    BY <1>2 DEF StageInv
  <2>2. done = AllBlocks
    BY <2>1, Complete
  <2>3. ASSUME NEW r \in FbRows PROVE Past(r)
    <3>1. FbJob(r) \in jobs
      BY <1>2 DEF StageInv, FbJob
    <3>2. Block(FbJob(r), 0) \in done
      BY <1>2, <2>2, <3>1 DEF AllBlocks, Block, LastCol
    <3> QED
      BY <3>2 DEF Past
  <2> QED
    BY <1>2, <2>1, <2>3 DEF LineInv
<1> QED
  BY <1>1, <1>2

Rest == StageInv /\ WorkInv /\ OneOwner /\ AccountInv /\ ColumnInv /\ LineInv

\* the flags are clear when a stage is launched
LEMMA LaunchRest ==
  ASSUME TypeOK, NEW s \in Stages, Launch(s),
         s # "tiles" => UNCHANGED size /\ DOMAIN flag' = FbRows,
         s = "deblock" => cur' = [x \in Planes \X SbRows |-> -1],
         \A r \in DOMAIN flag' : r + 1 \in DOMAIN flag' => ~flag'[r]
  PROVE  Rest'
<1>1. /\ stage' = s /\ queue' = jobs' /\ failed' = {} /\ done' = {} /\ s # "idle"
      /\ pc'[1] = "take"
      /\ jobs' \in Enqueued(s)
  BY LaunchEffect DEF Stages
<1>2. \A w \in Workers : ~Holds(w)' /\ pc'[w] \in {"take", "idle"}
  BY LaunchEffect DEF Holds
<1>3. s # "tiles" => SbRows' = SbRows /\ FbRows' = FbRows
  BY DEF SbRows, FbRows
<1>4. StageInv'
  <2>1. s = "deblock" => /\ cur' \in [Planes \X SbRows' -> Int]
                         /\ \A j \in jobs' : j.plane \in Planes /\ j.row \in SbRows'
    BY <1>1, <1>3, EnqueuedJobs
  <2>2. s = "cdef" => jobs' = [dir : {0}, plane : {0}, row : FbRows']
    BY <1>1, <1>3, EnqueuedJobs
  <2>3. s # "tiles" => DOMAIN flag' = FbRows'
    BY <1>3
  <2> QED
    BY <1>1, <1>2, <2>1, <2>2, <2>3 DEF StageInv
<1>5. WorkInv' /\ OneOwner'
  BY <1>2 DEF WorkInv, OneOwner
<1>6. AccountInv'
  BY <1>1 DEF AccountInv
<1>7. ColumnInv'
  <2> SUFFICES ASSUME s = "deblock" PROVE ColumnInv'
    BY <1>1 DEF ColumnInv
  <2>1. \A x \in Planes \X SbRows' : cur'[x] = -1
    BY <1>3
  <2>2. \A c \in 0..LastCol' : ~(c <= -1)
    OBVIOUS
  <2>3. \A j \in jobs' : j.plane \in Planes /\ j.row \in SbRows'
    BY <1>1, <1>4 DEF StageInv
  <2> QED
    BY <1>1, <1>2, <2>1, <2>2, <2>3 DEF ColumnInv
<1>8. LineInv'
  <2>1. \A r : ~Past(r)'
    BY <1>1, <1>2 DEF Past
  <2>2. s = "cdef" => \A r \in FbRows' : r + 1 \in FbRows' => ~flag'[r]
    BY <1>3
  <2> QED
    BY <1>1, <1>2, <2>1, <2>2 DEF LineInv, Holds
<1> QED
  BY <1>4, <1>5, <1>6, <1>7, <1>8 DEF Rest

LEMMA FrameEnd ==
  ASSUME TypeOK, StageInv, AccountInv, LineInv, EndFrame
  PROVE  Rest'
<1>1. /\ stage' = "idle" /\ stage # "idle" /\ Synced
      /\ \A w \in Workers : pc'[w] = "idle"
      /\ flag' = flag \/ flag' = Allocated
  BY DEF EndFrame
<1>2. \A r \in DOMAIN flag' : r + 1 \in DOMAIN flag' => ~flag'[r]
  BY <1>1, LineDone DEF Allocated
<1> QED
  BY <1>1, <1>2 DEF Rest, StageInv, WorkInv, OneOwner, AccountInv, ColumnInv, LineInv, Holds

LEMMA FlagsClear ==
  ASSUME TypeOK, StageInv, AccountInv, LineInv, stage # "idle", Synced
  PROVE  /\ DOMAIN Allocated = FbRows
         /\ \A r \in DOMAIN Allocated : r + 1 \in DOMAIN Allocated => ~Allocated[r]
<1>1. CASE DOMAIN flag = FbRows
  BY <1>1, LineDone DEF Allocated
<1>2. CASE DOMAIN flag # FbRows
  BY <1>2 DEF Allocated
<1> QED
  BY <1>1, <1>2

LEMMA InitInv == Init => IInv
<1> SUFFICES ASSUME Init PROVE IInv
  OBVIOUS
<1>1. stage = "idle" /\ \A w \in Workers : pc[w] = "idle"
  BY DEF Init
<1>2. \A r \in DOMAIN flag : ~flag[r]
  BY DEF Init
<1> QED
  BY <1>1, <1>2, InitType
     DEF IInv, StageInv, WorkInv, OneOwner, AccountInv, ColumnInv, LineInv, Holds

LEMMA InvStep == IInv /\ [Next]_vars => IInv'
<1> SUFFICES ASSUME IInv, [Next]_vars PROVE IInv'
  OBVIOUS
<1> USE DEF IInv
<1>1. CASE StartFrame
  <2>1. stage = "idle" /\ Launch("tiles") /\ flag' = flag
    BY <1>1 DEF StartFrame, syncVars
  <2>2. "tiles" \in Stages
    BY DEF Stages
  <2>3. \A r \in DOMAIN flag' : r + 1 \in DOMAIN flag' => ~flag'[r]
    BY <2>1 DEF LineInv
  <2>4. Rest'
    BY <2>1, <2>2, <2>3, LaunchRest
  <2> QED
    BY <1>1, <2>4, TypeStep DEF Rest, Next
<1>2. CASE StartTiles
  <2>1. stage = "tiles" /\ Launch("tiles") /\ flag' = flag
    BY <1>2 DEF StartTiles, syncVars
  <2>2. "tiles" \in Stages
    BY DEF Stages
  <2>3. \A r \in DOMAIN flag' : r + 1 \in DOMAIN flag' => ~flag'[r]
    BY <2>1 DEF LineInv
  <2>4. Rest'
    BY <2>1, <2>2, <2>3, LaunchRest
  <2> QED
    BY <1>2, <2>4, TypeStep DEF Rest, Next, Main
<1>3. ASSUME NEW s \in Stages, StartFilter(s) PROVE IInv'
  <2>1. /\ stage # "idle" /\ Synced /\ Launch(s) /\ UNCHANGED size /\ flag' = Allocated
        /\ s = "deblock" => cur' = [x \in Planes \X SbRows |-> -1]
    BY <1>3, FilterStart
  <2>2. Rest'
    BY <2>1, FlagsClear, LaunchRest
  <2> QED
    BY <1>3, <2>2, TypeStep DEF Rest, Next, Main
<1>4. CASE EndFrame
  BY <1>4, FrameEnd, TypeStep DEF Rest, Next, Main
<1>5. ASSUME NEW w \in Workers, WorkerStep(w) PROVE IInv'
  <2>1. TypeOK'
    BY <1>5, TypeStep DEF WorkerStep, Next
  <2> QED
    BY <1>5, <2>1, StageStep, WorkStep, OwnerStep, AccountStep, ColumnStep, LineStep
<1>6. CASE UNCHANGED vars
  <2> USE <1>6 DEF vars
  <2>1. TypeOK' /\ StageInv' /\ OneOwner'
    BY DEF TypeOK, StageInv, OneOwner, Holds, SbRows, FbRows
  <2>2. WorkInv'
    BY DEF WorkInv, Work, Holds, LastCol
  <2>3. AccountInv'
    BY DEF AccountInv, AllBlocks, Holds, LastCol
  <2>4. ColumnInv'
    BY DEF ColumnInv, ColumnWork, Ahead, Holds, LastCol, SbRows
  <2>5. LineInv'
    BY DEF LineInv, Past, Reported, Holds, FbRows
  <2> QED
    BY <2>1, <2>2, <2>3, <2>4, <2>5
<1> QED
  BY <1>1, <1>2, <1>3, <1>4, <1>5, <1>6 DEF Next, Main, WorkerStep

LEMMA Invariance == Spec => []IInv
<1> QED
  BY InitInv, InvStep, PTL DEF Spec

-----------------------------------------------------------------------------
(* What the invariant says to the code.                                     *)

\* the two blocks of vertical edges around a horizontal one
LEMMA AheadReady ==
  ASSUME TypeOK, StageInv, ColumnInv, stage = "deblock", NEW p \in Planes, NEW r \in SbRows,
         NEW c \in Nat, Ahead(p, r, c), NEW d \in {c, c + 1} \cap (0..LastCol)
  PROVE  [dir |-> 0, plane |-> p, row |-> r, col |-> d] \in done
<1>1. cur[<<p, r>>] \in Int
  BY DEF StageInv
<1>2. c + 1 <= (c - (c % SyncRange)) + SyncRange
  <2> DEFINE m == c % SyncRange
  <2>1. m \in 0..(SyncRange - 1) /\ SyncRange \in Nat
    BY RangeFacts
  <2> HIDE DEF m
  <2>2. c + 1 <= (c - m) + SyncRange
    BY <2>1
  <2> QED
    BY <2>2 DEF m
<1>3. (c - (c % SyncRange)) + SyncRange \in Int
  BY RangeFacts
<1>4. d <= cur[<<p, r>>]
  BY <1>1, <1>2, <1>3 DEF Ahead
<1> QED
  BY <1>4 DEF ColumnInv

LEMMA Edges == IInv => EdgesReady
<1> SUFFICES ASSUME IInv, NEW w \in Workers, stage = "deblock", pc[w] = "filter",
                    job[w].dir = 1,
                    NEW r \in {job[w].row - 1, job[w].row} \cap Nat,
                    NEW c \in {job[w].col, job[w].col + 1} \cap (0..LastCol)
             PROVE  [dir |-> 0, plane |-> job[w].plane, row |-> r, col |-> c] \in done
  BY DEF EdgesReady
<1> USE DEF IInv
<1>1. /\ job[w].plane \in Planes /\ job[w].row \in SbRows
      /\ job[w].row > 0 => job[w].row - 1 \in SbRows
      /\ job[w].col \in Nat /\ job[w].row \in Nat
      /\ ColumnWork(w)
  BY OwnRow, JobType DEF Holds, ColumnInv
<1>2. CASE r = job[w].row
  <2>1. Ahead(job[w].plane, job[w].row, job[w].col)
    BY <1>1 DEF ColumnWork
  <2> QED
    BY <1>1, <1>2, <2>1, AheadReady
<1>3. CASE r = job[w].row - 1
  <2>1. job[w].row > 0 /\ r \in SbRows
    BY <1>1, <1>3
  <2>2. Ahead(job[w].plane, r, job[w].col)
    BY <1>1, <1>3, <2>1 DEF ColumnWork
  <2> QED
    BY <1>1, <2>1, <2>2, AheadReady
<1> QED
  BY <1>2, <1>3

LEMMA Lines == IInv => LinesReady
<1> SUFFICES ASSUME IInv, stage = "cdef", NEW w \in Workers
             PROVE  /\ pc[w] = "filter" /\ job[w].row > 0 => job[w].row - 1 \in copied
                    /\ pc[w] = "copy" =>
                         /\ \A b \in done : b.row \notin {job[w].row, job[w].row + 1}
                         /\ \A v \in Workers :
                              pc[v] = "filter" => job[v].row \notin {job[w].row, job[w].row + 1}
  BY DEF LinesReady
<1> USE DEF IInv
<1> DEFINE x == job[w].row
<1>1. FbRows = 0..(size.fbRows - 1) /\ size.fbRows \in Nat
  BY SizeFacts DEF FbRows
<1>2. ASSUME pc[w] = "filter", x > 0 PROVE x - 1 \in copied
  <2>1. x \in FbRows /\ x \in Nat
    BY <1>2, CdefJob, JobType DEF Holds
  <2>2. Past((x - 1) + 1)
    BY <1>2, <2>1 DEF Past
  <2> QED
    BY <1>1, <1>2, <2>1, <2>2 DEF LineInv
<1>3. ASSUME pc[w] = "copy"
      PROVE  /\ \A b \in done : b.row \notin {x, x + 1}
             /\ \A v \in Workers : pc[v] = "filter" => job[v].row \notin {x, x + 1}
  <2>1. x \in FbRows /\ Holds(w) /\ ~Reported(x)
    BY <1>3, CdefJob DEF Holds, Reported
  <2>2. x + 1 \in FbRows => ~Past(x + 1)
    BY <2>1 DEF LineInv
  <2>3. ASSUME NEW b \in done PROVE b.row \notin {x, x + 1}
    <3>1. b.row # x
      BY <2>1 DEF LineInv
    <3>2. ASSUME b.row = x + 1 PROVE FALSE
      <4>1. PICK j \in jobs, c \in 0..LastCol : b = Block(j, c)
        BY DEF AccountInv, AllBlocks, Block
      <4>2. j \in [dir : {0}, plane : {0}, row : FbRows] /\ c = 0 /\ j.row = x + 1
        <5>1. LastCol = 0 /\ jobs = [dir : {0}, plane : {0}, row : FbRows]
          BY DEF StageInv, LastCol
        <5>2. j.row = b.row
          BY <4>1 DEF Block
        <5> QED
          BY <3>2, <5>1, <5>2
      <4>3. j = FbJob(x + 1) /\ x + 1 \in FbRows
        BY <4>2 DEF FbJob
      <4>4. b = Block(FbJob(x + 1), 0)
        BY <4>1, <4>2, <4>3
      <4> QED
        BY <2>2, <4>3, <4>4 DEF Past
    <3> QED
      BY <3>1, <3>2
  <2>4. ASSUME NEW v \in Workers, pc[v] = "filter" PROVE job[v].row \notin {x, x + 1}
    <3>1. Holds(v) /\ v # w /\ job[v].row \in FbRows
      BY <1>3, <2>4, CdefJob DEF Holds
    <3>2. job[v].row # x
      BY <2>1, <3>1, CdefOwner
    <3>3. Past(job[v].row)
      BY <2>4 DEF Past
    <3> QED
      BY <2>2, <3>1, <3>2, <3>3
  <2> QED
    BY <2>3, <2>4
<1> QED
  BY <1>2, <1>3

LEMMA StageLeft ==
  IInv /\ [Next]_vars =>
    (stage # "idle" /\ stageVars' # stageVars /\ failed = {} =>
       done = AllBlocks /\ \A w \in Workers : ~Holds(w))
<1> SUFFICES ASSUME IInv, [Next]_vars, stage # "idle", stageVars' # stageVars, failed = {}
             PROVE  done = AllBlocks /\ \A w \in Workers : ~Holds(w)
  OBVIOUS
<1>1. ASSUME NEW w \in Workers PROVE ~WorkerStep(w)
  BY TookJob, SameSteps DEF IInv, Same, Others
<1>2. Synced
  BY <1>1 DEF Next, Main, WorkerStep, StartFrame, StartTiles, StartFilter, EndFrame,
              vars, stageVars
<1> QED
  BY <1>2, Complete DEF IInv

-----------------------------------------------------------------------------
\* Of any pool and frame, the queues, the jobs of the workers and what the rows
\* report keep their types, across stages and frames of different sizes.
THEOREM TypeCorrect == Spec => []TypeOK
BY Invariance, PTL DEF IInv

\* get_dec_job_info, get_lf_job_info, get_cdef_row_next_job and the others give each
\* job to one worker only.
THEOREM ExclusiveJobs == Spec => []OneOwner
BY Invariance, PTL DEF IInv

\* thread_loop_filter_rows filters a horizontal edge after all vertical edges its
\* filter reads, for every SyncRange: the row above is SyncRange columns ahead at
\* each multiple of it, which is enough for the columns up to the next.
THEOREM VerticalBeforeHorizontal == Spec => []EdgesReady
<1>1. IInv => EdgesReady
  BY Edges
<1> QED
  BY <1>1, Invariance, PTL

\* av2_cdef_fb_row_mt never overwrites lines that a neighbouring row has yet to save,
\* and each row is filtered with those of this frame: is_row_done, reset by
\* its reader, is never the one of an earlier frame, whatever its size was.
THEOREM LinesOfThisFrame == Spec => []LinesReady
<1>1. IInv => LinesReady
  BY Lines
<1> QED
  BY <1>1, Invariance, PTL

\* The main thread goes on to the next stage, tile group or frame only when each
\* block of the stage is finished and all workers have returned.
THEOREM StagesInTurn == Spec => StageComplete
<1>1. IInv /\ [Next]_vars =>
        [stage # "idle" /\ stageVars' # stageVars /\ failed = {} =>
           done = AllBlocks /\ \A w \in Workers : ~Holds(w)]_vars
  BY StageLeft
<1> QED
  BY <1>1, Invariance, PTL DEF Spec, StageComplete


-----------------------------------------------------------------------------
(* Nobody waits for ever: no stage reaches a state in which every thread    *)
(* waits for another one.  This is the safety core of FrameEnds.            *)

\* the least number principle (induction, without an operator parameter)
LEMMA NatMin ==
  ASSUME NEW S \in SUBSET Nat, S # {}
  PROVE  \E m \in S : \A n \in S : m <= n
<1> DEFINE R == OpToRel(<, Nat)
<1>1. IsWellFoundedOn(R, Nat)
  BY NatLessThanWellFounded, Zenon
<1>2. \A x, y \in Nat : x < y => <<x, y>> \in R
  BY Zenon DEF OpToRel
<1> HIDE DEF R
<1>3. \E x \in S : \A y \in S : ~(<<y, x>> \in R)
  BY <1>1, WFMin, Zenon
<1>4. PICK x \in S : \A y \in S : ~(<<y, x>> \in R)
  BY <1>3, Zenon
<1>5. ASSUME NEW y \in S PROVE x <= y
  <2>1. ~(y < x)
    BY <1>2, <1>4, Zenon
  <2>2. x \in Nat /\ y \in Nat
    OBVIOUS
  <2> HIDE DEF R
  <2> QED
    BY <2>1, <2>2, SMT
<1> QED
  BY <1>5, Zenon

\* what a thread in pthread_cond_wait waits for has not happened
Unmet(w) ==
  LET b == job[w] IN
  \/ pc[w] = "above" /\ ~MayRead(b.plane, b.row, b.col)
  \/ pc[w] = "own" /\ ~MayRead(b.plane, b.row + 1, b.col)
  \/ pc[w] = "lines" /\ b.row # 0 /\ ~flag[b.row - 1]

\* no wake-up is lost
SleepInv == \A w \in waiting : Unmet(w)

Vertical(p, r) == [dir |-> 0, plane |-> p, row |-> r]

\* the vertical edges of a row are queued, and then nobody filters horizontal
\* ones yet, or a worker is at them, or the row has reported its end
EdgesInv ==
  stage = "deblock" =>
    /\ \A j \in jobs, r \in SbRows : Vertical(j.plane, r) \in jobs
    /\ \A w \in Workers, j \in queue : Holds(w) /\ job[w].dir = 1 => j.dir = 1
    /\ \A j \in jobs \ queue :
         \/ j.dir = 1
         \/ \E w \in Workers : Holds(w) /\ JobOf(job[w]) = j
         \/ cur[<<j.plane, j.row>>] = LastCol + 1 + SyncRange

\* the rows of CDEF are taken from the top, and the report of a row is there
\* until the row below has read it
RowsInv ==
  stage = "cdef" =>
    /\ \A w \in Workers, j \in queue : Holds(w) => job[w].row < j.row
    /\ \A r \in FbRows : r + 1 \in FbRows /\ Reported(r) /\ ~Past(r + 1) => flag[r]

\* a thread that can go on: it is not asleep, and a lock it needs is free
CanStep(w) ==
  /\ w \notin waiting
  /\ pc[w] \notin {"idle", "returned"}
  /\ pc[w] = "take" => queue = {} \/ \E j \in queue : First(j)

\* in every stage a worker can go on, or all are back and the main thread can
NeverStuck == stage # "idle" => Synced \/ \E w \in Workers : CanStep(w)

\* a queue that is not empty has a first job
LEMMA SomeFirst ==
  ASSUME TypeOK, queue # {}
  PROVE  \E j \in queue : First(j)
<1>1. \A j \in queue : j.dir \in Nat /\ j.plane \in Nat /\ j.row \in Nat
  BY DEF TypeOK, Jobs
<1>2. PICK d \in {j.dir : j \in queue} : \A n \in {j.dir : j \in queue} : d <= n
  <2>1. {j.dir : j \in queue} \in SUBSET Nat /\ {j.dir : j \in queue} # {}
    BY <1>1
  <2> QED
    BY <2>1, NatMin
<1> DEFINE D == {j \in queue : j.dir = d}
<1>3. PICK p \in {j.plane : j \in D} : \A n \in {j.plane : j \in D} : p <= n
  <2>1. {j.plane : j \in D} \in SUBSET Nat /\ {j.plane : j \in D} # {}
    BY <1>1, <1>2
  <2> QED
    BY <2>1, NatMin
<1> DEFINE P == {j \in D : j.plane = p}
<1>4. PICK r \in {j.row : j \in P} : \A n \in {j.row : j \in P} : r <= n
  <2>1. {j.row : j \in P} \in SUBSET Nat /\ {j.row : j \in P} # {}
    BY <1>1, <1>3
  <2> QED
    BY <2>1, NatMin
<1>5. PICK j \in P : j.row = r
  BY <1>4
<1>6. ASSUME NEW k \in queue PROVE ~Before(k, j)
  <2>1. d <= k.dir
    BY <1>2
  <2>2. k.dir = d => p <= k.plane
    BY <1>3
  <2>3. k.dir = d /\ k.plane = p => r <= k.row
    BY <1>4
  <2>4. /\ d \in Nat /\ p \in Nat /\ r \in Nat
        /\ k.dir \in Nat /\ k.plane \in Nat /\ k.row \in Nat
        /\ j.dir = d /\ j.plane = p /\ j.row = r
    BY <1>1, <1>5
  <2> HIDE DEF P, D
  <2> QED
    BY <2>1, <2>2, <2>3, <2>4 DEF Before
<1> QED
  BY <1>6 DEF First

-----------------------------------------------------------------------------
(* No wake-up is lost.                                                      *)

\* the columns and the flag that a sleeping worker looks at have not changed
LEMMA SleepKept ==
  ASSUME SleepInv, NEW w \in Workers, Others(w),
         waiting' \subseteq waiting \cup {w}, w \in waiting' => Unmet(w)',
         \A v \in waiting' : v # w =>
           /\ v \in Workers
           /\ pc[v] \in {"above", "own"} => UNCHANGED cur
           /\ pc[v] = "lines" => flag'[job[v].row - 1] = flag[job[v].row - 1]
  PROVE  SleepInv'
<1> SUFFICES ASSUME NEW v \in waiting', v # w PROVE Unmet(v)'
  BY DEF SleepInv
<1>1. Unmet(v) /\ pc'[v] = pc[v] /\ job'[v] = job[v]
  BY DEF SleepInv, Others
<1> QED
  BY <1>1 DEF Unmet, MayRead

LEMMA SleepWrite ==
  ASSUME IInv, SleepInv, NEW w \in Workers, Write(w)
  PROVE  SleepInv'
<1> DEFINE p == job[w].plane
           r == job[w].row
<1>1. /\ pc[w] = "write" /\ Holds(w) /\ Others(w) /\ w \notin waiting /\ UNCHANGED flag
  BY Written DEF IInv, Write, At, Holds
<1>2. stage = "deblock"
  BY <1>1 DEF IInv, WorkInv, Work
<1>3. CASE UNCHANGED cur /\ ~Reports(job[w].col)
  <2>1. waiting' = waiting
    BY <1>3 DEF Write, Proceed, Goto
  <2> QED
    BY <1>1, <1>3, <2>1, SleepKept DEF IInv, TypeOK
<1>4. CASE Reports(job[w].col)
  <2>1. /\ waiting' = waiting \ ColumnWaiters(p, r)
        /\ cur' = [cur EXCEPT ![<<p, r>>] = IF job[w].col < LastCol THEN job[w].col
                                            ELSE job[w].col + 1 + SyncRange]
    BY <1>4 DEF Write, Proceed, Goto
  <2> SUFFICES ASSUME NEW v \in waiting' PROVE Unmet(v)'
    BY DEF SleepInv
  <2>2. /\ v \in Workers /\ v \in waiting /\ v # w /\ v \notin ColumnWaiters(p, r)
        /\ pc'[v] = pc[v] /\ job'[v] = job[v] /\ Unmet(v)
    BY <1>1, <2>1 DEF SleepInv, Others, IInv, TypeOK
  <2>3. Holds(v) /\ pc[v] \in {"above", "own"}
    <3>1. Holds(v)
      BY <2>2 DEF Unmet, Holds
    <3> QED
      BY <1>2, <2>2, <3>1 DEF Unmet, IInv, WorkInv, Work
  <2>4. \A x \in Planes \X SbRows : x # <<p, r>> => cur'[x] = cur[x]
    <3>1. cur \in [Planes \X SbRows -> Int]
      BY <1>2 DEF IInv, StageInv
    <3> HIDE DEF p, r
    <3> QED
      BY <2>1, <3>1
  <2>5. /\ job[v].row \in Nat /\ job[v].plane \in Planes /\ job[v].row \in SbRows
        /\ job[v].row > 0 => job[v].row - 1 \in SbRows
    BY <1>2, <2>2, <2>3, JobType, OwnRow DEF IInv
  <2>6. CASE pc[v] = "above"
    <3>1. <<job[v].plane, job[v].row - 1>> # <<p, r>>
      <4>1. ~(job[v].plane = p /\ job[v].row = r + 1)
        BY <2>2, <2>6 DEF ColumnWaiters
      <4>2. r \in Nat
        BY JobType DEF IInv
      <4> HIDE DEF p, r
      <4> QED
        BY <2>5, <4>1, <4>2
    <3>2. job[v].row # 0
      BY <2>2, <2>6 DEF Unmet, MayRead
    <3>3. cur'[<<job[v].plane, job[v].row - 1>>] = cur[<<job[v].plane, job[v].row - 1>>]
      BY <2>4, <2>5, <3>1, <3>2
    <3> QED
      BY <2>2, <2>6, <3>3 DEF Unmet, MayRead
  <2>7. CASE pc[v] = "own"
    <3>1. (job[v].row + 1) - 1 = job[v].row
      BY <2>5
    <3>2. <<job[v].plane, (job[v].row + 1) - 1>> # <<p, r>>
      BY <2>2, <2>7, <3>1 DEF ColumnWaiters
    <3>3. cur'[<<job[v].plane, (job[v].row + 1) - 1>>]
            = cur[<<job[v].plane, (job[v].row + 1) - 1>>]
      BY <2>4, <2>5, <3>1, <3>2
    <3> QED
      BY <2>2, <2>7, <3>3 DEF Unmet, MayRead
  <2> QED
    BY <2>3, <2>6, <2>7
<1> QED
  BY <1>3, <1>4 DEF Write

LEMMA SleepReport ==
  ASSUME IInv, SleepInv, NEW w \in Workers, Report(w)
  PROVE  SleepInv'
<1> DEFINE r == job[w].row
<1>1. /\ pc[w] = "report" /\ Holds(w) /\ Others(w) /\ w \notin waiting /\ UNCHANGED cur
      /\ flag' = [flag EXCEPT ![r] = TRUE]
  BY LineSteps DEF IInv, Report, At, Holds, Stays
<1>2. stage = "cdef"
  BY <1>1 DEF IInv, WorkInv, Work
<1>3. PICK woken \in (IF LineWaiters(r) = {} THEN {{}} ELSE {{v} : v \in LineWaiters(r)}) :
        waiting' = waiting \ woken
  BY DEF Report, Goto
<1>4. \A v \in waiting : v \in Workers /\ Holds(v) /\ Unmet(v)
  BY DEF SleepInv, Unmet, Holds, IInv, TypeOK
<1>5. ASSUME NEW v \in waiting', pc[v] = "lines"
      PROVE  job[v].row # r + 1
  <2> SUFFICES ASSUME job[v].row = r + 1 PROVE FALSE
    OBVIOUS
  <2>1. v \in LineWaiters(r)
    BY <1>3, <1>5 DEF LineWaiters
  <2>2. PICK u \in LineWaiters(r) : woken = {u}
    BY <1>3, <2>1
  <2>3. u # v /\ u \in waiting /\ v \in waiting /\ job[u].row = r + 1
    BY <1>3, <2>2 DEF LineWaiters
  <2> QED
    BY <1>2, <1>4, <2>3, CdefOwner DEF IInv
<1>6. ASSUME NEW v \in waiting', pc[v] = "lines"
      PROVE  flag'[job[v].row - 1] = flag[job[v].row - 1]
  <2>1. job[v].row \in FbRows /\ job[v].row # 0
    BY <1>2, <1>3, <1>4, <1>6, CdefJob DEF Unmet, IInv
  <2>2. job[v].row - 1 \in FbRows /\ job[v].row - 1 # r
    <3>1. r \in Nat
      BY JobType DEF IInv
    <3> HIDE DEF r
    <3> QED
      BY <1>5, <1>6, <2>1, <3>1, SizeFacts DEF FbRows, IInv
  <2>3. DOMAIN flag = FbRows
    BY <1>2 DEF IInv, StageInv
  <2> QED
    BY <1>1, <2>2, <2>3 DEF IInv, TypeOK
<1> QED
  BY <1>1, <1>3, <1>4, <1>6, SleepKept

LEMMA SleepStep ==
  ASSUME IInv, SleepInv, NEW w \in Workers, WorkerStep(w)
  PROVE  SleepInv'
<1>0. TypeOK /\ waiting \subseteq Workers
  BY DEF IInv, TypeOK
<1>1. CASE Take(w) \/ Leave(w) \/ Fail(w) \/ Copy(w) \/ Finish(w)
  <2>1. waiting' = waiting /\ w \notin waiting
    BY <1>1 DEF Take, Leave, Fail, Copy, Finish, Goto, Proceed, At
  <2>2. Others(w) /\ UNCHANGED <<cur, flag>>
    <3>1. CASE Take(w)
      BY <1>0, <3>1, TookJob DEF Take, syncVars
    <3>2. CASE Finish(w)
      BY <1>0, <3>2, Finished
    <3>3. CASE Leave(w) \/ Fail(w) \/ Copy(w)
      BY <1>0, <3>3, Ending, LineSteps DEF Stays
    <3> QED
      BY <1>1, <3>1, <3>2, <3>3
  <2> QED
    BY <1>0, <2>1, <2>2, SleepKept
<1>2. CASE SpuriousWakeup(w)
  <2>1. Others(w) /\ UNCHANGED <<cur, flag>> /\ waiting' = waiting \ {w}
    BY <1>0, <1>2, Ending DEF SpuriousWakeup, Stays
  <2> QED
    BY <1>0, <2>1, SleepKept
<1>3. CASE ReadAbove(w) \/ ReadOwn(w)
  <2>1. Others(w) /\ UNCHANGED <<cur, flag>> /\ w \notin waiting
    BY <1>0, <1>3, Read_ DEF ReadAbove, ReadOwn, Read, At, Stays
  <2>2. \/ waiting' = waiting
        \/ waiting' = waiting \cup {w} /\ Unmet(w)'
    <3>1. CASE ReadAbove(w)
      <4>1. CASE MayRead(job[w].plane, job[w].row, job[w].col)
        BY <3>1, <4>1 DEF ReadAbove, Read, Goto
      <4>2. CASE ~MayRead(job[w].plane, job[w].row, job[w].col)
        <5>1. Wait(w) /\ pc[w] = "above"
          BY <3>1, <4>2 DEF ReadAbove, Read, At
        <5> QED
          BY <4>2, <5>1 DEF Wait, Unmet, MayRead, syncVars
      <4> QED
        BY <4>1, <4>2
    <3>2. CASE ReadOwn(w)
      <4>1. CASE MayRead(job[w].plane, job[w].row + 1, job[w].col)
        BY <3>2, <4>1 DEF ReadOwn, Read, Goto
      <4>2. CASE ~MayRead(job[w].plane, job[w].row + 1, job[w].col)
        <5>1. Wait(w) /\ pc[w] = "own"
          BY <3>2, <4>2 DEF ReadOwn, Read, At
        <5> QED
          BY <4>2, <5>1 DEF Wait, Unmet, MayRead, syncVars
      <4> QED
        BY <4>1, <4>2
    <3> QED
      BY <1>3, <3>1, <3>2
  <2> QED
    BY <1>0, <2>1, <2>2, SleepKept
<1>4. CASE ReadLines(w)
  <2>1. Others(w) /\ UNCHANGED cur /\ w \notin waiting /\ pc[w] = "lines"
    BY <1>0, <1>4, LineSteps DEF ReadLines, At, Stays
  <2>2. CASE ~(job[w].row = 0 \/ flag[job[w].row - 1])
    <3>1. Wait(w)
      BY <1>4, <2>2 DEF ReadLines
    <3>2. waiting' = waiting \cup {w} /\ UNCHANGED flag /\ Unmet(w)'
      BY <2>1, <2>2, <3>1 DEF Wait, Unmet, syncVars
    <3> QED
      BY <1>0, <2>1, <3>2, SleepKept
  <2>3. CASE job[w].row = 0 \/ flag[job[w].row - 1]
    <3>1. /\ waiting' = waiting
          /\ flag' = IF job[w].row = 0 THEN flag ELSE [flag EXCEPT ![job[w].row - 1] = FALSE]
      BY <1>4, <2>3 DEF ReadLines, Goto
    <3>2. \A v \in waiting : pc[v] = "lines" => flag'[job[v].row - 1] = flag[job[v].row - 1]
      <4> TAKE v \in waiting
      <4>1. pc[v] = "lines" => ~flag[job[v].row - 1]
        BY DEF SleepInv, Unmet
      <4>2. stage = "cdef" /\ DOMAIN flag = FbRows
        BY <2>1 DEF IInv, WorkInv, Work, Holds, StageInv
      <4>3. flag \in [FbRows -> BOOLEAN]
        BY <1>0, <4>2 DEF TypeOK
      <4>4. pc[v] = "lines" => job[v].row - 1 \in FbRows
        <5> SUFFICES ASSUME pc[v] = "lines" PROVE job[v].row - 1 \in FbRows
          OBVIOUS
        <5>1. Holds(v) /\ v \in Workers /\ job[v].row # 0
          BY <1>0 DEF Holds, SleepInv, Unmet
        <5>2. job[v].row \in FbRows
          BY <4>2, <5>1, CdefJob DEF IInv
        <5> QED
          BY <1>0, <5>1, <5>2, SizeFacts DEF FbRows
      <4> QED
        BY <3>1, <4>1, <4>3, <4>4
    <3> QED
      BY <1>0, <2>1, <3>1, <3>2, SleepKept
  <2> QED
    BY <2>2, <2>3
<1> QED
  BY <1>1, <1>2, <1>3, <1>4, SleepWrite, SleepReport DEF WorkerStep, Worker

-----------------------------------------------------------------------------
(* Deblocking: the vertical edges come first and report their end.          *)

LEMMA EdgesStep ==
  ASSUME IInv, EdgesInv, NEW w \in Workers, WorkerStep(w)
  PROVE  EdgesInv'
<1>0. TypeOK /\ WorkInv /\ StageInv /\ OneOwner
  BY DEF IInv
<1>1. Others(w) /\ queue' \subseteq queue
  <2>1. CASE Take(w)
    BY <1>0, <2>1, TookJob
  <2>2. CASE ~Take(w)
    BY <1>0, <2>2, SameSteps DEF Same
  <2> QED
    BY <2>1, <2>2
<1>2. UNCHANGED <<stage, size, jobs>> /\ LastCol' = LastCol /\ SbRows' = SbRows
  BY <1>1, Unchanged DEF Others
<1> SUFFICES ASSUME stage = "deblock" PROVE EdgesInv'
  BY <1>2 DEF EdgesInv
<1>3. \A v \in Workers : v # w => /\ Holds(v)' <=> Holds(v)
                                  /\ job'[v] = job[v]
  BY <1>1 DEF Others, Holds
<1>4. \A v \in Workers : JobOf(job[v]).dir = job[v].dir
  BY DEF JobOf
<1>5. CASE Take(w)
  <2>1. PICK j \in queue : /\ First(j)
                          /\ queue' = queue \ {j}
                          /\ job'[w] = Block(j, 0) /\ JobOf(job'[w]) = j
                          /\ pc'[w] = Entry(j)
    BY <1>0, <1>5, TookJob
  <2>2. pc[w] = "take" /\ UNCHANGED cur
    BY <1>5 DEF Take, At, syncVars
  <2>3. ASSUME NEW k \in queue', job'[w].dir = 1 PROVE k.dir = 1
    <3>1. k \in queue /\ ~Before(k, j)
      BY <2>1, <2>3 DEF First
    <3>2. k.dir \in {0, 1}
      BY <1>0, <3>1 DEF TypeOK, Jobs
    <3>3. j.dir = 1
      BY <2>1, <2>3 DEF Block
    <3> QED
      BY <3>1, <3>2, <3>3 DEF Before
  <2>4. Holds(w)' /\ ~Holds(w)
    BY <2>1, <2>2 DEF Holds, Entry
  <2>5. \A v \in Workers, k \in queue' : Holds(v)' /\ job'[v].dir = 1 => k.dir = 1
    BY <1>1, <1>3, <2>3 DEF EdgesInv
  <2>6. \A k \in jobs' \ queue' :
          \/ k.dir = 1
          \/ \E v \in Workers : Holds(v)' /\ JobOf(job'[v]) = k
          \/ cur'[<<k.plane, k.row>>] = LastCol + 1 + SyncRange
    <3> TAKE k \in jobs' \ queue'
    <3>1. CASE k = j
      BY <2>1, <2>4, <3>1
    <3>2. CASE k # j
      BY <1>2, <1>3, <2>1, <2>2, <2>4, <3>2 DEF EdgesInv
    <3> QED
      BY <3>1, <3>2
  <2> QED
    BY <1>2, <2>5, <2>6 DEF EdgesInv
<1>6. CASE ~Take(w)
  <2>1. queue' = queue /\ (Holds(w)' => Holds(w) /\ JobOf(job'[w]) = JobOf(job[w]))
    BY <1>0, <1>6, SameSteps DEF Same
  <2>2. Holds(w)' => job'[w].dir = job[w].dir
    BY <2>1 DEF JobOf
  <2>3. \A v \in Workers, k \in queue' : Holds(v)' /\ job'[v].dir = 1 => k.dir = 1
    BY <1>3, <2>1, <2>2 DEF EdgesInv
  <2>4. ASSUME Holds(w) PROVE
           \/ Holds(w)'
           \/ job[w].dir = 1
           \/ cur'[<<job[w].plane, job[w].row>>] = LastCol + 1 + SyncRange
    <3>1. CASE Finish(w)
      BY <1>0, <3>1, Finished, JobType DEF Holds
    <3>2. CASE Write(w)
      <4>1. CASE job[w].col < LastCol
        BY <1>0, <3>2, <4>1, Written DEF Holds
      <4>2. CASE ~(job[w].col < LastCol)
        <5>1. job[w].col = LastCol /\ LastCol \in Nat
          BY <1>0, <2>4, <4>2, SizeFacts DEF WorkInv, Work
        <5>2. Reports(job[w].col)
          BY <5>1 DEF Reports
        <5>3. cur' = [cur EXCEPT ![<<job[w].plane, job[w].row>>] = LastCol + 1 + SyncRange]
          BY <1>0, <3>2, <4>2, <5>1, <5>2, Written
        <5>4. /\ cur \in [Planes \X SbRows -> Int]
              /\ <<job[w].plane, job[w].row>> \in Planes \X SbRows
          BY <1>0, <2>4, OwnRow DEF StageInv
        <5> QED
          BY <5>3, <5>4
      <4> QED
        BY <4>1, <4>2
    <3>3. CASE ReadAbove(w) \/ ReadOwn(w) \/ Copy(w) \/ Report(w) \/ ReadLines(w)
      BY <1>0, <3>3, Read_, LineSteps DEF Holds, Stays
    <3>4. CASE Leave(w) \/ Fail(w) \/ SpuriousWakeup(w)
      BY <1>0, <2>4, <3>4, Ending DEF Holds, Stays
    <3> QED
      BY <1>6, <3>1, <3>2, <3>3, <3>4 DEF WorkerStep, Worker
  <2>5. ASSUME NEW k \in jobs, k.dir # 1, ~(Holds(w) /\ JobOf(job[w]) = k)
        PROVE  cur'[<<k.plane, k.row>>] = cur[<<k.plane, k.row>>]
    <3>1. CASE ~Write(w)
      <4>1. UNCHANGED cur
        BY <1>0, <1>6, <3>1, Finished, Read_, LineSteps, Ending DEF WorkerStep, Worker
      <4> QED
        BY <4>1
    <3>2. CASE Write(w)
      <4>1. /\ Holds(w) /\ job[w].dir = 0
            /\ \/ UNCHANGED cur
               \/ \E n : cur' = [cur EXCEPT ![<<job[w].plane, job[w].row>>] = n]
        BY <1>0, <3>2, Written DEF Holds, WorkInv, Work
      <4>2. k \in Jobs /\ k.dir = 0 /\ k.plane \in Planes /\ k.row \in SbRows
        BY <1>0, <2>5 DEF TypeOK, StageInv, Jobs
      <4>3. ~(k.plane = job[w].plane /\ k.row = job[w].row)
        BY <2>5, <4>1, <4>2 DEF JobOf, Jobs
      <4>4. <<k.plane, k.row>> \in Planes \X SbRows /\ cur \in [Planes \X SbRows -> Int]
            /\ <<k.plane, k.row>> # <<job[w].plane, job[w].row>>
        BY <1>0, <4>2, <4>3 DEF StageInv
      <4> QED
        BY <4>1, <4>4
    <3> QED
      BY <3>1, <3>2
  <2>6. ASSUME NEW k \in jobs' \ queue', k.dir # 1,
               \A v \in Workers : ~(Holds(v)' /\ JobOf(job'[v]) = k)
        PROVE  cur'[<<k.plane, k.row>>] = LastCol + 1 + SyncRange
    <3>1. k \in jobs \ queue
      BY <1>2, <2>1, <2>6
    <3>2. CASE Holds(w) /\ JobOf(job[w]) = k
      <4>1. ~Holds(w)' /\ job[w].dir = k.dir /\ job[w].plane = k.plane /\ job[w].row = k.row
        BY <2>1, <2>6, <3>2 DEF JobOf
      <4> QED
        BY <2>4, <2>6, <3>2, <4>1
    <3>3. CASE ~(Holds(w) /\ JobOf(job[w]) = k)
      <4>1. \A v \in Workers : ~(Holds(v) /\ JobOf(job[v]) = k)
        BY <1>3, <2>6, <3>3
      <4>2. cur[<<k.plane, k.row>>] = LastCol + 1 + SyncRange
        BY <2>6, <3>1, <4>1 DEF EdgesInv
      <4> QED
        BY <2>5, <2>6, <3>1, <3>3, <4>2
    <3> QED
      BY <3>2, <3>3
  <2> QED
    BY <1>2, <2>3, <2>6 DEF EdgesInv
<1> QED
  BY <1>5, <1>6

-----------------------------------------------------------------------------
(* CDEF: rows are taken in order, and a report stays until it is read.      *)

LEMMA RowsStep ==
  ASSUME IInv, RowsInv, NEW w \in Workers, WorkerStep(w)
  PROVE  RowsInv'
<1>0. TypeOK /\ WorkInv /\ StageInv /\ OneOwner
  BY DEF IInv
<1>1. Others(w) /\ queue' \subseteq queue
  <2>1. CASE Take(w)
    BY <1>0, <2>1, TookJob
  <2>2. CASE ~Take(w)
    BY <1>0, <2>2, SameSteps DEF Same
  <2> QED
    BY <2>1, <2>2
<1>2. UNCHANGED <<stage, size, jobs>> /\ FbRows' = FbRows
  BY <1>1, Unchanged DEF Others
<1> SUFFICES ASSUME stage = "cdef" PROVE RowsInv'
  BY <1>2 DEF RowsInv
<1>3. \A v \in Workers : v # w => /\ Holds(v)' <=> Holds(v)
                                  /\ job'[v] = job[v] /\ pc'[v] = pc[v]
  BY <1>1 DEF Others, Holds
<1>4. DOMAIN flag = FbRows
  BY <1>0 DEF StageInv
\* the first part for a step that takes nothing
<1>5. ASSUME ~Take(w), NEW v \in Workers, NEW k \in queue', Holds(v)'
      PROVE  job'[v].row < k.row
  <2>1. queue' = queue /\ (Holds(w)' => Holds(w) /\ JobOf(job'[w]) = JobOf(job[w]))
    BY <1>0, <1>5, SameSteps DEF Same
  <2>2. Holds(v) /\ job'[v].row = job[v].row
    BY <1>3, <1>5, <2>1 DEF JobOf
  <2> QED
    BY <1>5, <2>1, <2>2 DEF RowsInv
\* the second part where no row that had not reported has now, and no row is
\* less past the lines above it
<1>6. ASSUME NEW r \in FbRows, r + 1 \in FbRows, Reported(r)', ~Past(r + 1)',
             Reported(r)' => Reported(r), Past(r + 1) => Past(r + 1)', flag[r] => flag'[r]
      PROVE  flag'[r]
  BY <1>6 DEF RowsInv
<1>7. CASE Take(w)
  <2>1. PICK j \in queue : /\ First(j)
                          /\ queue' = queue \ {j}
                          /\ job'[w] = Block(j, 0) /\ JobOf(job'[w]) = j
                          /\ pc'[w] = Entry(j)
    BY <1>0, <1>7, TookJob
  <2>2. pc[w] = "take" /\ UNCHANGED <<flag, done>> /\ pc'[w] = "copy" /\ job'[w].row = j.row
    BY <1>7, <2>1, BlockFacts DEF Take, At, syncVars, Entry
  <2>3. ASSUME NEW k \in queue' PROVE j.row < k.row
    <3>1. /\ k \in [dir : {0}, plane : {0}, row : FbRows]
          /\ j \in [dir : {0}, plane : {0}, row : FbRows]
          /\ k # j /\ ~Before(k, j)
      BY <1>0, <2>1, <2>3 DEF StageInv, TypeOK, First
    <3>2. k.row # j.row /\ k.row \in Nat /\ j.row \in Nat
      BY <1>0, <3>1, SizeFacts
    <3> QED
      BY <3>1, <3>2 DEF Before
  <2>4. \A v \in Workers, k \in queue' : Holds(v)' => job'[v].row < k.row
    BY <1>3, <2>1, <2>2, <2>3 DEF RowsInv
  <2>5. ASSUME NEW r \in FbRows, r + 1 \in FbRows, Reported(r)', ~Past(r + 1)'
        PROVE  flag'[r]
    <3>1. r # j.row
      BY <2>2, <2>5 DEF Reported
    <3>2. Reported(r)
      <4>1. FbJob(r) # j
        BY <3>1 DEF FbJob
      <4> QED
        BY <1>3, <2>1, <2>2, <2>5, <4>1 DEF Reported
    <3>3. Past(r + 1) => Past(r + 1)'
      BY <1>3, <2>2 DEF Past
    <3> QED
      BY <1>6, <2>2, <2>5, <3>2, <3>3
  <2> QED
    BY <1>2, <2>4, <2>5 DEF RowsInv
<1>8. ASSUME ~Take(w), NEW r \in FbRows, r + 1 \in FbRows, Reported(r)', ~Past(r + 1)'
      PROVE  flag'[r]
  <2>0. queue' = queue /\ r \in Nat
    BY <1>0, <1>8, SameSteps, SizeFacts DEF Same
  <2>1. CASE Report(w)
    <3>1. /\ pc[w] = "report" /\ pc'[w] = "lines" /\ UNCHANGED <<job, done>>
          /\ flag' = [flag EXCEPT ![job[w].row] = TRUE]
      BY <1>0, <2>1, LineSteps DEF Stays
    <3>2. CASE r = job[w].row
      BY <1>4, <3>1, <3>2
    <3>3. CASE r # job[w].row
      <4>1. Reported(r)' => Reported(r)
        BY <1>3, <2>0, <3>1, <3>3 DEF Reported
      <4>2. Past(r + 1) => Past(r + 1)'
        BY <1>3, <3>1 DEF Past
      <4>3. flag'[r] = flag[r]
        BY <1>0, <1>4, <3>1, <3>3 DEF TypeOK
      <4> QED
        BY <1>6, <1>8, <4>1, <4>2, <4>3
    <3> QED
      BY <3>2, <3>3
  <2>2. CASE ReadLines(w)
    <3>1. /\ pc[w] = "lines" /\ UNCHANGED <<job, done>> /\ pc'[w] \in {"lines", "filter"}
          /\ \/ UNCHANGED flag
             \/ /\ pc'[w] = "filter" /\ job[w].row # 0
                /\ flag' = [flag EXCEPT ![job[w].row - 1] = FALSE]
      BY <1>0, <2>2, LineSteps DEF Stays
    <3>2. Reported(r)' => Reported(r)
      BY <1>3, <2>0, <3>1 DEF Reported
    <3>3. Past(r + 1) => Past(r + 1)'
      BY <1>3, <3>1 DEF Past
    <3>4. flag[r] => flag'[r]
      <4>1. CASE UNCHANGED flag
        BY <4>1
      <4>2. CASE /\ pc'[w] = "filter" /\ job[w].row # 0
                 /\ flag' = [flag EXCEPT ![job[w].row - 1] = FALSE]
        <5>1. job[w].row # r + 1
          BY <1>8, <3>1, <4>2 DEF Past
        <5>2. job[w].row \in Nat
          BY <1>0, JobType
        <5>3. job[w].row - 1 # r
          BY <2>0, <5>1, <5>2
        <5> QED
          BY <1>0, <1>4, <4>2, <5>3 DEF TypeOK
      <4> QED
        BY <3>1, <4>1, <4>2
    <3> QED
      BY <1>6, <1>8, <3>2, <3>3, <3>4
  <2>3. CASE Finish(w)
    <3>1. /\ pc[w] = "filter" /\ Holds(w) /\ done' = done \cup {job[w]} /\ UNCHANGED flag
      BY <1>0, <2>3, Finished DEF Holds
    <3>2. job[w].col = 0 /\ LastCol = 0 /\ job[w] = Block(FbJob(job[w].row), 0)
      BY <1>0, <3>1, CdefJob
    <3>3. pc'[w] = "take"
      BY <1>0, <2>3, <3>2, Finished
    <3>4. Reported(r)' => Reported(r)
      BY <1>3, <2>0, <3>1 DEF Reported
    <3>5. Past(r + 1) => Past(r + 1)'
      BY <1>3, <3>1, <3>2 DEF Past
    <3> QED
      BY <1>6, <1>8, <3>1, <3>4, <3>5
  <2>4. CASE Copy(w) \/ Leave(w) \/ SpuriousWakeup(w)
    <3>1. /\ UNCHANGED <<flag, done, job>>
          /\ pc'[w] \in {"copy", "report"} <=> pc[w] \in {"copy", "report"}
          /\ pc'[w] = "filter" <=> pc[w] = "filter"
      BY <1>0, <2>4, LineSteps, Ending DEF Stays
    <3>2. Reported(r)' => Reported(r)
      BY <1>3, <2>0, <3>1 DEF Reported
    <3>3. Past(r + 1) => Past(r + 1)'
      BY <1>3, <3>1 DEF Past
    <3> QED
      BY <1>6, <1>8, <3>1, <3>2, <3>3
  <2>5. CASE ReadAbove(w) \/ ReadOwn(w) \/ Write(w) \/ Fail(w)
    BY <1>0, <2>5, Read_, Written, Ending DEF WorkInv, Work, Holds
  <2> QED
    BY <1>8, <2>1, <2>2, <2>3, <2>4, <2>5 DEF WorkerStep, Worker
<1>9. CASE ~Take(w)
  BY <1>2, <1>5, <1>8, <1>9 DEF RowsInv
<1> QED
  BY <1>7, <1>9

WakeInv == SleepInv /\ EdgesInv /\ RowsInv

\* a stage that is launched: all jobs are queued, nobody sleeps
LEMMA LaunchWake ==
  ASSUME IInv, NEW s \in Stages, Launch(s), s # "tiles" => UNCHANGED size
  PROVE  WakeInv'
<1>0. TypeOK
  BY DEF IInv
<1>1. /\ stage' = s /\ queue' = jobs' /\ waiting' = {} /\ jobs' \in Enqueued(s)
      /\ \A w \in Workers : ~Holds(w)'
  BY <1>0, LaunchEffect DEF Holds
<1>2. SleepInv'
  BY <1>1 DEF SleepInv
<1>3. EdgesInv'
  <2> SUFFICES ASSUME s = "deblock" PROVE EdgesInv'
    BY <1>1 DEF EdgesInv
  <2>1. SbRows' = SbRows
    BY DEF SbRows
  <2>2. PICK P : jobs' = [dir : {0, 1}, plane : P, row : SbRows]
    BY <1>1 DEF Enqueued
  <2>3. \A j \in jobs', r \in SbRows : Vertical(j.plane, r) \in jobs'
    BY <2>2 DEF Vertical
  <2> QED
    BY <1>1, <2>1, <2>3 DEF EdgesInv
<1>4. RowsInv'
  <2> SUFFICES ASSUME s = "cdef" PROVE RowsInv'
    BY <1>1 DEF RowsInv
  <2>1. FbRows' = FbRows
    BY DEF FbRows
  <2>2. jobs' = [dir : {0}, plane : {0}, row : FbRows]
    BY <1>0, <1>1, EnqueuedJobs
  <2>3. \A r \in FbRows : ~Reported(r)'
    BY <1>1, <2>2 DEF Reported, FbJob
  <2> QED
    BY <1>1, <2>1, <2>3 DEF RowsInv
<1> QED
  BY <1>2, <1>3, <1>4 DEF WakeInv

LEMMA WakeStep == IInv /\ WakeInv /\ [Next]_vars => WakeInv'
<1> SUFFICES ASSUME IInv, WakeInv, [Next]_vars PROVE WakeInv'
  OBVIOUS
<1>1. CASE StartFrame \/ StartTiles
  <2>1. "tiles" \in Stages
    BY DEF Stages
  <2> QED
    BY <1>1, <2>1, LaunchWake DEF StartFrame, StartTiles
<1>2. ASSUME NEW s \in Stages, StartFilter(s) PROVE WakeInv'
  BY <1>2, FilterStart, LaunchWake DEF IInv
<1>3. CASE EndFrame
  <2>1. stage' = "idle" /\ waiting' = waiting
    BY <1>3 DEF EndFrame
  <2>2. waiting = {}
    <3> SUFFICES ASSUME NEW v \in waiting PROVE FALSE
      OBVIOUS
    <3>1. v \in Workers /\ Unmet(v)
      BY DEF WakeInv, SleepInv, IInv, TypeOK
    <3> QED
      BY <1>3, <3>1 DEF EndFrame, Synced, Unmet
  <2> QED
    BY <2>1, <2>2 DEF WakeInv, SleepInv, EdgesInv, RowsInv
<1>4. ASSUME NEW w \in Workers, WorkerStep(w) PROVE WakeInv'
  BY <1>4, SleepStep, EdgesStep, RowsStep DEF WakeInv
<1>5. CASE UNCHANGED vars
  <2> USE <1>5 DEF vars
  <2>1. SleepInv'
    BY DEF WakeInv, SleepInv, Unmet, MayRead
  <2>2. EdgesInv'
    BY DEF WakeInv, EdgesInv, Holds, SbRows, LastCol
  <2>3. RowsInv'
    BY DEF WakeInv, RowsInv, Reported, Past, Holds, FbRows
  <2> QED
    BY <2>1, <2>2, <2>3 DEF WakeInv
<1> QED
  BY <1>1, <1>2, <1>3, <1>4, <1>5 DEF Next, Main, WorkerStep

\* a row of vertical edges that is not queued and has not reported its end is in
\* the hands of a worker, which needs nobody
LEMMA RowAtWork ==
  ASSUME IInv, WakeInv, stage = "deblock", NEW w \in Workers, Holds(w), job[w].dir = 1,
         NEW r \in SbRows,
         ~(job[w].col <= cur[<<job[w].plane, r>>] - SyncRange)
  PROVE  \E v \in Workers : CanStep(v)
<1> DEFINE j == Vertical(job[w].plane, r)
<1>1. /\ JobOf(job[w]) \in jobs /\ job[w].col \in 0..LastCol
      /\ JobOf(job[w]).plane = job[w].plane
  BY DEF IInv, WorkInv, Work, JobOf
<1>2. j \in jobs /\ j.dir = 0 /\ j.plane = job[w].plane /\ j.row = r
  BY <1>1 DEF WakeInv, EdgesInv, Vertical
<1>3. j \notin queue
  BY <1>2 DEF WakeInv, EdgesInv
<1>4. cur[<<job[w].plane, r>>] # LastCol + 1 + SyncRange
  <2>1. LastCol \in Nat /\ SyncRange \in Nat
    BY SizeFacts, SyncRangeAssumption DEF IInv
  <2>2. \A n : n = LastCol + 1 + SyncRange => job[w].col <= n - SyncRange
    BY <1>1, <2>1
  <2> QED
    BY <2>2
<1>5. PICK v \in Workers : Holds(v) /\ JobOf(job[v]) = j
  <2> HIDE DEF j
  <2> QED
    BY <1>2, <1>3, <1>4 DEF WakeInv, EdgesInv
<1>6. job[v].dir = 0
  BY <1>2, <1>5 DEF JobOf
<1>7. pc[v] \notin {"above", "own", "copy", "report", "lines"}
  BY <1>5, <1>6 DEF IInv, WorkInv, Work
<1>8. v \notin waiting
  BY <1>7 DEF WakeInv, SleepInv, Unmet
<1> QED
  BY <1>5, <1>8 DEF CanStep, Holds

\* who waits for a row waits for a worker that can go on
LEMMA WaitsForSomebody ==
  ASSUME IInv, WakeInv, NEW w \in waiting
  PROVE  \E v \in Workers : CanStep(v)
<1>1. w \in Workers /\ Unmet(w) /\ TypeOK
  BY DEF WakeInv, SleepInv, IInv, TypeOK
<1>2. Holds(w) /\ Work(w)
  BY <1>1 DEF Unmet, Holds, IInv, WorkInv
<1>3. job[w].row \in Nat
  BY <1>1, JobType
<1>4. CASE pc[w] = "above"
  <2>1. /\ stage = "deblock" /\ job[w].dir = 1 /\ job[w].row # 0
        /\ ~(job[w].col <= cur[<<job[w].plane, job[w].row - 1>>] - SyncRange)
    BY <1>1, <1>2, <1>4 DEF Unmet, MayRead, Work
  <2>2. job[w].row - 1 \in SbRows
    <3>1. job[w].row > 0 => job[w].row - 1 \in SbRows
      BY <1>1, <1>2, <2>1, OwnRow DEF IInv
    <3> QED
      BY <1>3, <2>1, <3>1
  <2> QED
    BY <1>1, <1>2, <2>1, <2>2, RowAtWork
<1>5. CASE pc[w] = "own"
  <2>1. (job[w].row + 1) - 1 = job[w].row
    BY <1>3
  <2>2. /\ stage = "deblock" /\ job[w].dir = 1
        /\ ~(job[w].col <= cur[<<job[w].plane, job[w].row>>] - SyncRange)
    BY <1>1, <1>2, <1>5, <2>1 DEF Unmet, MayRead, Work
  <2>3. job[w].row \in SbRows
    BY <1>1, <1>2, <2>2, OwnRow DEF IInv
  <2> QED
    BY <1>1, <1>2, <2>2, <2>3, RowAtWork
<1>6. CASE pc[w] = "lines"
  <2>1. stage = "cdef" /\ job[w].row # 0 /\ ~flag[job[w].row - 1]
    BY <1>1, <1>2, <1>6 DEF Unmet, Work
  <2>2. PICK r \in FbRows : r = job[w].row - 1 /\ r + 1 = job[w].row /\ r + 1 \in FbRows
    <3>1. job[w].row \in FbRows
      BY <1>1, <1>2, <2>1, CdefJob DEF IInv
    <3>2. job[w].row - 1 \in FbRows
      BY <1>1, <1>3, <2>1, <3>1, SizeFacts DEF FbRows
    <3> QED
      BY <1>3, <3>1, <3>2
  <2>3. ~Past(r + 1)
    <3>1. Block(FbJob(r + 1), 0).row = r + 1
      BY DEF Block, FbJob
    <3>2. Block(FbJob(r + 1), 0) \notin done
      BY <1>1, <1>2, <2>1, <2>2, <3>1 DEF IInv, LineInv
    <3>3. \A v \in Workers : pc[v] = "filter" => job[v].row # r + 1
      BY <1>1, <1>2, <1>6, <2>1, <2>2, CdefOwner DEF IInv, Holds
    <3> QED
      BY <3>2, <3>3 DEF Past
  <2>4. ~Reported(r)
    BY <2>1, <2>2, <2>3 DEF WakeInv, RowsInv
  <2>5. FbJob(r) \notin queue
    <3>1. FbJob(r).row = r /\ r \in Nat /\ ~(job[w].row < r)
      BY <1>3, <2>2, SizeFacts DEF FbJob, IInv
    <3> QED
      BY <1>1, <1>2, <2>1, <3>1 DEF WakeInv, RowsInv
  <2>6. PICK v \in Workers : pc[v] \in {"copy", "report"}
    BY <2>4, <2>5 DEF Reported
  <2>7. v \notin waiting
    BY <2>6 DEF WakeInv, SleepInv, Unmet
  <2> QED
    BY <2>6, <2>7 DEF CanStep
<1> QED
  BY <1>1, <1>4, <1>5, <1>6 DEF Unmet

\* No stage of a frame gets stuck: whenever the main thread waits in
\* winterface->sync, a worker can go on, although deblocking and CDEF rows wait
\* for each other and a row of CDEF wakes one thread only.
THEOREM NoDeadlock == Spec => []NeverStuck
<1>1. Init => WakeInv
  BY DEF Init, WakeInv, SleepInv, EdgesInv, RowsInv
<1>2. IInv /\ WakeInv => NeverStuck
  <2> SUFFICES ASSUME IInv, WakeInv, ~Synced PROVE \E w \in Workers : CanStep(w)
    BY DEF NeverStuck
  <2>1. PICK w \in Workers : pc[w] \notin {"idle", "returned"}
    BY DEF Synced
  <2>2. CASE w \in waiting
    BY <2>2, WaitsForSomebody
  <2>3. CASE w \notin waiting
    BY <2>1, <2>3, SomeFirst DEF CanStep, IInv
  <2> QED
    BY <2>2, <2>3
<1> QED
  BY <1>1, <1>2, Invariance, WakeStep, PTL DEF Spec

-----------------------------------------------------------------------------
(* Nobody works for ever either: every step of a worker but a wake-up       *)
(* without a signal, and every step of the main thread, brings the end of   *)
(* the frame nearer.                                                        *)

StagesLeft == IF stage = "idle" THEN 0 ELSE 6 - Rank(stage)
TilesLeft == {t \in 0..(NumTiles - 1) : \A j \in jobs : t > j.row}

\* the column a worker is in, and how many of the places of a column it still has
\* to pass
Column(w) == IF Holds(w) THEN job[w].col ELSE LastCol
Phase(w) ==
  CASE pc[w] = "copy" -> 6
    [] pc[w] \in {"report", "above"} -> 5
    [] pc[w] \in {"lines", "own"} -> 4
    [] pc[w] = "filter" -> 3
    [] pc[w] = "write" -> 2
    [] pc[w] = "take" -> 1
    [] OTHER -> 0
Passes == {x \in Workers \X ((0..LastCol) \X (1..6)) :
             \/ x[2][1] > Column(x[1])
             \/ x[2][1] = Column(x[1]) /\ x[2][2] <= Phase(x[1])}
Awake == Workers \ waiting

\* the lexicographic order of the five measures
Closer ==
  \/ StagesLeft' < StagesLeft
  \/ /\ StagesLeft' = StagesLeft
     /\ \/ Cardinality(TilesLeft') < Cardinality(TilesLeft)
        \/ /\ TilesLeft' = TilesLeft
           /\ \/ Cardinality(queue') < Cardinality(queue)
              \/ /\ queue' = queue
                 /\ \/ Cardinality(Passes') < Cardinality(Passes)
                    \/ /\ Passes' = Passes
                       /\ Cardinality(Awake') < Cardinality(Awake)

JobsFinite == IsFiniteSet(jobs)

LEMMA FiniteJobs ==
  ASSUME NEW n \in Nat
  PROVE  IsFiniteSet([dir : {0, 1}, plane : 0..2, row : 0..n])
<1> DEFINE D == (0..1) \X ((0..2) \X (0..n))
           R == [dir : {0, 1}, plane : 0..2, row : 0..n]
           f == [x \in D |-> [dir |-> x[1], plane |-> x[2][1], row |-> x[2][2]]]
<1>1. PICK a \in Int, b \in Int, c \in Int : a = 0 /\ b = 1 /\ c = 2
  OBVIOUS
<1>2. IsFiniteSet(a..b) /\ IsFiniteSet(a..c) /\ IsFiniteSet(a..n)
  BY FS_Interval
<1>3. IsFiniteSet(0..1) /\ IsFiniteSet(0..2) /\ IsFiniteSet(0..n)
  BY <1>1, <1>2, Zenon
<1>4. IsFiniteSet((0..2) \X (0..n))
  BY <1>3, FS_Product
<1>5. IsFiniteSet(D)
  BY <1>3, <1>4, FS_Product
<1>6. f \in [D -> R]
  OBVIOUS
<1>7. ASSUME NEW r \in R PROVE \E x \in D : f[x] = r
  <2>1. <<r.dir, <<r.plane, r.row>>>> \in D
    OBVIOUS
  <2>2. f[<<r.dir, <<r.plane, r.row>>>>] = r
    BY <2>1
  <2> QED
    BY <2>1, <2>2
<1>8. f \in Surjection(D, R)
  BY <1>6, <1>7 DEF Surjection
<1> HIDE DEF D, R, f
<1>9. IsFiniteSet(R)
  BY <1>5, <1>8, FS_Surjection
<1> QED
  BY <1>9 DEF R

LEMMA FiniteEnqueued ==
  ASSUME TypeOK, NEW s \in Stages, NEW js \in Enqueued(s)
  PROVE  IsFiniteSet(js)
<1>1. CASE s = "tiles"
  BY <1>1, EnqueuedJobs
<1>2. CASE s # "tiles"
  <2>1. PICK n \in Nat : SbRows \subseteq 0..n /\ FbRows \subseteq 0..n
    <3>1. size.sbRows \in Nat /\ size.fbRows \in Nat
      BY SizeFacts
    <3>2. /\ size.sbRows + size.fbRows \in Nat
          /\ SbRows \subseteq 0..(size.sbRows + size.fbRows)
          /\ FbRows \subseteq 0..(size.sbRows + size.fbRows)
      BY <3>1 DEF SbRows, FbRows
    <3> QED
      BY <3>2
  <2>2. js \subseteq [dir : {0, 1}, plane : 0..2, row : 0..n]
    <3> USE PlanesAssumption
    <3>1. CASE s = "deblock"
      <4>1. PICK P \in {Q \in SUBSET Planes : 0 \in Q} :
              js = [dir : {0, 1}, plane : P, row : SbRows]
        BY <3>1 DEF Enqueued
      <4> QED
        BY <2>1, <4>1
    <3>2. CASE s = "cdef"
      <4>1. js = [dir : {0}, plane : {0}, row : FbRows]
        BY <3>2 DEF Enqueued
      <4>2. 0 \in 0..2
        OBVIOUS
      <4> QED
        BY <2>1, <4>1, <4>2
    <3>3. CASE s = "ccso"
      <4>1. js \subseteq [dir : {0}, plane : Planes, row : FbRows]
        BY <3>3 DEF Enqueued
      <4> QED
        BY <2>1, <4>1
    <3>4. CASE s = "restore"
      <4>1. PICK P \in (SUBSET Planes) \ {{}} : js = [dir : {0}, plane : P, row : FbRows]
        BY <3>4 DEF Enqueued
      <4> QED
        BY <2>1, <4>1
    <3> QED
      BY <1>2, <3>1, <3>2, <3>3, <3>4 DEF Stages
  <2> QED
    BY <2>2, FiniteJobs, FS_Subset
<1> QED
  BY <1>1, <1>2

LEMMA FiniteStep == TypeOK /\ JobsFinite /\ [Next]_vars => JobsFinite'
<1> SUFFICES ASSUME TypeOK, JobsFinite, [Next]_vars PROVE IsFiniteSet(jobs')
  BY DEF JobsFinite
<1>1. ASSUME NEW s \in Stages, Launch(s) PROVE IsFiniteSet(jobs')
  BY <1>1, FiniteEnqueued DEF Launch
<1>2. CASE UNCHANGED jobs
  BY <1>2 DEF JobsFinite
<1>3. CASE UNCHANGED vars
  BY <1>2, <1>3 DEF vars
<1>4. CASE StartFrame \/ StartTiles
  BY <1>1, <1>4 DEF StartFrame, StartTiles, Stages
<1>5. CASE \E s \in Stages : StartFilter(s)
  BY <1>1, <1>5 DEF StartFilter
<1>6. CASE EndFrame
  BY <1>2, <1>6 DEF EndFrame
<1>7. ASSUME NEW w \in Workers, WorkerStep(w) PROVE IsFiniteSet(jobs')
  <2>1. UNCHANGED stageVars
    BY <1>7, ZenonT(60) DEF WorkerStep, Worker, Take, Leave, Finish, Write, ReadAbove,
       ReadOwn, Read, Copy, Report, ReadLines, Fail, SpuriousWakeup
  <2> QED
    BY <1>2, <2>1 DEF stageVars
<1> QED
  BY <1>3, <1>4, <1>5, <1>6, <1>7 DEF Next, Main, WorkerStep

LEMMA FewerThan ==
  ASSUME NEW S, IsFiniteSet(S), NEW T \in SUBSET S, NEW x \in S, x \notin T
  PROVE  Cardinality(T) < Cardinality(S)
<1>1. IsFiniteSet(T) /\ Cardinality(T) <= Cardinality(S) /\ Cardinality(S) # Cardinality(T)
  BY FS_Subset
<1>2. Cardinality(S) \in Nat /\ Cardinality(T) \in Nat
  BY <1>1, FS_CardinalityType
<1> QED
  BY <1>1, <1>2

LEMMA FiniteWorkers == IsFiniteSet(Workers)
BY FS_Interval, NumWorkersAssumption DEF Workers

LEMMA FinitePasses == ASSUME TypeOK PROVE IsFiniteSet(Passes)
<1>1. IsFiniteSet(1..6)
  <2>1. PICK a \in Int, b \in Int : a = 1 /\ b = 6
    OBVIOUS
  <2>2. IsFiniteSet(a..b)
    BY FS_Interval
  <2> QED
    BY <2>1, <2>2, Zenon
<1>2. IsFiniteSet(0..LastCol)
  <2>1. 0 \in Int /\ LastCol \in Int
    BY SizeFacts
  <2> QED
    BY <2>1, FS_Interval, Zenon
<1>3. IsFiniteSet((0..LastCol) \X (1..6))
  BY <1>1, <1>2, FS_Product
<1>4. IsFiniteSet(Workers \X ((0..LastCol) \X (1..6)))
  BY <1>3, FiniteWorkers, FS_Product
<1> QED
  BY <1>4, FS_Subset DEF Passes

\* the main thread goes on
LEMMA NextTiles ==
  ASSUME TypeOK, StartTiles
  PROVE  Closer
<1>1. /\ stage' = stage /\ jobs' \in Enqueued("tiles")
      /\ \A j \in jobs, k \in jobs' : j.row < k.row
  BY DEF StartTiles, Launch
<1>2. StagesLeft' = StagesLeft
  BY <1>1 DEF StagesLeft
<1>3. jobs' # {} /\ \A k \in jobs' : k.row \in 0..(NumTiles - 1)
  <2>1. PICK a, b \in 0..(NumTiles - 1) : jobs' = [dir : {0}, plane : {0}, row : a..b]
    BY <1>1 DEF Enqueued
  <2>2. a..b \subseteq 0..(NumTiles - 1)
    BY NumTilesAssumption
  <2>3. jobs' # {}
    BY <1>1, EnqueuedJobs DEF Stages
  <2> QED
    BY <2>1, <2>2, <2>3
<1>4. PICK k \in jobs' : TRUE
  BY <1>3
<1>5. \A j \in jobs : j.row \in Nat
  BY DEF TypeOK, Jobs
<1>6. TilesLeft' \subseteq TilesLeft
  <2> SUFFICES ASSUME NEW t \in 0..(NumTiles - 1), \A j \in jobs' : t > j.row,
                      NEW j \in jobs
               PROVE  t > j.row
    BY DEF TilesLeft
  <2>1. j.row < k.row /\ t > k.row
    BY <1>1
  <2> QED
    BY <1>3, <1>5, <2>1
<1>7. k.row \in TilesLeft /\ k.row \notin TilesLeft'
  BY <1>1, <1>3, <1>5 DEF TilesLeft
<1>8. IsFiniteSet(TilesLeft)
  <2>1. 0 \in Int /\ NumTiles - 1 \in Int
    BY NumTilesAssumption
  <2>2. IsFiniteSet(0..(NumTiles - 1))
    BY <2>1, FS_Interval, Zenon
  <2> QED
    BY <2>2, FS_Subset DEF TilesLeft
<1>9. Cardinality(TilesLeft') < Cardinality(TilesLeft)
  BY <1>6, <1>7, <1>8, FewerThan
<1> QED
  BY <1>2, <1>9 DEF Closer

LEMMA NextStage ==
  ASSUME TypeOK, EndFrame \/ \E s \in Stages : StartFilter(s)
  PROVE  Closer
<1>1. CASE EndFrame
  <2>1. stage \in Stages /\ stage' = "idle"
    BY <1>1 DEF EndFrame, TypeOK
  <2>2. StagesLeft' < StagesLeft
    BY <2>1 DEF StagesLeft, Rank, Stages
  <2> QED
    BY <2>2 DEF Closer
<1>2. ASSUME NEW s \in Stages, StartFilter(s) PROVE Closer
  <2>1. stage \in Stages /\ stage' = s /\ Rank(s) > Rank(stage)
    BY <1>2 DEF StartFilter, Launch, TypeOK
  <2>2. StagesLeft' < StagesLeft
    BY <2>1 DEF StagesLeft, Rank, Stages
  <2> QED
    BY <2>2 DEF Closer
<1> QED
  BY <1>1, <1>2

\* a worker goes on to its next place, or to the next column
Onward(w) ==
  \/ Column(w)' > Column(w)
  \/ Column(w)' = Column(w) /\ Phase(w)' < Phase(w)

LEMMA PhaseType == \A w \in Workers : Phase(w) \in 0..6 /\ Phase(w)' \in 0..6
BY DEF Phase

LEMMA ColumnType ==
  ASSUME IInv, NEW w \in Workers
  PROVE  Column(w) \in 0..LastCol
<1>1. LastCol \in Nat
  BY SizeFacts DEF IInv
<1> QED
  BY <1>1 DEF Column, IInv, WorkInv, Work

LEMMA PassesDrop ==
  ASSUME IInv, IInv', NEW w \in Workers, Others(w), pc[w] \notin {"idle", "returned"},
         Onward(w)
  PROVE  Cardinality(Passes') < Cardinality(Passes)
<1>1. LastCol' = LastCol /\ LastCol \in Nat
  BY Unchanged, SizeFacts DEF Others, IInv
<1>2. \A v \in Workers : Column(v) \in 0..LastCol /\ Column(v)' \in 0..LastCol
  <2>1. \A v \in Workers : Column(v) \in 0..LastCol
    BY ColumnType
  <2>2. \A v \in Workers : Column(v)' \in (0..LastCol)'
    BY <1>1 DEF Column, IInv, WorkInv, Work
  <2> QED
    BY <1>1, <2>1, <2>2
<1>3. \A v \in Workers : v # w => Column(v)' = Column(v) /\ Phase(v)' = Phase(v)
  BY <1>1 DEF Others, Column, Phase, Holds
<1>4. Phase(w) \in 1..6
  BY DEF Phase, PCs, IInv, TypeOK
<1>5. ASSUME NEW v \in Workers, NEW c \in 0..LastCol, NEW k \in 1..6,
             c > Column(v)' \/ (c = Column(v)' /\ k <= Phase(v)')
      PROVE  c > Column(v) \/ (c = Column(v) /\ k <= Phase(v))
  <2>1. CASE v # w
    BY <1>3, <1>5, <2>1
  <2>2. CASE v = w
    <3>1. Column(w) \in 0..LastCol /\ Column(w)' \in 0..LastCol
      BY <1>2
    <3>2. Phase(w) \in 0..6 /\ Phase(w)' \in 0..6
      BY PhaseType
    <3> QED
      BY <1>1, <1>5, <2>2, <3>1, <3>2 DEF Onward
  <2> QED
    BY <2>1, <2>2
<1>6. Passes' \subseteq Passes
  <2> SUFFICES ASSUME NEW x \in Passes' PROVE x \in Passes
    OBVIOUS
  <2>1. /\ x \in Workers \X ((0..LastCol) \X (1..6))
        /\ \/ x[2][1] > Column(x[1])'
           \/ x[2][1] = Column(x[1])' /\ x[2][2] <= Phase(x[1])'
    BY <1>1 DEF Passes
  <2>2. x[1] \in Workers /\ x[2][1] \in 0..LastCol /\ x[2][2] \in 1..6
    BY <2>1
  <2>3. \/ x[2][1] > Column(x[1])
        \/ x[2][1] = Column(x[1]) /\ x[2][2] <= Phase(x[1])
    BY <1>5, <2>1, <2>2
  <2> QED
    BY <2>1, <2>3 DEF Passes
<1> DEFINE me == <<w, <<Column(w), Phase(w)>>>>
<1>7. me \in Workers \X ((0..LastCol) \X (1..6))
  BY <1>2, <1>4
<1>8. me \in Passes
  BY <1>2, <1>4, <1>7 DEF Passes
<1>9. me \notin Passes'
  <2>1. ~(Column(w) > Column(w)') /\ ~(Column(w) = Column(w)' /\ Phase(w) <= Phase(w)')
    <3>1. Column(w) \in 0..LastCol /\ Column(w)' \in 0..LastCol
      BY <1>2
    <3>2. Phase(w) \in 0..6 /\ Phase(w)' \in 0..6
      BY PhaseType
    <3> QED
      BY <1>1, <3>1, <3>2 DEF Onward
  <2> QED
    BY <2>1 DEF Passes
<1>10. IsFiniteSet(Passes)
  BY FinitePasses DEF IInv
<1> HIDE DEF me
<1> QED
  BY <1>6, <1>8, <1>9, <1>10, FewerThan

\* worker w starts to wait
GivesUp(w) ==
  /\ w \notin waiting /\ waiting' = waiting \cup {w}
  /\ UNCHANGED <<stageVars, queue, pc, job>>

LEMMA StaysOnward ==
  ASSUME IInv, NEW w \in Workers, NEW to \in PCs, Stays(w, to),
         Holds(w), to \in {"own", "report", "lines", "filter", "write"},
         \/ pc[w] = "above" /\ to = "own"
         \/ pc[w] = "own" /\ to = "filter"
         \/ pc[w] = "copy" /\ to = "report"
         \/ pc[w] = "report" /\ to = "lines"
         \/ pc[w] = "lines" /\ to = "filter"
         \/ pc[w] = "filter" /\ to = "write"
  PROVE  Onward(w)
<1>1. pc'[w] = to /\ job' = job
  BY DEF Stays
<1>2. Column(w)' = Column(w)
  BY <1>1 DEF Column, Holds
<1>3. Phase(w)' < Phase(w)
  BY <1>1 DEF Phase
<1> QED
  BY <1>2, <1>3 DEF Onward

LEMMA LeavesOnward ==
  ASSUME IInv, NEW w \in Workers, Others(w), pc[w] \notin {"idle", "returned"},
         \/ pc'[w] = "returned"
         \/ pc'[w] = "take" /\ Holds(w)
  PROVE  Onward(w)
<1>1. LastCol' = LastCol /\ LastCol \in Nat
  BY Unchanged, SizeFacts DEF Others, IInv
<1>2. Column(w)' = LastCol
  BY <1>1 DEF Column, Holds
<1>3. Column(w) \in 0..LastCol
  BY ColumnType
<1>4. pc[w] \in PCs
  BY DEF IInv, TypeOK
<1>5. Phase(w)' < Phase(w)
  BY <1>4 DEF Phase, PCs, Holds
<1> QED
  BY <1>1, <1>2, <1>3, <1>5 DEF Onward

LEMMA NextColumn ==
  ASSUME IInv, NEW w \in Workers, Holds(w), pc'[w] \in {"above", "filter"},
         job'[w] = Block(job[w], job[w].col + 1)
  PROVE  Onward(w)
<1>1. job[w].col \in Nat /\ job'[w].col = job[w].col + 1
  <2>1. job[w].col \in Nat
    BY JobType DEF IInv
  <2> QED
    BY <2>1 DEF Block
<1>2. Column(w) = job[w].col /\ Column(w)' = job'[w].col
  BY DEF Column, Holds
<1> QED
  BY <1>1, <1>2 DEF Onward

LEMMA ReadOnward ==
  ASSUME IInv, NEW w \in Workers, ReadAbove(w) \/ ReadOwn(w)
  PROVE  Onward(w) \/ GivesUp(w)
<1>1. CASE ReadAbove(w)
  <2>1. /\ At(w, "above") /\ UNCHANGED stageVars
        /\ \/ Goto(w, "own", {}) /\ UNCHANGED <<queue, syncVars, job, copied, done>>
           \/ Wait(w)
    BY <1>1 DEF ReadAbove, Read
  <2>2. CASE Goto(w, "own", {}) /\ UNCHANGED <<queue, syncVars, job, copied, done>>
    <3>1. Stays(w, "own")
      BY <2>1, <2>2, GotoStays DEF IInv, PCs
    <3> QED
      BY <2>1, <3>1, StaysOnward DEF At, Holds, PCs
  <2>3. CASE Wait(w)
    BY <2>1, <2>3 DEF Wait, At, GivesUp
  <2> QED
    BY <2>1, <2>2, <2>3
<1>2. CASE ReadOwn(w)
  <2>1. /\ At(w, "own") /\ UNCHANGED stageVars
        /\ \/ Goto(w, "filter", {}) /\ UNCHANGED <<queue, syncVars, job, copied, done>>
           \/ Wait(w)
    BY <1>2 DEF ReadOwn, Read
  <2>2. CASE Goto(w, "filter", {}) /\ UNCHANGED <<queue, syncVars, job, copied, done>>
    <3>1. Stays(w, "filter")
      BY <2>1, <2>2, GotoStays DEF IInv, PCs
    <3> QED
      BY <2>1, <3>1, StaysOnward DEF At, Holds, PCs
  <2>3. CASE Wait(w)
    BY <2>1, <2>3 DEF Wait, At, GivesUp
  <2> QED
    BY <2>1, <2>2, <2>3
<1> QED
  BY <1>1, <1>2

LEMMA LinesOnward ==
  ASSUME IInv, NEW w \in Workers, Copy(w) \/ Report(w) \/ ReadLines(w)
  PROVE  Onward(w) \/ GivesUp(w)
<1>1. CASE Copy(w)
  BY <1>1, LineSteps, StaysOnward DEF IInv, Holds, PCs
<1>2. CASE Report(w)
  BY <1>2, LineSteps, StaysOnward DEF IInv, Holds, PCs
<1>3. CASE ReadLines(w)
  <2>1. /\ At(w, "lines") /\ UNCHANGED stageVars
        /\ \/ Goto(w, "filter", {}) /\ UNCHANGED job
           \/ Wait(w)
    BY <1>3 DEF ReadLines
  <2>2. CASE Goto(w, "filter", {}) /\ UNCHANGED job
    <3>1. Stays(w, "filter")
      BY <2>1, <2>2, GotoStays DEF IInv, PCs
    <3> QED
      BY <2>1, <3>1, StaysOnward DEF At, Holds, PCs
  <2>3. CASE Wait(w)
    BY <2>1, <2>3 DEF Wait, At, GivesUp
  <2> QED
    BY <2>1, <2>2, <2>3
<1> QED
  BY <1>1, <1>2, <1>3

LEMMA FilterOnward ==
  ASSUME IInv, NEW w \in Workers, Finish(w) \/ Write(w)
  PROVE  Onward(w)
<1>1. CASE Finish(w)
  <2>1. Others(w) /\ pc[w] = "filter" /\ Holds(w)
    BY <1>1, Finished DEF IInv, Holds
  <2>2. CASE pc'[w] = "write" /\ job'[w] = job[w]
    <3>1. Column(w)' = Column(w) /\ Phase(w)' < Phase(w)
      BY <2>1, <2>2 DEF Column, Phase, Holds
    <3> QED
      BY <3>1 DEF Onward
  <2>3. CASE pc'[w] = "above" /\ job'[w] = Block(job[w], job[w].col + 1)
    BY <2>1, <2>3, NextColumn
  <2>4. CASE pc'[w] = "take"
    BY <2>1, <2>4, LeavesOnward
  <2> QED
    BY <1>1, <2>2, <2>3, <2>4, Finished DEF IInv
<1>2. CASE Write(w)
  <2>1. Others(w) /\ pc[w] = "write" /\ Holds(w)
    BY <1>2, Written DEF IInv, Holds
  <2>2. CASE pc'[w] = "filter" /\ job'[w] = Block(job[w], job[w].col + 1)
    BY <2>1, <2>2, NextColumn
  <2>3. CASE pc'[w] = "take"
    BY <2>1, <2>3, LeavesOnward
  <2> QED
    BY <1>2, <2>2, <2>3, Written DEF IInv
<1> QED
  BY <1>1, <1>2

LEMMA WorkerCloser ==
  ASSUME IInv, IInv', JobsFinite, NEW w \in Workers, Worker(w) \/ Fail(w)
  PROVE  Closer
<1>1. /\ UNCHANGED stageVars
      /\ ~Take(w) => queue' = queue /\ Others(w) /\ pc[w] \notin {"idle", "returned"}
  <2>1. /\ UNCHANGED stageVars
        /\ ~Take(w) => queue' = queue
        /\ pc[w] \notin {"idle", "returned"}
    BY ZenonT(60) DEF Worker, Take, Leave, Finish, Write, ReadAbove, ReadOwn, Read, Copy,
       Report, ReadLines, Fail, At, Wait
  <2>2. ~Take(w) => Others(w)
    BY Finished, Written, Read_, LineSteps, Ending DEF IInv, Worker, Stays
  <2> QED
    BY <2>1, <2>2
<1>2. StagesLeft' = StagesLeft /\ TilesLeft' = TilesLeft
  BY <1>1 DEF stageVars, StagesLeft, TilesLeft
<1>3. CASE Take(w)
  <2>1. PICK j \in queue : queue' = queue \ {j}
    BY <1>3 DEF Take
  <2>2. IsFiniteSet(queue)
    BY FS_Subset DEF JobsFinite, IInv, TypeOK
  <2>3. Cardinality(queue') < Cardinality(queue)
    BY <2>1, <2>2, FewerThan
  <2> QED
    BY <1>2, <2>3 DEF Closer
<1>4. CASE ~Take(w)
  <2>1. Onward(w) \/ GivesUp(w)
    <3>1. CASE Leave(w) \/ Fail(w)
      BY <1>1, <1>4, <3>1, Ending, LeavesOnward DEF IInv, Stays
    <3>2. CASE ReadAbove(w) \/ ReadOwn(w)
      BY <3>2, ReadOnward
    <3>3. CASE Copy(w) \/ Report(w) \/ ReadLines(w)
      BY <3>3, LinesOnward
    <3>4. CASE Finish(w) \/ Write(w)
      BY <3>4, FilterOnward
    <3> QED
      BY <1>4, <3>1, <3>2, <3>3, <3>4 DEF Worker
  <2>2. CASE Onward(w)
    <3>1. Cardinality(Passes') < Cardinality(Passes)
      BY <1>1, <1>4, <2>2, PassesDrop
    <3> QED
      BY <1>1, <1>2, <1>4, <3>1 DEF Closer
  <2>3. CASE GivesUp(w)
    <3>1. Passes' = Passes
      BY <2>3 DEF GivesUp, stageVars, Passes, Column, Phase, Holds, LastCol
    <3>2. Awake' \subseteq Awake /\ w \in Awake /\ w \notin Awake'
      BY <2>3 DEF GivesUp, Awake
    <3>3. IsFiniteSet(Awake)
      BY FiniteWorkers, FS_Subset DEF Awake
    <3>4. Cardinality(Awake') < Cardinality(Awake)
      BY <3>2, <3>3, FewerThan
    <3> QED
      BY <1>1, <1>2, <1>4, <3>1, <3>4 DEF Closer
  <2> QED
    BY <2>1, <2>2, <2>3
<1> QED
  BY <1>3, <1>4

\* Nobody works for ever in the stages of a frame: each step of a worker, with errors
\* in the tiles too, and each of the main thread starts a later stage or tile group,
\* takes a job, passes a place of its column or begins to wait; only a wake-up without
\* a signal takes a worker back.  With NoDeadlock this is why a frame ends.
THEOREM FrameTerminates ==
  Spec => [][Main \/ (\E w \in Workers : Worker(w) \/ Fail(w)) => Closer]_vars
<1>1. Init => JobsFinite
  BY FS_EmptySet DEF Init, JobsFinite
<1>2. IInv /\ JobsFinite /\ [Next]_vars => JobsFinite'
  BY FiniteStep DEF IInv
<1>3. IInv /\ IInv' /\ JobsFinite /\ [Next]_vars
        => [Main \/ (\E w \in Workers : Worker(w) \/ Fail(w)) => Closer]_vars
  BY NextTiles, NextStage, WorkerCloser DEF Main, IInv
<1> QED
  BY <1>1, <1>2, <1>3, Invariance, PTL DEF Spec
=============================================================================
