----------------------------- MODULE RowMTProofs -----------------------------
(***************************************************************************)
(* Proofs about RowMT, for any number of workers and tiles of any size.     *)
(* The inductive invariant says who parses and who decodes what, how far    *)
(* each row has come, and how the counters that the code keeps follow from  *)
(* it; that superblocks are decoded after their neighbours, that every row  *)
(* has one owner, and that a good frame is complete are consequences.       *)
(***************************************************************************)
EXTENDS RowMT, FiniteSetTheorems, WellFoundedInduction, TLAPS

Parsing(w) == pc[w] \in {"init", "parse", "endTile"}
Sb(w) == <<job[w].tile, job[w].row, job[w].col>>

IdleInv == ~busy => \A w \in Workers : pc[w] = "idle"

ParseInv ==
  /\ \A t \in queue : parsed[t] = 0
  /\ \A w \in Workers : Parsing(w) =>
       /\ job[w].tile \notin queue
       /\ parsed[job[w].tile] = job[w].row
       /\ pc[w] = "init" => job[w].row = 0
  /\ \A v, w \in Workers :
       v # w /\ Parsing(v) /\ Parsing(w) => job[v].tile # job[w].tile

RowInv ==
  \A w \in Workers : OnRow(w) =>
    /\ job[w].row < started[job[w].tile]
    /\ IF pc[w] = "endRow" THEN job[w].col = Cols[job[w].tile]
       ELSE job[w].col < Cols[job[w].tile]

\* columns of a row somebody works on that are decoded
Reached(w) == IF pc[w] = "write" THEN job[w].col + 1 ELSE job[w].col

DecodedInv ==
  /\ \A sb \in decoded : sb[2] < started[sb[1]]
  /\ \A w \in Workers : OnRow(w) =>
       \A k \in 0..(Cols[job[w].tile] - 1) :
         <<job[w].tile, job[w].row, k>> \in decoded <=> k < Reached(w)
  /\ \A s \in W!SbRows :
       /\ s[2] >= started[s[1]] => col[s] = -1
       /\ \A k \in 0..(Cols[s[1]] - 1) : k <= col[s] => <<s[1], s[2], k>> \in decoded

FailInv ==
  /\ \A w \in Workers : failed[w] => pc[w] \in {"endTile", "abort", "returned"} \/ ~busy
  /\ \A w \in Workers : pc[w] = "abort" => failed[w]
  /\ \A w \in Workers : pc[w] = "returned" => failed[w] \/ EndOfFrame
  /\ exit => \E w \in Workers : failed[w]

CountInv ==
  \A t \in Tiles : /\ working[t] >= Cardinality(OnTile(t))
                   /\ (\A w \in Workers : ~failed[w]) =>
                        working[t] = Cardinality(OnTile(t)) /\ working[t] <= MaxWorkers(t)

StartedRows == {s \in W!SbRows : s[2] < started[s[1]]}

CompleteInv ==
  /\ decodeStarted = Cardinality(StartedRows)
  /\ (\A w \in Workers : ~failed[w]) =>
       \A s \in StartedRows :
         \/ \E w \in Workers : OnRow(w) /\ job[w].tile = s[1] /\ job[w].row = s[2]
         \/ \A k \in 0..(Cols[s[1]] - 1) : <<s[1], s[2], k>> \in decoded

IInv == /\ TypeOK /\ IdleInv /\ ParseInv /\ DecodeBehindParse /\ RowInv /\ OneOwner
        /\ DecodedInv /\ NeighboursDecoded /\ FailInv /\ CountInv /\ CompleteInv

-----------------------------------------------------------------------------
(* The sets the model is built from.                                        *)

LEMMA RowSet ==
  /\ \A t \in Tiles : \A r \in 0..(Rows[t] - 1) : <<t, r>> \in W!SbRows
  /\ \A s \in W!SbRows :
       s = <<s[1], s[2]>> /\ s[1] \in Tiles /\ s[2] \in 0..(Rows[s[1]] - 1)
BY DEF W!SbRows, W!Tiles, Tiles

LEMMA SbSet ==
  /\ \A t \in Tiles : \A r \in 0..(Rows[t] - 1), c \in 0..(Cols[t] - 1) :
       <<t, r, c>> \in W!Sbs
  /\ \A s \in W!Sbs :
       /\ s = <<s[1], s[2], s[3]>> /\ s[1] \in Tiles
       /\ s[2] \in 0..(Rows[s[1]] - 1) /\ s[3] \in 0..(Cols[s[1]] - 1)
BY DEF W!Sbs, W!Tiles, Tiles

LEMMA Sizes == \A t \in Tiles : Rows[t] \in Nat \ {0} /\ Cols[t] \in Nat \ {0}
BY TilesAssumption

LEMMA FiniteWorkers == IsFiniteSet(Workers)
BY FS_Interval, NumWorkersAssumption DEF Workers

LEMMA FiniteRows == IsFiniteSet(W!SbRows)
<1> DEFINE RowsOf(t) == {t} \X (0..(Rows[t] - 1))
           f == [t \in Tiles |-> RowsOf(t)]
           F == {RowsOf(t) : t \in Tiles}
<1>1. IsFiniteSet(Tiles)
  BY FS_Interval, TilesAssumption DEF Tiles
<1>2. f \in Surjection(Tiles, F)
  BY DEF Surjection
<1>3. IsFiniteSet(F)
  BY <1>1, <1>2, FS_Surjection
<1>4. ASSUME NEW t \in Tiles PROVE IsFiniteSet(RowsOf(t))
  <2>1. IsFiniteSet({t})
    BY FS_Singleton
  <2>2. IsFiniteSet(0..(Rows[t] - 1))
    BY FS_Interval, Sizes
  <2> QED
    BY <2>1, <2>2, FS_Product
<1>5. \A R \in F : IsFiniteSet(R)
  BY <1>4
<1>6. IsFiniteSet(UNION F)
  BY <1>3, <1>5, FS_UNION
<1>7. W!SbRows = UNION F
  BY DEF W!SbRows, W!Tiles, Tiles
<1> QED
  BY <1>6, <1>7

-----------------------------------------------------------------------------
(* A step of worker w takes it to place "to"; others are woken at most.     *)

Moves(w, to) ==
  /\ pc' \in [Workers -> PCs]
  /\ pc'[w] = to
  /\ \A v \in Workers : v # w => \/ pc'[v] = pc[v]
                                 \/ pc[v] = "wait" /\ pc'[v] = "take"
                                 \/ pc[v] = "rowWait" /\ pc'[v] = "read"

LEMMA GotoMoves ==
  ASSUME TypeOK, NEW w \in Workers, NEW to \in PCs, NEW woken, Goto(w, to, woken),
         \A v \in woken : pc[v] \in {"wait", "rowWait"}
  PROVE  Moves(w, to)
BY DEF TypeOK, Goto, Moves, PCs

LEMMA Woken ==
  /\ \A v \in JobWaiters : pc[v] \in {"wait", "rowWait"}
  /\ \A S \in Signal(JobWaiters) : \A v \in S : pc[v] \in {"wait", "rowWait"}
  /\ \A t, r : \A S \in Signal(RowWaiters(t, r)) : \A v \in S : pc[v] \in {"wait", "rowWait"}
BY DEF JobWaiters, RowWaiters, Signal

\* where each action takes its worker
LEMMA ParseMoves ==
  ASSUME TypeOK, NEW w \in Workers
  PROVE  /\ LaunchWorker(w) => Moves(w, "tile")
         /\ TakeTile(w) => Moves(w, "init")
         /\ NoTile(w) => Moves(w, "take")
         /\ BeginTile(w) => Moves(w, "parse")
         /\ ParseRow(w) => Moves(w, "parse")
         /\ Overflow(w) => Moves(w, "endTile")
         /\ TrailingBits(w) => Moves(w, "endTile")
         /\ EndTile(w) => Moves(w, IF failed[w] THEN "abort" ELSE "tile")
         /\ ParseError(w) => Moves(w, "abort")
         /\ Abort(w) => Moves(w, "returned")
         /\ FrameError(w) => Moves(w, "returned")
<1> USE DEF PCs
<1>1. LaunchWorker(w) => Moves(w, "tile")
  BY GotoMoves DEF LaunchWorker
<1>2. TakeTile(w) => Moves(w, "init")
  BY GotoMoves DEF TakeTile
<1>3. NoTile(w) => Moves(w, "take")
  BY GotoMoves DEF NoTile
<1>4. BeginTile(w) => Moves(w, "parse")
  BY GotoMoves DEF BeginTile
<1>5. ParseRow(w) => Moves(w, "parse")
  BY GotoMoves, Woken DEF ParseRow
<1>6. Overflow(w) => Moves(w, "endTile")
  BY GotoMoves DEF Overflow
<1>7. TrailingBits(w) => Moves(w, "endTile")
  BY GotoMoves DEF TrailingBits
<1>8. EndTile(w) => Moves(w, IF failed[w] THEN "abort" ELSE "tile")
  BY GotoMoves DEF EndTile
<1>9. ParseError(w) => Moves(w, "abort")
  BY GotoMoves DEF ParseError
<1>10. Abort(w) => Moves(w, "returned")
  BY GotoMoves, Woken DEF Abort
<1>11. FrameError(w) => Moves(w, "returned")
  BY GotoMoves DEF FrameError
<1> QED
  BY <1>1, <1>2, <1>3, <1>4, <1>5, <1>6, <1>7, <1>8, <1>9, <1>10, <1>11

LEMMA DecodeMoves ==
  ASSUME TypeOK, NEW w \in Workers
  PROVE  /\ LeaveLoop(w) => Moves(w, "returned")
         /\ StartRow(w) => Moves(w, "read")
         /\ WaitForJob(w) => Moves(w, "wait")
         /\ SyncRead(w) => Moves(w, IF MayDecode(job[w].tile, job[w].row, job[w].col)
                                    THEN "decode" ELSE "rowWait")
         /\ DecodeSb(w) => Moves(w, "write")
         /\ SyncWrite(w) => Moves(w, IF job[w].col < Cols[job[w].tile] - 1
                                     THEN "read" ELSE "endRow")
         /\ EndRow(w) => Moves(w, "take")
         /\ SpuriousWakeup(w) => Moves(w, IF pc[w] = "wait" THEN "take" ELSE "read")
<1> USE DEF PCs
<1>1. LeaveLoop(w) => Moves(w, "returned")
  BY GotoMoves DEF LeaveLoop
<1>2. StartRow(w) => Moves(w, "read")
  BY GotoMoves, Woken DEF StartRow
<1>3. WaitForJob(w) => Moves(w, "wait")
  BY GotoMoves DEF WaitForJob
<1>4. SyncRead(w) => Moves(w, IF MayDecode(job[w].tile, job[w].row, job[w].col)
                              THEN "decode" ELSE "rowWait")
  BY GotoMoves DEF SyncRead
<1>5. DecodeSb(w) => Moves(w, "write")
  BY GotoMoves DEF DecodeSb
<1>6. SyncWrite(w) => Moves(w, IF job[w].col < Cols[job[w].tile] - 1
                               THEN "read" ELSE "endRow")
  BY GotoMoves, Woken DEF SyncWrite
<1>7. EndRow(w) => Moves(w, "take")
  BY GotoMoves DEF EndRow
<1>8. SpuriousWakeup(w) => Moves(w, IF pc[w] = "wait" THEN "take" ELSE "read")
  BY GotoMoves DEF SpuriousWakeup
<1> QED
  BY <1>1, <1>2, <1>3, <1>4, <1>5, <1>6, <1>7, <1>8

-----------------------------------------------------------------------------
(* Types.                                                                   *)

LEMMA FiniteOnTile ==
  ASSUME NEW t
  PROVE  IsFiniteSet(OnTile(t)) /\ Cardinality(OnTile(t)) \in Nat
BY FiniteWorkers, FS_Subset, FS_CardinalityType DEF OnTile

\* a worker on a tile is counted there
LEMMA Counted ==
  ASSUME TypeOK, CountInv, NEW w \in Workers,
         pc[w] \in {"parse", "endTile"} \/ OnRow(w)
  PROVE  working[job[w].tile] >= 1
<1> DEFINE t == job[w].tile
<1>1. w \in OnTile(t)
  BY DEF OnTile, OnRow
<1>2. Cardinality(OnTile(t)) # 0
  BY <1>1, FiniteOnTile, FS_EmptySet
<1>3. t \in Tiles
  BY DEF TypeOK, Jobs
<1> QED
  BY <1>2, <1>3, FiniteOnTile DEF CountInv, TypeOK

LEMMA InitType == Init => TypeOK
<1> SUFFICES ASSUME Init PROVE TypeOK
  OBVIOUS
<1>1. NoJob \in Jobs
  BY TilesAssumption DEF NoJob, Jobs, Tiles
<1>2. /\ parsed \in [Tiles -> Nat] /\ started \in [Tiles -> Nat]
      /\ working \in [Tiles -> Nat] /\ col \in [W!SbRows -> Int]
  BY DEF Init
<1>3. /\ pc \in [Workers -> PCs] /\ job \in [Workers -> Jobs]
      /\ failed \in [Workers -> BOOLEAN]
  BY <1>1 DEF Init, PCs
<1>4. queue \in SUBSET Tiles /\ decoded \in SUBSET W!Sbs
  BY DEF Init
<1> QED
  BY <1>2, <1>3, <1>4 DEF Init, TypeOK

\* what a worker on a row works on
LEMMA OwnSb ==
  ASSUME TypeOK, DecodeBehindParse, RowInv, NEW w \in Workers, OnRow(w)
  PROVE  /\ job[w].tile \in Tiles
         /\ job[w].row \in 0..(Rows[job[w].tile] - 1)
         /\ job[w].col \in Nat
         /\ pc[w] # "endRow" => job[w].col \in 0..(Cols[job[w].tile] - 1)
         /\ pc[w] # "endRow" => Sb(w) \in W!Sbs
<1>1. job[w].tile \in Tiles /\ job[w].row \in Nat /\ job[w].col \in Nat
  BY DEF TypeOK, Jobs
<1>2. job[w].row \in 0..(Rows[job[w].tile] - 1)
  BY <1>1, Sizes DEF TypeOK, RowInv, DecodeBehindParse
<1>3. pc[w] # "endRow" => job[w].col \in 0..(Cols[job[w].tile] - 1)
  BY <1>1, Sizes DEF RowInv
<1> QED
  BY <1>1, <1>2, <1>3, SbSet DEF Sb

LEMMA TypeStep == IInv /\ NextWithErrors => TypeOK'
<1> SUFFICES ASSUME TypeOK, CountInv, DecodeBehindParse, RowInv, NextWithErrors PROVE TypeOK'
  BY DEF IInv
<1> USE DEF frameVars, jobVars
<1>1. CASE StartFrame
  <2>1. NoJob \in Jobs
    BY TilesAssumption DEF NoJob, Jobs, Tiles
  <2>2. /\ parsed' \in [Tiles -> Nat] /\ started' \in [Tiles -> Nat]
        /\ working' \in [Tiles -> Nat] /\ col' \in [W!SbRows -> Int]
    BY <1>1 DEF StartFrame
  <2>3. job' \in [Workers -> Jobs] /\ failed' \in [Workers -> BOOLEAN]
    BY <1>1, <2>1 DEF StartFrame
  <2>4. queue' \in SUBSET Tiles /\ decoded' \in SUBSET W!Sbs
    BY <1>1 DEF StartFrame
  <2> QED
    BY <1>1, <2>2, <2>3, <2>4 DEF StartFrame, TypeOK
<1>2. CASE EndFrame
  BY <1>2 DEF EndFrame, TypeOK, PCs
<1>3. ASSUME NEW w \in Workers, LaunchWorker(w) PROVE TypeOK'
  BY <1>3, ParseMoves DEF LaunchWorker, TypeOK, Moves
<1>4. ASSUME NEW w \in Workers, ParseSteps(w) PROVE TypeOK'
  <2> job[w] \in Jobs /\ job[w].tile \in Tiles
    BY DEF TypeOK, Jobs
  <2>1. CASE TakeTile(w)
    <3>1. PICK t \in queue : job' = [job EXCEPT ![w] = [NoJob EXCEPT !.tile = t]]
      BY <2>1 DEF TakeTile
    <3>2. [NoJob EXCEPT !.tile = t] \in Jobs
      BY <3>1 DEF TypeOK, NoJob, Jobs
    <3>3. job' \in [Workers -> Jobs]
      BY <3>1, <3>2 DEF TypeOK
    <3> QED
      BY <2>1, <3>3, ParseMoves DEF TakeTile, TypeOK, Moves
  <2>2. CASE NoTile(w)
    BY <2>2, ParseMoves DEF NoTile, TypeOK, Moves
  <2>3. CASE BeginTile(w)
    <3>1. working' \in [Tiles -> Nat]
      BY <2>3 DEF BeginTile, TypeOK
    <3> QED
      BY <2>3, <3>1, ParseMoves DEF BeginTile, TypeOK, Moves
  <2>4. CASE ParseRow(w)
    <3>1. [job[w] EXCEPT !.row = @ + 1] \in Jobs
      BY DEF Jobs
    <3>2. job' \in [Workers -> Jobs]
      BY <2>4, <3>1 DEF ParseRow, TypeOK
    <3>3. parsed' \in [Tiles -> Nat] /\ parseDone' \in Nat
      BY <2>4 DEF ParseRow, TypeOK
    <3> QED
      BY <2>4, <3>2, <3>3, ParseMoves DEF ParseRow, TypeOK, Moves
  <2>5. CASE Overflow(w)
    BY <2>5, ParseMoves DEF Overflow, TypeOK, Moves
  <2>6. CASE TrailingBits(w)
    BY <2>6, ParseMoves, ZenonT(60) DEF TrailingBits, TypeOK, Moves
  <2>7. CASE EndTile(w)
    <3>1. working[job[w].tile] - 1 \in Nat
      BY <2>7, Counted DEF EndTile, TypeOK
    <3> QED
      BY <2>7, <3>1, ParseMoves DEF EndTile, TypeOK, Moves
  <2>8. CASE ParseError(w)
    BY <2>8, ParseMoves DEF ParseError, TypeOK, Moves
  <2>9. CASE Abort(w)
    BY <2>9, ParseMoves DEF Abort, TypeOK, Moves
  <2> QED
    BY <1>4, <2>1, <2>2, <2>3, <2>4, <2>5, <2>6, <2>7, <2>8, <2>9 DEF ParseSteps
<1>5. ASSUME NEW w \in Workers, DecodeSteps(w) PROVE TypeOK'
  <2> job[w] \in Jobs /\ job[w].tile \in Tiles /\ job[w].row \in Nat /\ job[w].col \in Nat
    BY DEF TypeOK, Jobs
  <2>1. CASE LeaveLoop(w)
    BY <2>1, DecodeMoves DEF LeaveLoop, TypeOK, Moves
  <2>2. CASE StartRow(w)
    <3>1. PICK t \in Best :
            /\ job' = [job EXCEPT ![w] = [tile |-> t, row |-> started[t], col |-> 0]]
            /\ working' = [working EXCEPT ![t] = @ + 1]
            /\ started' = [started EXCEPT ![t] = @ + 1]
      BY <2>2 DEF StartRow
    <3>2. t \in Tiles
      BY DEF Best, Candidates, Waiting
    <3>3. [tile |-> t, row |-> started[t], col |-> 0] \in Jobs
      BY <3>2 DEF TypeOK, Jobs
    <3>4. job' \in [Workers -> Jobs]
      BY <3>1, <3>3 DEF TypeOK
    <3>5. /\ working' \in [Tiles -> Nat]
          /\ started' \in [Tiles -> Nat]
      BY <3>1, <3>2 DEF TypeOK
    <3>6. decodeStarted' \in Nat
      BY <2>2 DEF StartRow, TypeOK
    <3> QED
      BY <2>2, <3>4, <3>5, <3>6, DecodeMoves DEF StartRow, TypeOK, Moves
  <2>3. CASE WaitForJob(w)
    BY <2>3, DecodeMoves DEF WaitForJob, TypeOK, Moves
  <2>4. CASE SyncRead(w)
    BY <2>4, DecodeMoves DEF SyncRead, TypeOK, Moves
  <2>5. CASE DecodeSb(w)
    <3>1. <<job[w].tile, job[w].row, job[w].col>> \in W!Sbs
      BY <2>5, OwnSb DEF DecodeSb, OnRow, RowPCs, Sb
    <3> QED
      BY <2>5, <3>1, DecodeMoves DEF DecodeSb, TypeOK, Moves
  <2>6. CASE SyncWrite(w)
    <3>1. [job[w] EXCEPT !.col = job[w].col + 1] \in Jobs
      BY DEF Jobs
    <3>2. job' \in [Workers -> Jobs]
      BY <2>6, <3>1 DEF SyncWrite, TypeOK
    <3>3. Published(job[w].tile, job[w].col) \in Int
      BY Sizes DEF Published
    <3>4. col' \in [W!SbRows -> Int]
      BY <2>6, <3>3 DEF SyncWrite, TypeOK
    <3> QED
      BY <2>6, <3>2, <3>4, DecodeMoves DEF SyncWrite, TypeOK, Moves
  <2>7. CASE EndRow(w)
    <3>1. working[job[w].tile] - 1 \in Nat
      BY <2>7, Counted DEF EndRow, TypeOK, OnRow, RowPCs
    <3> QED
      BY <2>7, <3>1, DecodeMoves DEF EndRow, TypeOK, Moves
  <2> QED
    BY <1>5, <2>1, <2>2, <2>3, <2>4, <2>5, <2>6, <2>7 DEF DecodeSteps
<1>6. ASSUME NEW w \in Workers, FrameError(w) PROVE TypeOK'
  BY <1>6, ParseMoves DEF FrameError, TypeOK, Moves
<1>7. ASSUME NEW w \in Workers, SpuriousWakeup(w) PROVE TypeOK'
  BY <1>7, DecodeMoves DEF SpuriousWakeup, TypeOK, Moves
<1> QED
  BY <1>1, <1>2, <1>3, <1>4, <1>5, <1>6, <1>7 DEF NextWithErrors, Next, Worker

-----------------------------------------------------------------------------
(* What a step of a worker changes, and what it leaves alone.               *)

Step(w) == LaunchWorker(w) \/ Worker(w) \/ FrameError(w) \/ SpuriousWakeup(w)

LEMMA StepMoves ==
  ASSUME TypeOK, NEW w \in Workers, Step(w)
  PROVE  \E to \in PCs : Moves(w, to)
<1> \A to : Moves(w, to) => to \in PCs
  BY DEF Moves
<1> QED
  BY ParseMoves, DecodeMoves DEF Step, Worker, ParseSteps, DecodeSteps

LEMMA Keeps ==
  ASSUME NEW w \in Workers, Step(w)
  PROVE  /\ busy' = busy /\ good' = good
         /\ TakeTile(w) \/ queue' = queue
         /\ ParseRow(w) \/ (parsed' = parsed /\ parseDone' = parseDone)
         /\ StartRow(w) \/ (started' = started /\ decodeStarted' = decodeStarted)
         /\ BeginTile(w) \/ EndTile(w) \/ StartRow(w) \/ EndRow(w) \/ working' = working
         /\ SyncWrite(w) \/ col' = col
         /\ DecodeSb(w) \/ decoded' = decoded
         /\ Abort(w) \/ exit' = exit
         /\ TakeTile(w) \/ ParseRow(w) \/ StartRow(w) \/ SyncWrite(w) \/ job' = job
         /\ Overflow(w) \/ TrailingBits(w) \/ ParseError(w) \/ FrameError(w)
              \/ failed' = failed
<1> USE DEF frameVars, jobVars
<1>1. CASE LaunchWorker(w) \/ FrameError(w) \/ SpuriousWakeup(w)
  BY <1>1 DEF LaunchWorker, FrameError, SpuriousWakeup
<1>2. CASE ParseSteps(w)
  BY <1>2 DEF ParseSteps, TakeTile, NoTile, BeginTile, ParseRow, Overflow, TrailingBits,
     EndTile, ParseError, Abort
<1>3. CASE DecodeSteps(w)
  BY <1>3 DEF DecodeSteps, LeaveLoop, StartRow, WaitForJob, SyncRead, DecodeSb, SyncWrite,
     EndRow
<1> QED
  BY <1>1, <1>2, <1>3 DEF Step, Worker

LEMMA Others ==
  ASSUME TypeOK, NEW w \in Workers, Step(w), NEW v \in Workers, v # w
  PROVE  /\ job'[v] = job[v] /\ failed'[v] = failed[v]
         /\ OnRow(v)' <=> OnRow(v)
         /\ Parsing(v)' <=> Parsing(v)
         /\ pc'[v] # pc[v] => \/ pc[v] = "wait" /\ pc'[v] = "take"
                              \/ pc[v] = "rowWait" /\ pc'[v] = "read"
<1>1. pc'[v] # pc[v] => \/ pc[v] = "wait" /\ pc'[v] = "take"
                        \/ pc[v] = "rowWait" /\ pc'[v] = "read"
  BY StepMoves DEF Moves
<1>2. job'[v] = job[v]
  BY Keeps, ZenonT(60) DEF TypeOK, TakeTile, ParseRow, StartRow, SyncWrite
<1>3. failed'[v] = failed[v]
  BY Keeps DEF TypeOK, Overflow, TrailingBits, ParseError, FrameError
<1> QED
  BY <1>1, <1>2, <1>3 DEF OnRow, RowPCs, Parsing

LEMMA StepBusy ==
  ASSUME TypeOK, IdleInv, NEW w \in Workers, Step(w)
  PROVE  busy
<1>1. LaunchWorker(w) \/ pc[w] # "idle"
  BY DEF Step, Worker, FrameError, SpuriousWakeup, ParseSteps, DecodeSteps, TakeTile, NoTile,
     BeginTile, ParseRow, Overflow, TrailingBits, EndTile, ParseError, Abort, LeaveLoop,
     StartRow, WaitForJob, SyncRead, DecodeSb, SyncWrite, EndRow
<1> QED
  BY <1>1 DEF IdleInv, LaunchWorker

\* the steps after which a worker is on a row, or parses a tile
LEMMA RowSteps ==
  ASSUME TypeOK, NEW w \in Workers, Step(w), OnRow(w)'
  PROVE  \/ StartRow(w)
         \/ OnRow(w) /\ (SyncRead(w) \/ DecodeSb(w) \/ SyncWrite(w) \/ SpuriousWakeup(w))
<1> USE DEF OnRow, RowPCs, Moves
<1>1. ~LaunchWorker(w) /\ ~FrameError(w)
  BY ParseMoves
<1>2. ~ParseSteps(w)
  BY ParseMoves DEF ParseSteps
<1>3. DecodeSteps(w) => StartRow(w) \/ SyncRead(w) \/ DecodeSb(w) \/ SyncWrite(w)
  BY DecodeMoves DEF DecodeSteps
<1>4. SpuriousWakeup(w) => OnRow(w)
  BY DecodeMoves DEF SpuriousWakeup
<1> QED
  BY <1>1, <1>2, <1>3, <1>4 DEF Step, Worker, SyncRead, DecodeSb, SyncWrite

LEMMA TileSteps ==
  ASSUME TypeOK, NEW w \in Workers, Step(w), Parsing(w)'
  PROVE  TakeTile(w) \/ BeginTile(w) \/ ParseRow(w) \/ Overflow(w) \/ TrailingBits(w)
<1> USE DEF Parsing, Moves
<1>1. ~LaunchWorker(w) /\ ~FrameError(w)
  BY ParseMoves
<1>2. ~DecodeSteps(w) /\ ~SpuriousWakeup(w)
  BY DecodeMoves DEF DecodeSteps
<1>3. ParseSteps(w) =>
        TakeTile(w) \/ BeginTile(w) \/ ParseRow(w) \/ Overflow(w) \/ TrailingBits(w)
  BY ParseMoves DEF ParseSteps
<1> QED
  BY <1>1, <1>2, <1>3 DEF Step, Worker

-----------------------------------------------------------------------------
(* Between two frames nobody is on a row or a tile.                         *)

LEMMA Boundary ==
  ASSUME TypeOK, IdleInv, StartFrame \/ EndFrame
  PROVE  /\ \A w \in Workers : ~OnRow(w) /\ ~Parsing(w) /\ pc[w] \notin {"decode", "abort"}
         /\ \A w \in Workers : pc'[w] = "idle"
         /\ \A w \in Workers : (~OnRow(w) /\ ~Parsing(w))'
<1>1. CASE StartFrame
  BY <1>1 DEF StartFrame, IdleInv, OnRow, RowPCs, Parsing
<1>2. CASE EndFrame
  BY <1>2 DEF EndFrame, OnRow, RowPCs, Parsing
<1> QED
  BY <1>1, <1>2

LEMMA IdleStep == IInv /\ NextWithErrors => IdleInv'
<1> SUFFICES ASSUME TypeOK, IdleInv, NextWithErrors PROVE IdleInv'
  BY DEF IInv
<1>1. CASE StartFrame \/ EndFrame
  BY <1>1, Boundary DEF IdleInv
<1>2. ASSUME NEW w \in Workers, Step(w) PROVE IdleInv'
  BY <1>2, StepBusy, Keeps DEF IdleInv
<1> QED
  BY <1>1, <1>2 DEF NextWithErrors, Next, Step

LEMMA ParseStep == IInv /\ NextWithErrors => ParseInv'
<1> SUFFICES ASSUME TypeOK, IdleInv, ParseInv, NextWithErrors PROVE ParseInv'
  BY DEF IInv
<1>1. CASE StartFrame
  BY <1>1, Boundary DEF StartFrame, ParseInv, Parsing
<1>2. CASE EndFrame
  BY <1>2, Boundary DEF EndFrame, jobVars, ParseInv, Parsing
<1>3. ASSUME NEW w \in Workers, Step(w) PROVE ParseInv'
  <2> DEFINE Own == Parsing(w)' =>
               /\ job'[w].tile \notin queue'
               /\ parsed'[job'[w].tile] = job'[w].row
               /\ pc'[w] = "init" => job'[w].row = 0
             Other(v) == Parsing(v)' =>
               /\ job'[v].tile \notin queue'
               /\ parsed'[job'[v].tile] = job'[v].row
               /\ pc'[v] = "init" => job'[v].row = 0
               /\ Parsing(w)' => job'[v].tile # job'[w].tile
  <2> job[w].tile \in Tiles /\ job[w].row \in Nat
    BY DEF TypeOK, Jobs
  <2>1. CASE TakeTile(w)
    <3>1. PICK t \in queue : /\ queue' = queue \ {t}
                             /\ job' = [job EXCEPT ![w] = [NoJob EXCEPT !.tile = t]]
      BY <2>1 DEF TakeTile
    <3>2. parsed' = parsed /\ parsed[t] = 0 /\ job'[w].tile = t /\ job'[w].row = 0
      BY <2>1, <3>1 DEF TakeTile, jobVars, ParseInv, TypeOK, NoJob
    <3>3. \A q \in queue' : parsed'[q] = 0
      BY <3>1, <3>2 DEF ParseInv
    <3>4. Own
      BY <3>1, <3>2
    <3>5. ASSUME NEW v \in Workers, v # w PROVE Other(v)
      BY <1>3, <3>1, <3>2, <3>5, Others DEF ParseInv, Parsing
    <3> QED
      BY <1>3, <3>3, <3>4, <3>5, Others DEF ParseInv
  <2>2. CASE ParseRow(w)
    <3>1. /\ queue' = queue /\ Parsing(w)
          /\ parsed' = [parsed EXCEPT ![job[w].tile] = @ + 1]
          /\ job'[w].tile = job[w].tile /\ job'[w].row = job[w].row + 1
      BY <2>2 DEF ParseRow, Parsing, TypeOK
    <3>2. \A q \in queue' : parsed'[q] = 0
      BY <3>1 DEF ParseInv, TypeOK
    <3>3. Own
      BY <2>2, <3>1, ParseMoves DEF ParseInv, TypeOK, Moves
    <3>4. ASSUME NEW v \in Workers, v # w PROVE Other(v)
      <4>1. job[v].tile \in Tiles
        BY DEF TypeOK, Jobs
      <4> QED
        BY <1>3, <3>1, <3>4, <4>1, Others DEF ParseInv, Parsing, TypeOK
    <3> QED
      BY <1>3, <3>2, <3>3, <3>4, Others DEF ParseInv
  <2>3. CASE ~TakeTile(w) /\ ~ParseRow(w)
    <3>1. queue' = queue /\ parsed' = parsed
      BY <1>3, <2>3, Keeps
    <3>2. Parsing(w)' => Parsing(w) /\ job'[w] = job[w] /\ pc'[w] # "init"
      BY <1>3, <2>3, TileSteps, ParseMoves DEF Parsing, Moves, BeginTile, Overflow, TrailingBits
    <3>3. Own
      BY <3>1, <3>2 DEF ParseInv
    <3>4. ASSUME NEW v \in Workers, v # w PROVE Other(v)
      BY <1>3, <3>1, <3>2, <3>4, Others DEF ParseInv, Parsing
    <3> QED
      BY <1>3, <3>1, <3>3, <3>4, Others DEF ParseInv
  <2> QED
    BY <2>1, <2>2, <2>3
<1> QED
  BY <1>1, <1>2, <1>3 DEF NextWithErrors, Next, Step

LEMMA BehindStep == IInv /\ NextWithErrors => DecodeBehindParse'
<1> SUFFICES ASSUME TypeOK, IdleInv, ParseInv, DecodeBehindParse, NextWithErrors
             PROVE  DecodeBehindParse'
  BY DEF IInv
<1>1. CASE StartFrame
  BY <1>1, Sizes DEF StartFrame, DecodeBehindParse
<1>2. CASE EndFrame
  BY <1>2 DEF EndFrame, jobVars, DecodeBehindParse
<1>3. ASSUME NEW w \in Workers, Step(w) PROVE DecodeBehindParse'
  <2> job[w].tile \in Tiles /\ job[w].row \in Nat
    BY DEF TypeOK, Jobs
  <2>1. CASE ParseRow(w)
    <3>1. parsed[job[w].tile] + 1 <= Rows[job[w].tile]
      BY <2>1, Sizes DEF ParseRow, ParseInv, Parsing
    <3> QED
      BY <2>1, <3>1, Sizes DEF ParseRow, DecodeBehindParse, TypeOK
  <2>2. CASE StartRow(w)
    <3>1. PICK t \in Best : started' = [started EXCEPT ![t] = @ + 1]
      BY <2>2 DEF StartRow
    <3>2. t \in Tiles /\ parsed[t] > started[t]
      BY DEF Best, Candidates, Waiting
    <3>3. decodeStarted + 1 <= parseDone
      BY <2>2 DEF StartRow, JobFound, DecodeBehindParse, TypeOK
    <3> QED
      BY <2>2, <3>1, <3>2, <3>3, Sizes DEF StartRow, DecodeBehindParse, TypeOK
  <2>3. CASE ~ParseRow(w) /\ ~StartRow(w)
    BY <1>3, <2>3, Keeps DEF DecodeBehindParse
  <2> QED
    BY <2>1, <2>2, <2>3
<1> QED
  BY <1>1, <1>2, <1>3 DEF NextWithErrors, Next, Step

\* the row that StartRow hands out
LEMMA NewRow ==
  ASSUME TypeOK, NEW w \in Workers, StartRow(w)
  PROVE  \E t \in Tiles :
           /\ parsed[t] > started[t] /\ working[t] < MaxWorkers(t)
           /\ job' = [job EXCEPT ![w] = [tile |-> t, row |-> started[t], col |-> 0]]
           /\ job'[w] = [tile |-> t, row |-> started[t], col |-> 0]
           /\ started' = [started EXCEPT ![t] = @ + 1]
           /\ working' = [working EXCEPT ![t] = @ + 1]
BY DEF StartRow, Best, Candidates, Waiting, TypeOK

LEMMA RowStep == IInv /\ NextWithErrors => RowInv'
<1> SUFFICES ASSUME TypeOK, IdleInv, RowInv, NextWithErrors PROVE RowInv'
  BY DEF IInv
<1>1. CASE StartFrame \/ EndFrame
  BY <1>1, Boundary DEF RowInv
<1>2. ASSUME NEW w \in Workers, Step(w) PROVE RowInv'
  <2> DEFINE Good(v) == OnRow(v)' =>
               /\ job'[v].row < started'[job'[v].tile]
               /\ IF pc'[v] = "endRow" THEN job'[v].col = Cols[job'[v].tile]
                  ELSE job'[v].col < Cols[job'[v].tile]
  <2>1. ASSUME NEW t \in Tiles
        PROVE  started[t] \in Nat /\ started'[t] \in Nat /\ started'[t] >= started[t]
    <3>1. CASE StartRow(w)
      <4>1. PICK u \in Tiles : started' = [started EXCEPT ![u] = @ + 1]
        BY <3>1, NewRow
      <4> QED
        BY <2>1, <4>1 DEF TypeOK
    <3>2. CASE ~StartRow(w)
      BY <1>2, <2>1, <3>2, Keeps DEF TypeOK
    <3> QED
      BY <3>1, <3>2
  <2>2. ASSUME NEW v \in Workers, v # w PROVE Good(v)
    <3>1. job'[v].tile \in Tiles /\ job'[v].row \in Nat /\ job'[v] = job[v]
      BY <1>2, <2>2, Others DEF TypeOK, Jobs
    <3>2. OnRow(v)' => OnRow(v) /\ (pc'[v] = "endRow" <=> pc[v] = "endRow")
      BY <1>2, <2>2, Others
    <3> QED
      BY <2>1, <3>1, <3>2 DEF RowInv
  <2>3. Good(w)
    <3> job[w].tile \in Tiles /\ job[w].row \in Nat /\ job[w].col \in Nat
      BY DEF TypeOK, Jobs
    <3>1. CASE StartRow(w)
      <4>1. PICK t \in Tiles :
              /\ job'[w] = [tile |-> t, row |-> started[t], col |-> 0]
              /\ started' = [started EXCEPT ![t] = @ + 1]
        BY <3>1, NewRow
      <4> QED
        BY <3>1, <4>1, DecodeMoves, Sizes DEF Moves, TypeOK
    <3>2. CASE SyncWrite(w)
      <4>1. /\ job'[w].tile = job[w].tile /\ job'[w].row = job[w].row
            /\ job'[w].col = job[w].col + 1
        BY <3>2 DEF SyncWrite, TypeOK
      <4>2. OnRow(w) /\ pc[w] = "write"
        BY <3>2 DEF SyncWrite, OnRow, RowPCs
      <4>3. CASE job[w].col < Cols[job[w].tile] - 1
        BY <2>1, <3>2, <4>1, <4>2, <4>3, DecodeMoves, Sizes DEF RowInv, Moves
      <4>4. CASE ~(job[w].col < Cols[job[w].tile] - 1)
        BY <2>1, <3>2, <4>1, <4>2, <4>4, DecodeMoves, Sizes DEF RowInv, Moves
      <4> QED
        BY <4>3, <4>4
    <3>3. CASE OnRow(w) /\ (SyncRead(w) \/ DecodeSb(w) \/ SpuriousWakeup(w))
      <4>1. job'[w] = job[w] /\ started' = started
        BY <3>3 DEF SyncRead, DecodeSb, SpuriousWakeup, jobVars
      <4>2. pc'[w] # "endRow" /\ pc[w] # "endRow"
        BY <3>3, DecodeMoves DEF Moves, SyncRead, DecodeSb, SpuriousWakeup
      <4> QED
        BY <3>3, <4>1, <4>2 DEF RowInv
    <3> QED
      BY <1>2, <3>1, <3>2, <3>3, RowSteps
  <2> QED
    BY <2>2, <2>3 DEF RowInv
<1> QED
  BY <1>1, <1>2 DEF NextWithErrors, Next, Step

LEMMA OwnerStep == IInv /\ NextWithErrors => OneOwner'
<1> SUFFICES ASSUME TypeOK, IdleInv, RowInv, OneOwner, NextWithErrors PROVE OneOwner'
  BY DEF IInv
<1>1. CASE StartFrame \/ EndFrame
  BY <1>1, Boundary DEF OneOwner
<1>2. ASSUME NEW w \in Workers, Step(w) PROVE OneOwner'
  <2>1. ASSUME NEW v \in Workers, v # w, OnRow(v)', OnRow(w)', job'[v].tile = job'[w].tile
        PROVE  job'[v].row # job'[w].row
    <3>1. OnRow(v) /\ job'[v] = job[v] /\ job[v].row \in Nat /\ job[v].row < started[job[v].tile]
      BY <1>2, <2>1, Others DEF RowInv, TypeOK, Jobs
    <3>2. CASE StartRow(w)
      <4>1. PICK t \in Tiles : job'[w] = [tile |-> t, row |-> started[t], col |-> 0]
        BY <3>2, NewRow
      <4> QED
        BY <2>1, <3>1, <4>1 DEF TypeOK
    <3>3. CASE OnRow(w) /\ (SyncRead(w) \/ DecodeSb(w) \/ SyncWrite(w) \/ SpuriousWakeup(w))
      <4>1. job'[w].tile = job[w].tile /\ job'[w].row = job[w].row
        <5>1. CASE SyncWrite(w)
          BY <5>1 DEF SyncWrite, TypeOK, Jobs
        <5> QED
          BY <3>3, <5>1 DEF SyncRead, DecodeSb, SpuriousWakeup
      <4> QED
        BY <2>1, <3>1, <3>3, <4>1 DEF OneOwner
    <3> QED
      BY <1>2, <2>1, <3>2, <3>3, RowSteps
  <2>2. ASSUME NEW u \in Workers, NEW v \in Workers, u # w, v # w, u # v,
               OnRow(u)', OnRow(v)', job'[u].tile = job'[v].tile
        PROVE  job'[u].row # job'[v].row
    BY <1>2, <2>2, Others DEF OneOwner
  <2> QED
    BY <2>1, <2>2 DEF OneOwner
<1> QED
  BY <1>1, <1>2 DEF NextWithErrors, Next, Step

LEMMA FailStep == IInv /\ NextWithErrors => FailInv'
<1> SUFFICES ASSUME TypeOK, IdleInv, FailInv, NextWithErrors PROVE FailInv'
  BY DEF IInv
<1>1. CASE StartFrame
  BY <1>1, Boundary DEF StartFrame, FailInv
<1>2. CASE EndFrame
  BY <1>2, Boundary DEF EndFrame, FailInv
<1>3. ASSUME NEW w \in Workers, Step(w) PROVE FailInv'
  <2>1. busy /\ busy' = busy
    BY <1>3, StepBusy, Keeps
  <2>2. /\ failed'[w] => pc'[w] \in {"endTile", "abort", "returned"}
        /\ failed[w] => failed'[w]
        /\ pc'[w] = "abort" => failed'[w]
        /\ pc'[w] = "returned" => failed'[w] \/ LeaveLoop(w)
    <3>1. CASE LaunchWorker(w) \/ NoTile(w) \/ TakeTile(w) \/ BeginTile(w) \/ ParseRow(w)
      BY <2>1, <3>1, ParseMoves DEF LaunchWorker, NoTile, TakeTile, BeginTile, ParseRow, FailInv,
         Moves
    <3>2. CASE Overflow(w) \/ TrailingBits(w) \/ ParseError(w) \/ FrameError(w)
      BY <2>1, <3>2, ParseMoves DEF Overflow, TrailingBits, ParseError, FrameError, FailInv,
         Moves, TypeOK
    <3>3. CASE EndTile(w) \/ Abort(w)
      BY <2>1, <3>3, ParseMoves DEF EndTile, Abort, FailInv, Moves
    <3>4. CASE LeaveLoop(w) \/ StartRow(w) \/ WaitForJob(w)
      BY <2>1, <3>4, DecodeMoves DEF LeaveLoop, StartRow, WaitForJob, FailInv, Moves
    <3>5. CASE SyncRead(w) \/ DecodeSb(w) \/ SpuriousWakeup(w)
      BY <2>1, <3>5, DecodeMoves DEF SyncRead, DecodeSb, SpuriousWakeup, FailInv, Moves
    <3>6. CASE SyncWrite(w) \/ EndRow(w)
      BY <2>1, <3>6, DecodeMoves DEF SyncWrite, EndRow, FailInv, Moves
    <3> QED
      BY <1>3, <3>1, <3>2, <3>3, <3>4, <3>5, <3>6 DEF Step, Worker, ParseSteps, DecodeSteps
  <2>3. \A v \in Workers : failed[v] => failed'[v]
    BY <1>3, <2>2, Others
  <2>4. EndOfFrame => EndOfFrame'
    BY <1>3, Keeps DEF EndOfFrame, StartRow, Abort
  <2>5. LeaveLoop(w) => EndOfFrame
    BY DEF LeaveLoop
  <2>6. exit' => exit \/ Abort(w)
    BY <1>3, Keeps
  <2>7. Abort(w) => failed[w]
    BY DEF Abort, FailInv
  <2>8. \A v \in Workers : v # w =>
          /\ failed'[v] = failed[v]
          /\ pc[v] \in {"endTile", "abort", "returned"} => pc'[v] = pc[v]
          /\ pc'[v] \in {"endTile", "abort", "returned"} => pc'[v] = pc[v]
    BY <1>3, Others
  <2>9. \A v \in Workers :
          /\ failed'[v] => pc'[v] \in {"endTile", "abort", "returned"}
          /\ pc'[v] = "abort" => failed'[v]
          /\ pc'[v] = "returned" => failed'[v] \/ EndOfFrame'
    BY <2>1, <2>2, <2>4, <2>5, <2>8 DEF FailInv
  <2>10. exit' => \E v \in Workers : failed'[v]
    BY <2>3, <2>6, <2>7 DEF FailInv
  <2> QED
    BY <2>9, <2>10 DEF FailInv, EndOfFrame
<1> QED
  BY <1>1, <1>2, <1>3 DEF NextWithErrors, Next, Step

\* only StartRow changes the rows that are started, and only upwards
LEMMA StartedGrows ==
  ASSUME TypeOK, NEW w \in Workers, Step(w), NEW t \in Tiles
  PROVE  started[t] \in Nat /\ started'[t] \in Nat /\ started'[t] >= started[t]
<1>1. started[t] \in Nat
  BY DEF TypeOK
<1>2. CASE StartRow(w)
  <2>1. PICK u \in Tiles : started' = [started EXCEPT ![u] = @ + 1]
    BY <1>2, NewRow
  <2> QED
    BY <1>1, <2>1 DEF TypeOK
<1>3. CASE ~StartRow(w)
  BY <1>1, <1>3, Keeps DEF TypeOK
<1> QED
  BY <1>2, <1>3

LEMMA DecodedStep == IInv /\ NextWithErrors => DecodedInv'
<1> SUFFICES ASSUME TypeOK, IdleInv, DecodeBehindParse, RowInv, OneOwner, DecodedInv, NextWithErrors
             PROVE  DecodedInv'
  BY DEF IInv
<1>1. CASE StartFrame
  <2>1. decoded' = {} /\ \A s \in W!SbRows : col'[s] = -1
    BY <1>1 DEF StartFrame
  <2>2. \A s \in W!SbRows : \A k \in 0..(Cols[s[1]] - 1) : ~(k <= col'[s])
    BY <2>1, RowSet, Sizes
  <2> QED
    BY <1>1, <2>1, <2>2, Boundary DEF DecodedInv
<1>2. CASE EndFrame
  <2>1. decoded' = decoded /\ started' = started /\ col' = col
    BY <1>2 DEF EndFrame, jobVars
  <2> QED
    BY <1>2, <2>1, Boundary DEF DecodedInv
<1>3. ASSUME NEW w \in Workers, Step(w) PROVE DecodedInv'
  <2> DEFINE Row(v) == OnRow(v)' =>
        \A k \in 0..(Cols[job'[v].tile] - 1) :
          <<job'[v].tile, job'[v].row, k>> \in decoded' <=>
          k < (IF pc'[v] = "write" THEN job'[v].col + 1 ELSE job'[v].col)
  <2> job[w].tile \in Tiles /\ job[w].row \in Nat /\ job[w].col \in Nat
    BY DEF TypeOK, Jobs
  <2>1. decoded' = decoded \/ (DecodeSb(w) /\ OnRow(w) /\ decoded' = decoded \cup {Sb(w)})
    BY <1>3, Keeps DEF DecodeSb, Sb, OnRow, RowPCs
  <2>2. \A sb \in decoded' : sb[2] < started'[sb[1]]
    <3>1. ASSUME NEW sb \in decoded PROVE sb[2] < started'[sb[1]]
      <4>1. sb[1] \in Tiles /\ sb[2] \in Nat
        BY SbSet, Sizes DEF TypeOK
      <4> QED
        BY <1>3, <4>1, StartedGrows DEF DecodedInv
    <3>2. OnRow(w) => job[w].row < started'[job[w].tile]
      BY <1>3, StartedGrows DEF RowInv
    <3> QED
      BY <2>1, <3>1, <3>2 DEF Sb
  <2>3. ASSUME NEW v \in Workers, v # w PROVE Row(v)
    <3>1. OnRow(v)' => OnRow(v) /\ (pc'[v] = "write" <=> pc[v] = "write")
      BY <1>3, <2>3, Others
    <3>2. job'[v] = job[v]
      BY <1>3, <2>3, Others
    <3>3. OnRow(v) => \A k : <<job[v].tile, job[v].row, k>> \in decoded' <=>
                             <<job[v].tile, job[v].row, k>> \in decoded
      BY <2>1, <2>3 DEF OneOwner, Sb
    <3> QED
      BY <3>1, <3>2, <3>3 DEF DecodedInv, Reached
  <2>4. Row(w)
    <3>1. CASE StartRow(w)
      <4>1. PICK t \in Tiles : job'[w] = [tile |-> t, row |-> started[t], col |-> 0]
        BY <3>1, NewRow
      <4>2. decoded' = decoded /\ pc'[w] = "read"
        BY <3>1, DecodeMoves DEF StartRow, Moves
      <4>3. started[t] \in Nat
        BY DEF TypeOK
      <4>4. \A k : <<t, started[t], k>> \notin decoded
        BY <4>3 DEF DecodedInv
      <4>5. \A k \in 0..(Cols[t] - 1) : ~(k < 0)
        BY Sizes
      <4> QED
        BY <4>1, <4>2, <4>4, <4>5
    <3>2. CASE OnRow(w) /\ DecodeSb(w)
      <4>1. pc[w] = "decode" /\ pc'[w] = "write" /\ job' = job
        BY <3>2, DecodeMoves DEF DecodeSb, Moves
      <4>2. decoded' = decoded \cup {<<job[w].tile, job[w].row, job[w].col>>}
        BY <3>2 DEF DecodeSb
      <4>3. \A k \in 0..(Cols[job[w].tile] - 1) :
              k < job[w].col + 1 <=> (k < job[w].col \/ k = job[w].col)
        BY Sizes
      <4> QED
        BY <3>2, <4>1, <4>2, <4>3 DEF DecodedInv, Reached
    <3>3. CASE OnRow(w) /\ SyncWrite(w)
      <4>1. /\ decoded' = decoded /\ pc[w] = "write" /\ pc'[w] # "write"
            /\ job'[w].tile = job[w].tile /\ job'[w].row = job[w].row
            /\ job'[w].col = job[w].col + 1
        BY <3>3, DecodeMoves DEF SyncWrite, Moves, TypeOK, Jobs
      <4> QED
        BY <3>3, <4>1 DEF DecodedInv, Reached
    <3>4. CASE OnRow(w) /\ (SyncRead(w) \/ SpuriousWakeup(w))
      <4>1. decoded' = decoded /\ job' = job /\ pc[w] # "write" /\ pc'[w] # "write"
        BY <3>4, DecodeMoves DEF SyncRead, SpuriousWakeup, Moves
      <4> QED
        BY <3>4, <4>1 DEF DecodedInv, Reached
    <3> QED
      BY <1>3, <3>1, <3>2, <3>3, <3>4, RowSteps
  <2>5. ASSUME NEW s \in W!SbRows
        PROVE  /\ s[2] >= started'[s[1]] => col'[s] = -1
               /\ \A k \in 0..(Cols[s[1]] - 1) : k <= col'[s] => <<s[1], s[2], k>> \in decoded'
    <3> s = <<s[1], s[2]>> /\ s[1] \in Tiles /\ s[2] \in Nat
      BY RowSet, Sizes
    <3>1. started[s[1]] \in Nat /\ started'[s[1]] \in Nat /\ started'[s[1]] >= started[s[1]]
      BY <1>3, StartedGrows
    <3>2. CASE col'[s] = col[s]
      BY <2>1, <3>1, <3>2 DEF DecodedInv
    <3>3. CASE SyncWrite(w) /\ s = <<job[w].tile, job[w].row>>
      <4>1. pc[w] = "write" /\ OnRow(w) /\ decoded' = decoded
        BY <3>3 DEF SyncWrite, OnRow, RowPCs
      <4>2. s[2] < started'[s[1]]
        BY <3>1, <3>3, <4>1 DEF RowInv
      <4>3. col'[s] = Published(job[w].tile, job[w].col)
        BY <3>3 DEF SyncWrite, TypeOK
      <4>4. ASSUME NEW k \in 0..(Cols[s[1]] - 1), k <= col'[s] PROVE k < job[w].col + 1
        BY <3>3, <4>3, <4>4, Sizes DEF Published
      <4> QED
        BY <3>1, <3>3, <4>1, <4>2, <4>4 DEF DecodedInv, Reached
    <3> QED
      BY <1>3, <3>2, <3>3, Keeps DEF SyncWrite, TypeOK
  <2> QED
    BY <2>2, <2>3, <2>4, <2>5 DEF DecodedInv, Reached
<1> QED
  BY <1>1, <1>2, <1>3 DEF NextWithErrors, Next, Step

\* a superblock whose row above is far enough has its neighbours
LEMMA MayDecodeSound ==
  ASSUME TypeOK, DecodeBehindParse, RowInv, DecodedInv, NEW w \in Workers, OnRow(w),
         pc[w] = "read", MayDecode(job[w].tile, job[w].row, job[w].col)
  PROVE  W!Neighbours(job[w].tile, job[w].row, job[w].col) \subseteq decoded
<1> DEFINE t == job[w].tile
           r == job[w].row
           c == job[w].col
<1>1. t \in Tiles /\ r \in 0..(Rows[t] - 1) /\ c \in 0..(Cols[t] - 1)
  BY OwnSb
<1>2. ASSUME NEW k \in 0..(c - 1) PROVE <<t, r, k>> \in decoded
  BY <1>1, <1>2, Sizes DEF DecodedInv, Reached
<1>3. ASSUME NEW k \in 0..(c + 1), r > 0, k < Cols[t] PROVE <<t, r - 1, k>> \in decoded
  <2>1. <<t, r - 1>> \in W!SbRows
    BY <1>1, <1>3, RowSet, Sizes
  <2>2. col[<<t, r - 1>>] \in Int /\ c <= col[<<t, r - 1>>] - 1
    BY <1>1, <1>3, <2>1 DEF MayDecode, TypeOK
  <2>3. k \in 0..(Cols[t] - 1) /\ k <= col[<<t, r - 1>>]
    BY <1>1, <1>3, <2>2, Sizes
  <2>4. <<<<t, r - 1>>[1], <<t, r - 1>>[2], k>> \in decoded
    BY <2>1, <2>3 DEF DecodedInv
  <2> QED
    BY <2>4
<1> QED
  BY <1>2, <1>3 DEF W!Neighbours

LEMMA NeighboursStep == IInv /\ NextWithErrors => NeighboursDecoded'
<1> SUFFICES ASSUME TypeOK, IdleInv, DecodeBehindParse, RowInv, DecodedInv,
                    NeighboursDecoded, NextWithErrors
             PROVE  NeighboursDecoded'
  BY DEF IInv
<1>1. CASE StartFrame \/ EndFrame
  BY <1>1, Boundary DEF NeighboursDecoded
<1>2. ASSUME NEW w \in Workers, Step(w) PROVE NeighboursDecoded'
  <2>1. decoded \subseteq decoded'
    BY <1>2, Keeps DEF DecodeSb
  <2>2. ASSUME NEW v \in Workers, pc'[v] = "decode"
        PROVE  W!Neighbours(job'[v].tile, job'[v].row, job'[v].col) \subseteq decoded'
    <3>1. CASE v # w
      BY <1>2, <2>1, <2>2, <3>1, Others DEF NeighboursDecoded
    <3>2. CASE v = w
      <4>1. OnRow(w)'
        BY <2>2, <3>2 DEF OnRow, RowPCs
      <4>2. SyncRead(w) /\ OnRow(w) /\ MayDecode(job[w].tile, job[w].row, job[w].col)
        BY <1>2, <2>2, <3>2, <4>1, RowSteps, DecodeMoves DEF Moves
      <4>3. pc[w] = "read" /\ job' = job
        BY <4>2 DEF SyncRead
      <4> QED
        BY <2>1, <3>2, <4>2, <4>3, MayDecodeSound
    <3> QED
      BY <3>1, <3>2
  <2> QED
    BY <2>2 DEF NeighboursDecoded, W!Neighbours
<1> QED
  BY <1>1, <1>2 DEF NextWithErrors, Next, Step

-----------------------------------------------------------------------------
(* The counters: num_threads_working and mi_rows_decode_started.            *)

LEMMA OnTileOthers ==
  ASSUME TypeOK, NEW w \in Workers, Step(w), NEW t, NEW v \in Workers, v # w
  PROVE  v \in OnTile(t)' <=> v \in OnTile(t)
BY Others DEF OnTile, RowPCs

\* what a step does to the set of workers on a tile
LEMMA OnTileStep ==
  ASSUME TypeOK, NEW w \in Workers, Step(w), NEW t
  PROVE  /\ w \in OnTile(t)' /\ w \notin OnTile(t) =>
              Cardinality(OnTile(t)') = Cardinality(OnTile(t)) + 1
         /\ w \notin OnTile(t)' /\ w \in OnTile(t) =>
              Cardinality(OnTile(t)') = Cardinality(OnTile(t)) - 1
         /\ (w \in OnTile(t)' <=> w \in OnTile(t)) => OnTile(t)' = OnTile(t)
<1>1. OnTile(t) \subseteq Workers /\ OnTile(t)' \subseteq Workers
  BY DEF OnTile
<1>2. ASSUME w \in OnTile(t)', w \notin OnTile(t)
      PROVE  Cardinality(OnTile(t)') = Cardinality(OnTile(t)) + 1
  <2>1. OnTile(t)' = OnTile(t) \cup {w}
    BY <1>1, <1>2, OnTileOthers
  <2> QED
    BY <1>2, <2>1, FiniteOnTile, FS_AddElement
<1>3. ASSUME w \notin OnTile(t)', w \in OnTile(t)
      PROVE  Cardinality(OnTile(t)') = Cardinality(OnTile(t)) - 1
  <2>1. OnTile(t)' = OnTile(t) \ {w}
    BY <1>1, <1>3, OnTileOthers
  <2> QED
    BY <1>3, <2>1, FiniteOnTile, FS_RemoveElement
<1>4. (w \in OnTile(t)' <=> w \in OnTile(t)) => OnTile(t)' = OnTile(t)
  BY <1>1, OnTileOthers
<1> QED
  BY <1>2, <1>3, <1>4

\* where the worker of a step is counted afterwards
LEMMA OnTileOwn ==
  ASSUME TypeOK, NEW w \in Workers, Step(w)
  PROVE  /\ BeginTile(w) => \A t : w \notin OnTile(t) /\ (w \in OnTile(t)' <=> t = job[w].tile)
         /\ StartRow(w) => \A t : w \notin OnTile(t) /\ (w \in OnTile(t)' <=> t = job'[w].tile)
         /\ EndTile(w) \/ EndRow(w) =>
              \A t : w \notin OnTile(t)' /\ (w \in OnTile(t) <=> t = job[w].tile)
         /\ ParseError(w) \/ FrameError(w) => \A t : w \notin OnTile(t)'
         /\ ~(BeginTile(w) \/ StartRow(w) \/ EndTile(w) \/ EndRow(w) \/ ParseError(w)
              \/ FrameError(w)) => \A t : w \in OnTile(t)' <=> w \in OnTile(t)
<1> USE DEF OnTile, RowPCs
<1>1. BeginTile(w) => \A t : w \notin OnTile(t) /\ (w \in OnTile(t)' <=> t = job[w].tile)
  BY ParseMoves DEF BeginTile, Moves
<1>2. StartRow(w) => \A t : w \notin OnTile(t) /\ (w \in OnTile(t)' <=> t = job'[w].tile)
  BY DecodeMoves DEF StartRow, Moves
<1>3. EndTile(w) \/ EndRow(w) =>
        \A t : w \notin OnTile(t)' /\ (w \in OnTile(t) <=> t = job[w].tile)
  BY ParseMoves, DecodeMoves DEF EndTile, EndRow, Moves
<1>4. ParseError(w) \/ FrameError(w) => \A t : w \notin OnTile(t)'
  BY ParseMoves DEF Moves
<1>5. LaunchWorker(w) \/ TakeTile(w) \/ NoTile(w) \/ Abort(w) =>
        \A t : w \notin OnTile(t)' /\ w \notin OnTile(t)
  BY ParseMoves DEF LaunchWorker, TakeTile, NoTile, Abort, Moves
<1>6. LeaveLoop(w) \/ WaitForJob(w) => \A t : w \notin OnTile(t)' /\ w \notin OnTile(t)
  BY DecodeMoves DEF LeaveLoop, WaitForJob, Moves
<1>7. ParseRow(w) \/ Overflow(w) \/ TrailingBits(w) => \A t : w \in OnTile(t)' <=> w \in OnTile(t)
  <2>1. ParseRow(w) \/ Overflow(w) \/ TrailingBits(w) =>
          pc[w] = "parse" /\ pc'[w] \in {"parse", "endTile"}
    BY ParseMoves DEF ParseRow, Overflow, TrailingBits, Moves
  <2>2. ParseRow(w) \/ Overflow(w) \/ TrailingBits(w) => job'[w].tile = job[w].tile
    BY DEF ParseRow, Overflow, TrailingBits, TypeOK, Jobs
  <2> QED
    BY <2>1, <2>2
<1>8. SyncRead(w) \/ DecodeSb(w) \/ SyncWrite(w) => \A t : w \in OnTile(t)' <=> w \in OnTile(t)
  <2>1. SyncRead(w) \/ DecodeSb(w) \/ SyncWrite(w) => pc[w] \in RowPCs /\ pc'[w] \in RowPCs
    BY DecodeMoves DEF SyncRead, DecodeSb, SyncWrite, Moves
  <2>2. SyncRead(w) \/ DecodeSb(w) \/ SyncWrite(w) => job'[w].tile = job[w].tile
    BY DEF SyncRead, DecodeSb, SyncWrite, TypeOK, Jobs
  <2> QED
    BY <2>1, <2>2
<1>9. SpuriousWakeup(w) => \A t : w \in OnTile(t)' <=> w \in OnTile(t)
  <2>1. SpuriousWakeup(w) => (pc[w] = "wait" /\ pc'[w] = "take")
                             \/ (pc[w] = "rowWait" /\ pc'[w] = "read")
    BY DecodeMoves DEF SpuriousWakeup, Moves
  <2>2. SpuriousWakeup(w) => job' = job
    BY DEF SpuriousWakeup
  <2> QED
    BY <2>1, <2>2
<1> HIDE DEF OnTile, RowPCs
<1> QED
  BY <1>1, <1>2, <1>3, <1>4, <1>5, <1>6, <1>7, <1>8, <1>9 DEF Step, Worker, ParseSteps, DecodeSteps

\* a tile that begins has nobody on it: its rows cannot have been started
LEMMA FirstOnTile ==
  ASSUME TypeOK, ParseInv, DecodeBehindParse, RowInv, NEW w \in Workers, pc[w] = "init"
  PROVE  OnTile(job[w].tile) = {}
<1>1. job[w].tile \in Tiles /\ parsed[job[w].tile] = 0
  BY DEF ParseInv, Parsing, TypeOK, Jobs
<1>2. ~(started[job[w].tile] > 0)
  BY <1>1 DEF DecodeBehindParse, TypeOK
<1>3. ASSUME NEW v \in Workers, OnRow(v), job[v].tile = job[w].tile PROVE FALSE
  BY <1>1, <1>2, <1>3 DEF RowInv, TypeOK, Jobs
<1>4. ASSUME NEW v \in Workers, pc[v] \in {"parse", "endTile"}, job[v].tile = job[w].tile
      PROVE  FALSE
  BY <1>4 DEF ParseInv, Parsing
<1> QED
  BY <1>3, <1>4 DEF OnTile, OnRow

LEMMA CountStep == IInv /\ NextWithErrors => CountInv'
<1> SUFFICES ASSUME TypeOK, IdleInv, ParseInv, DecodeBehindParse, RowInv, FailInv,
                    CountInv, NextWithErrors
             PROVE  CountInv'
  BY DEF IInv
<1>1. CASE StartFrame \/ EndFrame
  <2>1. ASSUME NEW t \in Tiles PROVE OnTile(t) = {} /\ OnTile(t)' = {}
    BY <1>1, Boundary DEF OnTile, OnRow, RowPCs, Parsing
  <2>2. Cardinality({}) = 0
    BY FS_EmptySet
  <2>3. CASE StartFrame
    <3>1. /\ busy' /\ working' = [t \in Tiles |-> 0] /\ started' = [t \in Tiles |-> 0]
          /\ parsed' = [t \in Tiles |-> 0]
      BY <2>3 DEF StartFrame
    <3>2. \A t \in Tiles : Cardinality(OnTile(t)') = 0
      BY <2>1, <2>2
    <3> QED
      BY <3>1, <3>2, Sizes DEF CountInv, MaxWorkers
  <2>4. CASE EndFrame
    BY <2>1, <2>2, <2>4 DEF EndFrame, CountInv, MaxWorkers
  <2> QED
    BY <1>1, <2>3, <2>4
<1>2. ASSUME NEW w \in Workers, Step(w) PROVE CountInv'
  <2>1. \A v \in Workers : failed[v] => failed'[v]
    <3>1. failed[w] => pc[w] \in {"endTile", "abort", "returned"}
      BY <1>2, StepBusy DEF FailInv
    <3>2. failed[w] => failed'[w]
      BY <1>2, <3>1, Keeps DEF Overflow, TrailingBits, ParseError, FrameError, TypeOK
    <3> QED
      BY <1>2, <3>2, Others
  <2>2. ParseError(w) \/ FrameError(w) => failed'[w]
    BY DEF ParseError, FrameError, TypeOK
  <2>3. job[w].tile \in Tiles
    BY DEF TypeOK, Jobs
  <2>4. ASSUME NEW t \in Tiles
        PROVE  /\ working'[t] >= Cardinality(OnTile(t)')
               /\ (\A v \in Workers : ~failed'[v]) =>
                     working'[t] = Cardinality(OnTile(t)') /\ working'[t] <= MaxWorkers(t)
    <3> DEFINE n == Cardinality(OnTile(t))
               n1 == Cardinality(OnTile(t)')
    <3>1. n \in Nat /\ working[t] \in Nat /\ MaxWorkers(t) \in {1, 2}
      BY FiniteOnTile DEF TypeOK, MaxWorkers
    <3>2. working[t] >= n
      BY DEF CountInv
    <3>3. (\A v \in Workers : ~failed'[v]) => working[t] = n /\ working[t] <= MaxWorkers(t)
      BY <2>1 DEF CountInv
    <3>4. CASE BeginTile(w)
      <4>1. working' = [working EXCEPT ![job[w].tile] = @ + 1]
        BY <3>4 DEF BeginTile
      <4>2. CASE t = job[w].tile
        <5>1. n = 0
          BY <3>4, <4>2, FirstOnTile, FS_EmptySet DEF BeginTile
        <5>2. n1 = n + 1
          BY <1>2, <3>4, <4>2, OnTileOwn, OnTileStep
        <5>3. working'[t] = working[t] + 1
          BY <4>1, <4>2 DEF TypeOK
        <5> HIDE DEF n, n1
        <5>4. working'[t] >= n1
          BY <3>1, <3>2, <5>2, <5>3
        <5>5. (\A v \in Workers : ~failed'[v]) => working'[t] = n1 /\ working'[t] <= MaxWorkers(t)
          BY <3>1, <3>3, <5>1, <5>2, <5>3
        <5> QED
          BY <5>4, <5>5 DEF n1
      <4>3. CASE t # job[w].tile
        <5>1. OnTile(t)' = OnTile(t)
          BY <1>2, <3>4, <4>3, OnTileOwn, OnTileStep
        <5>2. working'[t] = working[t]
          BY <4>1, <4>3 DEF TypeOK
        <5> QED
          BY <3>2, <3>3, <5>1, <5>2
      <4> QED
        BY <4>2, <4>3
    <3>5. CASE StartRow(w)
      <4> HIDE DEF n, n1
      <4>0. PICK u \in Tiles : /\ working[u] < MaxWorkers(u)
                               /\ job'[w] = [tile |-> u, row |-> started[u], col |-> 0]
                               /\ working' = [working EXCEPT ![u] = @ + 1]
        BY <3>5, NewRow
      <4>1. /\ working[u] < MaxWorkers(u) /\ job'[w].tile = u
            /\ working' = [working EXCEPT ![u] = @ + 1]
        BY <4>0
      <4> USE DEF n, n1
      <4>2. CASE t = u
        <5>1. n1 = n + 1
          BY <1>2, <3>5, <4>1, <4>2, OnTileOwn, OnTileStep
        <5>2. working'[t] = working[t] + 1 /\ working[t] < MaxWorkers(t)
          BY <4>1, <4>2 DEF TypeOK
        <5> HIDE DEF n, n1
        <5>3. working'[t] >= n1
          BY <3>1, <3>2, <5>1, <5>2
        <5>4. (\A v \in Workers : ~failed'[v]) => working'[t] = n1 /\ working'[t] <= MaxWorkers(t)
          BY <3>1, <3>3, <5>1, <5>2
        <5> QED
          BY <5>3, <5>4 DEF n1
      <4>3. CASE t # u
        <5>1. OnTile(t)' = OnTile(t)
          BY <1>2, <3>5, <4>1, <4>3, OnTileOwn, OnTileStep
        <5>2. working'[t] = working[t]
          BY <4>1, <4>3 DEF TypeOK
        <5> QED
          BY <3>2, <3>3, <5>1, <5>2
      <4> QED
        BY <4>2, <4>3
    <3>6. CASE EndTile(w) \/ EndRow(w)
      <4>1. working' = [working EXCEPT ![job[w].tile] = @ - 1]
        BY <3>6 DEF EndTile, EndRow
      <4>2. CASE t = job[w].tile
        <5>1. n1 = n - 1
          BY <1>2, <3>6, <4>2, OnTileOwn, OnTileStep
        <5>2. working'[t] = working[t] - 1
          BY <4>1, <4>2 DEF TypeOK
        <5> HIDE DEF n, n1
        <5>3. working'[t] >= n1
          BY <3>1, <3>2, <5>1, <5>2
        <5>4. (\A v \in Workers : ~failed'[v]) => working'[t] = n1 /\ working'[t] <= MaxWorkers(t)
          BY <3>1, <3>3, <5>1, <5>2
        <5> QED
          BY <5>3, <5>4 DEF n1
      <4>3. CASE t # job[w].tile
        <5>1. OnTile(t)' = OnTile(t)
          BY <1>2, <3>6, <4>3, OnTileOwn, OnTileStep
        <5>2. working'[t] = working[t]
          BY <4>1, <4>3 DEF TypeOK
        <5> QED
          BY <3>2, <3>3, <5>1, <5>2
      <4> QED
        BY <4>2, <4>3
    <3>7. CASE ParseError(w) \/ FrameError(w)
      <4>1. working' = working
        BY <3>7 DEF ParseError, FrameError
      <4>2. n1 = n \/ n1 = n - 1
        BY <1>2, <3>7, OnTileOwn, OnTileStep
      <4> HIDE DEF n, n1
      <4>3. working'[t] >= n1
        BY <3>1, <3>2, <4>1, <4>2
      <4> QED
        BY <2>2, <3>7, <4>3 DEF n1
    <3>8. CASE ~(BeginTile(w) \/ StartRow(w) \/ EndTile(w) \/ EndRow(w) \/ ParseError(w)
                 \/ FrameError(w))
      <4>1. OnTile(t)' = OnTile(t)
        BY <1>2, <3>8, OnTileOwn, OnTileStep
      <4>2. working' = working
        BY <1>2, <3>8, Keeps
      <4> QED
        BY <3>2, <3>3, <4>1, <4>2
    <3> QED
      BY <3>4, <3>5, <3>6, <3>7, <3>8
  <2>5. \A t \in Tiles : MaxWorkers(t)' = MaxWorkers(t)
    BY DEF MaxWorkers
  <2> QED
    BY <2>4, <2>5 DEF CountInv
<1> QED
  BY <1>1, <1>2 DEF NextWithErrors, Next, Step

LEMMA StartedFinite ==
  /\ StartedRows \subseteq W!SbRows
  /\ IsFiniteSet(StartedRows) /\ Cardinality(StartedRows) \in Nat
BY FiniteRows, FS_Subset, FS_CardinalityType DEF StartedRows

LEMMA CompleteStep == IInv /\ NextWithErrors => CompleteInv'
<1> SUFFICES ASSUME TypeOK, IdleInv, DecodeBehindParse, RowInv, DecodedInv, FailInv,
                    CompleteInv, NextWithErrors
             PROVE  CompleteInv'
  BY DEF IInv
<1>1. CASE StartFrame
  <2>1. StartedRows' = {}
    BY <1>1, RowSet, Sizes DEF StartFrame, StartedRows
  <2>2. decodeStarted' = Cardinality({})
    BY <1>1, FS_EmptySet DEF StartFrame
  <2> QED
    BY <2>1, <2>2 DEF CompleteInv
<1>2. CASE EndFrame
  <2>1. /\ StartedRows' = StartedRows /\ decoded' = decoded /\ failed' = failed
        /\ decodeStarted' = decodeStarted
    BY <1>2 DEF EndFrame, jobVars, StartedRows
  <2> QED
    BY <1>2, <2>1, Boundary DEF CompleteInv
<1>3. ASSUME NEW w \in Workers, Step(w) PROVE CompleteInv'
  <2>1. decodeStarted' = Cardinality(StartedRows')
    <3>1. CASE StartRow(w)
      <4>1. PICK t \in Tiles : /\ parsed[t] > started[t]
                               /\ started' = [started EXCEPT ![t] = @ + 1]
        BY <3>1, NewRow
      <4>2. started[t] \in 0..(Rows[t] - 1)
        BY <4>1, Sizes DEF DecodeBehindParse, TypeOK
      <4>3. <<t, started[t]>> \in W!SbRows
        BY <4>2, RowSet
      <4>4. StartedRows' = StartedRows \cup {<<t, started[t]>>}
        <5>1. ASSUME NEW s \in W!SbRows
              PROVE  s[2] < started'[s[1]] <=> s[2] < started[s[1]] \/ s = <<t, started[t]>>
          <6>1. s = <<s[1], s[2]>> /\ s[1] \in Tiles /\ s[2] \in Nat
            BY RowSet, Sizes
          <6>2. started[s[1]] \in Nat
            BY <6>1 DEF TypeOK
          <6>3. CASE s[1] = t
            BY <4>1, <6>1, <6>2, <6>3 DEF TypeOK
          <6>4. CASE s[1] # t
            BY <4>1, <6>1, <6>2, <6>4 DEF TypeOK
          <6> QED
            BY <6>3, <6>4
        <5>2. StartedRows' = {s \in W!SbRows : s[2] < started'[s[1]]}
          BY DEF StartedRows, W!SbRows
        <5> QED
          BY <4>3, <5>1, <5>2 DEF StartedRows
      <4>5. <<t, started[t]>> \notin StartedRows
        BY <4>2 DEF StartedRows
      <4>6. Cardinality(StartedRows') = Cardinality(StartedRows) + 1
        BY <4>4, <4>5, StartedFinite, FS_AddElement
      <4> QED
        BY <3>1, <4>6 DEF StartRow, CompleteInv
    <3>2. CASE ~StartRow(w)
      <4>1. started' = started /\ decodeStarted' = decodeStarted
        BY <1>3, <3>2, Keeps
      <4>2. StartedRows' = StartedRows
        BY <4>1 DEF StartedRows
      <4> QED
        BY <4>1, <4>2 DEF CompleteInv
    <3> QED
      BY <3>1, <3>2
  <2>2. ASSUME \A v \in Workers : ~failed'[v], NEW s \in W!SbRows, s[2] < started'[s[1]]
        PROVE  \/ \E v \in Workers : OnRow(v)' /\ job'[v].tile = s[1] /\ job'[v].row = s[2]
               \/ \A k \in 0..(Cols[s[1]] - 1) : <<s[1], s[2], k>> \in decoded'
    <3>1. decoded \subseteq decoded'
      BY <1>3, Keeps DEF DecodeSb
    <3>2. \A v \in Workers : ~failed[v]
      <4>1. failed[w] => pc[w] \in {"endTile", "abort", "returned"}
        BY <1>3, StepBusy DEF FailInv
      <4>2. failed[w] => failed'[w]
        BY <1>3, <4>1, Keeps DEF Overflow, TrailingBits, ParseError, FrameError, TypeOK
      <4> QED
        BY <1>3, <2>2, <4>2, Others
    <3>3. s = <<s[1], s[2]>> /\ s[1] \in Tiles /\ s[2] \in Nat
      BY RowSet, Sizes
    <3>4. CASE ~(s[2] < started[s[1]])
      <4>1. StartRow(w)
        BY <1>3, <2>2, <3>4, Keeps
      <4>2. PICK t \in Tiles : /\ job'[w] = [tile |-> t, row |-> started[t], col |-> 0]
                               /\ started' = [started EXCEPT ![t] = @ + 1]
        BY <4>1, NewRow
      <4>3. s[1] = t /\ s[2] = started[t]
        <5>1. started[s[1]] \in Nat
          BY <3>3 DEF TypeOK
        <5>2. s[1] = t
          BY <2>2, <3>3, <3>4, <4>2 DEF TypeOK
        <5>3. started'[t] = started[t] + 1
          BY <4>2 DEF TypeOK
        <5> QED
          BY <2>2, <3>3, <3>4, <5>1, <5>2, <5>3
      <4>4. OnRow(w)'
        BY <4>1, DecodeMoves DEF Moves, OnRow, RowPCs
      <4> QED
        BY <4>2, <4>3, <4>4
    <3>5. CASE s \in StartedRows
      <4>1. CASE \A k \in 0..(Cols[s[1]] - 1) : <<s[1], s[2], k>> \in decoded
        BY <3>1, <4>1
      <4>2. ASSUME NEW v \in Workers, OnRow(v), job[v].tile = s[1], job[v].row = s[2]
            PROVE  \/ OnRow(v)' /\ job'[v].tile = s[1] /\ job'[v].row = s[2]
                   \/ \A k \in 0..(Cols[s[1]] - 1) : <<s[1], s[2], k>> \in decoded'
        <5>1. CASE v # w
          BY <1>3, <4>2, <5>1, Others
        <5>2. CASE v = w /\ EndRow(w)
          <6>1. pc[w] = "endRow" /\ job[w].col = Cols[job[w].tile]
            BY <4>2, <5>2 DEF EndRow, RowInv
          <6>2. \A k \in 0..(Cols[s[1]] - 1) : k < Cols[s[1]]
            BY <3>3, Sizes
          <6> QED
            BY <3>1, <4>2, <5>2, <6>1, <6>2 DEF DecodedInv, Reached
        <5>3. CASE v = w /\ (SyncRead(w) \/ DecodeSb(w) \/ SyncWrite(w) \/ SpuriousWakeup(w))
          <6>1. OnRow(w)'
            <7>1. pc'[w] \in RowPCs
              BY <4>2, <5>3, DecodeMoves DEF Moves, OnRow, RowPCs
            <7> QED
              BY <7>1 DEF OnRow, RowPCs
          <6>2. job'[w].tile = job[w].tile /\ job'[w].row = job[w].row
            <7>1. CASE SyncWrite(w)
              BY <7>1 DEF SyncWrite, TypeOK, Jobs
            <7> QED
              BY <5>3, <7>1 DEF SyncRead, DecodeSb, SpuriousWakeup
          <6> QED
            BY <4>2, <5>3, <6>1, <6>2
        <5>4. CASE v = w /\ ~(EndRow(w) \/ SyncRead(w) \/ DecodeSb(w) \/ SyncWrite(w)
                              \/ SpuriousWakeup(w))
          <6>1. ~FrameError(w)
            BY <2>2 DEF FrameError, TypeOK
          <6>2. ~LaunchWorker(w) /\ ~ParseSteps(w)
            BY <4>2, <5>4 DEF OnRow, RowPCs, LaunchWorker, ParseSteps, TakeTile, NoTile,
               BeginTile, ParseRow, Overflow, TrailingBits, EndTile, ParseError, Abort
          <6>3. ~LeaveLoop(w) /\ ~StartRow(w) /\ ~WaitForJob(w)
            BY <4>2, <5>4 DEF OnRow, RowPCs, LeaveLoop, StartRow, WaitForJob
          <6> QED
            BY <1>3, <5>4, <6>1, <6>2, <6>3 DEF Step, Worker, DecodeSteps
        <5> QED
          BY <4>2, <5>1, <5>2, <5>3, <5>4
      <4> QED
        BY <3>2, <3>5, <4>1, <4>2 DEF CompleteInv
    <3> QED
      BY <3>4, <3>5 DEF StartedRows
  <2>3. \A s \in StartedRows' : s \in W!SbRows /\ s[2] < started'[s[1]]
    BY DEF StartedRows, W!SbRows
  <2> QED
    BY <2>1, <2>2, <2>3 DEF CompleteInv
<1> QED
  BY <1>1, <1>2, <1>3 DEF NextWithErrors, Next, Step

-----------------------------------------------------------------------------
(* The inductive invariant.                                                 *)

LEMMA InitIInv == Init => IInv
<1> SUFFICES ASSUME Init PROVE IInv
  OBVIOUS
<1>1. TypeOK
  BY InitType
<1>2. \A w \in Workers : ~OnRow(w) /\ ~Parsing(w) /\ pc[w] = "idle" /\ ~failed[w]
  BY DEF Init, OnRow, RowPCs, Parsing
<1>3. DecodeBehindParse
  BY Sizes DEF Init, DecodeBehindParse
<1>4. DecodedInv
  <2>1. \A s \in W!SbRows : col[s] = -1
    BY DEF Init
  <2>2. \A s \in W!SbRows : \A k \in 0..(Cols[s[1]] - 1) : ~(k <= col[s])
    BY <2>1, RowSet, Sizes
  <2> QED
    BY <1>2, <2>1, <2>2 DEF Init, DecodedInv
<1>5. CountInv
  <2>1. \A t \in Tiles : OnTile(t) = {} /\ working[t] = 0
    BY <1>2 DEF OnTile, OnRow, Init, RowPCs, Parsing
  <2>2. Cardinality({}) = 0
    BY FS_EmptySet
  <2> QED
    BY <2>1, <2>2 DEF CountInv, MaxWorkers
<1>6. CompleteInv
  <2>1. StartedRows = {}
    BY RowSet, Sizes DEF Init, StartedRows
  <2> QED
    BY <2>1, FS_EmptySet DEF Init, CompleteInv
<1>7. IdleInv /\ ParseInv /\ RowInv /\ OneOwner /\ NeighboursDecoded /\ FailInv
  BY <1>2 DEF Init, IdleInv, ParseInv, RowInv, OneOwner, NeighboursDecoded, FailInv
<1> QED
  BY <1>1, <1>3, <1>4, <1>5, <1>6, <1>7 DEF IInv

LEMMA StutterIInv == IInv /\ UNCHANGED vars => IInv'
<1> SUFFICES ASSUME IInv, UNCHANGED vars PROVE IInv'
  OBVIOUS
<1> USE DEF IInv, vars
<1>1. TypeOK' /\ IdleInv' /\ DecodeBehindParse' /\ NeighboursDecoded'
  BY DEF TypeOK, IdleInv, DecodeBehindParse, NeighboursDecoded, W!Neighbours
<1>2. ParseInv' /\ RowInv' /\ OneOwner'
  BY DEF ParseInv, Parsing, RowInv, OneOwner, OnRow
<1>3. DecodedInv'
  BY DEF DecodedInv, OnRow, Reached
<1>4. FailInv'
  BY DEF FailInv, EndOfFrame
<1>5. CountInv'
  BY DEF CountInv, OnTile, MaxWorkers
<1>6. CompleteInv'
  BY DEF CompleteInv, StartedRows, OnRow
<1> QED
  BY <1>1, <1>2, <1>3, <1>4, <1>5, <1>6

LEMMA NextIInv == IInv /\ [NextWithErrors]_vars => IInv'
BY TypeStep, IdleStep, ParseStep, BehindStep, RowStep, OwnerStep, DecodedStep,
   NeighboursStep, FailStep, CountStep, CompleteStep, StutterIInv DEF IInv

LEMMA AlwaysWithErrors == SpecWithErrors => []IInv
BY InitIInv, NextIInv, PTL DEF SpecWithErrors

LEMMA AlwaysIInv == Spec => []IInv
<1>1. [Next]_vars => [NextWithErrors]_vars
  BY DEF NextWithErrors
<1> QED
  BY <1>1, InitIInv, NextIInv, PTL DEF Spec

-----------------------------------------------------------------------------
(* The theorems.                                                            *)

\* Every variable keeps its type, for any number of workers and any tiles; that
\* num_threads_working never becomes negative rests on the whole invariant.
THEOREM TypeCorrect == Spec => []TypeOK
<1>1. IInv => TypeOK
  BY DEF IInv
<1> QED
  BY <1>1, AlwaysIInv, PTL

\* No row is decoded before it has been parsed (get_next_job_info reads
\* mi_rows_parse_done and mi_rows_decode_started under the mutex).
THEOREM NoRowBeforeItsParse == Spec => []DecodeBehindParse
<1>1. IInv => DecodeBehindParse
  BY DEF IInv
<1> QED
  BY <1>1, AlwaysIInv, PTL

\* A row of superblocks has one worker.
THEOREM OneWorkerPerRow == Spec => []OneOwner
<1>1. IInv => OneOwner
  BY DEF IInv
<1> QED
  BY <1>1, AlwaysIInv, PTL

\* sync_read and sync_write keep every superblock behind those it is predicted
\* from, in tiles of any size and whatever the number of workers, also when
\* workers fail and the frame is given up, through xd->error_info or cm->error.
THEOREM PredictionIsSafe ==
  /\ Spec => []NeighboursDecoded
  /\ SpecWithErrors => []NeighboursDecoded
<1>1. IInv => NeighboursDecoded
  BY DEF IInv
<1> QED
  BY <1>1, AlwaysIInv, AlwaysWithErrors, PTL

\* num_threads_working counts the workers of each tile until a worker fails, and
\* keeps the limit of get_max_row_mt_workers_per_tile.
THEOREM CountsAreRight == Spec => []WorkersCounted
<1>1. IInv => WorkersCounted
  BY DEF IInv, CountInv, WorkersCounted
<1> QED
  BY <1>1, AlwaysIInv, PTL

-----------------------------------------------------------------------------
(* RowMT implements Wavefront.                                              *)

Decoding == {Sb(w) : w \in {v \in Workers : pc[v] = "decode"}}

\* a frame in which nobody failed is complete when everybody has returned
LEMMA GoodIsComplete ==
  ASSUME IInv, \A w \in Workers : pc[w] = "returned" /\ ~failed[w]
  PROVE  decoded = W!Sbs
<1>1. 1 \in Workers
  BY NumWorkersAssumption DEF Workers
<1>2. decodeStarted = RowsToDecode
  BY <1>1 DEF IInv, FailInv, EndOfFrame
<1>3. StartedRows = W!SbRows
  BY <1>2, StartedFinite, FiniteRows, FS_Subset DEF IInv, CompleteInv, RowsToDecode
<1>4. ASSUME NEW sb \in W!Sbs PROVE sb \in decoded
  <2>1. /\ sb = <<sb[1], sb[2], sb[3]>> /\ sb[1] \in Tiles
        /\ sb[2] \in 0..(Rows[sb[1]] - 1) /\ sb[3] \in 0..(Cols[sb[1]] - 1)
    BY SbSet
  <2>2. <<sb[1], sb[2]>> \in StartedRows
    BY <1>3, <2>1, RowSet
  <2>3. \A w \in Workers : ~OnRow(w)
    BY DEF OnRow, RowPCs
  <2> QED
    BY <2>1, <2>2, <2>3 DEF IInv, CompleteInv
<1> QED
  BY <1>4 DEF IInv, TypeOK

LEMMA InitRefines == Init => W!Init
BY DEF Init, W!Init

LEMMA StepRefines == IInv /\ [Next]_vars => W!Next \/ UNCHANGED W!vars
<1> SUFFICES ASSUME IInv, [Next]_vars PROVE W!Next \/ UNCHANGED W!vars
  OBVIOUS
<1> USE DEF IInv
<1>1. CASE StartFrame
  <2>1. W!Start
    BY <1>1, Boundary DEF StartFrame, W!Start
  <2> QED
    BY <2>1 DEF W!Next
<1>2. CASE EndFrame
  <2>1. \A w \in Workers : pc[w] # "decode" /\ pc'[w] # "decode"
    BY <1>2, Boundary
  <2>2. good' => decoded = W!Sbs
    BY <1>2, GoodIsComplete DEF EndFrame
  <2>3. busy /\ ~busy' /\ good' \in BOOLEAN /\ decoded' = decoded
    BY <1>2 DEF EndFrame
  <2>4. W!End
    BY <2>1, <2>2, <2>3 DEF W!End
  <2> QED
    BY <2>4 DEF W!Next
<1>3. ASSUME NEW w \in Workers, LaunchWorker(w) \/ Worker(w) \/ SpuriousWakeup(w)
      PROVE  W!Next \/ UNCHANGED W!vars
  <2>0. Step(w)
    BY <1>3 DEF Step
  <2>1. busy /\ busy' = busy /\ good' = good
    BY <2>0, StepBusy, Keeps
  <2>2. \A v \in Workers : v # w =>
          (pc'[v] = "decode" <=> pc[v] = "decode") /\ job'[v] = job[v]
    BY <2>0, Others
  <2>3. CASE DecodeSb(w)
    <3>1. pc[w] = "decode" /\ pc'[w] = "write" /\ job' = job
      BY <2>3, DecodeMoves DEF DecodeSb, Moves
    <3>2. OnRow(w)
      BY <3>1 DEF OnRow, RowPCs
    <3>3. Sb(w) \in W!Sbs
      BY <3>1, <3>2, OwnSb
    <3>4. \A v \in Workers : v # w /\ pc[v] = "decode" => Sb(v) # Sb(w)
      BY <3>1, <3>2 DEF OneOwner, OnRow, RowPCs, Sb
    <3>5. Decoding' = Decoding \ {Sb(w)}
      BY <2>2, <3>1, <3>4 DEF Decoding, Sb
    <3>6. Sb(w) \in Decoding
      BY <3>1 DEF Decoding
    <3>7. decoded' = decoded \cup {Sb(w)}
      BY <2>3 DEF DecodeSb, Sb
    <3>8. PICK sb \in W!Sbs : sb = Sb(w)
      BY <3>3
    <3>9. W!Finish(sb)
      BY <2>1, <3>5, <3>6, <3>7, <3>8 DEF W!Finish, Decoding, Sb
    <3> QED
      BY <3>9 DEF W!Next
  <2>4. CASE SyncRead(w) /\ pc'[w] = "decode"
    <3>1. /\ pc[w] = "read" /\ job' = job /\ decoded' = decoded
          /\ MayDecode(job[w].tile, job[w].row, job[w].col)
      BY <2>4, DecodeMoves DEF SyncRead, Moves
    <3>2. OnRow(w)
      BY <3>1 DEF OnRow, RowPCs
    <3>3. Sb(w) \in W!Sbs /\ job[w].col \in 0..(Cols[job[w].tile] - 1)
      BY <3>1, <3>2, OwnSb
    <3>4. Sb(w) \notin Decoding
      BY <3>1, <3>2 DEF OneOwner, OnRow, RowPCs, Decoding, Sb
    <3>5. Sb(w) \notin decoded
      BY <3>1, <3>2, <3>3, Sizes DEF DecodedInv, Reached, Sb
    <3>6. W!Neighbours(Sb(w)[1], Sb(w)[2], Sb(w)[3]) \subseteq decoded
      BY <3>1, <3>2, MayDecodeSound DEF Sb
    <3>7. Decoding' = Decoding \cup {Sb(w)}
      BY <2>2, <2>4, <3>1 DEF Decoding, Sb
    <3>8. PICK sb \in W!Sbs : sb = Sb(w)
      BY <3>3
    <3>9. W!Begin(sb)
      BY <2>1, <3>1, <3>4, <3>5, <3>6, <3>7, <3>8 DEF W!Begin, Decoding, Sb
    <3> QED
      BY <3>9 DEF W!Next
  <2>5. CASE ~DecodeSb(w) /\ ~(SyncRead(w) /\ pc'[w] = "decode")
    <3>1. decoded' = decoded
      BY <2>0, <2>5, Keeps
    <3>2. pc'[w] # "decode"
      <4>1. pc'[w] = "decode" => OnRow(w)'
        BY DEF OnRow, RowPCs
      <4> QED
        BY <2>0, <2>5, <4>1, RowSteps, DecodeMoves DEF Moves
    <3>3. pc[w] # "decode"
      BY <1>3, <2>5 DEF Worker, ParseSteps, DecodeSteps, LaunchWorker, TakeTile,
           NoTile, BeginTile, ParseRow, Overflow, TrailingBits, EndTile, ParseError, Abort,
           LeaveLoop, StartRow, WaitForJob, SyncRead, SyncWrite, EndRow, SpuriousWakeup
    <3>4. Decoding' = Decoding
      BY <2>2, <3>2, <3>3 DEF Decoding, Sb
    <3> QED
      BY <2>1, <3>1, <3>4 DEF W!vars, Decoding, Sb
  <2> QED
    BY <2>3, <2>4, <2>5
<1>4. CASE UNCHANGED vars
  BY <1>4 DEF vars, W!vars
<1> QED
  BY <1>1, <1>2, <1>3, <1>4 DEF Next

\* Unless the main thread leaves its hook through cm->error, the row-parallel
\* decoding of a frame does what Wavefront promises: every superblock once, after
\* its neighbours, and all of them when the frame is good.
THEOREM RefinesWavefront == Spec => ImplementsWavefront
<1>1. IInv /\ [Next]_vars => W!Next \/ UNCHANGED W!vars
  BY StepRefines
<1> QED
  BY <1>1, InitRefines, AlwaysIInv, PTL DEF Spec, ImplementsWavefront, W!Spec

-----------------------------------------------------------------------------
(* Nobody waits for ever: the safety core of FrameEnds.  A worker that      *)
(* waits for a row has not missed the signal it waits for, and a row that   *)
(* has not been reported completely is in somebody's hands.  Workers that   *)
(* wait for a job are told of the end of the frame; if all of them wait,    *)
(* everything is parsed, and a row that is left has a tile without workers. *)
(* Errors that bypass the hook of the main thread (FrameError) are excluded *)
(* here: after one of them workers do wait for ever.                        *)

\* no signal for a row is lost
RowWaitInv ==
  \A w \in Workers : pc[w] = "rowWait" =>
    ~MayDecode(job[w].tile, job[w].row, job[w].col)

\* a row that is started has a worker, until all of it has been reported
ReportInv ==
  \A s \in W!SbRows : s[2] < started[s[1]] =>
    \/ \E w \in Workers : OnRow(w) /\ pc[w] # "endRow" /\ job[w].tile = s[1] /\ job[w].row = s[2]
    \/ col[s] = Cols[s[1]] + 1

\* nobody waits for a job at the end of the frame, nobody leaves before it, and
\* the last one to wait has seen that there is no job
JobWaitInv ==
  /\ \A w \in Workers : pc[w] = "wait" => ~EndOfFrame
  /\ \A w \in Workers : pc[w] = "returned" => EndOfFrame
  /\ (\A w \in Workers : pc[w] = "wait") => ~JobFound

ParsedRows == {s \in W!SbRows : s[2] < parsed[s[1]]}

\* a tile that is not parsed is in the queue or in somebody's hands
QueueInv ==
  /\ \A w \in Workers : pc[w] \in {"take", "wait"} \/ OnRow(w) => queue = {}
  /\ \A w \in Workers : pc[w] = "endTile" => failed[w] \/ job[w].row = Rows[job[w].tile]
  /\ busy => \A t \in Tiles :
       \/ t \in queue \/ parsed[t] = Rows[t]
       \/ \E w \in Workers : Parsing(w) /\ job[w].tile = t
       \/ \E w \in Workers : failed[w]
  /\ parseDone = Cardinality(ParsedRows)

\* the guards of what worker w may do by itself
CanStep(w) ==
  \/ pc[w] = "idle" /\ \A v \in 1..(w - 1) : pc[v] # "idle"
  \/ pc[w] = "parse" /\ job[w].row <= Rows[job[w].tile]
  \/ pc[w] \in {"tile", "init", "endTile", "abort", "take", "read", "decode", "write", "endRow"}

NeverStuck == busy => (\A w \in Workers : pc[w] = "returned") \/ \E w \in Workers : CanStep(w)


\* a step of a worker that is not an error of the main thread
Acts(w) == LaunchWorker(w) \/ Worker(w) \/ SpuriousWakeup(w)

LEMMA Actors ==
  /\ \A w \in Workers : Acts(w) => Step(w)
  /\ Next => StartFrame \/ EndFrame \/ \E w \in Workers : Acts(w)
BY DEF Acts, Step, Next

\* which step brings a worker to a place
LEMMA ArriveBy ==
  ASSUME TypeOK, NEW w \in Workers, Acts(w)
  PROVE  /\ pc'[w] = "rowWait" => SyncRead(w)
         /\ pc'[w] = "wait" => WaitForJob(w)
         /\ pc'[w] = "returned" => LeaveLoop(w) \/ Abort(w)
         /\ pc'[w] = "endTile" => Overflow(w) \/ TrailingBits(w)
         /\ pc'[w] = "take" => NoTile(w) \/ EndRow(w) \/ SpuriousWakeup(w)
         /\ pc'[w] # "idle"
<1>1. CASE LaunchWorker(w) \/ ParseSteps(w)
  BY <1>1, ParseMoves DEF ParseSteps, Moves
<1>2. CASE DecodeSteps(w) \/ SpuriousWakeup(w)
  BY <1>2, DecodeMoves DEF DecodeSteps, Moves
<1> QED
  BY <1>1, <1>2 DEF Acts, Worker

\* cur_sb_col changes for the row that reports only
LEMMA Reports ==
  ASSUME TypeOK, NEW w \in Workers, Acts(w), NEW s \in W!SbRows
  PROVE  \/ col'[s] = col[s]
         \/ /\ SyncWrite(w) /\ s = <<job[w].tile, job[w].row>>
            /\ col'[s] = Published(job[w].tile, job[w].col)
<1>1. CASE SyncWrite(w)
  <2>1. col' = [col EXCEPT ![<<job[w].tile, job[w].row>>] = Published(job[w].tile, job[w].col)]
    BY <1>1 DEF SyncWrite
  <2> QED
    BY <1>1, <2>1 DEF TypeOK
<1>2. CASE ~SyncWrite(w)
  BY <1>2, Actors, Keeps
<1> QED
  BY <1>1, <1>2

LEMMA RowWaitStep == IInv /\ RowWaitInv /\ Next => RowWaitInv'
<1> SUFFICES ASSUME IInv, RowWaitInv, Next, NEW v \in Workers, pc'[v] = "rowWait"
             PROVE  ~MayDecode(job[v].tile, job[v].row, job[v].col)'
  BY DEF RowWaitInv
<1> USE DEF IInv
<1>1. ~StartFrame /\ ~EndFrame
  BY Boundary
<1>2. PICK w \in Workers : Acts(w)
  BY <1>1, Actors
<1>3. CASE v = w
  <2>1. SyncRead(w)
    BY <1>2, <1>3, ArriveBy
  <2>2. pc'[w] = IF MayDecode(job[w].tile, job[w].row, job[w].col) THEN "decode" ELSE "rowWait"
    BY <2>1, DecodeMoves DEF Moves
  <2>3. job' = job /\ col' = col
    BY <2>1 DEF SyncRead
  <2> QED
    BY <1>3, <2>2, <2>3 DEF MayDecode
<1>4. CASE v # w
  <2>1. pc[v] = "rowWait" /\ job'[v] = job[v] /\ OnRow(v)
    BY <1>2, <1>4, Actors, Others DEF OnRow, RowPCs
  <2>2. ~MayDecode(job[v].tile, job[v].row, job[v].col)
    BY <2>1 DEF RowWaitInv
  <2> DEFINE above == <<job[v].tile, job[v].row - 1>>
  <2>3. job[v].row # 0 /\ above \in W!SbRows
    <3>1. job[v].row # 0 /\ job[v].tile \in Tiles /\ job[v].row \in 0..(Rows[job[v].tile] - 1)
      BY <2>1, <2>2, OwnSb DEF MayDecode
    <3>2. job[v].row - 1 \in 0..(Rows[job[v].tile] - 1)
      BY <3>1, Sizes
    <3> QED
      BY <3>1, <3>2, RowSet
  <2>4. CASE SyncWrite(w) /\ above = <<job[w].tile, job[w].row>>
    <3>1. v \in RowWaiters(job[w].tile, job[w].row)
      <4>1. job[v].row \in Nat /\ job[w].row \in Nat
        BY DEF TypeOK, Jobs
      <4> QED
        BY <2>1, <2>4, <4>1 DEF RowWaiters
    <3>2. ASSUME NEW u \in RowWaiters(job[w].tile, job[w].row) PROVE u = v
      <4>1. /\ u \in Workers /\ OnRow(u)
            /\ job[u].tile = job[v].tile /\ job[u].row = job[v].row
        BY <3>1, <3>2 DEF RowWaiters, OnRow, RowPCs
      <4> QED
        BY <2>1, <4>1 DEF OneOwner
    <3>3. RowWaiters(job[w].tile, job[w].row) = {v}
      BY <3>1, <3>2
    <3>4. Signal({v}) = {{v}}
      BY DEF Signal
    <3>5. pc'[v] = "read"
      BY <1>4, <2>1, <2>4, <3>3, <3>4 DEF SyncWrite, Goto
    <3> QED
      BY <3>5
  <2>5. CASE ~(SyncWrite(w) /\ above = <<job[w].tile, job[w].row>>)
    <3>1. col'[above] = col[above]
      BY <1>2, <2>3, <2>5, Reports
    <3> QED
      BY <2>1, <2>2, <3>1 DEF MayDecode
  <2> QED
    BY <2>4, <2>5
<1> QED
  BY <1>3, <1>4

LEMMA ReportStep == IInv /\ ReportInv /\ Next => ReportInv'
<1> DEFINE Has(w, s) == OnRow(w) /\ pc[w] # "endRow" /\ job[w].tile = s[1] /\ job[w].row = s[2]
<1> SUFFICES ASSUME IInv, ReportInv, Next, NEW s \in W!SbRows, s[2] < started'[s[1]]
             PROVE  (\E w \in Workers : Has(w, s)') \/ col'[s] = Cols[s[1]] + 1
  BY DEF ReportInv
<1> USE DEF IInv
<1>1. s = <<s[1], s[2]>> /\ s[1] \in Tiles /\ s[2] \in 0..(Rows[s[1]] - 1)
  BY RowSet
<1>2. CASE StartFrame
  BY <1>1, <1>2, Sizes DEF StartFrame
<1>3. CASE EndFrame
  <2>1. started' = started /\ col' = col /\ \A w \in Workers : ~OnRow(w)
    BY <1>3, Boundary DEF EndFrame, jobVars
  <2> QED
    BY <1>1, <2>1 DEF ReportInv
<1>4. ASSUME NEW w \in Workers, Acts(w)
      PROVE  (\E v \in Workers : Has(v, s)') \/ col'[s] = Cols[s[1]] + 1
  <2>1. ASSUME NEW v \in Workers, v # w, Has(v, s) PROVE Has(v, s)'
    BY <1>4, <2>1, Actors, Others
  <2>2. CASE Has(w, s)
    <3>1. CASE SyncRead(w) \/ DecodeSb(w) \/ SpuriousWakeup(w)
      <4>1. job' = job /\ pc'[w] \in RowPCs \ {"endRow"}
        BY <2>2, <3>1, DecodeMoves DEF SyncRead, DecodeSb, SpuriousWakeup, Moves, OnRow, RowPCs
      <4> QED
        BY <2>2, <4>1 DEF OnRow
    <3>2. CASE SyncWrite(w)
      <4>1. job'[w].tile = job[w].tile /\ job'[w].row = job[w].row
        BY <3>2 DEF SyncWrite, TypeOK, Jobs
      <4>2. CASE job[w].col < Cols[job[w].tile] - 1
        <5>1. pc'[w] = "read"
          BY <3>2, <4>2, DecodeMoves DEF Moves
        <5> QED
          BY <2>2, <4>1, <5>1 DEF OnRow, RowPCs
      <4>3. CASE ~(job[w].col < Cols[job[w].tile] - 1)
        <5>1. col' = [col EXCEPT ![<<job[w].tile, job[w].row>>] =
                                   Published(job[w].tile, job[w].col)]
          BY <3>2 DEF SyncWrite
        <5>2. s = <<job[w].tile, job[w].row>>
          BY <1>1, <2>2
        <5> QED
          BY <4>3, <5>1, <5>2 DEF Published, TypeOK
      <4> QED
        BY <4>2, <4>3
    <3>3. ~LaunchWorker(w) /\ ~ParseSteps(w)
      BY <2>2 DEF OnRow, RowPCs, LaunchWorker, ParseSteps, TakeTile, NoTile,
         BeginTile, ParseRow, Overflow, TrailingBits, EndTile, ParseError, Abort
    <3>4. ~LeaveLoop(w) /\ ~StartRow(w) /\ ~WaitForJob(w) /\ ~EndRow(w)
      BY <2>2 DEF OnRow, RowPCs, LeaveLoop, StartRow, WaitForJob, EndRow
    <3> QED
      BY <1>4, <3>1, <3>2, <3>3, <3>4 DEF Acts, Worker, DecodeSteps
  <2>3. CASE col[s] = Cols[s[1]] + 1
    <3>1. CASE SyncWrite(w) /\ s = <<job[w].tile, job[w].row>>
      <4>1. OnRow(w) /\ pc[w] # "endRow"
        BY <3>1 DEF SyncWrite, OnRow, RowPCs
      <4> QED
        BY <1>1, <2>2, <3>1, <4>1
    <3>2. CASE ~(SyncWrite(w) /\ s = <<job[w].tile, job[w].row>>)
      BY <1>4, <2>3, <3>2, Reports
    <3> QED
      BY <3>1, <3>2
  <2>4. CASE ~(s[2] < started[s[1]])
    <3>1. StartRow(w)
      BY <1>4, <2>4, Actors, Keeps
    <3>2. PICK t \in Tiles :
            /\ job'[w] = [tile |-> t, row |-> started[t], col |-> 0]
            /\ started' = [started EXCEPT ![t] = @ + 1]
      BY <3>1, NewRow
    <3>3. s[1] = t /\ s[2] = started[t]
      BY <1>1, <2>4, <3>2, Sizes DEF TypeOK
    <3>4. pc'[w] = "read"
      BY <3>1, DecodeMoves DEF Moves
    <3> QED
      BY <3>2, <3>3, <3>4 DEF OnRow, RowPCs
  <2> QED
    BY <2>1, <2>2, <2>3, <2>4 DEF ReportInv
<1> QED
  BY <1>2, <1>3, <1>4, Actors

LEMMA JobWaitStep == IInv /\ JobWaitInv /\ Next => JobWaitInv'
<1> SUFFICES ASSUME IInv, JobWaitInv, Next PROVE JobWaitInv'
  OBVIOUS
<1> USE DEF IInv
<1>1. CASE StartFrame \/ EndFrame
  <2>1. 1 \in Workers
    BY NumWorkersAssumption DEF Workers
  <2> QED
    BY <1>1, <2>1, Boundary DEF JobWaitInv
<1>2. ASSUME NEW w \in Workers, Acts(w) PROVE JobWaitInv'
  <2>1. WaitForJob(w) => ~JobFound /\ ~EndOfFrame /\ ~JobFound' /\ ~EndOfFrame'
    BY DEF WaitForJob, jobVars, JobFound, EndOfFrame, Best, Candidates, Waiting, Left
  <2>2. ASSUME NEW v \in Workers, v # w, pc'[v] = "wait" PROVE ~EndOfFrame'
    <3>1. pc[v] = "wait" /\ ~EndOfFrame /\ v \in JobWaiters
      BY <1>2, <2>2, Actors, Others DEF JobWaitInv, JobWaiters
    <3>2. CASE StartRow(w)
      <4>1. decodeStarted' # RowsToDecode
        BY <2>2, <3>1, <3>2 DEF StartRow, Goto
      <4> QED
        BY <3>1, <3>2, <4>1 DEF StartRow, EndOfFrame
    <3>3. CASE Abort(w)
      BY <2>2, <3>1, <3>3 DEF Abort, Goto
    <3>4. CASE ~StartRow(w) /\ ~Abort(w)
      BY <1>2, <3>1, <3>4, Actors, Keeps DEF EndOfFrame
    <3> QED
      BY <3>2, <3>3, <3>4
  <2>3. EndOfFrame => EndOfFrame'
    BY <1>2, Actors, Keeps DEF EndOfFrame, StartRow, Abort
  <2>4. ASSUME NEW v \in Workers, pc'[v] = "returned" PROVE EndOfFrame'
    <3>1. CASE v = w
      BY <1>2, <2>3, <2>4, <3>1, ArriveBy DEF LeaveLoop, Abort, EndOfFrame
    <3>2. CASE v # w
      BY <1>2, <2>3, <2>4, <3>2, Actors, Others DEF JobWaitInv
    <3> QED
      BY <3>1, <3>2
  <2> QED
    BY <1>2, <2>1, <2>2, <2>4, ArriveBy DEF JobWaitInv
<1> QED
  BY <1>1, <1>2, Actors

LEMMA ParsedFinite ==
  /\ ParsedRows \subseteq W!SbRows
  /\ IsFiniteSet(ParsedRows) /\ Cardinality(ParsedRows) \in Nat
BY FiniteRows, FS_Subset, FS_CardinalityType DEF ParsedRows

LEMMA ParsedCount ==
  ASSUME IInv, QueueInv, NEW w \in Workers, Acts(w)
  PROVE  parseDone' = Cardinality(ParsedRows')
<1> USE DEF IInv
<1>1. CASE ParseRow(w)
  <2> DEFINE t == job[w].tile
  <2>1. /\ t \in Tiles /\ parsed[t] \in Nat /\ parsed[t] < Rows[t]
        /\ parsed' = [parsed EXCEPT ![t] = @ + 1] /\ parseDone' = parseDone + 1
    BY <1>1 DEF ParseRow, ParseInv, Parsing, TypeOK, Jobs
  <2> HIDE DEF t
  <2>2. <<t, parsed[t]>> \in W!SbRows
    <3>1. parsed[t] \in 0..(Rows[t] - 1)
      BY <2>1, Sizes
    <3> QED
      BY <2>1, <3>1, RowSet
  <2>3. ParsedRows' = ParsedRows \cup {<<t, parsed[t]>>}
    <3>1. ASSUME NEW s \in W!SbRows
          PROVE  s[2] < parsed'[s[1]] <=> s[2] < parsed[s[1]] \/ s = <<t, parsed[t]>>
      <4>1. s = <<s[1], s[2]>> /\ s[1] \in Tiles /\ s[2] \in Nat /\ parsed[s[1]] \in Nat
        BY RowSet, Sizes DEF TypeOK
      <4>2. CASE s[1] = t
        BY <2>1, <4>1, <4>2 DEF TypeOK
      <4>3. CASE s[1] # t
        BY <2>1, <4>1, <4>3 DEF TypeOK
      <4> QED
        BY <4>2, <4>3
    <3>2. ParsedRows' = {s \in W!SbRows : s[2] < parsed'[s[1]]}
      BY DEF ParsedRows, W!SbRows
    <3> QED
      BY <2>2, <3>1, <3>2 DEF ParsedRows
  <2>4. <<t, parsed[t]>> \notin ParsedRows
    BY <2>1 DEF ParsedRows
  <2>5. Cardinality(ParsedRows') = Cardinality(ParsedRows) + 1
    BY <2>3, <2>4, ParsedFinite, FS_AddElement
  <2> QED
    BY <2>1, <2>5 DEF QueueInv
<1>2. CASE ~ParseRow(w)
  <2>1. parsed' = parsed /\ parseDone' = parseDone
    BY <1>2, Actors, Keeps
  <2>2. ParsedRows' = ParsedRows
    BY <2>1 DEF ParsedRows
  <2> QED
    BY <2>1, <2>2 DEF QueueInv
<1> QED
  BY <1>1, <1>2

LEMMA QueueStep == IInv /\ QueueInv /\ Next => QueueInv'
<1> SUFFICES ASSUME IInv, QueueInv, Next PROVE QueueInv'
  OBVIOUS
<1> USE DEF IInv
<1>1. CASE StartFrame
  <2>1. ParsedRows' = {}
    BY <1>1, RowSet, Sizes DEF StartFrame, ParsedRows
  <2>2. parseDone' = Cardinality({})
    BY <1>1, FS_EmptySet DEF StartFrame
  <2> QED
    BY <1>1, <2>1, <2>2, Boundary DEF StartFrame, QueueInv
<1>2. CASE EndFrame
  <2>1. ParsedRows' = ParsedRows /\ parseDone' = parseDone
    BY <1>2 DEF EndFrame, jobVars, ParsedRows
  <2> QED
    BY <1>2, <2>1, Boundary DEF EndFrame, QueueInv
<1>3. ASSUME NEW w \in Workers, Acts(w) PROVE QueueInv'
  <2> USE DEF jobVars
  <2>1. ASSUME NEW v \in Workers, pc'[v] \in {"take", "wait"} \/ OnRow(v)' PROVE queue' = {}
    <3>1. queue = {}
      <4>1. CASE v # w
        <5>1. pc[v] \in {"take", "wait"} \/ OnRow(v)
          BY <1>3, <2>1, <4>1, Actors, Others
        <5> QED
          BY <5>1 DEF QueueInv
      <4>2. CASE v = w
        <5>1. CASE pc'[w] \in {"take", "wait"}
          BY <1>3, <5>1, ArriveBy
             DEF NoTile, EndRow, SpuriousWakeup, WaitForJob, QueueInv, OnRow, RowPCs
        <5>2. CASE OnRow(w)'
          BY <1>3, <5>2, Actors, RowSteps DEF StartRow, QueueInv
        <5> QED
          BY <2>1, <4>2, <5>1, <5>2
      <4> QED
        BY <4>1, <4>2
    <3> QED
      BY <1>3, <3>1, Actors, Keeps DEF TakeTile
  <2>2. ASSUME NEW v \in Workers, pc'[v] = "endTile"
        PROVE  failed'[v] \/ job'[v].row = Rows[job'[v].tile]
    <3>1. CASE v # w
      BY <1>3, <2>2, <3>1, Actors, Others DEF QueueInv
    <3>2. CASE v = w
      BY <1>3, <2>2, <3>2, ArriveBy DEF Overflow, TrailingBits, TypeOK
    <3> QED
      BY <3>1, <3>2
  <2>3. ASSUME busy', NEW t \in Tiles
        PROVE  \/ t \in queue' \/ parsed'[t] = Rows[t]
               \/ \E v \in Workers : Parsing(v)' /\ job'[v].tile = t
               \/ \E v \in Workers : failed'[v]
    <3>1. \A v \in Workers : failed[v] => failed'[v]
      <4>1. busy
        BY <1>3, Actors, StepBusy
      <4>2. failed[w] => pc[w] \in {"endTile", "abort", "returned"}
        BY <4>1 DEF FailInv
      <4>3. failed[w] => failed'[w]
        BY <1>3, <4>2, Actors, Keeps DEF Overflow, TrailingBits, ParseError, FrameError, TypeOK
      <4> QED
        BY <1>3, <4>3, Actors, Others
    <3>2. CASE \E v \in Workers : failed[v]
      BY <3>1, <3>2
    <3>3. CASE t \in queue
      <4>1. CASE TakeTile(w)
        <5>1. PICK u \in queue : /\ queue' = queue \ {u}
                                 /\ job' = [job EXCEPT ![w] = [NoJob EXCEPT !.tile = u]]
          BY <4>1 DEF TakeTile
        <5>2. job'[w].tile = u /\ Parsing(w)'
          BY <4>1, <5>1, ParseMoves DEF TypeOK, NoJob, Moves, Parsing
        <5> QED
          BY <3>3, <5>1, <5>2
      <4> QED
        BY <1>3, <3>3, <4>1, Actors, Keeps
    <3>4. CASE parsed[t] = Rows[t]
      <4>1. CASE ParseRow(w) /\ job[w].tile = t
        BY <3>4, <4>1, Sizes DEF ParseRow, ParseInv, Parsing, TypeOK
      <4>2. CASE ParseRow(w) /\ job[w].tile # t
        BY <3>4, <4>2 DEF ParseRow, TypeOK
      <4> QED
        BY <1>3, <3>4, <4>1, <4>2, Actors, Keeps
    <3>5. ASSUME NEW v \in Workers, Parsing(v), job[v].tile = t, v # w
          PROVE  Parsing(v)' /\ job'[v].tile = t
      BY <1>3, <3>5, Actors, Others
    <3>6. CASE Parsing(w) /\ job[w].tile = t
      <4>1. CASE BeginTile(w) \/ ParseRow(w) \/ Overflow(w) \/ TrailingBits(w)
        <5>1. job'[w].tile = t
          BY <3>6, <4>1 DEF BeginTile, ParseRow, Overflow, TrailingBits, TypeOK, Jobs
        <5>2. Parsing(w)'
          BY <4>1, ParseMoves DEF Moves, Parsing
        <5> QED
          BY <5>1, <5>2
      <4>2. CASE ParseError(w)
        BY <4>2 DEF ParseError, TypeOK
      <4>3. CASE EndTile(w)
        <5>1. failed[w] \/ job[w].row = Rows[t]
          BY <3>6, <4>3 DEF EndTile, QueueInv
        <5>2. parsed[t] = job[w].row /\ parsed' = parsed
          BY <3>6, <4>3 DEF EndTile, ParseInv
        <5> QED
          BY <3>1, <5>1, <5>2
      <4>4. ~LaunchWorker(w) /\ ~TakeTile(w) /\ ~NoTile(w) /\ ~Abort(w) /\ ~SpuriousWakeup(w)
        BY <3>6 DEF Parsing, LaunchWorker, TakeTile, NoTile, Abort, SpuriousWakeup
      <4>5. ~DecodeSteps(w)
        BY <3>6 DEF Parsing, DecodeSteps, LeaveLoop, StartRow, WaitForJob, SyncRead, DecodeSb,
           SyncWrite, EndRow
      <4> QED
        BY <1>3, <4>1, <4>2, <4>3, <4>4, <4>5 DEF Acts, Worker, ParseSteps
    <3> QED
      BY <1>3, <3>2, <3>3, <3>4, <3>5, <3>6, Actors, StepBusy DEF QueueInv
  <2> QED
    BY <1>3, <2>1, <2>2, <2>3, ParsedCount DEF QueueInv
<1> QED
  BY <1>1, <1>2, <1>3, Actors

\* the least number principle (induction, without an operator parameter)
LEMMA NatMin ==
  ASSUME NEW S \in SUBSET Nat, S # {}
  PROVE  \E m \in S : \A n \in S : m <= n
<1> DEFINE R == OpToRel(<, Nat)
<1>1. IsWellFoundedOn(R, Nat)
  BY NatLessThanWellFounded, Zenon
<1>2. \A x, y \in Nat : x < y => <<x, y>> \in R
  BY Zenon DEF OpToRel
<1> HIDE DEF R
<1>3. \E x \in S : \A y \in S : ~(<<y, x>> \in R)
  BY <1>1, WFMin, Zenon
<1>4. PICK x \in S : \A y \in S : ~(<<y, x>> \in R)
  BY <1>3, Zenon
<1>5. ASSUME NEW y \in S PROVE x <= y
  <2>1. ~(y < x)
    BY <1>2, <1>4, Zenon
  <2>2. x \in Nat /\ y \in Nat
    OBVIOUS
  <2> HIDE DEF R
  <2> QED
    BY <2>1, <2>2, SMT
<1> QED
  BY <1>5, Zenon

\* finitely many numbers have a bound
LEMMA Bounded ==
  ASSUME NEW n \in Nat, NEW f \in [0..n -> Nat]
  PROVE  \E b \in Nat : \A i \in 0..n : f[i] <= b
<1> DEFINE Bounds(k) == \E b \in Nat : \A i \in 0..k : f[i] <= b
           S == {k \in 0..n : ~Bounds(k)}
<1>1. ASSUME NEW m \in S, \A k \in S : m <= k PROVE FALSE
  <2>1. CASE m = 0
    <3>1. f[0] \in Nat /\ \A i \in 0..m : i = 0
      BY <2>1
    <3>2. PICK b \in Nat : b = f[0]
      BY <3>1
    <3>3. \A i \in 0..m : f[i] = b
      BY <3>1, <3>2, Zenon
    <3> QED
      BY <3>2, <3>3
  <2>2. CASE m # 0
    <3>1. m - 1 \in 0..n /\ m - 1 \notin S /\ m \in 0..n
      <4>1. m \in 0..n
        OBVIOUS
      <4>2. m - 1 \in 0..n /\ ~(m <= m - 1)
        BY <2>2, <4>1
      <4> HIDE DEF S
      <4> QED
        BY <1>1, <4>1, <4>2
    <3>2. PICK b \in Nat : \A i \in 0..(m - 1) : f[i] <= b
      BY <3>1
    <3>3. f[m] \in Nat
      BY <3>1
    <3>4. PICK c \in Nat : b <= c /\ f[m] <= c
      <4>1. CASE b <= f[m]
        BY <3>3, <4>1
      <4>2. CASE ~(b <= f[m])
        <5>1. b <= b /\ f[m] <= b
          BY <3>3, <4>2
        <5> QED
          BY <5>1
      <4> QED
        BY <4>1, <4>2
    <3>5. \A i \in 0..m : f[i] <= c
      <4> TAKE i \in 0..m
      <4>1. i \in 0..n /\ f[i] \in Nat /\ (i = m \/ i \in 0..(m - 1))
        BY <3>1
      <4> QED
        BY <3>2, <3>4, <4>1
    <3> QED
      BY <3>5
  <2> QED
    BY <2>1, <2>2
<1>2. S = {}
  <2>1. S \in SUBSET Nat
    OBVIOUS
  <2> HIDE DEF S
  <2> QED
    BY <1>1, <2>1, NatMin
<1>3. n \in 0..n
  OBVIOUS
<1> QED
  BY <1>2, <1>3


\* get_next_job_info finds a tile when there is a candidate
LEMMA BestExists ==
  ASSUME TypeOK, DecodeBehindParse, Candidates # {}
  PROVE  Best # {}
<1>1. /\ NumTiles - 1 \in Nat /\ Tiles = 0..(NumTiles - 1)
      /\ Candidates \subseteq Tiles /\ Candidates \subseteq Nat
  BY TilesAssumption DEF Tiles, Candidates, Waiting
<1>2. \A t \in Tiles : Left(t) \in Nat
  <2> TAKE t \in Tiles
  <2>1. /\ Rows[t] \in Nat /\ Cols[t] \in Nat /\ started[t] \in Nat /\ parsed[t] \in Nat
        /\ started[t] <= parsed[t] /\ parsed[t] <= Rows[t]
    BY Sizes DEF TypeOK, DecodeBehindParse
  <2>2. PICK n \in Nat : n = Rows[t] - started[t]
    BY <2>1
  <2>3. \A a, b \in Nat : a * b \in Nat
    OBVIOUS
  <2>4. n * Cols[t] \in Nat
    BY <2>1, <2>3
  <2> QED
    BY <2>2, <2>4 DEF Left
<1>3. PICK b \in Candidates : \A u \in Candidates : Left(u) <= Left(b)
  <2> DEFINE f == [t \in Tiles |-> Left(t)]
  <2>1. f \in [0..(NumTiles - 1) -> Nat]
    BY <1>1, <1>2
  <2>2. PICK top \in Nat : \A t \in 0..(NumTiles - 1) : f[t] <= top
    BY <1>1, <2>1, Bounded
  <2>3. \A t \in Tiles : Left(t) \in Nat /\ Left(t) <= top
    BY <1>1, <1>2, <2>2
  <2> DEFINE S == {top - Left(t) : t \in Candidates}
  <2> HIDE DEF f
  <2>4. S \in SUBSET Nat /\ S # {}
    <3>1. \A t \in Candidates : top - Left(t) \in Nat
      BY <1>1, <2>3
    <3> QED
      BY <3>1
  <2> HIDE DEF S
  <2>5. PICK m \in S : \A k \in S : m <= k
    BY <2>4, NatMin
  <2> USE DEF S
  <2>6. PICK b \in Candidates : m = top - Left(b)
    BY <2>5
  <2>7. ASSUME NEW u \in Candidates PROVE Left(u) <= Left(b)
    <3>1. top - Left(u) \in S
      OBVIOUS
    <3>2. top - Left(b) <= top - Left(u)
      BY <2>5, <2>6, <3>1
    <3>3. Left(u) \in Nat /\ Left(b) \in Nat
      BY <1>1, <2>3
    <3> QED
      BY <3>2, <3>3
  <2> QED
    BY <2>7
<1> DEFINE B == {t \in Candidates : Left(t) = Left(b)}
<1>4. PICK t \in B : \A u \in B : t <= u
  <2>1. B \in SUBSET Nat /\ b \in B
    BY <1>1
  <2> HIDE DEF B
  <2> QED
    BY <2>1, NatMin
<1>5. t \in Candidates /\ Left(t) = Left(b)
  OBVIOUS
<1>6. ASSUME NEW u \in Candidates
      PROVE  Left(t) > Left(u) \/ (Left(t) = Left(u) /\ t <= u)
  <2>1. Left(u) \in Nat /\ Left(t) \in Nat /\ Left(u) <= Left(t)
    BY <1>1, <1>2, <1>3, <1>5
  <2>2. Left(u) = Left(t) => t <= u
    BY <1>4, <1>5
  <2> HIDE DEF B
  <2> QED
    BY <2>1, <2>2
<1> QED
  BY <1>5, <1>6 DEF Best

\* if all workers wait for a job, there is one
LEMMA AllWait ==
  ASSUME IInv, JobWaitInv, QueueInv, busy, \A w \in Workers : pc[w] = "wait"
  PROVE  FALSE
<1> USE DEF IInv
<1>1. 1 \in Workers
  BY NumWorkersAssumption DEF Workers
<1>2. ~EndOfFrame /\ ~JobFound /\ queue = {}
  BY <1>1 DEF JobWaitInv, QueueInv
<1>3. \A w \in Workers : ~failed[w] /\ ~Parsing(w)
  BY DEF FailInv, Parsing
<1>4. \A t \in Tiles : parsed[t] = Rows[t]
  BY <1>2, <1>3 DEF QueueInv
<1>5. parseDone # decodeStarted
  <2>1. ParsedRows = W!SbRows
    <3>1. \A s \in W!SbRows : s[2] < parsed[s[1]]
      BY <1>4, RowSet, Sizes
    <3> QED
      BY <3>1 DEF ParsedRows
  <2> QED
    BY <1>2, <2>1 DEF QueueInv, EndOfFrame, RowsToDecode
<1>6. PICK t \in Tiles : started[t] < Rows[t]
  <2> SUFFICES ASSUME \A t \in Tiles : ~(started[t] < Rows[t]) PROVE FALSE
    OBVIOUS
  <2>1. ASSUME NEW s \in W!SbRows PROVE s[2] < started[s[1]]
    <3>1. s[1] \in Tiles /\ s[2] \in 0..(Rows[s[1]] - 1)
      BY RowSet
    <3>2. started[s[1]] \in Nat /\ Rows[s[1]] \in Nat
      BY <3>1, Sizes DEF TypeOK
    <3> QED
      BY <3>1, <3>2
  <2>2. StartedRows = W!SbRows
    BY <2>1 DEF StartedRows
  <2> QED
    BY <1>2, <2>2 DEF CompleteInv, EndOfFrame, RowsToDecode
<1>7. \A u \in Tiles : working[u] = 0
  <2>1. \A u \in Tiles : OnTile(u) = {}
    BY DEF OnTile, RowPCs
  <2> QED
    BY <1>3, <2>1, FS_EmptySet DEF CountInv
<1>8. t \in Candidates
  BY <1>4, <1>6, <1>7 DEF Candidates, Waiting, MaxWorkers
<1>9. Best # {}
  BY <1>8, BestExists
<1> QED
  BY <1>2, <1>5, <1>9 DEF JobFound

\* the main thread launches the workers in their order
LEMMA SomebodyToLaunch ==
  ASSUME NEW w \in Workers, pc[w] = "idle"
  PROVE  \E v \in Workers : CanStep(v)
<1> DEFINE S == {u \in Workers : pc[u] = "idle"}
<1>1. S \in SUBSET Nat /\ S # {}
  BY NumWorkersAssumption DEF Workers
<1>2. PICK v \in S : \A k \in S : v <= k
  BY <1>1, NatMin
<1>3. ASSUME NEW u \in 1..(v - 1), pc[u] = "idle" PROVE FALSE
  <2>1. u \in Workers /\ v \in Nat /\ u \in Nat /\ u < v
    BY <1>3, NumWorkersAssumption DEF Workers
  <2> QED
    BY <1>2, <1>3, <2>1
<1> QED
  BY <1>2, <1>3 DEF CanStep

\* the worker on the highest row that waits waits for one that does not
LEMMA WaitsForSomebody ==
  ASSUME IInv, RowWaitInv, ReportInv, NEW w \in Workers, pc[w] = "rowWait"
  PROVE  \E v \in Workers : OnRow(v) /\ pc[v] \notin {"rowWait", "endRow"}
<1> USE DEF IInv
<1> DEFINE S == {job[v].row : v \in {u \in Workers : pc[u] = "rowWait"}}
<1>1. S \in SUBSET Nat /\ S # {}
  <2>1. \A v \in Workers : job[v] \in Jobs
    BY DEF TypeOK
  <2>2. \A v \in Workers : job[v].row \in Nat
    BY <2>1 DEF Jobs
  <2> QED
    BY <2>2
<1>2. PICK m \in S : \A k \in S : m <= k
  BY <1>1, NatMin
<1>3. PICK v \in Workers : pc[v] = "rowWait" /\ m = job[v].row
  BY <1>2
<1> DEFINE t == job[v].tile
           r == job[v].row
           c == job[v].col
           s == <<t, r - 1>>
<1>4. /\ t \in Tiles /\ r \in 0..(Rows[t] - 1) /\ c \in 0..(Cols[t] - 1)
      /\ r < started[t] /\ Rows[t] \in Nat /\ Cols[t] \in Nat /\ started[t] \in Nat
  BY <1>3, OwnSb, Sizes DEF OnRow, RowPCs, RowInv, TypeOK
<1>5. r # 0 /\ ~(c <= col[s] - 1)
  BY <1>3 DEF RowWaitInv, MayDecode
<1>6. s \in W!SbRows /\ s[1] = t /\ s[2] = r - 1 /\ s[2] < started[s[1]]
  <2>1. r - 1 \in 0..(Rows[t] - 1) /\ r - 1 < started[t]
    BY <1>4, <1>5
  <2> QED
    BY <1>4, <2>1, RowSet
<1>7. col[s] # Cols[s[1]] + 1
  <2>1. s[1] = t
    OBVIOUS
  <2> HIDE DEF s, t, r, c
  <2> QED
    BY <1>4, <1>5, <2>1
<1>8. PICK u \in Workers : /\ OnRow(u) /\ pc[u] # "endRow"
                           /\ job[u].tile = s[1] /\ job[u].row = s[2]
  BY <1>6, <1>7 DEF ReportInv
<1>9. pc[u] # "rowWait"
  <2> SUFFICES ASSUME pc[u] = "rowWait" PROVE FALSE
    OBVIOUS
  <2>1. job[u].row = r - 1
    BY <1>6, <1>8
  <2>2. m <= job[u].row
    BY <1>2
  <2> QED
    BY <1>3, <1>4, <2>1, <2>2
<1> QED
  BY <1>8, <1>9

\* The workers of decode_tiles_row_mt never lock each other out, for any number of
\* workers and any tiles, and whichever of them fails while it parses: until all have
\* returned, one can be launched, or one is not waiting and finds its next step open.
\* No signal for a row is lost (sync_write), the end of the frame reaches everybody
\* who waits for a job, and while rows are left somebody is awake to take them.
THEOREM NoDeadlock == Spec => []NeverStuck
<1> DEFINE Inv == RowWaitInv /\ ReportInv /\ JobWaitInv /\ QueueInv
<1>1. Init => Inv
  <2> SUFFICES ASSUME Init PROVE Inv
    OBVIOUS
  <2>1. ASSUME NEW s \in W!SbRows PROVE ~(s[2] < started[s[1]]) /\ ~(s[2] < parsed[s[1]])
    BY <2>1, RowSet, Sizes DEF Init
  <2>2. ParsedRows = {}
    BY <2>1 DEF ParsedRows
  <2>3. \A w \in Workers : pc[w] = "idle" /\ ~OnRow(w)
    BY DEF Init, OnRow, RowPCs
  <2>4. 1 \in Workers
    BY NumWorkersAssumption DEF Workers
  <2>5. RowWaitInv /\ ReportInv /\ JobWaitInv
    BY <2>1, <2>3, <2>4 DEF RowWaitInv, ReportInv, JobWaitInv
  <2>6. QueueInv
    BY <2>2, <2>3, FS_EmptySet DEF Init, QueueInv
  <2> QED
    BY <2>5, <2>6
<1>2. IInv /\ Inv /\ [Next]_vars => Inv'
  <2>1. ASSUME Inv, UNCHANGED vars PROVE Inv'
    <3> USE <2>1 DEF vars
    <3>1. RowWaitInv' /\ ReportInv'
      BY DEF RowWaitInv, MayDecode, ReportInv, OnRow
    <3>2. JobWaitInv'
      BY DEF JobWaitInv, EndOfFrame, JobFound, Best, Candidates, Waiting, Left
    <3>3. QueueInv'
      BY DEF QueueInv, OnRow, Parsing, ParsedRows
    <3> QED
      BY <3>1, <3>2, <3>3
  <2> QED
    BY <2>1, RowWaitStep, ReportStep, JobWaitStep, QueueStep
<1>3. IInv /\ Inv => NeverStuck
  <2> SUFFICES ASSUME IInv, Inv, busy, \A w \in Workers : ~CanStep(w),
                      NEW w \in Workers, pc[w] # "returned"
               PROVE  FALSE
    BY DEF NeverStuck
  <2>1. \A v \in Workers : pc[v] # "idle"
    BY SomebodyToLaunch
  <2>2. ASSUME NEW v \in Workers, pc[v] = "parse" PROVE FALSE
    <3>1. job[v].row = parsed[job[v].tile] /\ job[v].tile \in Tiles
      BY <2>2 DEF IInv, ParseInv, Parsing, TypeOK, Jobs
    <3> QED
      BY <2>2, <3>1 DEF CanStep, IInv, DecodeBehindParse
  <2>3. \A v \in Workers : pc[v] \in {"wait", "rowWait", "returned"}
    BY <2>1, <2>2 DEF CanStep, IInv, TypeOK, PCs
  <2>4. \A v \in Workers : pc[v] # "rowWait"
    <3> SUFFICES ASSUME NEW v \in Workers, pc[v] = "rowWait" PROVE FALSE
      OBVIOUS
    <3>1. PICK u \in Workers : OnRow(u) /\ pc[u] \notin {"rowWait", "endRow"}
      BY WaitsForSomebody
    <3> QED
      BY <2>3, <3>1 DEF OnRow, RowPCs
  <2>5. pc[w] = "wait"
    BY <2>3, <2>4
  <2>6. \A v \in Workers : pc[v] = "wait"
    BY <2>3, <2>4, <2>5 DEF JobWaitInv
  <2> QED
    BY <2>6, AllWait
<1> QED
  BY <1>1, <1>2, <1>3, AlwaysIInv, PTL DEF Spec

-----------------------------------------------------------------------------
(* Nobody works for ever either: every step of a worker but a wake-up       *)
(* without a signal brings the end of the frame nearer.                     *)

Unparsed == {s \in W!SbRows : s[2] >= parsed[s[1]]}
Unstarted == {s \in W!SbRows : s[2] >= started[s[1]]}
Unreported == {sb \in W!Sbs : sb[3] > col[<<sb[1], sb[2]>>]}
Present == {w \in Workers : pc[w] # "returned"}

\* the places a worker has still to pass before it takes a tile or a row, reports
\* its superblock or leaves; one that is woken is back at "take" or at "read"
Ahead(w) ==
  CASE pc[w] = "idle" -> 6
    [] pc[w] = "init" -> 5
    [] pc[w] = "parse" -> 4
    [] pc[w] \in {"endTile", "read"} -> 3
    [] pc[w] \in {"tile", "rowWait", "decode", "endRow"} -> 2
    [] pc[w] \in {"abort", "take", "write"} -> 1
    [] OTHER -> 0
Places == {x \in Workers \X (1..6) : x[2] <= Ahead(x[1])}

\* the lexicographic order of the six measures
Closer ==
  \/ Cardinality(queue') < Cardinality(queue)
  \/ /\ queue' = queue
     /\ \/ Cardinality(Unparsed') < Cardinality(Unparsed)
        \/ /\ Unparsed' = Unparsed
           /\ \/ Cardinality(Unstarted') < Cardinality(Unstarted)
              \/ /\ Unstarted' = Unstarted
                 /\ \/ Cardinality(Unreported') < Cardinality(Unreported)
                    \/ /\ Unreported' = Unreported
                       /\ \/ Cardinality(Present') < Cardinality(Present)
                          \/ /\ Present' = Present
                             /\ Cardinality(Places') < Cardinality(Places)

\* the columns a row has reported are those its worker has passed
ColInv ==
  \A w \in Workers : OnRow(w) /\ pc[w] # "endRow" =>
    col[<<job[w].tile, job[w].row>>] = job[w].col - 1

LEMMA ColStep == IInv /\ ColInv /\ Next => ColInv'
<1> SUFFICES ASSUME IInv, ColInv, Next, NEW v \in Workers, OnRow(v)', pc'[v] # "endRow"
             PROVE  col'[<<job'[v].tile, job'[v].row>>] = job'[v].col - 1
  BY DEF ColInv
<1> USE DEF IInv
<1>1. ~StartFrame /\ ~EndFrame
  BY Boundary
<1>2. PICK w \in Workers : Acts(w)
  BY <1>1, Actors
<1>3. CASE v # w
  <2>1. /\ job'[v] = job[v] /\ OnRow(v) /\ pc[v] # "endRow"
    BY <1>2, <1>3, Actors, Others
  <2>2. <<job[v].tile, job[v].row>> \in W!SbRows
    BY <2>1, OwnSb, RowSet
  <2>3. ~(SyncWrite(w) /\ <<job[v].tile, job[v].row>> = <<job[w].tile, job[w].row>>)
    <3> SUFFICES ASSUME SyncWrite(w), job[v].tile = job[w].tile, job[v].row = job[w].row
                 PROVE  FALSE
      OBVIOUS
    <3>1. OnRow(w)
      BY DEF SyncWrite, OnRow, RowPCs
    <3> QED
      BY <1>3, <2>1, <3>1 DEF OneOwner
  <2>4. col'[<<job[v].tile, job[v].row>>] = col[<<job[v].tile, job[v].row>>]
    BY <1>2, <2>2, <2>3, Reports
  <2> QED
    BY <2>1, <2>4 DEF ColInv
<1>4. CASE v = w /\ StartRow(w)
  <2>1. PICK t \in Tiles : /\ parsed[t] > started[t]
                           /\ job'[w] = [tile |-> t, row |-> started[t], col |-> 0]
    BY <1>4, NewRow
  <2>2. <<t, started[t]>> \in W!SbRows
    <3>1. started[t] \in 0..(Rows[t] - 1)
      BY <2>1, Sizes DEF TypeOK, DecodeBehindParse
    <3> QED
      BY <3>1, RowSet
  <2>3. col[<<t, started[t]>>] = -1
    BY <2>2 DEF DecodedInv, TypeOK
  <2>4. col' = col
    BY <1>4 DEF StartRow
  <2> QED
    BY <1>4, <2>1, <2>3, <2>4
<1>5. CASE v = w /\ OnRow(w) /\ (SyncRead(w) \/ DecodeSb(w) \/ SpuriousWakeup(w))
  <2>1. col' = col /\ job' = job /\ pc[w] # "endRow"
    BY <1>5 DEF SyncRead, DecodeSb, SpuriousWakeup
  <2> QED
    BY <1>5, <2>1 DEF ColInv
<1>6. CASE v = w /\ SyncWrite(w)
  <2>1. /\ job[w].col < Cols[job[w].tile] - 1
        /\ col' = [col EXCEPT ![<<job[w].tile, job[w].row>>] =
                                Published(job[w].tile, job[w].col)]
        /\ job' = [job EXCEPT ![w].col = job[w].col + 1]
    BY <1>6, DecodeMoves DEF SyncWrite, Moves
  <2>2. /\ OnRow(w) /\ job[w].tile \in Tiles /\ job[w].row \in 0..(Rows[job[w].tile] - 1)
        /\ job[w].col \in Nat
    <3>1. OnRow(w)
      BY <1>6 DEF SyncWrite, OnRow, RowPCs
    <3> QED
      BY <3>1, OwnSb
  <2>3. /\ job'[w].tile = job[w].tile /\ job'[w].row = job[w].row
        /\ job'[w].col = job[w].col + 1
    BY <2>1 DEF TypeOK, Jobs
  <2>4. col'[<<job[w].tile, job[w].row>>] = job[w].col
    BY <2>1, <2>2, RowSet DEF TypeOK, Published
  <2> QED
    BY <1>6, <2>2, <2>3, <2>4
<1> QED
  BY <1>2, <1>3, <1>4, <1>5, <1>6, Actors, RowSteps

LEMMA FewerThan ==
  ASSUME NEW S, IsFiniteSet(S), NEW T \in SUBSET S, NEW x \in S, x \notin T
  PROVE  Cardinality(T) < Cardinality(S)
<1>1. IsFiniteSet(T) /\ Cardinality(T) <= Cardinality(S) /\ Cardinality(S) # Cardinality(T)
  BY FS_Subset
<1>2. Cardinality(S) \in Nat /\ Cardinality(T) \in Nat
  BY <1>1, FS_CardinalityType
<1> QED
  BY <1>1, <1>2

LEMMA FiniteSbs == IsFiniteSet(W!Sbs)
<1> DEFINE OfRow(s) == {s} \X (0..(Cols[s[1]] - 1))
           f == [s \in W!SbRows |-> OfRow(s)]
           F == {OfRow(s) : s \in W!SbRows}
           g == [x \in UNION F |-> <<x[1][1], x[1][2], x[2]>>]
<1>1. f \in Surjection(W!SbRows, F)
  BY DEF Surjection
<1>2. IsFiniteSet(F)
  BY <1>1, FiniteRows, FS_Surjection
<1>3. ASSUME NEW s \in W!SbRows PROVE IsFiniteSet(OfRow(s))
  <2>1. s[1] \in Tiles
    BY RowSet
  <2>2. IsFiniteSet({s})
    BY FS_Singleton
  <2>3. IsFiniteSet(0..(Cols[s[1]] - 1))
    BY <2>1, FS_Interval, Sizes
  <2> QED
    BY <2>2, <2>3, FS_Product
<1>4. IsFiniteSet(UNION F)
  BY <1>2, <1>3, FS_UNION
<1>5. ASSUME NEW sb \in W!Sbs PROVE \E x \in UNION F : g[x] = sb
  <2>1. /\ sb = <<sb[1], sb[2], sb[3]>> /\ <<sb[1], sb[2]>> \in W!SbRows
        /\ sb[3] \in 0..(Cols[sb[1]] - 1)
    BY RowSet, SbSet
  <2>2. <<<<sb[1], sb[2]>>, sb[3]>> \in OfRow(<<sb[1], sb[2]>>)
    BY <2>1
  <2>3. <<<<sb[1], sb[2]>>, sb[3]>> \in UNION F
    BY <2>1, <2>2
  <2> QED
    BY <2>1, <2>3
<1>6. g \in Surjection(UNION F, {g[x] : x \in UNION F})
  BY DEF Surjection
<1>7. IsFiniteSet({g[x] : x \in UNION F})
  <2> HIDE DEF g, F
  <2> QED
    BY <1>4, <1>6, FS_Surjection
<1>8. W!Sbs \subseteq {g[x] : x \in UNION F}
  <2> HIDE DEF g, F
  <2> QED
    BY <1>5
<1> HIDE DEF g, F
<1> QED
  BY <1>7, <1>8, FS_Subset

LEMMA FinitePlaces == IsFiniteSet(Places)
<1>1. IsFiniteSet(1..6)
  <2>1. PICK a \in Int, b \in Int : a = 1 /\ b = 6
    OBVIOUS
  <2>2. IsFiniteSet(a..b)
    BY FS_Interval
  <2> QED
    BY <2>1, <2>2, Zenon
<1>2. IsFiniteSet(Workers \X (1..6))
  BY <1>1, FiniteWorkers, FS_Product
<1> QED
  BY <1>2, FS_Subset DEF Places

\* a step that wakes nobody
LEMMA OwnStep ==
  ASSUME TypeOK, NEW w \in Workers,
         pc' \in [Workers -> PCs], \A v \in Workers : v # w => pc'[v] = pc[v],
         Ahead(w)' < Ahead(w)
  PROVE  Cardinality(Places') < Cardinality(Places)
<1>1. \A v \in Workers : Ahead(v) \in 0..6 /\ Ahead(v)' \in 0..6
  BY DEF Ahead
<1>2. \A v \in Workers : v # w => Ahead(v)' = Ahead(v)
  BY DEF Ahead
<1>3. \A v \in Workers : Ahead(v)' <= Ahead(v)
  BY <1>1, <1>2
<1>4. Places' \subseteq Places
  <2> SUFFICES ASSUME NEW x \in Places' PROVE x \in Places
    OBVIOUS
  <2>1. x \in Workers \X (1..6) /\ x[2] <= Ahead(x[1])'
    BY DEF Places
  <2>2. x[1] \in Workers /\ x[2] \in 1..6
    BY <2>1
  <2>3. x[2] <= Ahead(x[1])
    BY <1>1, <1>3, <2>1, <2>2
  <2> QED
    BY <2>1, <2>3 DEF Places
<1>5. <<w, Ahead(w)>> \in Workers \X (1..6)
  BY <1>1
<1>6. <<w, Ahead(w)>> \in Places /\ <<w, Ahead(w)>> \notin Places'
  BY <1>1, <1>5 DEF Places
<1> QED
  BY <1>4, <1>6, FinitePlaces, FewerThan

LEMMA TakesTile ==
  ASSUME TypeOK, NEW w \in Workers, TakeTile(w)
  PROVE  Cardinality(queue') < Cardinality(queue)
<1>1. PICK t \in queue : queue' = queue \ {t}
  BY DEF TakeTile
<1>2. IsFiniteSet(Tiles)
  BY FS_Interval, TilesAssumption DEF Tiles
<1>3. IsFiniteSet(queue)
  BY <1>2, FS_Subset DEF TypeOK
<1> QED
  BY <1>1, <1>3, FewerThan

LEMMA ParsesRow ==
  ASSUME IInv, NEW w \in Workers, ParseRow(w)
  PROVE  Cardinality(Unparsed') < Cardinality(Unparsed)
<1> USE DEF IInv
<1> DEFINE t == job[w].tile
<1>1. t \in Tiles /\ parsed[t] < Rows[t] /\ parsed' = [parsed EXCEPT ![t] = @ + 1]
  BY DEF ParseRow, ParseInv, Parsing, TypeOK, Jobs
<1>2. \A u \in Tiles :
        parsed[u] \in Nat /\ parsed'[u] = IF u = t THEN parsed[u] + 1 ELSE parsed[u]
  BY <1>1 DEF TypeOK
<1>3. Unparsed' \subseteq Unparsed
  BY <1>2, RowSet DEF Unparsed
<1>4. parsed[t] \in 0..(Rows[t] - 1)
  BY <1>1, <1>2, Sizes
<1> DEFINE s == <<t, parsed[t]>>
<1>5. s \in W!SbRows /\ s[1] = t /\ s[2] = parsed[t]
  BY <1>1, <1>4, RowSet
<1> HIDE DEF s
<1>6. s \in Unparsed /\ s \notin Unparsed'
  BY <1>1, <1>2, <1>5 DEF Unparsed
<1>7. IsFiniteSet(Unparsed)
  BY FiniteRows, FS_Subset DEF Unparsed
<1> QED
  BY <1>3, <1>6, <1>7, FewerThan

LEMMA StartsRow ==
  ASSUME IInv, NEW w \in Workers, StartRow(w)
  PROVE  Cardinality(Unstarted') < Cardinality(Unstarted)
<1> USE DEF IInv
<1>1. PICK t \in Tiles : parsed[t] > started[t] /\ started' = [started EXCEPT ![t] = @ + 1]
  BY NewRow
<1>2. \A u \in Tiles :
        started[u] \in Nat /\ started'[u] = IF u = t THEN started[u] + 1 ELSE started[u]
  BY <1>1 DEF TypeOK
<1>3. Unstarted' \subseteq Unstarted
  BY <1>2, RowSet DEF Unstarted
<1>4. started[t] \in 0..(Rows[t] - 1)
  BY <1>1, <1>2, Sizes DEF DecodeBehindParse, TypeOK
<1> DEFINE s == <<t, started[t]>>
<1>5. s \in W!SbRows /\ s[1] = t /\ s[2] = started[t]
  BY <1>1, <1>4, RowSet
<1> HIDE DEF s
<1>6. s \in Unstarted /\ s \notin Unstarted'
  BY <1>1, <1>2, <1>5 DEF Unstarted
<1>7. IsFiniteSet(Unstarted)
  BY FiniteRows, FS_Subset DEF Unstarted
<1> QED
  BY <1>3, <1>6, <1>7, FewerThan

LEMMA ReportsSb ==
  ASSUME IInv, ColInv, NEW w \in Workers, SyncWrite(w)
  PROVE  Cardinality(Unreported') < Cardinality(Unreported)
<1> USE DEF IInv
<1> DEFINE t == job[w].tile
           r == job[w].row
           c == job[w].col
<1>1. OnRow(w) /\ pc[w] # "endRow"
  BY DEF SyncWrite, OnRow, RowPCs
<1>2. /\ t \in Tiles /\ r \in 0..(Rows[t] - 1) /\ c \in 0..(Cols[t] - 1)
      /\ <<t, r>> \in W!SbRows /\ <<t, r, c>> \in W!Sbs /\ Cols[t] \in Nat
  BY <1>1, OwnSb, RowSet, SbSet, Sizes
<1>3. col[<<t, r>>] = c - 1
  BY <1>1 DEF ColInv
<1>4. col' = [col EXCEPT ![<<t, r>>] = Published(t, c)]
  BY DEF SyncWrite
<1>5. Published(t, c) \in Int /\ Published(t, c) >= c
  BY <1>2 DEF Published
<1>6. \A s \in W!SbRows :
        col[s] \in Int /\ col'[s] = IF s = <<t, r>> THEN Published(t, c) ELSE col[s]
  BY <1>4 DEF TypeOK
<1>7. \A sb \in W!Sbs : <<sb[1], sb[2]>> \in W!SbRows /\ sb[3] \in Nat
  BY RowSet, SbSet
<1> DEFINE me == <<t, r, c>>
<1>8. me \in W!Sbs /\ me[3] = c /\ <<me[1], me[2]>> = <<t, r>>
  BY <1>2
<1> HIDE DEF me, t, r, c
<1>9. Unreported' \subseteq Unreported
  <2> SUFFICES ASSUME NEW sb \in W!Sbs, sb[3] > col'[<<sb[1], sb[2]>>]
               PROVE  sb[3] > col[<<sb[1], sb[2]>>]
    BY DEF Unreported
  <2>1. col[<<t, r>>] < Published(t, c)
    BY <1>2, <1>3, <1>5
  <2>2. col[<<sb[1], sb[2]>>] <= col'[<<sb[1], sb[2]>>] /\ col[<<sb[1], sb[2]>>] \in Int
        /\ col'[<<sb[1], sb[2]>>] \in Int
    BY <1>5, <1>6, <1>7, <2>1
  <2> QED
    BY <1>7, <2>2
<1>10. me \in Unreported
  BY <1>2, <1>3, <1>8 DEF Unreported
<1>11. me \notin Unreported'
  BY <1>2, <1>5, <1>6, <1>8 DEF Unreported
<1>12. IsFiniteSet(Unreported)
  BY FiniteSbs, FS_Subset DEF Unreported
<1> QED
  BY <1>9, <1>10, <1>11, <1>12, FewerThan

LEMMA LeavesFrame ==
  ASSUME TypeOK, NEW w \in Workers, LeaveLoop(w) \/ Abort(w)
  PROVE  Cardinality(Present') < Cardinality(Present)
<1>1. pc[w] # "returned" /\ pc'[w] = "returned"
  BY ParseMoves, DecodeMoves DEF LeaveLoop, Abort, Moves
<1>2. \A v \in Workers : pc'[v] # "returned" => pc[v] # "returned"
  BY <1>1, ParseMoves, DecodeMoves DEF Moves
<1>3. Present' \subseteq Present /\ w \in Present /\ w \notin Present'
  BY <1>1, <1>2 DEF Present
<1>4. IsFiniteSet(Present)
  BY FiniteWorkers, FS_Subset DEF Present
<1> QED
  BY <1>3, <1>4, FewerThan

\* the other steps
MovesOn(w) ==
  \/ LaunchWorker(w) \/ NoTile(w) \/ BeginTile(w) \/ Overflow(w) \/ TrailingBits(w)
  \/ EndTile(w) \/ ParseError(w) \/ WaitForJob(w) \/ SyncRead(w) \/ DecodeSb(w) \/ EndRow(w)

LEMMA MovedOn ==
  ASSUME TypeOK, NEW w \in Workers, MovesOn(w)
  PROVE  /\ Ahead(w)' < Ahead(w) /\ pc[w] # "returned" /\ pc'[w] # "returned"
         /\ pc' \in [Workers -> PCs]
         /\ \A v \in Workers : v # w => pc'[v] = pc[v]
         /\ UNCHANGED <<queue, parsed, started, col>>
<1>1. /\ \A v \in Workers : v # w => pc'[v] = pc[v]
      /\ UNCHANGED <<queue, parsed, started, col>>
  BY DEF MovesOn, LaunchWorker, NoTile, BeginTile, Overflow, TrailingBits, EndTile, ParseError,
         WaitForJob, SyncRead, DecodeSb, EndRow, Goto, jobVars
<1>2. /\ pc' \in [Workers -> PCs]
      /\ \/ pc[w] = "idle" /\ pc'[w] = "tile"
         \/ pc[w] = "tile" /\ pc'[w] = "take"
         \/ pc[w] = "init" /\ pc'[w] \in {"parse", "abort"}
         \/ pc[w] = "parse" /\ pc'[w] \in {"endTile", "abort"}
         \/ pc[w] = "endTile" /\ pc'[w] \in {"abort", "tile"}
         \/ pc[w] = "take" /\ pc'[w] = "wait"
         \/ pc[w] = "read" /\ pc'[w] \in {"decode", "rowWait"}
         \/ pc[w] = "decode" /\ pc'[w] = "write"
         \/ pc[w] = "endRow" /\ pc'[w] = "take"
  <2>1. CASE LaunchWorker(w) \/ NoTile(w) \/ BeginTile(w) \/ Overflow(w) \/ TrailingBits(w)
    BY <2>1, ParseMoves DEF Moves, LaunchWorker, NoTile, BeginTile, Overflow, TrailingBits
  <2>2. CASE EndTile(w) \/ ParseError(w)
    BY <2>2, ParseMoves DEF Moves, EndTile, ParseError
  <2>3. CASE WaitForJob(w) \/ SyncRead(w) \/ DecodeSb(w) \/ EndRow(w)
    BY <2>3, DecodeMoves DEF Moves, WaitForJob, SyncRead, DecodeSb, EndRow
  <2> QED
    BY <2>1, <2>2, <2>3 DEF MovesOn
<1>3. Ahead(w)' < Ahead(w)
  BY <1>2 DEF Ahead
<1> QED
  BY <1>1, <1>2, <1>3

\* No worker goes round for ever in row_mt_worker_hook: each of its steps takes a tile,
\* parses or takes a row, reports a superblock, leaves the hook, or brings it nearer to
\* one of these, with errors in the tiles too; only a wake-up without a signal takes it
\* back.  With NoDeadlock this is why a frame ends.
THEOREM FrameTerminates ==
  Spec => [][\A w \in Workers : LaunchWorker(w) \/ Worker(w) => Closer]_vars
<1>1. Init => ColInv
  BY DEF Init, ColInv, OnRow, RowPCs
<1>2. IInv /\ ColInv /\ [Next]_vars => ColInv'
  <2>1. ASSUME ColInv, UNCHANGED vars PROVE ColInv'
    BY <2>1 DEF vars, ColInv, OnRow
  <2> QED
    BY <2>1, ColStep
<1>3. IInv /\ ColInv /\ [Next]_vars
        => [\A w \in Workers : LaunchWorker(w) \/ Worker(w) => Closer]_vars
  <2> SUFFICES ASSUME IInv, ColInv, NEW w \in Workers, LaunchWorker(w) \/ Worker(w)
               PROVE  Closer
    OBVIOUS
  <2>1. TypeOK
    BY DEF IInv
  <2>2. CASE TakeTile(w)
    BY <2>1, <2>2, TakesTile DEF Closer
  <2>3. CASE ParseRow(w)
    <3>1. queue' = queue
      BY <2>3 DEF ParseRow
    <3> QED
      BY <2>3, <3>1, ParsesRow DEF Closer
  <2>4. CASE StartRow(w)
    <3>1. queue' = queue /\ Unparsed' = Unparsed
      BY <2>4 DEF StartRow, Unparsed
    <3> QED
      BY <2>4, <3>1, StartsRow DEF Closer
  <2>5. CASE SyncWrite(w)
    <3>1. queue' = queue /\ Unparsed' = Unparsed /\ Unstarted' = Unstarted
      BY <2>5 DEF SyncWrite, Unparsed, Unstarted, jobVars
    <3> QED
      BY <2>5, <3>1, ReportsSb DEF Closer
  <2>6. CASE LeaveLoop(w) \/ Abort(w)
    <3>1. UNCHANGED <<queue, parsed, started, col>>
      BY <2>6 DEF LeaveLoop, Abort, jobVars
    <3>2. /\ queue' = queue /\ Unparsed' = Unparsed /\ Unstarted' = Unstarted
          /\ Unreported' = Unreported
      BY <3>1 DEF Unparsed, Unstarted, Unreported
    <3> QED
      BY <2>1, <2>6, <3>2, LeavesFrame DEF Closer
  <2>7. CASE MovesOn(w)
    <3>1. /\ Ahead(w)' < Ahead(w) /\ pc[w] # "returned" /\ pc'[w] # "returned"
          /\ pc' \in [Workers -> PCs]
          /\ \A v \in Workers : v # w => pc'[v] = pc[v]
          /\ UNCHANGED <<queue, parsed, started, col>>
      BY <2>1, <2>7, MovedOn
    <3>2. /\ queue' = queue /\ Unparsed' = Unparsed /\ Unstarted' = Unstarted
          /\ Unreported' = Unreported
      BY <3>1 DEF Unparsed, Unstarted, Unreported
    <3>3. Present' = Present
      BY <3>1 DEF Present
    <3>4. Cardinality(Places') < Cardinality(Places)
      BY <2>1, <3>1, OwnStep
    <3> QED
      BY <3>2, <3>3, <3>4 DEF Closer
  <2> QED
    BY <2>2, <2>3, <2>4, <2>5, <2>6, <2>7 DEF Worker, ParseSteps, DecodeSteps, MovesOn
<1> QED
  BY <1>1, <1>2, <1>3, AlwaysIInv, PTL DEF Spec
=============================================================================
