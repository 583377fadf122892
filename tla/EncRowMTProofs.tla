---------------------------- MODULE EncRowMTProofs ----------------------------
(***************************************************************************)
(* Proofs about EncRowMT, for any number of workers and tiles of any size.  *)
(* The inductive invariant says which rows are taken and by whom, how far   *)
(* each has come and reported, and which row wrote each context; that a     *)
(* superblock starts from the statistics of the row above, and that a frame *)
(* is complete when everybody has gone home, are consequences.              *)
(***************************************************************************)
EXTENDS EncRowMT, FiniteSetTheorems, WellFoundedInduction, TLAPS

RowPCs == {"read", "rowWait", "load", "encode", "save", "write", "endRow"}
OnRow(w) == pc[w] \in RowPCs
OnTile(t) == {w \in Workers : OnRow(w) /\ job[w].tile = t}
Row(w) == <<job[w].tile, job[w].row>>
Sb(w) == <<job[w].tile, job[w].row, job[w].col>>
SavesOwn(w) == Saves(job[w].tile, job[w].row, job[w].col)

IdleInv == ~busy => \A w \in Workers : pc[w] = "idle"

\* a worker on a row has taken it, and nobody else has
RowInv ==
  \A w \in Workers : OnRow(w) =>
    /\ job[w].row < next[job[w].tile]
    /\ IF pc[w] = "endRow" THEN job[w].col = Cols[job[w].tile]
       ELSE job[w].col < Cols[job[w].tile]

OneOwner ==
  \A v, w \in Workers : v # w /\ OnRow(v) /\ OnRow(w) => Row(v) # Row(w)

\* what a row has reported
FinishedInv ==
  /\ \A s \in W!SbRows : s[2] >= next[s[1]] => finished[s] = -1
  /\ \A w \in Workers : OnRow(w) /\ pc[w] # "endRow" => finished[Row(w)] = job[w].col - 1

\* what has been tested before a worker got where it is
ReadyInv ==
  \A w \in Workers :
    /\ pc[w] \in {"load", "encode"} /\ job[w].row > 0 =>
         finished[<<job[w].tile, job[w].row - 1>>] >= job[w].col + 1
    /\ pc[w] = "load" => job[w].row > 0
    /\ pc[w] = "save" => SavesOwn(w)

UpdateInv == \A w \in Workers : pc[w] = "load" => update

\* columns of a row somebody works on that are encoded
Reached(w) == IF pc[w] \in {"save", "write"} THEN job[w].col + 1 ELSE job[w].col

\* A column that is encoded has been reported by all rows above, which is what
\* keeps the contexts of a column apart.
CodedInv ==
  /\ \A sb \in coded : sb[2] < next[sb[1]]
  /\ \A w \in Workers : OnRow(w) =>
       \A k \in 0..(Cols[job[w].tile] - 1) :
         <<job[w].tile, job[w].row, k>> \in coded <=> k < Reached(w)
  /\ \A s \in W!SbRows : \A k \in 0..(Cols[s[1]] - 1) :
       k <= finished[s] => <<s[1], s[2], k>> \in coded
  /\ \A sb \in coded : \A r \in 0..(sb[2] - 1) : finished[<<sb[1], r>>] >= sb[3]

\* the column that saves an entry
Saver(t, i) == IF Cols[t] = 1 THEN 0 ELSE i + 1

ContextInv ==
  /\ \A x \in Contexts :
       rowCtx[x] >= 0 => <<x[1], rowCtx[x], Saver(x[1], x[2])>> \in coded
  /\ \A s \in W!SbRows : \A k \in 0..(Cols[s[1]] - 1) :
       k <= finished[s] /\ Saves(s[1], s[2], k) =>
         rowCtx[<<s[1], SaveEntry(s[1], k)>>] >= s[2]
  /\ \A w \in Workers : pc[w] = "write" /\ SavesOwn(w) =>
       rowCtx[<<job[w].tile, SaveEntry(job[w].tile, job[w].col)>>] >= job[w].row

CountInv == \A t \in Tiles : working[t] = Cardinality(OnTile(t))

\* a row that is taken is encoded or has a worker, and so has a tile with rows
\* left once somebody has gone home
CompleteInv ==
  /\ \A s \in W!SbRows : s[2] < next[s[1]] =>
       \/ \E w \in Workers : OnRow(w) /\ Row(w) = s
       \/ \A k \in 0..(Cols[s[1]] - 1) : <<s[1], s[2], k>> \in coded
  /\ \A t \in Tiles : HasRows(t) /\ (\E w \in Workers : pc[w] = "returned") =>
       \E w \in Workers : (OnRow(w) \/ pc[w] = "job") /\ job[w].tile = t

IInv == /\ TypeOK /\ IdleInv /\ RowInv /\ OneOwner /\ FinishedInv /\ ReadyInv
        /\ UpdateInv /\ CodedInv /\ ContextInv /\ CountInv /\ CompleteInv

-----------------------------------------------------------------------------
(* The sets the model is built from.                                        *)

LEMMA Sizes == \A t \in Tiles : Rows[t] \in Nat \ {0} /\ Cols[t] \in Nat \ {0}
BY TilesAssumption

LEMMA RowSet ==
  /\ \A t \in Tiles : \A r \in 0..(Rows[t] - 1) : <<t, r>> \in W!SbRows
  /\ \A s \in W!SbRows :
       s = <<s[1], s[2]>> /\ s[1] \in Tiles /\ s[2] \in 0..(Rows[s[1]] - 1)
BY DEF W!SbRows, W!Tiles, Tiles

LEMMA SbSet ==
  /\ \A t \in Tiles : \A r \in 0..(Rows[t] - 1), c \in 0..(Cols[t] - 1) :
       <<t, r, c>> \in W!Sbs
  /\ \A s \in W!Sbs :
       /\ s = <<s[1], s[2], s[3]>> /\ s[1] \in Tiles
       /\ s[2] \in 0..(Rows[s[1]] - 1) /\ s[3] \in 0..(Cols[s[1]] - 1)
BY DEF W!Sbs, W!Tiles, Tiles

LEMMA ContextSet ==
  /\ \A t \in Tiles : \A i \in Entries(t) : <<t, i>> \in Contexts
  /\ \A x \in Contexts :
       x = <<x[1], x[2]>> /\ x[1] \in Tiles /\ x[2] \in Entries(x[1])
BY DEF Contexts

\* each entry is saved at one column, the one its readers wait for
LEMMA EntryOfColumn ==
  ASSUME NEW t \in Tiles, NEW r, NEW c \in 0..(Cols[t] - 1)
  PROVE  /\ Saves(t, r, c) => /\ SaveEntry(t, c) \in Entries(t)
                              /\ Saver(t, SaveEntry(t, c)) = c
         /\ LoadEntry(t, c) \in Entries(t)
         /\ LET k == Saver(t, LoadEntry(t, c))
            IN /\ k \in 0..(Cols[t] - 1) /\ c <= k /\ k <= c + 1
               /\ Cols[t] = 1 \/ k >= 1
               /\ SaveEntry(t, k) = LoadEntry(t, c)
<1>1. Cols[t] \in Nat \ {0} /\ c \in Nat /\ c <= Cols[t] - 1
  BY Sizes
<1>2. CASE Cols[t] = 1
  BY <1>1, <1>2 DEF Saves, SaveEntry, LoadEntry, Entries, Saver
<1>3. CASE Cols[t] > 1
  BY <1>1, <1>3 DEF Saves, SaveEntry, LoadEntry, Entries, Saver
<1> QED
  BY <1>1, <1>2, <1>3

LEMMA FiniteOnTile ==
  ASSUME NEW t
  PROVE  IsFiniteSet(OnTile(t)) /\ Cardinality(OnTile(t)) \in Nat
<1>1. IsFiniteSet(Workers)
  BY FS_Interval, NumWorkersAssumption DEF Workers
<1> QED
  BY <1>1, FS_Subset, FS_CardinalityType DEF OnTile

-----------------------------------------------------------------------------
(* A step of worker w takes it to place "to"; others are woken at most.     *)

Step(w) == LaunchWorker(w) \/ Worker(w) \/ SpuriousWakeup(w)

Moves(w, to) ==
  /\ pc' \in [Workers -> PCs]
  /\ pc'[w] = to
  /\ \A v \in Workers : v # w => pc'[v] = pc[v] \/ (pc[v] = "rowWait" /\ pc'[v] = "read")

LEMMA GotoMoves ==
  ASSUME TypeOK, NEW w \in Workers, NEW to \in PCs, NEW woken, Goto(w, to, woken),
         \A v \in woken : pc[v] = "rowWait"
  PROVE  Moves(w, to)
BY DEF TypeOK, Goto, Moves, PCs

\* where each action takes its worker
LEMMA StepMoves ==
  ASSUME TypeOK, NEW w \in Workers
  PROVE  /\ LaunchWorker(w) => Moves(w, "job")
         /\ NextJob(w) => Moves(w, "read")
         /\ EndOfFrame(w) => Moves(w, "returned")
         /\ EndRow(w) => Moves(w, "job")
         /\ SyncRead(w) =>
              Moves(w, IF ~MayEncode(job[w].tile, job[w].row, job[w].col) THEN "rowWait"
                       ELSE IF update /\ job[w].row > 0 THEN "load" ELSE "encode")
         /\ LoadContext(w) => Moves(w, "encode")
         /\ EncodeSb(w) => Moves(w, IF SavesOwn(w) THEN "save" ELSE "write")
         /\ SaveContext(w) => Moves(w, "write")
         /\ SyncWrite(w) => Moves(w, IF job[w].col < Cols[job[w].tile] - 1
                                     THEN "read" ELSE "endRow")
         /\ SpuriousWakeup(w) => Moves(w, "read")
<1> USE DEF PCs
<1>1. LaunchWorker(w) => Moves(w, "job")
  BY GotoMoves DEF LaunchWorker
<1>2. NextJob(w) => Moves(w, "read")
  BY GotoMoves DEF NextJob
<1>3. EndOfFrame(w) => Moves(w, "returned")
  BY GotoMoves DEF EndOfFrame
<1>4. EndRow(w) => Moves(w, "job")
  BY GotoMoves DEF EndRow
<1>5. SyncRead(w) =>
        Moves(w, IF ~MayEncode(job[w].tile, job[w].row, job[w].col) THEN "rowWait"
                 ELSE IF update /\ job[w].row > 0 THEN "load" ELSE "encode")
  BY GotoMoves DEF SyncRead
<1>6. LoadContext(w) => Moves(w, "encode")
  BY GotoMoves DEF LoadContext
<1>7. EncodeSb(w) => Moves(w, IF SavesOwn(w) THEN "save" ELSE "write")
  BY GotoMoves DEF EncodeSb, SavesOwn
<1>8. SaveContext(w) => Moves(w, "write")
  BY GotoMoves DEF SaveContext
<1>9. SyncWrite(w) => Moves(w, IF job[w].col < Cols[job[w].tile] - 1
                               THEN "read" ELSE "endRow")
  BY GotoMoves DEF SyncWrite, RowWaiters
<1>10. SpuriousWakeup(w) => Moves(w, "read")
  BY GotoMoves DEF SpuriousWakeup
<1> QED
  BY <1>1, <1>2, <1>3, <1>4, <1>5, <1>6, <1>7, <1>8, <1>9, <1>10

LEMMA Keeps ==
  ASSUME NEW w \in Workers, Step(w)
  PROVE  /\ busy' = busy /\ update' = update
         /\ NextJob(w) \/ next' = next
         /\ NextJob(w) \/ EndRow(w) \/ working' = working
         /\ SyncWrite(w) \/ finished' = finished
         /\ EncodeSb(w) \/ coded' = coded
         /\ SaveContext(w) \/ rowCtx' = rowCtx
         /\ NextJob(w) \/ SyncWrite(w) \/ job' = job
BY DEF Step, Worker, ctxVars, LaunchWorker, NextJob, EndOfFrame, EndRow, SyncRead,
   LoadContext, EncodeSb, SaveContext, SyncWrite, SpuriousWakeup

LEMMA Others ==
  ASSUME TypeOK, NEW w \in Workers, Step(w), NEW v \in Workers, v # w
  PROVE  /\ job'[v] = job[v]
         /\ OnRow(v)' <=> OnRow(v)
         /\ pc'[v] # pc[v] => pc[v] = "rowWait" /\ pc'[v] = "read"
<1>1. pc'[v] # pc[v] => pc[v] = "rowWait" /\ pc'[v] = "read"
  BY StepMoves DEF Moves, Step, Worker
<1>2. job'[v] = job[v]
  BY Keeps, ZenonT(60) DEF TypeOK, NextJob, TakeRow, SyncWrite
<1> QED
  BY <1>1, <1>2 DEF OnRow, RowPCs

LEMMA StepBusy ==
  ASSUME TypeOK, IdleInv, NEW w \in Workers, Step(w)
  PROVE  busy
BY DEF Step, Worker, IdleInv, LaunchWorker, NextJob, EndOfFrame, EndRow, SyncRead,
   LoadContext, EncodeSb, SaveContext, SyncWrite, SpuriousWakeup

\* steps of a worker that stays at its superblock
Stays(w) == SyncRead(w) \/ LoadContext(w) \/ EncodeSb(w) \/ SaveContext(w) \/ SpuriousWakeup(w)

LEMMA StaysOnRow ==
  ASSUME TypeOK, NEW w \in Workers, Stays(w)
  PROVE  /\ OnRow(w) /\ OnRow(w)' /\ pc[w] # "endRow" /\ pc'[w] # "endRow"
         /\ job' = job /\ next' = next /\ finished' = finished
<1> USE DEF OnRow, RowPCs, Moves
<1>1. CASE SyncRead(w)
  BY <1>1, StepMoves DEF SyncRead
<1>2. CASE LoadContext(w)
  BY <1>2, StepMoves DEF LoadContext
<1>3. CASE EncodeSb(w)
  BY <1>3, StepMoves DEF EncodeSb
<1>4. CASE SaveContext(w)
  BY <1>4, StepMoves DEF SaveContext
<1>5. CASE SpuriousWakeup(w)
  BY <1>5, StepMoves DEF SpuriousWakeup
<1> QED
  BY <1>1, <1>2, <1>3, <1>4, <1>5 DEF Stays

\* the steps after which a worker is on a row
LEMMA RowSteps ==
  ASSUME TypeOK, NEW w \in Workers, Step(w), OnRow(w)'
  PROVE  NextJob(w) \/ Stays(w) \/ SyncWrite(w)
<1>1. ~LaunchWorker(w) /\ ~EndOfFrame(w) /\ ~EndRow(w)
  BY StepMoves DEF Moves, OnRow, RowPCs
<1> QED
  BY <1>1 DEF Step, Worker, Stays

\* what taking a row, writing its progress and coding a superblock do
LEMMA NewRow ==
  ASSUME TypeOK, NEW w \in Workers, NextJob(w)
  PROVE  \E t \in Tiles :
           /\ HasRows(t) /\ next[t] \in 0..(Rows[t] - 1)
           /\ job' = [job EXCEPT ![w] = [tile |-> t, row |-> next[t], col |-> 0]]
           /\ job'[w] = [tile |-> t, row |-> next[t], col |-> 0]
           /\ next' = [next EXCEPT ![t] = @ + 1]
           /\ working' = [working EXCEPT ![t] = @ + 1]
<1>1. PICK t \in Tiles : HasRows(t) /\ TakeRow(w, t)
  BY DEF NextJob, Best, Eligible, TypeOK, Jobs
<1>2. next[t] \in 0..(Rows[t] - 1)
  BY <1>1, Sizes DEF HasRows, TypeOK
<1> QED
  BY <1>1, <1>2 DEF TakeRow, TypeOK

\* what a worker on a row works on
LEMMA OwnSb ==
  ASSUME TypeOK, RowInv, NEW w \in Workers, OnRow(w)
  PROVE  /\ job[w].tile \in Tiles
         /\ job[w].row \in 0..(Rows[job[w].tile] - 1)
         /\ job[w].col \in Nat
         /\ Row(w) \in W!SbRows
         /\ pc[w] # "endRow" => /\ job[w].col \in 0..(Cols[job[w].tile] - 1)
                                /\ Sb(w) \in W!Sbs
<1>1. job[w].tile \in Tiles /\ job[w].row \in Nat /\ job[w].col \in Nat
  BY DEF TypeOK, Jobs
<1>2. job[w].row \in 0..(Rows[job[w].tile] - 1)
  BY <1>1, Sizes DEF TypeOK, RowInv
<1>3. pc[w] # "endRow" => job[w].col \in 0..(Cols[job[w].tile] - 1)
  BY <1>1, Sizes DEF RowInv
<1> QED
  BY <1>1, <1>2, <1>3, SbSet, RowSet DEF Sb, Row

LEMMA WrittenAt ==
  ASSUME TypeOK, RowInv, FinishedInv, NEW w \in Workers, SyncWrite(w)
  PROVE  /\ OnRow(w) /\ pc[w] = "write" /\ next' = next
         /\ job[w].tile \in Tiles /\ job[w].row \in Nat /\ job[w].col \in Nat
         /\ Cols[job[w].tile] \in Nat \ {0} /\ job[w].col <= Cols[job[w].tile] - 1
         /\ Row(w) \in W!SbRows /\ finished[Row(w)] = job[w].col - 1
<1>1. OnRow(w) /\ pc[w] = "write" /\ next' = next
  BY DEF SyncWrite, OnRow, RowPCs
<1>2. job[w].tile \in Tiles /\ job[w].row \in Nat /\ job[w].col \in Nat
  BY DEF TypeOK, Jobs
<1>3. Cols[job[w].tile] \in Nat \ {0}
  BY <1>2, Sizes
<1>4. job[w].col <= Cols[job[w].tile] - 1 /\ Row(w) \in W!SbRows
  BY <1>1, <1>2, <1>3, OwnSb
<1>5. finished[Row(w)] = job[w].col - 1
  BY <1>1 DEF FinishedInv
<1> QED
  BY <1>1, <1>2, <1>3, <1>4, <1>5

LEMMA WrittenProgress ==
  ASSUME TypeOK, RowInv, FinishedInv, NEW w \in Workers, SyncWrite(w)
  PROVE  \E n \in Int :
           /\ finished' = [finished EXCEPT ![Row(w)] = n]
           /\ n >= job[w].col
           /\ n = job[w].col \/ job[w].col = Cols[job[w].tile] - 1
<1> DEFINE n == Published(job[w].tile, job[w].col)
<1>1. finished' = [finished EXCEPT ![Row(w)] = n]
  BY DEF SyncWrite, Row
<1>2. /\ job[w].col \in Nat /\ Cols[job[w].tile] \in Nat \ {0}
      /\ job[w].col <= Cols[job[w].tile] - 1
  BY WrittenAt
<1>3. n \in Int /\ n >= job[w].col /\ (n = job[w].col \/ job[w].col = Cols[job[w].tile] - 1)
  BY <1>2 DEF Published
<1> HIDE DEF n
<1> QED
  BY <1>1, <1>3

LEMMA WrittenJob ==
  ASSUME TypeOK, RowInv, FinishedInv, NEW w \in Workers, SyncWrite(w)
  PROVE  /\ job'[w].tile = job[w].tile /\ job'[w].row = job[w].row
         /\ job'[w].col = job[w].col + 1
         /\ IF job[w].col = Cols[job[w].tile] - 1 THEN pc'[w] = "endRow" ELSE pc'[w] = "read"
<1>1. /\ job'[w].tile = job[w].tile /\ job'[w].row = job[w].row
      /\ job'[w].col = job[w].col + 1
  <2>1. job[w] \in Jobs
    BY DEF TypeOK
  <2>2. job' = [job EXCEPT ![w].col = job[w].col + 1]
    BY DEF SyncWrite
  <2> QED
    BY <2>1, <2>2 DEF TypeOK, Jobs
<1>2. pc'[w] = IF job[w].col < Cols[job[w].tile] - 1 THEN "read" ELSE "endRow"
  BY StepMoves DEF Moves
<1>3. /\ job[w].col \in Nat /\ Cols[job[w].tile] \in Nat
      /\ job[w].col <= Cols[job[w].tile] - 1
  BY WrittenAt
<1> QED
  BY <1>1, <1>2, <1>3

LEMMA FinishedGrows ==
  ASSUME TypeOK, RowInv, FinishedInv, NEW w \in Workers, Step(w), NEW s \in W!SbRows
  PROVE  /\ finished[s] \in Int /\ finished'[s] \in Int /\ finished'[s] >= finished[s]
         /\ finished'[s] = finished[s] \/ (SyncWrite(w) /\ s = Row(w))
<1>1. finished[s] \in Int
  BY DEF TypeOK
<1>2. CASE SyncWrite(w)
  <2>1. PICK x \in W!SbRows, n \in Int :
          x = Row(w) /\ n >= finished[x] /\ finished' = [finished EXCEPT ![x] = n]
    BY <1>2, WrittenAt, WrittenProgress
  <2>2. finished'[s] = IF s = x THEN n ELSE finished[s]
    BY <2>1 DEF TypeOK
  <2> QED
    BY <1>1, <1>2, <2>1, <2>2
<1>3. CASE ~SyncWrite(w)
  BY <1>1, <1>3, Keeps
<1> QED
  BY <1>2, <1>3

LEMMA NextGrows ==
  ASSUME TypeOK, NEW w \in Workers, Step(w), NEW t \in Tiles
  PROVE  next[t] \in Nat /\ next'[t] \in Nat /\ next'[t] >= next[t]
<1>1. CASE NextJob(w)
  <2>1. PICK u \in Tiles : next' = [next EXCEPT ![u] = @ + 1]
    BY <1>1, NewRow
  <2> QED
    BY <2>1 DEF TypeOK
<1>2. CASE ~NextJob(w)
  BY <1>2, Keeps DEF TypeOK
<1> QED
  BY <1>1, <1>2

-----------------------------------------------------------------------------
(* Between two frames nobody is on a row.                                   *)

LEMMA Boundary ==
  ASSUME TypeOK, IdleInv, StartFrame \/ EndFrame
  PROVE  /\ \A w \in Workers : ~OnRow(w) /\ pc[w] \notin RowPCs
         /\ \A w \in Workers : pc'[w] = "idle"
         /\ \A w \in Workers : (~OnRow(w))'
<1>1. CASE StartFrame
  BY <1>1 DEF StartFrame, IdleInv, OnRow, RowPCs
<1>2. CASE EndFrame
  BY <1>2 DEF EndFrame, OnRow, RowPCs
<1> QED
  BY <1>1, <1>2

LEMMA IdleStep == IInv /\ Next => IdleInv'
<1> SUFFICES ASSUME TypeOK, IdleInv, Next PROVE IdleInv'
  BY DEF IInv
<1>1. CASE StartFrame \/ EndFrame
  BY <1>1, Boundary DEF IdleInv
<1>2. ASSUME NEW w \in Workers, Step(w) PROVE IdleInv'
  BY <1>2, StepBusy, Keeps DEF IdleInv
<1> QED
  BY <1>1, <1>2 DEF Next, Step

-----------------------------------------------------------------------------
(* Types.                                                                   *)

LEMMA InitType == Init => TypeOK
<1> SUFFICES ASSUME Init PROVE TypeOK
  OBVIOUS
<1>1. [tile |-> 0, row |-> 0, col |-> 0] \in Jobs
  BY TilesAssumption DEF Jobs, Tiles
<1>2. /\ next \in [Tiles -> Nat] /\ working \in [Tiles -> Nat]
      /\ finished \in [W!SbRows -> Int] /\ rowCtx \in [Contexts -> Int]
  BY DEF Init
<1>3. \A t \in Tiles : next[t] <= Rows[t]
  BY Sizes DEF Init
<1>4. pc \in [Workers -> PCs] /\ job \in [Workers -> Jobs] /\ coded \in SUBSET W!Sbs
  BY <1>1 DEF Init, PCs
<1> QED
  BY <1>2, <1>3, <1>4 DEF Init, TypeOK

\* a worker on a row is counted there
LEMMA Counted ==
  ASSUME TypeOK, CountInv, NEW w \in Workers, OnRow(w)
  PROVE  working[job[w].tile] >= 1
<1> DEFINE t == job[w].tile
<1>1. w \in OnTile(t)
  BY DEF OnTile
<1>2. Cardinality(OnTile(t)) # 0
  BY <1>1, FiniteOnTile, FS_EmptySet
<1>3. t \in Tiles
  BY DEF TypeOK, Jobs
<1> QED
  BY <1>2, <1>3, FiniteOnTile DEF CountInv, TypeOK

LEMMA TypeStep == IInv /\ Next => TypeOK'
<1> SUFFICES ASSUME TypeOK, RowInv, FinishedInv, ReadyInv, CountInv, Next PROVE TypeOK'
  BY DEF IInv
<1>1. CASE StartFrame
  <2>1. \A w \in Workers : w % NumTiles \in Tiles
    BY NumWorkersAssumption, TilesAssumption DEF Workers, Tiles
  <2>2. \A w \in Workers : [tile |-> w % NumTiles, row |-> 0, col |-> 0] \in Jobs
    BY <2>1 DEF Jobs
  <2>3. job' \in [Workers -> Jobs]
    BY <1>1, <2>2 DEF StartFrame
  <2>4. /\ next' \in [Tiles -> Nat] /\ working' \in [Tiles -> Nat]
        /\ finished' \in [W!SbRows -> Int] /\ rowCtx' \in [Contexts -> Int]
    BY <1>1 DEF StartFrame
  <2>5. \A t \in Tiles : next'[t] <= Rows[t]
    BY <1>1, Sizes DEF StartFrame
  <2>6. /\ busy' \in BOOLEAN /\ cdfMode' \in BOOLEAN /\ update' \in BOOLEAN
        /\ memory' \in BOOLEAN /\ hasCtx' \in BOOLEAN
    BY <1>1 DEF StartFrame, TypeOK
  <2>7. pc' \in [Workers -> PCs] /\ coded' \in SUBSET W!Sbs
    BY <1>1 DEF StartFrame, TypeOK
  <2> QED
    BY <2>3, <2>4, <2>5, <2>6, <2>7 DEF TypeOK
<1>2. CASE EndFrame
  BY <1>2 DEF EndFrame, TypeOK, ctxVars, PCs
<1>3. ASSUME NEW w \in Workers, Step(w) PROVE TypeOK'
  <2>1. pc' \in [Workers -> PCs]
    BY <1>3, StepMoves DEF Moves, Step, Worker
  <2>2. UNCHANGED <<busy, cdfMode, update, memory, hasCtx>>
    BY <1>3 DEF Step, Worker, ctxVars, LaunchWorker, NextJob, EndOfFrame, EndRow, SyncRead,
       LoadContext, EncodeSb, SaveContext, SyncWrite, SpuriousWakeup
  <2>3. /\ next' \in [Tiles -> Nat] /\ \A t \in Tiles : next'[t] <= Rows[t]
        /\ working' \in [Tiles -> Nat]
    <3>1. CASE NextJob(w)
      <4>1. PICK t \in Tiles : /\ next[t] \in 0..(Rows[t] - 1)
                               /\ next' = [next EXCEPT ![t] = @ + 1]
                               /\ working' = [working EXCEPT ![t] = @ + 1]
        BY <3>1, NewRow
      <4>2. next[t] + 1 \in Nat /\ next[t] + 1 <= Rows[t]
        BY <4>1, Sizes
      <4> QED
        BY <4>1, <4>2 DEF TypeOK
    <3>2. CASE EndRow(w)
      <4>1. OnRow(w) /\ job[w].tile \in Tiles
        BY <3>2 DEF EndRow, OnRow, RowPCs, TypeOK, Jobs
      <4>2. working[job[w].tile] - 1 \in Nat
        BY <4>1, Counted DEF TypeOK
      <4> QED
        BY <3>2, <4>1, <4>2 DEF EndRow, TypeOK
    <3>3. CASE ~NextJob(w) /\ ~EndRow(w)
      BY <1>3, <3>3, Keeps DEF TypeOK
    <3> QED
      BY <3>1, <3>2, <3>3
  <2>4. finished' \in [W!SbRows -> Int]
    <3>1. CASE SyncWrite(w)
      BY <3>1, WrittenProgress DEF TypeOK
    <3>2. CASE ~SyncWrite(w)
      BY <1>3, <3>2, Keeps DEF TypeOK
    <3> QED
      BY <3>1, <3>2
  <2>5. rowCtx' \in [Contexts -> Int]
    <3>1. CASE SaveContext(w)
      <4>1. job[w].row \in Int
        BY DEF TypeOK, Jobs
      <4> QED
        BY <3>1, <4>1 DEF SaveContext, TypeOK
    <3>2. CASE ~SaveContext(w)
      BY <1>3, <3>2, Keeps DEF TypeOK
    <3> QED
      BY <3>1, <3>2
  <2>6. job' \in [Workers -> Jobs]
    <3>1. CASE NextJob(w)
      <4>1. PICK t \in Tiles : /\ next[t] \in 0..(Rows[t] - 1)
              /\ job' = [job EXCEPT ![w] = [tile |-> t, row |-> next[t], col |-> 0]]
        BY <3>1, NewRow
      <4>2. [tile |-> t, row |-> next[t], col |-> 0] \in Jobs
        BY <4>1, Sizes DEF Jobs
      <4> QED
        BY <4>1, <4>2 DEF TypeOK
    <3>2. CASE SyncWrite(w)
      BY <3>2 DEF SyncWrite, TypeOK, Jobs
    <3>3. CASE ~NextJob(w) /\ ~SyncWrite(w)
      BY <1>3, <3>3, Keeps DEF TypeOK
    <3> QED
      BY <3>1, <3>2, <3>3
  <2>7. coded' \in SUBSET W!Sbs
    <3>1. CASE EncodeSb(w)
      <4>1. Sb(w) \in W!Sbs
        BY <3>1, OwnSb DEF EncodeSb, OnRow, RowPCs
      <4> QED
        BY <3>1, <4>1 DEF EncodeSb, TypeOK, Sb
    <3>2. CASE ~EncodeSb(w)
      BY <1>3, <3>2, Keeps DEF TypeOK
    <3> QED
      BY <3>1, <3>2
  <2> QED
    BY <2>1, <2>2, <2>3, <2>4, <2>5, <2>6, <2>7 DEF TypeOK
<1> QED
  BY <1>1, <1>2, <1>3 DEF Next, Step

-----------------------------------------------------------------------------
(* Rows and their workers.                                                  *)

LEMMA RowStep == IInv /\ Next => RowInv'
<1> SUFFICES ASSUME TypeOK, IdleInv, RowInv, FinishedInv, Next PROVE RowInv'
  BY DEF IInv
<1>1. CASE StartFrame \/ EndFrame
  BY <1>1, Boundary DEF RowInv
<1>2. ASSUME NEW w \in Workers, Step(w) PROVE RowInv'
  <2> DEFINE Good(v) == OnRow(v)' =>
               /\ job'[v].row < next'[job'[v].tile]
               /\ IF pc'[v] = "endRow" THEN job'[v].col = Cols[job'[v].tile]
                  ELSE job'[v].col < Cols[job'[v].tile]
  <2>1. ASSUME NEW v \in Workers, v # w PROVE Good(v)
    <3>1. job'[v].tile \in Tiles /\ job'[v].row \in Nat /\ job'[v] = job[v]
      BY <1>2, <2>1, Others DEF TypeOK, Jobs
    <3>2. OnRow(v)' => OnRow(v) /\ (pc'[v] = "endRow" <=> pc[v] = "endRow")
      BY <1>2, <2>1, Others
    <3> QED
      BY <1>2, <3>1, <3>2, NextGrows DEF RowInv
  <2>2. Good(w)
    <3>1. CASE NextJob(w)
      <4>1. PICK t \in Tiles :
              /\ job'[w] = [tile |-> t, row |-> next[t], col |-> 0]
              /\ next' = [next EXCEPT ![t] = @ + 1]
        BY <3>1, NewRow
      <4> QED
        BY <3>1, <4>1, StepMoves, Sizes DEF Moves, TypeOK
    <3>2. CASE SyncWrite(w)
      <4>1. /\ OnRow(w) /\ next' = next
            /\ job[w].col \in Nat /\ Cols[job[w].tile] \in Nat
            /\ job[w].col <= Cols[job[w].tile] - 1
        BY <3>2, WrittenAt
      <4>2. /\ job'[w].tile = job[w].tile /\ job'[w].row = job[w].row
            /\ job'[w].col = job[w].col + 1
        BY <3>2, WrittenJob
      <4>3. IF job[w].col = Cols[job[w].tile] - 1 THEN pc'[w] = "endRow" ELSE pc'[w] = "read"
        BY <3>2, WrittenJob
      <4>4. job[w].row < next[job[w].tile]
        BY <4>1 DEF RowInv
      <4> QED
        BY <4>1, <4>2, <4>3, <4>4
    <3>3. CASE Stays(w)
      BY <3>3, StaysOnRow DEF RowInv
    <3> QED
      BY <1>2, <3>1, <3>2, <3>3, RowSteps
  <2> QED
    BY <2>1, <2>2 DEF RowInv
<1> QED
  BY <1>1, <1>2 DEF Next, Step

\* the row of a worker changes only when it takes one
LEMMA RowKept ==
  ASSUME TypeOK, RowInv, FinishedInv, NEW w \in Workers, Step(w),
         NEW v \in Workers, OnRow(v)', ~(v = w /\ NextJob(w))
  PROVE  OnRow(v) /\ job'[v].tile = job[v].tile /\ job'[v].row = job[v].row
<1>1. CASE v # w
  BY <1>1, Others
<1>2. CASE v = w /\ SyncWrite(w)
  <2>1. OnRow(w)
    BY <1>2, WrittenAt
  <2>2. job'[w].tile = job[w].tile /\ job'[w].row = job[w].row
    BY <1>2, WrittenJob
  <2> QED
    BY <1>2, <2>1, <2>2
<1>3. CASE v = w /\ Stays(w)
  BY <1>3, StaysOnRow
<1> QED
  BY <1>1, <1>2, <1>3, RowSteps

LEMMA OwnerStep == IInv /\ Next => OneOwner'
<1> SUFFICES ASSUME TypeOK, IdleInv, RowInv, OneOwner, FinishedInv, Next PROVE OneOwner'
  BY DEF IInv
<1>1. CASE StartFrame \/ EndFrame
  BY <1>1, Boundary DEF OneOwner
<1>2. ASSUME NEW w \in Workers, Step(w) PROVE OneOwner'
  <2>1. CASE NextJob(w)
    <3>1. PICK t \in Tiles : job'[w] = [tile |-> t, row |-> next[t], col |-> 0]
      BY <2>1, NewRow
    <3>2. ASSUME NEW v \in Workers, v # w, OnRow(v)'
          PROVE  job'[v].tile # job'[w].tile \/ job'[v].row # job'[w].row
      <4>1. OnRow(v) /\ job'[v] = job[v] /\ job[v].row \in Nat /\ job[v].row < next[job[v].tile]
        BY <1>2, <3>2, Others DEF RowInv, TypeOK, Jobs
      <4> QED
        BY <3>1, <4>1 DEF TypeOK
    <3>3. ASSUME NEW u \in Workers, NEW v \in Workers, u # v, u # w, v # w,
                 OnRow(u)', OnRow(v)'
          PROVE  Row(u)' # Row(v)'
      BY <1>2, <3>3, Others DEF OneOwner, Row
    <3> QED
      BY <3>2, <3>3 DEF OneOwner, Row
  <2>2. CASE ~NextJob(w)
    BY <1>2, <2>2, RowKept DEF OneOwner, Row
  <2> QED
    BY <2>1, <2>2
<1> QED
  BY <1>1, <1>2 DEF Next, Step

-----------------------------------------------------------------------------
(* What the rows have reported.                                             *)

LEMMA FinishedStep == IInv /\ Next => FinishedInv'
<1> SUFFICES ASSUME TypeOK, IdleInv, RowInv, OneOwner, FinishedInv, Next PROVE FinishedInv'
  BY DEF IInv
<1>1. CASE StartFrame
  BY <1>1, Boundary DEF StartFrame, FinishedInv
<1>2. CASE EndFrame
  BY <1>2, Boundary DEF EndFrame, FinishedInv
<1>3. ASSUME NEW w \in Workers, Step(w) PROVE FinishedInv'
  <2>1. ASSUME NEW s \in W!SbRows, s[2] >= next'[s[1]] PROVE finished'[s] = -1
    <3>1. s[1] \in Tiles /\ s[2] \in Nat
      BY RowSet, Sizes
    <3>2. next[s[1]] \in Nat /\ next'[s[1]] \in Nat /\ next'[s[1]] >= next[s[1]]
      BY <1>3, <3>1, NextGrows
    <3>3. s[2] >= next[s[1]] /\ ~(s[2] < next[s[1]])
      BY <2>1, <3>1, <3>2
    <3>4. finished[s] = -1
      BY <3>3 DEF FinishedInv
    <3>5. ~(SyncWrite(w) /\ s = Row(w))
      BY <3>3, WrittenAt DEF RowInv, Row
    <3> QED
      BY <1>3, <3>4, <3>5, FinishedGrows
  <2>2. ASSUME NEW v \in Workers, v # w, OnRow(v)', pc'[v] # "endRow"
        PROVE  finished'[Row(v)'] = job'[v].col - 1
    <3>1. OnRow(v) /\ job'[v] = job[v] /\ pc[v] # "endRow" /\ Row(v)' = Row(v)
      BY <1>3, <2>2, Others DEF Row
    <3>2. finished[Row(v)] = job[v].col - 1 /\ Row(v) \in W!SbRows
      BY <3>1, OwnSb DEF FinishedInv
    <3>3. ~(SyncWrite(w) /\ Row(v) = Row(w))
      BY <2>2, <3>1, WrittenAt DEF OneOwner
    <3>4. finished'[Row(v)] = finished[Row(v)]
      BY <1>3, <3>2, <3>3, FinishedGrows
    <3> QED
      BY <3>1, <3>2, <3>4
  <2>3. ASSUME OnRow(w)', pc'[w] # "endRow" PROVE finished'[Row(w)'] = job'[w].col - 1
    <3>1. CASE NextJob(w)
      <4>1. PICK t \in Tiles : /\ next[t] \in 0..(Rows[t] - 1)
                               /\ job'[w] = [tile |-> t, row |-> next[t], col |-> 0]
        BY <3>1, NewRow
      <4>2. Row(w)' = <<t, next[t]>> /\ job'[w].col = 0
        BY <4>1 DEF Row
      <4>3. <<t, next[t]>> \in W!SbRows
        BY <4>1, RowSet
      <4>4. finished[<<t, next[t]>>] = -1
        BY <4>1, <4>3 DEF FinishedInv
      <4>5. finished' = finished
        BY <3>1 DEF NextJob
      <4> QED
        BY <4>2, <4>4, <4>5
    <3>2. CASE SyncWrite(w)
      <4>1. PICK n \in Int : /\ finished' = [finished EXCEPT ![Row(w)] = n]
                             /\ n = job[w].col \/ job[w].col = Cols[job[w].tile] - 1
        BY <3>2, WrittenProgress
      <4>2. n = job[w].col
        BY <2>3, <3>2, <4>1, WrittenJob
      <4>3. Row(w)' = Row(w) /\ job'[w].col = job[w].col + 1 /\ job[w].col \in Nat
        BY <3>2, WrittenJob, WrittenAt DEF Row
      <4>4. finished'[Row(w)] = n
        BY <3>2, <4>1, WrittenAt DEF TypeOK
      <4> QED
        BY <4>2, <4>3, <4>4
    <3>3. CASE Stays(w)
      <4>1. Row(w)' = Row(w) /\ OnRow(w) /\ pc[w] # "endRow" /\ job' = job /\ finished' = finished
        BY <3>3, StaysOnRow DEF Row
      <4> QED
        BY <4>1 DEF FinishedInv
    <3> QED
      BY <1>3, <2>3, <3>1, <3>2, <3>3, RowSteps
  <2> QED
    BY <2>1, <2>2, <2>3 DEF FinishedInv
<1> QED
  BY <1>1, <1>2, <1>3 DEF Next, Step

LEMMA ReadyStep == IInv /\ Next => ReadyInv'
<1> SUFFICES ASSUME TypeOK, IdleInv, RowInv, FinishedInv, ReadyInv, Next PROVE ReadyInv'
  BY DEF IInv
<1>1. CASE StartFrame \/ EndFrame
  <2>1. \A v \in Workers : pc'[v] = "idle"
    BY <1>1, Boundary
  <2> QED
    BY <2>1 DEF ReadyInv
<1>2. ASSUME NEW w \in Workers, Step(w) PROVE ReadyInv'
  <2> DEFINE Above(v) == <<job[v].tile, job[v].row - 1>>
             Good(v) == /\ pc'[v] \in {"load", "encode"} /\ job'[v].row > 0 =>
                             finished'[<<job'[v].tile, job'[v].row - 1>>] >= job'[v].col + 1
                        /\ pc'[v] = "load" => job'[v].row > 0
                        /\ pc'[v] = "save" => SavesOwn(v)'
  <2>1. ASSUME NEW v \in Workers, OnRow(v), pc[v] # "endRow", job[v].row > 0
        PROVE  /\ finished[Above(v)] \in Int /\ finished'[Above(v)] \in Int
               /\ finished'[Above(v)] >= finished[Above(v)] /\ job[v].col \in Int
    <3>1. job[v].tile \in Tiles /\ job[v].row - 1 \in 0..(Rows[job[v].tile] - 1)
          /\ job[v].col \in Int
      BY <2>1, OwnSb, Sizes
    <3>2. Above(v) \in W!SbRows
      BY <3>1, RowSet
    <3> HIDE DEF Above
    <3> QED
      BY <1>2, <3>1, <3>2, FinishedGrows
  <2>2. ASSUME NEW v \in Workers, job'[v] = job[v], pc'[v] \in {"load", "encode"},
               pc[v] \in {"load", "encode"}, pc'[v] = "load" => pc[v] = "load"
        PROVE  Good(v)
    <3>1. job[v].row > 0 => finished[Above(v)] >= job[v].col + 1
      BY <2>2 DEF ReadyInv
    <3>2. OnRow(v) /\ pc[v] # "endRow"
      BY <2>2 DEF OnRow, RowPCs
    <3>3. pc'[v] = "load" => job[v].row > 0
      BY <2>2 DEF ReadyInv
    <3>4. job[v].row > 0 => finished'[Above(v)] >= job[v].col + 1
      <4> HIDE DEF Above
      <4> QED
        BY <2>1, <3>1, <3>2
    <3> QED
      BY <2>2, <3>3, <3>4
  <2>3. ASSUME NEW v \in Workers, v # w PROVE Good(v)
    <3>1. /\ job'[v] = job[v]
          /\ pc'[v] \in {"load", "encode", "save"} => pc'[v] = pc[v]
      BY <1>2, <2>3, Others
    <3>2. CASE pc'[v] \in {"load", "encode"}
      BY <2>2, <3>1, <3>2
    <3>3. CASE pc'[v] = "save"
      <4>1. update' = update /\ job'[v] = job[v] /\ pc'[v] = "save"
        BY <1>2, <3>1, <3>3, Keeps
      <4>2. SavesOwn(v)
        BY <3>1, <3>3 DEF ReadyInv
      <4>3. SavesOwn(v)'
        BY <4>1, <4>2 DEF SavesOwn, Saves
      <4> QED
        BY <4>1, <4>3
    <3>4. CASE pc'[v] \notin {"load", "encode", "save"}
      BY <3>4
    <3> QED
      BY <3>2, <3>3, <3>4
  <2>4. Good(w)
    <3>1. CASE SyncRead(w)
      <4>1. /\ OnRow(w) /\ pc[w] # "endRow" /\ job' = job /\ finished' = finished
            /\ pc'[w] \in {"load", "encode", "rowWait"}
            /\ pc'[w] = "load" => job[w].row > 0
            /\ pc'[w] # "rowWait" => MayEncode(job[w].tile, job[w].row, job[w].col)
        BY <3>1, StepMoves DEF SyncRead, OnRow, RowPCs, Moves
      <4>2. job[w].row > 0 /\ pc'[w] # "rowWait" => job[w].col <= finished[Above(w)] - 1
        BY <4>1 DEF MayEncode
      <4>3. job[w].row > 0 /\ pc'[w] # "rowWait" => finished[Above(w)] >= job[w].col + 1
        <5> HIDE DEF Above
        <5> QED
          BY <2>1, <4>1, <4>2
      <4> QED
        BY <4>1, <4>3
    <3>2. CASE LoadContext(w)
      <4>1. pc[w] = "load" /\ pc'[w] = "encode" /\ job' = job
        BY <3>2, StepMoves DEF LoadContext, Moves
      <4> QED
        BY <2>2, <4>1
    <3>3. CASE EncodeSb(w)
      <4>1. /\ job' = job /\ update' = update /\ pc'[w] \in {"save", "write"}
            /\ pc'[w] = "save" => SavesOwn(w)
        BY <1>2, <3>3, StepMoves, Keeps DEF EncodeSb, Moves
      <4> QED
        BY <4>1 DEF SavesOwn, Saves
    <3>4. CASE ~SyncRead(w) /\ ~LoadContext(w) /\ ~EncodeSb(w)
      <4>1. pc'[w] \notin {"load", "encode", "save"}
        BY <1>2, <3>4, StepMoves DEF Step, Worker, Moves
      <4> QED
        BY <4>1
    <3> QED
      BY <3>1, <3>2, <3>3, <3>4
  <2> QED
    BY <2>3, <2>4 DEF ReadyInv
<1> QED
  BY <1>1, <1>2 DEF Next, Step

LEMMA UpdateStep == IInv /\ Next => UpdateInv'
<1> SUFFICES ASSUME TypeOK, IdleInv, UpdateInv, Next PROVE UpdateInv'
  BY DEF IInv
<1>1. CASE StartFrame \/ EndFrame
  <2>1. \A v \in Workers : pc'[v] # "load"
    BY <1>1, Boundary
  <2> QED
    BY <2>1 DEF UpdateInv
<1>2. ASSUME NEW w \in Workers, Step(w), NEW v \in Workers, pc'[v] = "load" PROVE update'
  <2>1. CASE pc[v] = "load"
    BY <1>2, <2>1, Keeps DEF UpdateInv
  <2>2. CASE pc[v] # "load"
    <3>1. v = w
      BY <1>2, <2>2, Others
    <3>2. SyncRead(w)
      BY <1>2, <3>1, StepMoves DEF Step, Worker, Moves
    <3>3. update
      BY <1>2, <3>1, <3>2, StepMoves DEF Moves
    <3> QED
      BY <1>2, <3>3, Keeps
  <2> QED
    BY <2>1, <2>2
<1> QED
  BY <1>1, <1>2 DEF Next, Step, UpdateInv

-----------------------------------------------------------------------------
(* Which superblocks are encoded.                                           *)

LEMMA Encoded ==
  ASSUME TypeOK, RowInv, NEW w \in Workers, EncodeSb(w)
  PROVE  /\ OnRow(w) /\ pc[w] = "encode" /\ pc'[w] \in {"save", "write"}
         /\ job' = job /\ next' = next /\ finished' = finished
         /\ coded' = coded \cup {Sb(w)} /\ Sb(w) \in W!Sbs
<1>1. OnRow(w) /\ pc[w] = "encode"
  BY DEF EncodeSb, OnRow, RowPCs
<1>2. pc'[w] \in {"save", "write"}
  BY StepMoves DEF Moves
<1>3. coded' = coded \cup {Sb(w)}
  BY DEF EncodeSb, Sb
<1> QED
  BY <1>1, <1>2, <1>3, OwnSb DEF EncodeSb

LEMMA CodedGrows ==
  ASSUME TypeOK, RowInv, NEW w \in Workers, Step(w)
  PROVE  /\ coded \subseteq coded'
         /\ \A sb \in coded' : sb \in coded \/ (EncodeSb(w) /\ sb = Sb(w))
         /\ \A sb \in coded' : sb \in W!Sbs
<1>1. CASE EncodeSb(w)
  BY <1>1, Encoded DEF TypeOK
<1>2. CASE ~EncodeSb(w)
  BY <1>2, Keeps DEF TypeOK
<1> QED
  BY <1>1, <1>2

\* the new superblock has been reported by all rows above
LEMMA EncodedBehind ==
  ASSUME TypeOK, RowInv, ReadyInv, CodedInv, NEW w \in Workers, EncodeSb(w),
         NEW r \in 0..(job[w].row - 1)
  PROVE  finished[<<job[w].tile, r>>] >= job[w].col
<1> DEFINE t == job[w].tile
           q == job[w].row
           c == job[w].col
<1>1. OnRow(w) /\ pc[w] = "encode"
  BY Encoded
<1>2. t \in Tiles /\ q \in 0..(Rows[t] - 1) /\ c \in 0..(Cols[t] - 1) /\ Rows[t] \in Nat
  BY <1>1, OwnSb, Sizes
<1>3. /\ <<t, q - 1>> \in W!SbRows /\ finished[<<t, q - 1>>] \in Int
      /\ finished[<<t, q - 1>>] >= c + 1
  <2>1. q > 0 /\ q - 1 \in 0..(Rows[t] - 1)
    BY <1>2
  <2>2. <<t, q - 1>> \in W!SbRows
    BY <1>2, <2>1, RowSet
  <2>3. finished[<<t, q - 1>>] >= c + 1
    BY <1>1, <2>1 DEF ReadyInv
  <2> QED
    BY <2>2, <2>3 DEF TypeOK
<1> HIDE DEF t, q, c
<1>4. CASE r = q - 1
  BY <1>2, <1>3, <1>4 DEF t, c
<1>5. CASE r < q - 1
  <2>1. c <= finished[<<t, q - 1>>]
    BY <1>2, <1>3
  <2>2. <<t, q - 1, c>> \in coded
    BY <1>2, <1>3, <2>1 DEF CodedInv
  <2>3. r \in 0..((q - 1) - 1)
    BY <1>2, <1>5
  <2> QED
    BY <2>2, <2>3 DEF CodedInv, t, c
<1> QED
  BY <1>2, <1>4, <1>5 DEF q

LEMMA CodedStep == IInv /\ Next => CodedInv'
<1> SUFFICES ASSUME TypeOK, IdleInv, RowInv, OneOwner, FinishedInv, ReadyInv, CodedInv, Next
             PROVE  CodedInv'
  BY DEF IInv
<1>1. CASE StartFrame
  <2>1. coded' = {} /\ \A s \in W!SbRows : finished'[s] = -1
    BY <1>1 DEF StartFrame
  <2>2. \A s \in W!SbRows : \A k \in 0..(Cols[s[1]] - 1) : ~(k <= finished'[s])
    BY <2>1, RowSet, Sizes
  <2> QED
    BY <1>1, <2>1, <2>2, Boundary DEF CodedInv
<1>2. CASE EndFrame
  <2>1. coded' = coded /\ finished' = finished /\ next' = next
    BY <1>2 DEF EndFrame
  <2> QED
    BY <1>2, <2>1, Boundary DEF CodedInv
<1>3. ASSUME NEW w \in Workers, Step(w) PROVE CodedInv'
  <2>1. ASSUME NEW sb \in coded' PROVE sb[2] < next'[sb[1]]
    <3>1. sb[1] \in Tiles /\ sb[2] \in Nat
      BY <1>3, <2>1, CodedGrows, SbSet, Sizes
    <3>2. sb[2] < next[sb[1]]
      <4>1. CASE sb \in coded
        BY <4>1 DEF CodedInv
      <4>2. CASE EncodeSb(w) /\ sb = Sb(w)
        BY <4>2, Encoded DEF RowInv, Sb
      <4> QED
        BY <1>3, <4>1, <4>2, CodedGrows
    <3> QED
      BY <1>3, <3>1, <3>2, NextGrows
  <2>2. ASSUME NEW v \in Workers, OnRow(v)', NEW k \in 0..(Cols[job'[v].tile] - 1)
        PROVE  <<job'[v].tile, job'[v].row, k>> \in coded' <=> k < Reached(v)'
    <3>1. CASE v # w
      <4>1. OnRow(v) /\ job'[v] = job[v] /\ Reached(v)' = Reached(v)
        BY <1>3, <2>2, <3>1, Others DEF Reached
      <4>2. <<job[v].tile, job[v].row, k>> \in coded <=> k < Reached(v)
        BY <2>2, <4>1 DEF CodedInv
      <4>3. EncodeSb(w) => <<job[v].tile, job[v].row, k>> # Sb(w)
        BY <3>1, <4>1, Encoded DEF OneOwner, Sb, Row
      <4> QED
        BY <1>3, <4>1, <4>2, <4>3, CodedGrows
    <3>2. CASE v = w /\ NextJob(w)
      <4>1. PICK t \in Tiles : /\ next[t] \in 0..(Rows[t] - 1)
                               /\ job'[w] = [tile |-> t, row |-> next[t], col |-> 0]
        BY <3>2, NewRow
      <4>2. pc'[w] = "read" /\ coded' = coded
        BY <3>2, StepMoves DEF Moves, NextJob
      <4>3. Reached(w)' = 0
        BY <4>1, <4>2 DEF Reached
      <4>4. <<t, next[t], k>> \notin coded
        BY <4>1 DEF CodedInv
      <4>5. ~(k < 0)
        BY <2>2, <3>2, <4>1, Sizes
      <4> QED
        BY <3>2, <4>1, <4>2, <4>3, <4>4, <4>5
    <3>3. CASE v = w /\ SyncWrite(w)
      <4>1. /\ OnRow(w) /\ pc[w] = "write" /\ job[w].col \in Nat
            /\ pc'[w] \in {"read", "endRow"}
        BY <3>3, WrittenAt, WrittenJob
      <4>2. job'[w].tile = job[w].tile /\ job'[w].row = job[w].row
            /\ job'[w].col = job[w].col + 1
        BY <3>3, WrittenJob
      <4>3. coded' = coded
        BY <3>3 DEF SyncWrite
      <4>4. Reached(w)' = Reached(w)
        BY <4>1, <4>2 DEF Reached
      <4> QED
        BY <2>2, <3>3, <4>1, <4>2, <4>3, <4>4 DEF CodedInv
    <3>4. CASE v = w /\ EncodeSb(w)
      <4>1. /\ OnRow(w) /\ job'[w] = job[w] /\ coded' = coded \cup {Sb(w)}
            /\ Reached(w)' = job[w].col + 1 /\ Reached(w) = job[w].col
        BY <3>4, Encoded DEF Reached
      <4>2. job[w].col \in Nat /\ k \in Nat
        BY <2>2, <3>4, <4>1, OwnSb, Sizes
      <4>3. <<job[w].tile, job[w].row, k>> \in coded <=> k < job[w].col
        BY <2>2, <3>4, <4>1 DEF CodedInv
      <4>4. <<job[w].tile, job[w].row, k>> = Sb(w) <=> k = job[w].col
        BY DEF Sb
      <4> QED
        BY <3>4, <4>1, <4>2, <4>3, <4>4
    <3>5. CASE v = w /\ Stays(w) /\ ~EncodeSb(w)
      <4>1. OnRow(w) /\ job' = job
        BY <3>5, StaysOnRow
      <4>2. coded' = coded
        BY <1>3, <3>5, Keeps
      <4>3. pc[w] \in {"save", "write"} <=> pc'[w] \in {"save", "write"}
        BY <3>5, StepMoves DEF Stays, Moves, SyncRead, LoadContext, SaveContext, SpuriousWakeup
      <4>4. Reached(w)' = Reached(w)
        BY <4>1, <4>3 DEF Reached
      <4> QED
        BY <2>2, <3>5, <4>1, <4>2, <4>4 DEF CodedInv
    <3> QED
      BY <1>3, <2>2, <3>1, <3>2, <3>3, <3>4, <3>5, RowSteps
  <2>3. ASSUME NEW s \in W!SbRows, NEW k \in 0..(Cols[s[1]] - 1), k <= finished'[s]
        PROVE  <<s[1], s[2], k>> \in coded'
    <3>1. CASE finished'[s] = finished[s]
      BY <1>3, <2>3, <3>1, CodedGrows DEF CodedInv
    <3>2. CASE SyncWrite(w) /\ s = Row(w)
      <4>1. PICK n \in Int : /\ finished' = [finished EXCEPT ![Row(w)] = n]
                             /\ n = job[w].col \/ job[w].col = Cols[job[w].tile] - 1
        BY <3>2, WrittenProgress
      <4>2. finished'[s] = n
        BY <3>2, <4>1, WrittenAt DEF TypeOK
      <4>3. s[1] = job[w].tile /\ s[2] = job[w].row
        BY <3>2 DEF Row
      <4>4. /\ OnRow(w) /\ pc[w] = "write" /\ job[w].col \in Nat
            /\ Cols[job[w].tile] \in Nat
        BY <3>2, WrittenAt
      <4>5. k < Reached(w)
        <5>1. k <= n /\ k <= Cols[job[w].tile] - 1 /\ k \in Int
          BY <2>3, <4>2, <4>3, <4>4
        <5> QED
          BY <4>1, <4>4, <5>1 DEF Reached
      <4> QED
        BY <1>3, <2>3, <4>3, <4>4, <4>5, CodedGrows DEF CodedInv
    <3> QED
      BY <1>3, <3>1, <3>2, FinishedGrows
  <2>4. ASSUME NEW sb \in coded', NEW r \in 0..(sb[2] - 1)
        PROVE  finished'[<<sb[1], r>>] >= sb[3]
    <3>1. /\ sb[1] \in Tiles /\ sb[2] \in 0..(Rows[sb[1]] - 1) /\ sb[3] \in Int
          /\ Rows[sb[1]] \in Nat
      BY <1>3, <2>4, CodedGrows, SbSet, Sizes
    <3>2. <<sb[1], r>> \in W!SbRows
      <4>1. r \in 0..(Rows[sb[1]] - 1)
        BY <2>4, <3>1
      <4> QED
        BY <3>1, <4>1, RowSet
    <3>3. CASE sb \in coded
      <4>1. finished[<<sb[1], r>>] >= sb[3]
        BY <2>4, <3>3 DEF CodedInv
      <4> QED
        BY <1>3, <3>1, <3>2, <4>1, FinishedGrows
    <3>4. CASE EncodeSb(w) /\ sb = Sb(w)
      <4>1. sb[1] = job[w].tile /\ sb[2] = job[w].row /\ sb[3] = job[w].col
        BY <3>4 DEF Sb
      <4>2. finished[<<job[w].tile, r>>] >= job[w].col
        BY <2>4, <3>4, <4>1, EncodedBehind
      <4> QED
        BY <3>4, <4>1, <4>2, Encoded
    <3> QED
      BY <1>3, <2>4, <3>3, <3>4, CodedGrows
  <2> QED
    BY <2>1, <2>2, <2>3, <2>4 DEF CodedInv
<1> QED
  BY <1>1, <1>2, <1>3 DEF Next, Step

-----------------------------------------------------------------------------
(* Which row wrote a context.                                               *)

\* no row below has encoded a column that a worker has not reported
LEMMA NoneBelow ==
  ASSUME TypeOK, RowInv, FinishedInv, CodedInv, NEW w \in Workers, OnRow(w),
         pc[w] # "endRow", NEW q \in Nat, NEW k \in Nat, k >= job[w].col,
         <<job[w].tile, q, k>> \in coded
  PROVE  q <= job[w].row
<1>1. job[w].row \in Nat /\ job[w].col \in Nat
  BY DEF TypeOK, Jobs
<1>2. finished[<<job[w].tile, job[w].row>>] = job[w].col - 1
  BY DEF FinishedInv, Row
<1>3. job[w].row \in 0..(q - 1) => finished[<<job[w].tile, job[w].row>>] >= k
  BY DEF CodedInv
<1> QED
  BY <1>1, <1>2, <1>3

LEMMA Saved ==
  ASSUME TypeOK, RowInv, ReadyInv, CodedInv, NEW w \in Workers, SaveContext(w)
  PROVE  \E x \in Contexts :
           /\ x = <<job[w].tile, SaveEntry(job[w].tile, job[w].col)>>
           /\ Saver(x[1], x[2]) = job[w].col
           /\ rowCtx' = [rowCtx EXCEPT ![x] = job[w].row]
           /\ Sb(w) \in coded /\ OnRow(w) /\ pc[w] = "save" /\ SavesOwn(w)
<1> DEFINE t == job[w].tile
           c == job[w].col
           x == <<t, SaveEntry(t, c)>>
<1>1. OnRow(w) /\ pc[w] = "save" /\ SavesOwn(w)
  BY DEF SaveContext, OnRow, RowPCs, ReadyInv
<1>2. t \in Tiles /\ c \in 0..(Cols[t] - 1) /\ c \in Nat
  BY <1>1, OwnSb
<1>3. SaveEntry(t, c) \in Entries(t) /\ Saver(t, SaveEntry(t, c)) = c
  BY <1>1, <1>2, EntryOfColumn DEF SavesOwn
<1>4. x \in Contexts /\ x[1] = t /\ x[2] = SaveEntry(t, c)
  BY <1>2, <1>3, ContextSet
<1>5. rowCtx' = [rowCtx EXCEPT ![x] = job[w].row]
  BY DEF SaveContext
<1>6. Sb(w) \in coded
  BY <1>1, <1>2 DEF CodedInv, Reached, Sb
<1> QED
  BY <1>1, <1>3, <1>4, <1>5, <1>6

\* the rows that write an entry come one after the other
LEMMA ContextGrows ==
  ASSUME IInv, NEW w \in Workers, Step(w), NEW x \in Contexts
  PROVE  rowCtx[x] \in Int /\ rowCtx'[x] \in Int /\ rowCtx'[x] >= rowCtx[x]
<1> USE DEF IInv
<1>1. rowCtx[x] \in Int
  BY DEF TypeOK
<1>2. CASE SaveContext(w)
  <2>1. PICK y \in Contexts :
          /\ y = <<job[w].tile, SaveEntry(job[w].tile, job[w].col)>>
          /\ Saver(y[1], y[2]) = job[w].col
          /\ rowCtx' = [rowCtx EXCEPT ![y] = job[w].row]
          /\ OnRow(w) /\ pc[w] = "save"
    BY <1>2, Saved
  <2>2. job[w].row \in Nat /\ job[w].col \in Nat
    BY DEF TypeOK, Jobs
  <2>3. rowCtx'[x] = IF x = y THEN job[w].row ELSE rowCtx[x]
    BY <2>1 DEF TypeOK
  <2>4. x = y /\ rowCtx[x] >= 0 => rowCtx[x] <= job[w].row
    <3>1. x = y /\ rowCtx[x] >= 0 => <<job[w].tile, rowCtx[x], job[w].col>> \in coded
      BY <2>1 DEF ContextInv
    <3> QED
      BY <1>1, <2>1, <2>2, <3>1, NoneBelow
  <2> QED
    BY <1>1, <2>2, <2>3, <2>4
<1>3. CASE ~SaveContext(w)
  BY <1>1, <1>3, Keeps
<1> QED
  BY <1>2, <1>3

LEMMA ContextStep == IInv /\ Next => ContextInv'
<1> SUFFICES ASSUME IInv, Next PROVE ContextInv'
  OBVIOUS
<1> USE DEF IInv
<1>1. CASE StartFrame
  <2>1. \A x \in Contexts : ~(rowCtx'[x] >= 0)
    BY <1>1 DEF StartFrame
  <2>2. \A s \in W!SbRows : \A k \in 0..(Cols[s[1]] - 1) : ~(k <= finished'[s])
    BY <1>1, RowSet, Sizes DEF StartFrame
  <2>3. \A w \in Workers : pc'[w] # "write"
    BY <1>1, Boundary
  <2> QED
    BY <2>1, <2>2, <2>3 DEF ContextInv
<1>2. CASE EndFrame
  <2>1. rowCtx' = rowCtx /\ coded' = coded /\ finished' = finished
    BY <1>2 DEF EndFrame
  <2>2. \A t, r, k : Saves(t, r, k)' <=> Saves(t, r, k)
    BY <1>2 DEF EndFrame, ctxVars, Saves
  <2>3. \A w \in Workers : pc'[w] # "write"
    BY <1>2, Boundary
  <2> QED
    BY <2>1, <2>2, <2>3 DEF ContextInv
<1>3. ASSUME NEW w \in Workers, Step(w) PROVE ContextInv'
  <2>1. ASSUME NEW x \in Contexts, rowCtx'[x] >= 0
        PROVE  <<x[1], rowCtx'[x], Saver(x[1], x[2])>> \in coded'
    <3>1. CASE rowCtx'[x] = rowCtx[x]
      BY <1>3, <2>1, <3>1, CodedGrows DEF ContextInv
    <3>2. CASE SaveContext(w) /\ rowCtx'[x] # rowCtx[x]
      <4>1. PICK y \in Contexts :
              /\ y = <<job[w].tile, SaveEntry(job[w].tile, job[w].col)>>
              /\ Saver(y[1], y[2]) = job[w].col
              /\ rowCtx' = [rowCtx EXCEPT ![y] = job[w].row]
              /\ Sb(w) \in coded
        BY <3>2, Saved
      <4>2. x = y /\ rowCtx'[x] = job[w].row
        BY <3>2, <4>1 DEF TypeOK
      <4>3. <<x[1], rowCtx'[x], Saver(x[1], x[2])>> = Sb(w)
        BY <4>1, <4>2 DEF Sb
      <4> QED
        BY <1>3, <4>1, <4>3, CodedGrows
    <3> QED
      BY <1>3, <3>1, <3>2, Keeps
  <2>2. \A t, r, k : Saves(t, r, k)' <=> Saves(t, r, k)
    BY <1>3, Keeps DEF Saves
  <2>3. ASSUME NEW s \in W!SbRows, NEW k \in 0..(Cols[s[1]] - 1),
               k <= finished'[s], Saves(s[1], s[2], k)
        PROVE  rowCtx'[<<s[1], SaveEntry(s[1], k)>>] >= s[2]
    <3> DEFINE x == <<s[1], SaveEntry(s[1], k)>>
    <3>1. s[1] \in Tiles /\ s[2] \in Nat /\ k \in Nat
      BY RowSet, Sizes
    <3>2. x \in Contexts
      BY <2>3, <3>1, EntryOfColumn, ContextSet
    <3>3. rowCtx[x] >= s[2]
      <4>1. CASE k <= finished[s]
        BY <2>3, <4>1 DEF ContextInv
      <4>2. CASE ~(k <= finished[s])
        <5>1. finished[s] \in Int /\ SyncWrite(w) /\ s = Row(w)
          BY <1>3, <2>3, <4>2, FinishedGrows
        <5>2. PICK n \in Int : /\ finished' = [finished EXCEPT ![Row(w)] = n]
                               /\ n = job[w].col \/ job[w].col = Cols[job[w].tile] - 1
          BY <5>1, WrittenProgress
        <5>3. finished'[s] = n
          BY <5>1, <5>2 DEF TypeOK
        <5>4. s[1] = job[w].tile /\ s[2] = job[w].row
          BY <5>1 DEF Row
        <5>5. /\ pc[w] = "write" /\ finished[s] = job[w].col - 1
              /\ job[w].col \in Nat /\ Cols[job[w].tile] \in Nat
          BY <5>1, WrittenAt
        <5>6. k = job[w].col
          BY <2>3, <3>1, <4>2, <5>2, <5>3, <5>4, <5>5
        <5> QED
          BY <2>3, <5>4, <5>5, <5>6 DEF ContextInv, SavesOwn
      <4> QED
        BY <4>1, <4>2
    <3> HIDE DEF x
    <3>4. rowCtx'[x] >= s[2]
      BY <1>3, <3>1, <3>2, <3>3, ContextGrows
    <3> QED
      BY <3>4 DEF x
  <2>4. ASSUME NEW v \in Workers, pc'[v] = "write", SavesOwn(v)'
        PROVE  rowCtx'[<<job'[v].tile, SaveEntry(job'[v].tile, job'[v].col)>>] >= job'[v].row
    <3>1. CASE v # w
      <4> DEFINE x == <<job[v].tile, SaveEntry(job[v].tile, job[v].col)>>
      <4>1. job'[v] = job[v] /\ pc[v] = "write" /\ SavesOwn(v)
        BY <1>3, <2>2, <2>4, <3>1, Others DEF SavesOwn
      <4>2. OnRow(v) /\ job[v].row \in Int
        BY <4>1 DEF OnRow, RowPCs, TypeOK, Jobs
      <4>3. x \in Contexts
        BY <4>1, <4>2, OwnSb, EntryOfColumn, ContextSet DEF SavesOwn
      <4>4. rowCtx[x] >= job[v].row
        BY <4>1 DEF ContextInv
      <4> HIDE DEF x
      <4>5. rowCtx'[x] >= job[v].row
        BY <1>3, <4>2, <4>3, <4>4, ContextGrows
      <4> QED
        BY <4>1, <4>5 DEF x
    <3>2. CASE v = w
      <4>1. SaveContext(w)
        <5>1. EncodeSb(w) => job' = job /\ (pc'[w] = "write" => ~SavesOwn(w))
          BY StepMoves DEF Moves, EncodeSb
        <5>2. ~EncodeSb(w)
          BY <2>2, <2>4, <3>2, <5>1 DEF SavesOwn
        <5> QED
          BY <1>3, <2>4, <3>2, <5>2, StepMoves DEF Step, Worker, Moves
      <4>2. PICK x \in Contexts :
              /\ x = <<job[w].tile, SaveEntry(job[w].tile, job[w].col)>>
              /\ rowCtx' = [rowCtx EXCEPT ![x] = job[w].row]
        BY <4>1, Saved
      <4>3. job' = job /\ job[w].row \in Nat
        BY <4>1 DEF SaveContext, TypeOK, Jobs
      <4>4. rowCtx'[x] = job[w].row
        BY <4>2 DEF TypeOK
      <4> QED
        BY <3>2, <4>2, <4>3, <4>4
    <3> QED
      BY <3>1, <3>2
  <2> QED
    BY <2>1, <2>2, <2>3, <2>4 DEF ContextInv
<1> QED
  BY <1>1, <1>2, <1>3 DEF Next, Step

-----------------------------------------------------------------------------
(* The number of workers on a tile.                                         *)

LEMMA OthersOnTile ==
  ASSUME TypeOK, NEW w \in Workers, Step(w), NEW t, NEW v \in Workers, v # w
  PROVE  v \in OnTile(t)' <=> v \in OnTile(t)
BY Others DEF OnTile

\* only taking and leaving a row changes it
LEMMA OnTileKept ==
  ASSUME TypeOK, RowInv, FinishedInv, NEW w \in Workers, Step(w), ~NextJob(w), ~EndRow(w),
         NEW t \in Tiles
  PROVE  OnTile(t)' = OnTile(t)
<1>1. w \in OnTile(t)' <=> w \in OnTile(t)
  <2>1. CASE Stays(w)
    BY <2>1, StaysOnRow DEF OnTile
  <2>2. CASE SyncWrite(w)
    <3>1. OnRow(w) /\ job'[w].tile = job[w].tile /\ pc'[w] \in {"read", "endRow"}
      BY <2>2, WrittenAt, WrittenJob
    <3> QED
      BY <3>1 DEF OnTile, OnRow, RowPCs
  <2>3. CASE LaunchWorker(w)
    BY <2>3, StepMoves DEF LaunchWorker, Moves, OnTile, OnRow, RowPCs
  <2>4. CASE EndOfFrame(w)
    BY <2>4, StepMoves DEF EndOfFrame, Moves, OnTile, OnRow, RowPCs
  <2> QED
    BY <2>1, <2>2, <2>3, <2>4 DEF Step, Worker, Stays
<1> QED
  BY <1>1, OthersOnTile DEF OnTile

LEMMA CountStep == IInv /\ Next => CountInv'
<1> SUFFICES ASSUME TypeOK, IdleInv, RowInv, FinishedInv, CountInv, Next,
                    NEW t \in Tiles
             PROVE  working'[t] = Cardinality(OnTile(t)')
  BY DEF IInv, CountInv
<1>1. CASE StartFrame
  <2>1. OnTile(t)' = {} /\ working'[t] = 0
    BY <1>1, Boundary DEF OnTile, StartFrame
  <2> QED
    BY <2>1, FS_EmptySet
<1>2. CASE EndFrame
  <2>1. OnTile(t)' = {} /\ OnTile(t) = {} /\ working' = working
    BY <1>2, Boundary DEF OnTile, EndFrame
  <2> QED
    BY <2>1 DEF CountInv
<1>3. ASSUME NEW w \in Workers, Step(w) PROVE working'[t] = Cardinality(OnTile(t)')
  <2>1. /\ working[t] = Cardinality(OnTile(t)) /\ working[t] \in Nat
        /\ IsFiniteSet(OnTile(t))
    BY FiniteOnTile DEF CountInv
  <2>2. CASE NextJob(w)
    <3>1. PICK u \in Tiles :
            /\ job'[w] = [tile |-> u, row |-> next[u], col |-> 0]
            /\ working' = [working EXCEPT ![u] = @ + 1]
      BY <2>2, NewRow
    <3>2. ~OnRow(w) /\ OnRow(w)' /\ job'[w].tile = u
      BY <2>2, <3>1, StepMoves DEF NextJob, Moves, OnRow, RowPCs
    <3>3. CASE u = t
      <4>1. w \notin OnTile(t) /\ OnTile(t)' = OnTile(t) \cup {w}
        BY <1>3, <3>2, <3>3, OthersOnTile DEF OnTile
      <4>2. Cardinality(OnTile(t)') = Cardinality(OnTile(t)) + 1
        BY <2>1, <4>1, FS_AddElement
      <4>3. working'[t] = working[t] + 1
        BY <3>1, <3>3 DEF TypeOK
      <4> QED
        BY <2>1, <4>2, <4>3
    <3>4. CASE u # t
      <4>1. OnTile(t)' = OnTile(t)
        BY <1>3, <3>2, <3>4, OthersOnTile DEF OnTile
      <4>2. working'[t] = working[t]
        BY <3>1, <3>4 DEF TypeOK
      <4> QED
        BY <2>1, <4>1, <4>2
    <3> QED
      BY <3>3, <3>4
  <2>3. CASE EndRow(w)
    <3> DEFINE u == job[w].tile
    <3>1. /\ OnRow(w) /\ ~OnRow(w)' /\ u \in Tiles
          /\ working' = [working EXCEPT ![u] = @ - 1]
      BY <2>3, StepMoves DEF EndRow, Moves, OnRow, RowPCs, TypeOK, Jobs
    <3>2. CASE u = t
      <4>1. w \in OnTile(t) /\ OnTile(t)' = OnTile(t) \ {w}
        BY <1>3, <3>1, <3>2, OthersOnTile DEF OnTile
      <4>2. Cardinality(OnTile(t)') = Cardinality(OnTile(t)) - 1
        BY <2>1, <4>1, FS_RemoveElement
      <4>3. working'[t] = working[t] - 1
        BY <3>1, <3>2 DEF TypeOK
      <4> QED
        BY <2>1, <4>2, <4>3
    <3>3. CASE u # t
      <4>1. OnTile(t)' = OnTile(t)
        BY <1>3, <3>1, <3>3, OthersOnTile DEF OnTile
      <4>2. working'[t] = working[t]
        BY <3>1, <3>3 DEF TypeOK
      <4> QED
        BY <2>1, <4>1, <4>2
    <3> QED
      BY <3>2, <3>3
  <2>4. CASE ~NextJob(w) /\ ~EndRow(w)
    <3>1. OnTile(t)' = OnTile(t) /\ working' = working
      BY <1>3, <2>4, OnTileKept, Keeps
    <3> QED
      BY <2>1, <3>1
  <2> QED
    BY <2>2, <2>3, <2>4
<1> QED
  BY <1>1, <1>2, <1>3 DEF Next, Step

-----------------------------------------------------------------------------
(* Nothing is left behind.                                                  *)

\* a tile with rows left that takes no more workers has one
LEMMA TileServed ==
  ASSUME TypeOK, CountInv, Eligible = {}, NEW t \in Tiles, HasRows(t)
  PROVE  \E w \in Workers : OnRow(w) /\ job[w].tile = t
<1>1. Rows[t] \in Nat \ {0} /\ Cols[t] \in Nat \ {0}
  BY Sizes
<1>2. Limit(t) \in Nat /\ Limit(t) >= 1
  BY <1>1 DEF Limit
<1>3. ~(working[t] < Limit(t)) /\ working[t] \in Nat
  BY DEF Eligible, TypeOK
<1>4. Cardinality(OnTile(t)) # 0
  BY <1>2, <1>3 DEF CountInv
<1>5. OnTile(t) # {}
  BY <1>4, FS_EmptySet
<1> QED
  BY <1>5 DEF OnTile

LEMMA CompleteStep == IInv /\ Next => CompleteInv'
<1> SUFFICES ASSUME IInv, Next PROVE CompleteInv'
  OBVIOUS
<1> USE DEF IInv
<1>1. CASE StartFrame
  <2>1. \A s \in W!SbRows : ~(s[2] < next'[s[1]])
    BY <1>1, RowSet, Sizes DEF StartFrame
  <2>2. \A w \in Workers : pc'[w] # "returned"
    BY <1>1, Boundary
  <2> QED
    BY <2>1, <2>2 DEF CompleteInv
<1>2. CASE EndFrame
  <2>1. coded' = coded /\ next' = next
    BY <1>2 DEF EndFrame
  <2>2. /\ \A w \in Workers : ~OnRow(w)
        /\ \A w \in Workers : pc'[w] # "returned"
    BY <1>2, Boundary
  <2> QED
    BY <2>1, <2>2 DEF CompleteInv
<1>3. ASSUME NEW w \in Workers, Step(w) PROVE CompleteInv'
  <2> DEFINE Complete(s) == \A k \in 0..(Cols[s[1]] - 1) : <<s[1], s[2], k>> \in coded
  <2>1. ASSUME NEW s \in W!SbRows, s[2] < next'[s[1]]
        PROVE  (\E v \in Workers : OnRow(v)' /\ Row(v)' = s) \/ Complete(s)'
    <3>1. ASSUME NEW v \in Workers, OnRow(v), Row(v) = s
          PROVE  (\E u \in Workers : OnRow(u)' /\ Row(u)' = s) \/ Complete(s)'
      <4>1. CASE v # w
        <5>1. OnRow(v)' /\ Row(v)' = s
          BY <1>3, <3>1, <4>1, Others DEF Row
        <5> QED
          BY <5>1
      <4>2. CASE v = w /\ Stays(w)
        <5>1. OnRow(v)' /\ Row(v)' = s
          BY <3>1, <4>2, StaysOnRow DEF Row
        <5> QED
          BY <5>1
      <4>3. CASE v = w /\ SyncWrite(w)
        <5>1. Row(v)' = s /\ pc'[w] \in {"read", "endRow"}
          BY <3>1, <4>3, WrittenJob DEF Row
        <5>2. OnRow(v)'
          BY <4>3, <5>1 DEF OnRow, RowPCs
        <5> QED
          BY <5>1, <5>2
      <4>4. CASE v = w /\ EndRow(w)
        <5>1. /\ pc[w] = "endRow" /\ job[w].col = Cols[job[w].tile] /\ OnRow(w)
              /\ coded' = coded
          BY <3>1, <4>4 DEF EndRow, RowInv
        <5>2. Reached(w) = Cols[job[w].tile] /\ Cols[job[w].tile] \in Nat
          BY <5>1, Sizes DEF Reached, TypeOK, Jobs
        <5>3. s[1] = job[w].tile /\ s[2] = job[w].row
          BY <3>1, <4>4 DEF Row
        <5>4. Complete(s)
          BY <5>1, <5>2, <5>3 DEF CodedInv
        <5> QED
          BY <5>1, <5>4
      <4>5. v = w => ~LaunchWorker(w) /\ ~NextJob(w) /\ ~EndOfFrame(w)
        BY <3>1 DEF OnRow, RowPCs, LaunchWorker, NextJob, EndOfFrame
      <4> QED
        BY <1>3, <4>1, <4>2, <4>3, <4>4, <4>5 DEF Step, Worker, Stays
    <3>2. CASE s[2] < next[s[1]]
      <4>1. Complete(s) => Complete(s)'
        BY <1>3, CodedGrows
      <4> QED
        BY <3>1, <3>2, <4>1 DEF CompleteInv
    <3>3. CASE ~(s[2] < next[s[1]])
      <4>1. NextJob(w)
        BY <1>3, <2>1, <3>3, Keeps
      <4>2. PICK t \in Tiles : /\ job'[w] = [tile |-> t, row |-> next[t], col |-> 0]
                               /\ next' = [next EXCEPT ![t] = @ + 1]
        BY <4>1, NewRow
      <4>3. s = <<s[1], s[2]>> /\ s[1] \in Tiles /\ s[2] \in Nat /\ next[s[1]] \in Nat
        BY RowSet, Sizes DEF TypeOK
      <4>4. next'[s[1]] = IF s[1] = t THEN next[s[1]] + 1 ELSE next[s[1]]
        BY <4>2, <4>3 DEF TypeOK
      <4>5. s[1] = t /\ s[2] = next[t]
        BY <2>1, <3>3, <4>3, <4>4
      <4>6. Row(w)' = s
        BY <4>2, <4>3, <4>5 DEF Row
      <4>7. OnRow(w)'
        BY <4>1, StepMoves DEF Moves, OnRow, RowPCs
      <4> QED
        BY <4>6, <4>7
    <3> QED
      BY <3>2, <3>3
  <2>2. ASSUME NEW t \in Tiles, HasRows(t)', NEW r \in Workers, pc'[r] = "returned"
        PROVE  \E v \in Workers : (OnRow(v)' \/ pc'[v] = "job") /\ job'[v].tile = t
    <3>1. HasRows(t)
      BY <1>3, <2>2, NextGrows, Sizes DEF HasRows
    <3>2. PICK v \in Workers : (OnRow(v) \/ pc[v] = "job") /\ job[v].tile = t
      <4>1. CASE pc[r] = "returned"
        BY <3>1, <4>1 DEF CompleteInv
      <4>2. CASE pc[r] # "returned"
        <5>1. r = w /\ EndOfFrame(w)
          <6>1. r = w
            BY <1>3, <2>2, <4>2, Others
          <6> QED
            BY <1>3, <2>2, <6>1, StepMoves DEF Step, Worker, Moves
        <5> QED
          BY <3>1, <5>1, TileServed DEF EndOfFrame
      <4> QED
        BY <4>1, <4>2
    <3>3. CASE v # w
      <4>1. OnRow(v)' \/ pc'[v] = "job"
        BY <1>3, <3>2, <3>3, Others
      <4>2. job'[v].tile = t
        BY <1>3, <3>2, <3>3, Others
      <4> QED
        BY <4>1, <4>2
    <3>4. CASE v = w
      <4>1. ~LaunchWorker(w) /\ ~EndOfFrame(w)
        BY <3>1, <3>2, <3>4 DEF OnRow, RowPCs, LaunchWorker, EndOfFrame
      <4>2. CASE NextJob(w)
        <5>1. job'[w].tile = t
          <6>1. pc[w] = "job" /\ TakeRow(w, t)
            BY <3>1, <3>2, <3>4, <4>2 DEF NextJob
          <6>2. job'[w] = [tile |-> t, row |-> next[t], col |-> 0]
            BY <6>1 DEF TakeRow, TypeOK
          <6> QED
            BY <6>2
        <5>2. OnRow(w)'
          BY <4>2, StepMoves DEF Moves, OnRow, RowPCs
        <5> QED
          BY <5>1, <5>2
      <4>3. CASE EndRow(w)
        <5>1. job' = job /\ pc'[w] = "job"
          BY <4>3, StepMoves DEF EndRow, Moves
        <5> QED
          BY <3>2, <3>4, <5>1
      <4>4. CASE Stays(w)
        <5>1. OnRow(w)' /\ job' = job
          BY <4>4, StaysOnRow
        <5> QED
          BY <3>2, <3>4, <5>1
      <4>5. CASE SyncWrite(w)
        <5>1. pc'[w] \in {"read", "endRow"} /\ job'[w].tile = job[w].tile
          BY <4>5, WrittenJob
        <5>2. OnRow(w)'
          BY <5>1 DEF OnRow, RowPCs
        <5> QED
          BY <3>2, <3>4, <5>1, <5>2
      <4> QED
        BY <1>3, <4>1, <4>2, <4>3, <4>4, <4>5 DEF Step, Worker, Stays
    <3> QED
      BY <3>3, <3>4
  <2> QED
    BY <2>1, <2>2 DEF CompleteInv
<1> QED
  BY <1>1, <1>2, <1>3 DEF Next, Step

-----------------------------------------------------------------------------
LEMMA InitIInv == Init => IInv
<1> SUFFICES ASSUME Init PROVE IInv
  OBVIOUS
<1>1. TypeOK
  BY InitType
<1>2. \A w \in Workers : ~OnRow(w) /\ pc[w] = "idle"
  BY DEF Init, OnRow, RowPCs
<1>3. \A s \in W!SbRows : finished[s] = -1
  BY DEF Init
<1>4. \A s \in W!SbRows : \A k \in 0..(Cols[s[1]] - 1) : ~(k <= finished[s])
  BY <1>3, RowSet, Sizes
<1>5. FinishedInv /\ CodedInv
  BY <1>2, <1>3, <1>4 DEF Init, FinishedInv, CodedInv
<1>6. ContextInv
  <2>1. \A x \in Contexts : ~(rowCtx[x] >= 0)
    BY DEF Init
  <2> QED
    BY <1>2, <1>4, <2>1 DEF ContextInv
<1>7. CountInv
  <2>1. \A t \in Tiles : OnTile(t) = {} /\ working[t] = 0
    BY <1>2 DEF OnTile, Init
  <2> QED
    BY <2>1, FS_EmptySet DEF CountInv
<1>8. CompleteInv
  <2>1. \A s \in W!SbRows : ~(s[2] < next[s[1]])
    BY RowSet, Sizes DEF Init
  <2> QED
    BY <1>2, <2>1 DEF CompleteInv
<1>9. IdleInv /\ RowInv /\ OneOwner /\ ReadyInv /\ UpdateInv
  BY <1>2 DEF IdleInv, RowInv, OneOwner, ReadyInv, UpdateInv
<1> QED
  BY <1>1, <1>5, <1>6, <1>7, <1>8, <1>9 DEF IInv

LEMMA StutterIInv == IInv /\ UNCHANGED vars => IInv'
<1> SUFFICES ASSUME IInv, UNCHANGED vars PROVE IInv'
  OBVIOUS
<1> USE DEF IInv, vars, ctxVars
<1>1. TypeOK' /\ IdleInv' /\ FinishedInv'
  BY DEF TypeOK, IdleInv, FinishedInv, OnRow, Row
<1>2. RowInv' /\ OneOwner'
  BY DEF RowInv, OneOwner, OnRow, Row
<1>3. ReadyInv' /\ UpdateInv'
  BY DEF ReadyInv, UpdateInv, SavesOwn, Saves
<1>4. CodedInv'
  BY DEF CodedInv, OnRow, Reached
<1>5. ContextInv'
  BY DEF ContextInv, SavesOwn, Saves
<1>6. CountInv'
  BY DEF CountInv, OnTile, OnRow
<1>7. CompleteInv'
  BY DEF CompleteInv, OnRow, Row, HasRows
<1> QED
  BY <1>1, <1>2, <1>3, <1>4, <1>5, <1>6, <1>7

LEMMA NextIInv == IInv /\ [Next]_vars => IInv'
BY TypeStep, IdleStep, RowStep, OwnerStep, FinishedStep, ReadyStep, UpdateStep, CodedStep,
   ContextStep, CountStep, CompleteStep, StutterIInv DEF IInv

LEMMA AlwaysIInv == Spec => []IInv
BY InitIInv, NextIInv, PTL DEF Spec

-----------------------------------------------------------------------------
(* The theorems.                                                            *)

\* Every variable keeps its type, for any number of workers and any tiles; that
\* num_threads_working never becomes negative, and that no worker takes a row
\* that does not exist, rest on the whole invariant.
THEOREM TypeCorrect == Spec => []TypeOK
<1>1. IInv => TypeOK
  BY DEF IInv
<1> QED
  BY <1>1, AlwaysIInv, PTL

\* the column that saved the entry a worker loads has been reported by the row
\* above, and not yet by the row itself
LEMMA LoadedColumn ==
  ASSUME IInv, NEW w \in Workers, pc[w] = "load"
  PROVE  LET t == job[w].tile
             r == job[w].row
             c == job[w].col
             k == Saver(t, LoadEntry(t, c))
         IN /\ OnRow(w) /\ Reached(w) = c /\ update
            /\ t \in Tiles /\ r \in Nat /\ c \in Nat /\ r > 0 /\ <<t, r - 1>> \in W!SbRows
            /\ r < Rows[t] /\ Rows[t] \in Nat /\ Cols[t] \in Nat
            /\ <<t, LoadEntry(t, c)>> \in Contexts
            /\ k \in 0..(Cols[t] - 1) /\ k \in Nat /\ c <= k
            /\ Cols[t] = 1 \/ k >= 1
            /\ SaveEntry(t, k) = LoadEntry(t, c)
            /\ k <= finished[<<t, r - 1>>] /\ <<t, r - 1, k>> \in coded
<1> USE DEF IInv
<1> DEFINE t == job[w].tile
           r == job[w].row
           c == job[w].col
           k == Saver(t, LoadEntry(t, c))
<1>1. OnRow(w) /\ Reached(w) = c /\ update /\ r > 0 /\ pc[w] # "endRow"
  BY DEF OnRow, RowPCs, Reached, UpdateInv, ReadyInv
<1>2. /\ t \in Tiles /\ r \in 0..(Rows[t] - 1) /\ c \in 0..(Cols[t] - 1)
      /\ Rows[t] \in Nat /\ Cols[t] \in Nat
  BY <1>1, OwnSb, Sizes
<1>3. /\ LoadEntry(t, c) \in Entries(t) /\ k \in 0..(Cols[t] - 1) /\ c <= k /\ k <= c + 1
      /\ Cols[t] = 1 \/ k >= 1
      /\ SaveEntry(t, k) = LoadEntry(t, c)
  BY <1>2, EntryOfColumn
<1>4. <<t, LoadEntry(t, c)>> \in Contexts
  BY <1>2, <1>3, ContextSet
<1>5. <<t, r - 1>> \in W!SbRows /\ finished[<<t, r - 1>>] \in Int
  <2>1. r - 1 \in 0..(Rows[t] - 1)
    BY <1>1, <1>2
  <2> QED
    BY <1>2, <2>1, RowSet DEF TypeOK
<1>6. finished[<<t, r - 1>>] >= c + 1
  BY <1>1 DEF ReadyInv
<1>7. k <= finished[<<t, r - 1>>]
  <2> HIDE DEF t, r, c, k
  <2> QED
    BY <1>2, <1>3, <1>5, <1>6
<1>8. <<t, r - 1, k>> \in coded
  BY <1>3, <1>5, <1>7 DEF CodedInv
<1>9. r \in Nat /\ c \in Nat /\ r < Rows[t]
  BY <1>2
<1>10. k \in Nat
  BY <1>2, <1>3
<1> QED
  BY <1>1, <1>2, <1>3, <1>4, <1>5, <1>7, <1>8, <1>9, <1>10

\* the entry was written by the row above, and not by one below
LEMMA WrittenByRowAbove ==
  ASSUME IInv, NEW w \in Workers, pc[w] = "load"
  PROVE  rowCtx[<<job[w].tile, LoadEntry(job[w].tile, job[w].col)>>] = job[w].row - 1
<1> USE DEF IInv
<1> DEFINE t == job[w].tile
           r == job[w].row
           c == job[w].col
           i == LoadEntry(t, c)
           k == Saver(t, i)
           q == rowCtx[<<t, i>>]
<1>1. /\ OnRow(w) /\ Reached(w) = c /\ update
      /\ t \in Tiles /\ r \in Nat /\ c \in Nat /\ r > 0 /\ <<t, r - 1>> \in W!SbRows
      /\ r < Rows[t] /\ Rows[t] \in Nat /\ <<t, i>> \in Contexts
      /\ k \in 0..(Cols[t] - 1) /\ k \in Nat /\ c <= k
      /\ Cols[t] = 1 \/ k >= 1
      /\ SaveEntry(t, k) = i
      /\ k <= finished[<<t, r - 1>>]
  BY LoadedColumn
<1>2. q \in Int
  BY <1>1 DEF TypeOK
<1>3. Saves(t, r - 1, k)
  BY <1>1 DEF Saves
<1>4. q >= r - 1
  BY <1>1, <1>3 DEF ContextInv
<1>5. q >= 0 => <<t, q, k>> \in coded
  BY <1>1 DEF ContextInv
<1>6. <<t, r, k>> \in coded <=> k < c
  BY <1>1 DEF CodedInv
<1>7. q # r
  <2> HIDE DEF t, r, c, k, q
  <2> QED
    BY <1>1, <1>5, <1>6
<1>8. q <= r
  <2> HIDE DEF q, k
  <2>1. q >= 0 /\ q \in Nat
    BY <1>1, <1>2, <1>4
  <2>2. <<t, q, k>> \in coded /\ pc[w] # "endRow"
    BY <1>5, <2>1
  <2> QED
    BY <1>1, <2>1, <2>2, NoneBelow
<1> HIDE DEF t, r, c, i, k, q
<1> QED
  BY <1>1, <1>2, <1>4, <1>7, <1>8 DEF q, i, t, r, c

\* nobody writes an entry that somebody reads
LEMMA NotBeingWritten ==
  ASSUME IInv, NEW w \in Workers, pc[w] = "load", NEW v \in Workers, pc[v] = "save",
         job[v].tile = job[w].tile
  PROVE  SaveEntry(job[w].tile, job[v].col) # LoadEntry(job[w].tile, job[w].col)
<1> USE DEF IInv
<1> DEFINE t == job[w].tile
           r == job[w].row
           c == job[w].col
           k == Saver(t, LoadEntry(t, c))
<1> SUFFICES ASSUME SaveEntry(t, job[v].col) = LoadEntry(t, c) PROVE FALSE
  OBVIOUS
<1>1. /\ OnRow(w) /\ t \in Tiles /\ r \in Nat /\ c \in Nat /\ r > 0 /\ k \in Nat /\ c <= k
      /\ k <= finished[<<t, r - 1>>] /\ <<t, r - 1, k>> \in coded
  BY LoadedColumn
<1>2. OnRow(v) /\ pc[v] # "endRow" /\ SavesOwn(v) /\ Reached(v) = job[v].col + 1
  BY DEF OnRow, RowPCs, ReadyInv, Reached
<1>3. /\ job[v].col \in 0..(Cols[t] - 1) /\ job[v].col \in Nat /\ job[v].row \in Nat
  BY <1>2, OwnSb DEF TypeOK, Jobs
<1>4. job[v].col = k
  BY <1>1, <1>2, <1>3, EntryOfColumn DEF SavesOwn
<1>5. finished[<<t, job[v].row>>] = k - 1
  BY <1>2, <1>4 DEF FinishedInv, Row
<1>6. <<t, job[v].row, k>> \in coded
  BY <1>2, <1>3, <1>4 DEF CodedInv
<1> HIDE DEF k
<1>7. job[v].row <= r
  BY <1>1, <1>3, <1>6, NoneBelow
<1>8. r - 1 <= job[v].row
  <2>1. r - 1 \in Nat /\ k >= job[v].col /\ <<job[v].tile, r - 1, k>> \in coded
    BY <1>1, <1>4
  <2> QED
    BY <1>1, <1>2, <2>1, NoneBelow
<1>9. job[v].row # r
  <2>1. v # w
    OBVIOUS
  <2> QED
    BY <1>1, <1>2, <2>1 DEF OneOwner, Row
<1>10. job[v].row # r - 1
  <2> HIDE DEF t, r, c
  <2> QED
    BY <1>1, <1>5
<1> HIDE DEF t, r, c
<1> QED
  BY <1>1, <1>3, <1>7, <1>8, <1>9, <1>10 DEF r

\* For any number of workers, and tiles of any size: a superblock starts from
\* the statistics of the superblock above and to its right, whichever of the
\* rows of its tile wrote to row_ctx meanwhile (encode_sb_row).
THEOREM StatisticsOfRowAbove == Spec => []ContextOfRowAbove
<1>1. IInv => ContextOfRowAbove
  BY WrittenByRowAbove, NotBeingWritten DEF ContextOfRowAbove
<1> QED
  BY <1>1, AlwaysIInv, PTL

-----------------------------------------------------------------------------
(* The refinement of Wavefront.                                             *)

Encoding == {Sb(w) : w \in {v \in Workers : pc[v] = "encode"}}

\* what a worker has read when it begins to encode is enough
LEMMA NeighboursCoded ==
  ASSUME IInv, NEW w \in Workers, OnRow(w), pc[w] # "endRow",
         job[w].row > 0 => finished[<<job[w].tile, job[w].row - 1>>] >= job[w].col + 1
  PROVE  W!Neighbours(job[w].tile, job[w].row, job[w].col) \subseteq coded
<1> USE DEF IInv
<1> DEFINE t == job[w].tile
           r == job[w].row
           c == job[w].col
<1>1. /\ t \in Tiles /\ r \in 0..(Rows[t] - 1) /\ c \in 0..(Cols[t] - 1)
      /\ Rows[t] \in Nat /\ Cols[t] \in Nat
  BY OwnSb, Sizes
<1>2. ASSUME NEW k \in 0..(c - 1) PROVE <<t, r, k>> \in coded
  <2>1. k \in 0..(Cols[t] - 1) /\ k < c
    BY <1>1, <1>2
  <2>2. k < Reached(w)
    BY <1>1, <2>1 DEF Reached
  <2> QED
    BY <2>1, <2>2 DEF CodedInv
<1>3. ASSUME r > 0, NEW k \in 0..(c + 1), k < Cols[t] PROVE <<t, r - 1, k>> \in coded
  <2>1. r - 1 \in 0..(Rows[t] - 1) /\ k \in 0..(Cols[t] - 1) /\ k \in Int /\ k <= c + 1
    BY <1>1, <1>3
  <2>2. <<t, r - 1>> \in W!SbRows /\ finished[<<t, r - 1>>] \in Int
    BY <1>1, <2>1, RowSet DEF TypeOK
  <2>3. finished[<<t, r - 1>>] >= c + 1
    BY <1>3
  <2>4. k <= finished[<<t, r - 1>>]
    <3> HIDE DEF t, r, c
    <3> QED
      BY <1>1, <2>1, <2>2, <2>3
  <2> QED
    BY <2>1, <2>2, <2>4 DEF CodedInv
<1> QED
  BY <1>2, <1>3 DEF W!Neighbours

LEMMA EverythingCoded ==
  ASSUME IInv, \A w \in Workers : pc[w] = "returned"
  PROVE  coded = W!Sbs
<1> USE DEF IInv
<1>1. 0 \in Workers
  BY NumWorkersAssumption DEF Workers
<1>2. \A w \in Workers : ~OnRow(w) /\ pc[w] # "job"
  BY DEF OnRow, RowPCs
<1>3. ASSUME NEW sb \in W!Sbs PROVE sb \in coded
  <2>1. /\ sb = <<sb[1], sb[2], sb[3]>> /\ sb[1] \in Tiles
        /\ sb[2] \in 0..(Rows[sb[1]] - 1) /\ sb[3] \in 0..(Cols[sb[1]] - 1)
    BY SbSet
  <2>2. ~HasRows(sb[1])
    BY <1>1, <1>2, <2>1 DEF CompleteInv
  <2>3. sb[2] < next[sb[1]]
    BY <2>1, <2>2, Sizes DEF HasRows, TypeOK
  <2>4. <<sb[1], sb[2]>> \in W!SbRows
    BY <2>1, RowSet
  <2> QED
    BY <1>2, <2>1, <2>3, <2>4 DEF CompleteInv
<1> QED
  BY <1>3 DEF TypeOK

LEMMA InitRefines == Init => W!Init
BY DEF Init, W!Init

\* the steps that begin with a superblock
LEMMA BeginsAt ==
  ASSUME IInv, NEW w \in Workers, Step(w), pc'[w] = "encode"
  PROVE  /\ pc[w] \in {"read", "load"} /\ OnRow(w) /\ job' = job /\ coded' = coded
         /\ W!Neighbours(job[w].tile, job[w].row, job[w].col) \subseteq coded
<1> USE DEF IInv
<1>1. CASE SyncRead(w)
  <2>1. /\ pc[w] = "read" /\ job' = job /\ coded' = coded /\ OnRow(w)
        /\ MayEncode(job[w].tile, job[w].row, job[w].col)
    BY <1>1, StepMoves DEF SyncRead, Moves, OnRow, RowPCs
  <2>2. ASSUME job[w].row > 0
        PROVE  finished[<<job[w].tile, job[w].row - 1>>] >= job[w].col + 1
    <3> DEFINE n == finished[<<job[w].tile, job[w].row - 1>>]
    <3>1. /\ job[w].tile \in Tiles /\ job[w].row - 1 \in 0..(Rows[job[w].tile] - 1)
          /\ job[w].col \in Nat
      BY <2>1, <2>2, OwnSb, Sizes
    <3>2. n \in Int
      BY <3>1, RowSet DEF TypeOK
    <3>3. job[w].col <= n - 1
      BY <2>1, <2>2 DEF MayEncode
    <3> HIDE DEF n
    <3>4. n >= job[w].col + 1
      BY <3>1, <3>2, <3>3
    <3> QED
      BY <3>4 DEF n
  <2> QED
    BY <2>1, <2>2, NeighboursCoded
<1>2. CASE LoadContext(w)
  <2>1. pc[w] = "load" /\ job' = job /\ coded' = coded /\ OnRow(w)
    BY <1>2 DEF LoadContext, OnRow, RowPCs
  <2> QED
    BY <2>1, NeighboursCoded DEF ReadyInv
<1>3. CASE ~SyncRead(w) /\ ~LoadContext(w)
  BY <1>3, StepMoves DEF Step, Worker, Moves
<1> QED
  BY <1>1, <1>2, <1>3

LEMMA StepRefines == IInv /\ [Next]_vars => W!Next \/ UNCHANGED W!vars
<1> SUFFICES ASSUME IInv, [Next]_vars PROVE W!Next \/ UNCHANGED W!vars
  OBVIOUS
<1> USE DEF IInv
<1>1. CASE StartFrame
  <2>1. W!Start
    BY <1>1, Boundary DEF StartFrame, W!Start, RowPCs
  <2> QED
    BY <2>1 DEF W!Next
<1>2. CASE EndFrame
  <2>1. \A w \in Workers : pc[w] # "encode" /\ pc'[w] # "encode"
    BY <1>2, Boundary DEF RowPCs
  <2>2. coded = W!Sbs /\ busy /\ ~busy' /\ coded' = coded
    BY <1>2, EverythingCoded DEF EndFrame
  <2>3. W!End
    BY <2>1, <2>2 DEF W!End
  <2> QED
    BY <2>3 DEF W!Next
<1>3. ASSUME NEW w \in Workers, Step(w) PROVE W!Next \/ UNCHANGED W!vars
  <2>1. busy /\ busy' = busy
    BY <1>3, StepBusy, Keeps
  <2>2. \A v \in Workers : v # w =>
          (pc'[v] = "encode" <=> pc[v] = "encode") /\ job'[v] = job[v]
    BY <1>3, Others
  <2>3. CASE EncodeSb(w)
    <3>1. /\ OnRow(w) /\ pc[w] = "encode" /\ pc'[w] # "encode" /\ job' = job
          /\ coded' = coded \cup {Sb(w)} /\ Sb(w) \in W!Sbs
      BY <2>3, Encoded
    <3>2. \A v \in Workers : v # w /\ pc[v] = "encode" => Sb(v) # Sb(w)
      BY <3>1 DEF OneOwner, OnRow, RowPCs, Sb, Row
    <3>3. Encoding' = Encoding \ {Sb(w)} /\ Sb(w) \in Encoding
      BY <2>2, <3>1, <3>2 DEF Encoding, Sb
    <3>4. PICK sb \in W!Sbs : sb = Sb(w)
      BY <3>1
    <3>5. W!Finish(sb)
      BY <2>1, <3>1, <3>3, <3>4 DEF W!Finish, Encoding, Sb
    <3> QED
      BY <3>5 DEF W!Next
  <2>4. CASE pc'[w] = "encode"
    <3>1. /\ pc[w] \in {"read", "load"} /\ OnRow(w) /\ job' = job /\ coded' = coded
          /\ W!Neighbours(job[w].tile, job[w].row, job[w].col) \subseteq coded
      BY <1>3, <2>4, BeginsAt
    <3>2. Sb(w) \in W!Sbs /\ job[w].col \in 0..(Cols[job[w].tile] - 1)
      BY <3>1, OwnSb
    <3>3. \A v \in Workers : pc[v] = "encode" => Sb(v) # Sb(w)
      BY <3>1 DEF OneOwner, OnRow, RowPCs, Sb, Row
    <3>4. Sb(w) \notin Encoding
      BY <3>3 DEF Encoding
    <3>5. Sb(w) \notin coded
      <4>1. Reached(w) = job[w].col /\ ~(job[w].col < job[w].col)
        BY <3>1, <3>2, Sizes DEF Reached, TypeOK, Jobs
      <4> QED
        BY <3>1, <3>2, <4>1 DEF CodedInv, Sb
    <3>6. Encoding' = Encoding \cup {Sb(w)}
      BY <2>2, <2>4, <3>1 DEF Encoding, Sb
    <3>7. PICK sb \in W!Sbs : sb = Sb(w)
      BY <3>2
    <3>8. W!Begin(sb)
      BY <2>1, <3>1, <3>4, <3>5, <3>6, <3>7 DEF W!Begin, Encoding, Sb
    <3> QED
      BY <3>8 DEF W!Next
  <2>5. CASE ~EncodeSb(w) /\ pc'[w] # "encode"
    <3>1. coded' = coded
      BY <1>3, <2>5, Keeps
    <3>2. pc[w] # "encode"
      BY <1>3, <2>5 DEF Step, Worker, LaunchWorker, NextJob, EndOfFrame, EndRow, SyncRead,
         LoadContext, SaveContext, SyncWrite, SpuriousWakeup
    <3>3. Encoding' = Encoding
      BY <2>2, <2>5, <3>2 DEF Encoding, Sb
    <3> QED
      BY <2>1, <3>1, <3>3 DEF W!vars, Encoding, Sb
  <2> QED
    BY <2>3, <2>4, <2>5
<1>4. CASE UNCHANGED vars
  BY <1>4 DEF vars, W!vars
<1> QED
  BY <1>1, <1>2, <1>3, <1>4 DEF Next, Step

\* Row-parallel encoding does what Wavefront promises, for any number of workers
\* and any tiles: each superblock is encoded once, after those it is predicted
\* from, and all of them before av2_encode_tiles_row_mt returns, although a
\* worker returns as soon as the tiles that have rows left have workers enough.
THEOREM RefinesWavefront == Spec => ImplementsWavefront
<1>1. IInv /\ [Next]_vars => W!Next \/ UNCHANGED W!vars
  BY StepRefines
<1> QED
  BY <1>1, InitRefines, AlwaysIInv, PTL DEF Spec, ImplementsWavefront, W!Spec

-----------------------------------------------------------------------------
(* The mode of the contexts.                                                *)

\* the contexts exist exactly when the encoder was set up to update them
ModeInv == /\ busy => memory
           /\ memory => (hasCtx <=> cdfMode)
           /\ update => cdfMode

LEMMA ModeNext == ModeInv /\ [Next]_vars => ModeInv'
<1> SUFFICES ASSUME ModeInv, [Next]_vars PROVE ModeInv'
  OBVIOUS
<1>1. CASE StartFrame
  BY <1>1 DEF StartFrame, ModeInv
<1>2. CASE EndFrame
  BY <1>2 DEF EndFrame, ModeInv, ctxVars
<1>3. ASSUME NEW w \in Workers, Step(w) PROVE ModeInv'
  <2>1. UNCHANGED <<busy, ctxVars>>
    BY <1>3 DEF Step, Worker, LaunchWorker, NextJob, EndOfFrame, EndRow, SyncRead,
       LoadContext, EncodeSb, SaveContext, SyncWrite, SpuriousWakeup
  <2> QED
    BY <2>1 DEF ctxVars, ModeInv
<1>4. CASE UNCHANGED vars
  BY <1>4 DEF vars, ctxVars, ModeInv
<1> QED
  BY <1>1, <1>2, <1>3, <1>4 DEF Next, Step

\* An application that leaves the CDF update mode alone never makes a worker load or
\* save contexts that were not allocated (row_mt_mem_alloc): the mode that decided on
\* their allocation is the one allow_update_cdf is derived from, frame after frame.
THEOREM ContextsThereInOneMode == Spec => []ContextsAllocated
<1>1. Init => ModeInv
  BY DEF Init, ModeInv
<1>2. IInv /\ ModeInv => ContextsAllocated
  <2> SUFFICES ASSUME IInv, ModeInv, NEW w \in Workers, pc[w] \in {"load", "save"}
               PROVE  hasCtx
    BY DEF ContextsAllocated
  <2>1. busy
    BY DEF IInv, IdleInv
  <2>2. update
    BY DEF IInv, UpdateInv, ReadyInv, SavesOwn, Saves
  <2> QED
    BY <2>1, <2>2 DEF ModeInv
<1> QED
  BY <1>1, <1>2, ModeNext, AlwaysIInv, PTL DEF Spec

-----------------------------------------------------------------------------
(* Nobody waits for ever: the safety core of FrameEnds.  A worker that      *)
(* waits has not missed the signal it waits for, and a row that has not     *)
(* been reported completely is in somebody's hands; so the worker on the    *)
(* highest of the rows that wait would have nobody to wait for.             *)

\* no wakeup is lost
WaitInv ==
  \A w \in Workers : pc[w] = "rowWait" =>
    ~MayEncode(job[w].tile, job[w].row, job[w].col)

\* a row that is taken has a worker, until all of it has been reported
ReportInv ==
  \A s \in W!SbRows : s[2] < next[s[1]] =>
    \/ \E w \in Workers : OnRow(w) /\ pc[w] # "endRow" /\ Row(w) = s
    \/ finished[s] = Cols[s[1]] + 1

\* the guards of what worker w may do by itself
CanStep(w) ==
  \/ pc[w] = "idle" /\ \A v \in (w + 1)..(NumWorkers - 1) : pc[v] # "idle"
  \/ pc[w] = "job" /\ (HasRows(job[w].tile) \/ Best # {} \/ Eligible = {})
  \/ pc[w] \in {"read", "load", "encode", "save", "write", "endRow"}

NeverStuck == busy => (\A w \in Workers : pc[w] = "returned") \/ \E w \in Workers : CanStep(w)


\* the least number principle (induction, without an operator parameter)
LEMMA NatMin ==
  ASSUME NEW S \in SUBSET Nat, S # {}
  PROVE  \E m \in S : \A n \in S : m <= n
<1> DEFINE R == OpToRel(<, Nat)
<1>1. IsWellFoundedOn(R, Nat)
  BY NatLessThanWellFounded, Zenon
<1>2. \A x, y \in Nat : x < y => <<x, y>> \in R
  BY Zenon DEF OpToRel
<1> HIDE DEF R
<1>3. \E x \in S : \A y \in S : ~(<<y, x>> \in R)
  BY <1>1, WFMin, Zenon
<1>4. PICK x \in S : \A y \in S : ~(<<y, x>> \in R)
  BY <1>3, Zenon
<1>5. ASSUME NEW y \in S PROVE x <= y
  <2>1. ~(y < x)
    BY <1>2, <1>4, Zenon
  <2>2. x \in Nat /\ y \in Nat
    OBVIOUS
  <2> HIDE DEF R
  <2> QED
    BY <2>1, <2>2, SMT
<1> QED
  BY <1>5, Zenon

\* finitely many numbers have a bound
LEMMA Bounded ==
  ASSUME NEW n \in Nat, NEW f \in [0..n -> Nat]
  PROVE  \E b \in Nat : \A i \in 0..n : f[i] <= b
<1> DEFINE Bounds(k) == \E b \in Nat : \A i \in 0..k : f[i] <= b
           S == {k \in 0..n : ~Bounds(k)}
<1>1. ASSUME NEW m \in S, \A k \in S : m <= k PROVE FALSE
  <2>1. CASE m = 0
    <3>1. f[0] \in Nat /\ \A i \in 0..m : i = 0
      BY <2>1
    <3>2. PICK b \in Nat : b = f[0]
      BY <3>1
    <3>3. \A i \in 0..m : f[i] = b
      BY <3>1, <3>2, Zenon
    <3> QED
      BY <3>2, <3>3
  <2>2. CASE m # 0
    <3>1. m - 1 \in 0..n /\ m - 1 \notin S /\ m \in 0..n
      <4>1. m \in 0..n
        OBVIOUS
      <4>2. m - 1 \in 0..n /\ ~(m <= m - 1)
        BY <2>2, <4>1
      <4> HIDE DEF S
      <4> QED
        BY <1>1, <4>1, <4>2
    <3>2. PICK b \in Nat : \A i \in 0..(m - 1) : f[i] <= b
      BY <3>1
    <3>3. f[m] \in Nat
      BY <3>1
    <3>4. PICK c \in Nat : b <= c /\ f[m] <= c
      <4>1. CASE b <= f[m]
        BY <3>3, <4>1
      <4>2. CASE ~(b <= f[m])
        <5>1. b <= b /\ f[m] <= b
          BY <3>3, <4>2
        <5> QED
          BY <5>1
      <4> QED
        BY <4>1, <4>2
    <3>5. \A i \in 0..m : f[i] <= c
      <4> TAKE i \in 0..m
      <4>1. i \in 0..n /\ f[i] \in Nat /\ (i = m \/ i \in 0..(m - 1))
        BY <3>1
      <4> QED
        BY <3>2, <3>4, <4>1
    <3> QED
      BY <3>5
  <2> QED
    BY <2>1, <2>2
<1>2. S = {}
  <2>1. S \in SUBSET Nat
    OBVIOUS
  <2> HIDE DEF S
  <2> QED
    BY <1>1, <2>1, NatMin
<1>3. n \in 0..n
  OBVIOUS
<1> QED
  BY <1>2, <1>3

\* switch_tile_and_get_next_job finds a tile when one is eligible
LEMMA BestExists ==
  ASSUME TypeOK, Eligible # {}
  PROVE  Best # {}
<1>1. /\ Tiles \subseteq Nat /\ Eligible \subseteq Tiles
      /\ \A t \in Tiles : working[t] \in Nat /\ Left(t) \in Nat
  <2>1. \A t \in Tiles : Left(t) \in Nat
    BY Sizes DEF TypeOK, Left
  <2> QED
    BY <2>1, TilesAssumption DEF Tiles, Eligible, TypeOK
<1>2. PICK a \in Eligible : \A u \in Eligible : working[a] <= working[u]
  <2> DEFINE S == {working[t] : t \in Eligible}
  <2>1. S \in SUBSET Nat /\ S # {}
    BY <1>1
  <2>2. PICK m \in S : \A k \in S : m <= k
    BY <2>1, NatMin
  <2> QED
    BY <2>2
<1> DEFINE A == {t \in Eligible : working[t] = working[a]}
<1>3. PICK b \in A : \A u \in A : Left(u) <= Left(b)
  <2>1. NumTiles - 1 \in Nat /\ Tiles = 0..(NumTiles - 1)
    BY TilesAssumption DEF Tiles
  <2> DEFINE f == [t \in Tiles |-> Left(t)]
  <2>2. f \in [0..(NumTiles - 1) -> Nat]
    BY <1>1, <2>1
  <2>3. PICK top \in Nat : \A t \in 0..(NumTiles - 1) : f[t] <= top
    BY <2>1, <2>2, Bounded
  <2>4. \A t \in Tiles : Left(t) \in Nat /\ Left(t) <= top
    BY <1>1, <2>1, <2>3
  <2> DEFINE S == {top - Left(t) : t \in A}
  <2>5. a \in A /\ A \subseteq Tiles
    BY <1>1
  <2> HIDE DEF f, A
  <2>6. S \in SUBSET Nat /\ S # {}
    BY <2>4, <2>5
  <2>7. PICK m \in S : \A k \in S : m <= k
    BY <2>6, NatMin
  <2>8. PICK b \in A : m = top - Left(b)
    BY <2>7
  <2>9. \A u \in A : top - Left(b) <= top - Left(u)
    BY <2>7, <2>8
  <2> QED
    BY <2>4, <2>5, <2>9
<1> DEFINE B == {t \in A : Left(t) = Left(b)}
<1>4. PICK t \in B : \A u \in B : t <= u
  <2>1. B \in SUBSET Nat /\ b \in B
    BY <1>1
  <2> HIDE DEF B
  <2> QED
    BY <2>1, NatMin
<1>5. t \in Eligible /\ working[t] = working[a] /\ Left(t) = Left(b)
  OBVIOUS
<1>6. ASSUME NEW u \in Eligible
      PROVE  \/ working[t] < working[u]
             \/ working[t] = working[u] /\ Left(t) > Left(u)
             \/ working[t] = working[u] /\ Left(t) = Left(u) /\ t <= u
  <2>1. /\ u \in Tiles /\ t \in Tiles /\ working[u] \in Nat /\ working[t] \in Nat
        /\ Left(u) \in Nat /\ Left(t) \in Nat /\ working[t] <= working[u]
    BY <1>1, <1>2, <1>5
  <2>2. working[u] = working[t] => u \in A
    BY <1>5
  <2>3. u \in A => Left(u) <= Left(t)
    BY <1>3, <1>5
  <2>4. u \in A /\ Left(u) = Left(t) => t <= u
    BY <1>4, <1>5
  <2> HIDE DEF A, B
  <2> QED
    BY <2>1, <2>2, <2>3, <2>4 DEF Left
<1> QED
  BY <1>5, <1>6 DEF Best

LEMMA WaitStep == IInv /\ WaitInv /\ Next => WaitInv'
<1> SUFFICES ASSUME IInv, WaitInv, Next, NEW v \in Workers, pc'[v] = "rowWait"
             PROVE  ~MayEncode(job[v].tile, job[v].row, job[v].col)'
  BY DEF WaitInv
<1> USE DEF IInv
<1>1. ~StartFrame /\ ~EndFrame
  BY Boundary
<1>2. PICK w \in Workers : Step(w)
  BY <1>1 DEF Next, Step
<1>3. CASE v = w
  <2>1. SyncRead(w)
    BY <1>2, <1>3, StepMoves DEF Moves, Step, Worker
  <2>2. pc'[w] = IF ~MayEncode(job[w].tile, job[w].row, job[w].col) THEN "rowWait"
                 ELSE IF update /\ job[w].row > 0 THEN "load" ELSE "encode"
    BY <2>1, StepMoves DEF Moves
  <2>3. job' = job /\ finished' = finished
    BY <2>1 DEF SyncRead
  <2> QED
    BY <1>3, <2>2, <2>3 DEF MayEncode
<1>4. CASE v # w
  <2>1. pc[v] = "rowWait" /\ job'[v] = job[v] /\ OnRow(v)
    BY <1>2, <1>4, Others DEF OnRow, RowPCs
  <2>2. ~MayEncode(job[v].tile, job[v].row, job[v].col)
    BY <2>1 DEF WaitInv
  <2>3. CASE ~SyncWrite(w)
    BY <1>2, <2>1, <2>2, <2>3, Keeps DEF MayEncode
  <2>4. CASE SyncWrite(w)
    <3>1. v \notin RowWaiters(job[w].tile, job[w].row)
      <4> SUFFICES ASSUME v \in RowWaiters(job[w].tile, job[w].row) PROVE FALSE
        OBVIOUS
      <4>1. ASSUME NEW u \in RowWaiters(job[w].tile, job[w].row) PROVE u = v
        <5>1. u \in Workers /\ OnRow(u) /\ Row(u) = Row(v)
          BY <4>1 DEF RowWaiters, OnRow, RowPCs, Row
        <5> QED
          BY <2>1, <5>1 DEF OneOwner
      <4>2. RowWaiters(job[w].tile, job[w].row) = {v}
        BY <4>1
      <4>3. pc'[v] = "read"
        BY <1>4, <2>4, <4>2 DEF SyncWrite, Goto
      <4> QED
        BY <4>3
    <3>2. job[v].tile # job[w].tile \/ job[v].row # job[w].row + 1
      BY <2>1, <3>1 DEF RowWaiters
    <3>3. job[v].row \in Nat /\ job[w].row \in Nat
      BY DEF TypeOK, Jobs
    <3>4. <<job[v].tile, job[v].row - 1>> # Row(w)
      BY <3>2, <3>3 DEF Row
    <3>5. job[v].row # 0 /\ <<job[v].tile, job[v].row - 1>> \in W!SbRows
      <4>1. job[v].row # 0 /\ job[v].tile \in Tiles /\ job[v].row \in 0..(Rows[job[v].tile] - 1)
        BY <2>1, <2>2, OwnSb DEF MayEncode
      <4>2. job[v].row - 1 \in 0..(Rows[job[v].tile] - 1)
        BY <4>1, Sizes
      <4> QED
        BY <4>1, <4>2, RowSet
    <3>6. finished'[<<job[v].tile, job[v].row - 1>>] = finished[<<job[v].tile, job[v].row - 1>>]
      BY <1>2, <3>4, <3>5, FinishedGrows
    <3> QED
      BY <2>1, <2>2, <3>6 DEF MayEncode
  <2> QED
    BY <2>3, <2>4
<1> QED
  BY <1>3, <1>4

LEMMA ReportStep == IInv /\ ReportInv /\ Next => ReportInv'
<1> SUFFICES ASSUME IInv, ReportInv, Next, NEW s \in W!SbRows, s[2] < next'[s[1]]
             PROVE  \/ \E w \in Workers : (OnRow(w) /\ pc[w] # "endRow" /\ Row(w) = s)'
                    \/ finished'[s] = Cols[s[1]] + 1
  BY DEF ReportInv
<1> USE DEF IInv
<1>1. s = <<s[1], s[2]>> /\ s[1] \in Tiles /\ s[2] \in 0..(Rows[s[1]] - 1)
  BY RowSet
<1>2. CASE StartFrame
  BY <1>1, <1>2, Sizes DEF StartFrame
<1>3. CASE EndFrame
  <2>1. next' = next /\ finished' = finished /\ \A w \in Workers : ~OnRow(w)
    BY <1>3, Boundary DEF EndFrame
  <2> QED
    BY <1>1, <2>1 DEF ReportInv
<1>4. ASSUME NEW w \in Workers, Step(w)
      PROVE  \/ \E v \in Workers : (OnRow(v) /\ pc[v] # "endRow" /\ Row(v) = s)'
             \/ finished'[s] = Cols[s[1]] + 1
  <2>1. CASE \E v \in Workers : v # w /\ OnRow(v) /\ pc[v] # "endRow" /\ Row(v) = s
    <3>1. PICK v \in Workers : v # w /\ OnRow(v) /\ pc[v] # "endRow" /\ Row(v) = s
      BY <2>1
    <3>2. OnRow(v)' /\ job'[v] = job[v] /\ pc'[v] # "endRow"
      BY <1>4, <3>1, Others
    <3> QED
      BY <3>1, <3>2 DEF Row
  <2>2. CASE OnRow(w) /\ pc[w] # "endRow" /\ Row(w) = s
    <3>1. CASE Stays(w)
      BY <2>2, <3>1, StaysOnRow DEF Row
    <3>2. CASE SyncWrite(w)
      <4>1. finished' = [finished EXCEPT ![Row(w)] = Published(job[w].tile, job[w].col)]
        BY <3>2 DEF SyncWrite, Row
      <4>2. finished'[s] = Published(job[w].tile, job[w].col) /\ s[1] = job[w].tile
        BY <2>2, <4>1 DEF TypeOK, Row
      <4>3. /\ job'[w].tile = job[w].tile /\ job'[w].row = job[w].row
            /\ IF job[w].col = Cols[job[w].tile] - 1 THEN pc'[w] = "endRow" ELSE pc'[w] = "read"
        BY <3>2, WrittenJob
      <4>4. CASE job[w].col = Cols[job[w].tile] - 1
        BY <4>2, <4>4, WrittenAt, <3>2 DEF Published
      <4>5. CASE job[w].col # Cols[job[w].tile] - 1
        BY <2>2, <4>3, <4>5 DEF Row, OnRow, RowPCs
      <4> QED
        BY <4>4, <4>5
    <3>3. ~LaunchWorker(w) /\ ~NextJob(w) /\ ~EndOfFrame(w) /\ ~EndRow(w)
      BY <2>2 DEF LaunchWorker, NextJob, EndOfFrame, EndRow, OnRow, RowPCs
    <3> QED
      BY <1>4, <3>1, <3>2, <3>3 DEF Step, Worker, Stays
  <2>3. CASE finished[s] = Cols[s[1]] + 1
    <3>1. CASE SyncWrite(w) /\ s = Row(w)
      <4>1. finished[s] = job[w].col - 1 /\ job[w].col <= Cols[s[1]] - 1
        BY <3>1, WrittenAt DEF Row
      <4>2. job[w].col \in Nat /\ Cols[s[1]] \in Nat
        BY <3>1, WrittenAt DEF Row
      <4> QED
        BY <2>3, <4>1, <4>2
    <3>2. CASE ~(SyncWrite(w) /\ s = Row(w))
      BY <1>4, <2>3, <3>2, FinishedGrows
    <3> QED
      BY <3>1, <3>2
  <2>4. CASE ~(s[2] < next[s[1]])
    <3>1. NextJob(w)
      BY <1>4, <2>4, Keeps
    <3>2. PICK t \in Tiles :
            /\ job'[w] = [tile |-> t, row |-> next[t], col |-> 0]
            /\ next' = [next EXCEPT ![t] = @ + 1]
      BY <3>1, NewRow
    <3>3. s[1] = t /\ s[2] = next[t]
      BY <1>1, <2>4, <3>2, Sizes DEF TypeOK
    <3>4. pc'[w] = "read"
      BY <3>1, StepMoves DEF Moves
    <3> QED
      BY <1>1, <3>2, <3>3, <3>4 DEF OnRow, RowPCs, Row
  <2> QED
    BY <2>1, <2>2, <2>3, <2>4 DEF ReportInv
<1> QED
  BY <1>2, <1>3, <1>4 DEF Next, Step

\* the main thread launches the workers from the last to the first
LEMMA SomebodyToLaunch ==
  ASSUME NEW w \in Workers, pc[w] = "idle"
  PROVE  \E v \in Workers : CanStep(v)
<1> DEFINE S == {NumWorkers - 1 - v : v \in {u \in Workers : pc[u] = "idle"}}
<1>1. S \in SUBSET Nat /\ S # {}
  BY NumWorkersAssumption DEF Workers
<1>2. PICK m \in S : \A k \in S : m <= k
  BY <1>1, NatMin
<1>3. PICK v \in Workers : pc[v] = "idle" /\ m = NumWorkers - 1 - v
  BY <1>2
<1>4. ASSUME NEW u \in (v + 1)..(NumWorkers - 1), pc[u] = "idle" PROVE FALSE
  <2>1. u \in Workers /\ v \in Nat /\ u \in Nat /\ u > v
    BY <1>3, <1>4, NumWorkersAssumption DEF Workers
  <2>2. NumWorkers - 1 - u \in S
    BY <1>4, <2>1
  <2>3. NumWorkers - 1 - v <= NumWorkers - 1 - u
    BY <1>2, <1>3, <2>2
  <2> HIDE DEF S
  <2> QED
    BY <2>1, <2>3, NumWorkersAssumption
<1> QED
  BY <1>3, <1>4 DEF CanStep

\* the worker on the highest row that waits waits for one that does not
LEMMA WaitsForSomebody ==
  ASSUME IInv, WaitInv, ReportInv, NEW w \in Workers, pc[w] = "rowWait"
  PROVE  \E v \in Workers : OnRow(v) /\ pc[v] \notin {"rowWait", "endRow"}
<1> USE DEF IInv
<1> DEFINE S == {job[v].row : v \in {u \in Workers : pc[u] = "rowWait"}}
<1>1. S \in SUBSET Nat /\ S # {}
  <2>1. \A v \in Workers : job[v] \in Jobs
    BY DEF TypeOK
  <2>2. \A v \in Workers : job[v].row \in Nat
    BY <2>1 DEF Jobs
  <2> QED
    BY <2>2
<1>2. PICK m \in S : \A k \in S : m <= k
  BY <1>1, NatMin
<1>3. PICK v \in Workers : pc[v] = "rowWait" /\ m = job[v].row
  BY <1>2
<1> DEFINE t == job[v].tile
           r == job[v].row
           c == job[v].col
<1>4. /\ t \in Tiles /\ r \in 0..(Rows[t] - 1) /\ c \in 0..(Cols[t] - 1)
      /\ r < next[t] /\ Rows[t] \in Nat /\ Cols[t] \in Nat /\ next[t] \in Nat
  BY <1>3, OwnSb, Sizes DEF OnRow, RowPCs, RowInv, TypeOK
<1>5. r # 0 /\ ~(c <= finished[<<t, r - 1>>] - 1)
  BY <1>3 DEF WaitInv, MayEncode
<1> DEFINE s == <<t, r - 1>>
<1>6. s \in W!SbRows /\ s[1] = t /\ s[2] = r - 1 /\ s[2] < next[s[1]]
  <2>1. r - 1 \in 0..(Rows[t] - 1) /\ r - 1 < next[t]
    BY <1>4, <1>5
  <2> QED
    BY <1>4, <2>1, RowSet
<1>7. finished[s] # Cols[s[1]] + 1
  <2>1. s[1] = t /\ finished[s] = finished[<<t, r - 1>>]
    OBVIOUS
  <2> HIDE DEF s, t, r, c
  <2> QED
    BY <1>4, <1>5, <2>1
<1>8. PICK u \in Workers : OnRow(u) /\ pc[u] # "endRow" /\ Row(u) = s
  BY <1>6, <1>7 DEF ReportInv
<1>9. pc[u] # "rowWait"
  <2> SUFFICES ASSUME pc[u] = "rowWait" PROVE FALSE
    OBVIOUS
  <2>1. job[u].row = r - 1
    BY <1>8 DEF Row
  <2>2. m <= job[u].row
    BY <1>2
  <2> QED
    BY <1>3, <1>4, <2>1, <2>2
<1> QED
  BY <1>8, <1>9

\* The workers of av2_encode_tiles_row_mt never lock each other out, for any number
\* of workers and any tiles: until all have returned, one can be launched, or one is
\* not waiting and finds its next step open. The single signal of sync_write is
\* never lost, and the tile of the next job is always decided.
THEOREM NoDeadlock == Spec => []NeverStuck
<1>1. Init => WaitInv /\ ReportInv
  <2>1. ASSUME Init, NEW s \in W!SbRows PROVE ~(s[2] < next[s[1]])
    BY <2>1, RowSet, Sizes DEF Init
  <2> QED
    BY <2>1 DEF Init, WaitInv, ReportInv
<1>2. IInv /\ WaitInv /\ ReportInv /\ [Next]_vars => WaitInv' /\ ReportInv'
  <2>1. WaitInv /\ ReportInv /\ UNCHANGED vars => WaitInv' /\ ReportInv'
    BY DEF vars, WaitInv, MayEncode, ReportInv, OnRow, Row
  <2> QED
    BY <2>1, WaitStep, ReportStep
<1>3. IInv /\ WaitInv /\ ReportInv => NeverStuck
  <2> SUFFICES ASSUME IInv, WaitInv, ReportInv, \A w \in Workers : ~CanStep(w),
                      NEW w \in Workers, pc[w] # "returned"
               PROVE  FALSE
    BY DEF NeverStuck
  <2>1. \A v \in Workers : pc[v] # "idle"
    BY SomebodyToLaunch
  <2>2. \A v \in Workers : pc[v] # "job"
    BY BestExists DEF IInv, CanStep
  <2>3. \A v \in Workers : pc[v] \in {"rowWait", "returned"}
    BY <2>1, <2>2 DEF CanStep, IInv, TypeOK, PCs
  <2>4. PICK v \in Workers : OnRow(v) /\ pc[v] \notin {"rowWait", "endRow"}
    BY <2>3, WaitsForSomebody
  <2> QED
    BY <2>3, <2>4 DEF OnRow, RowPCs
<1> QED
  BY <1>1, <1>2, <1>3, AlwaysIInv, PTL DEF Spec

-----------------------------------------------------------------------------
(* Nobody works for ever either: every step of a worker but a wake-up       *)
(* without a signal brings the end of the frame nearer.                     *)

Untaken == {s \in W!SbRows : s[2] >= next[s[1]]}
Unreported == {sb \in W!Sbs : sb[3] > finished[<<sb[1], sb[2]>>]}

\* the places a worker has still to pass before it has reported its superblock, or
\* has taken another row; one that is woken has reached "read" again
Ahead(w) ==
  CASE pc[w] = "idle" -> 6
    [] pc[w] = "read" -> 5
    [] pc[w] \in {"load", "rowWait"} -> 4
    [] pc[w] = "encode" -> 3
    [] pc[w] \in {"save", "endRow"} -> 2
    [] pc[w] \in {"write", "job"} -> 1
    [] OTHER -> 0
Places == {x \in Workers \X (1..6) : x[2] <= Ahead(x[1])}

\* the lexicographic order of the three measures
Closer ==
  \/ Cardinality(Untaken') < Cardinality(Untaken)
  \/ Untaken' = Untaken /\ Cardinality(Unreported') < Cardinality(Unreported)
  \/ /\ Untaken' = Untaken /\ Unreported' = Unreported
     /\ Cardinality(Places') < Cardinality(Places)

LEMMA FewerThan ==
  ASSUME NEW S, IsFiniteSet(S), NEW T \in SUBSET S, NEW x \in S, x \notin T
  PROVE  Cardinality(T) < Cardinality(S)
<1>1. IsFiniteSet(T) /\ Cardinality(T) <= Cardinality(S) /\ Cardinality(S) # Cardinality(T)
  BY FS_Subset
<1>2. Cardinality(S) \in Nat /\ Cardinality(T) \in Nat
  BY <1>1, FS_CardinalityType
<1> QED
  BY <1>1, <1>2

LEMMA FiniteTiles == IsFiniteSet(Tiles)
BY FS_Interval, TilesAssumption DEF Tiles

LEMMA FiniteRows == IsFiniteSet(W!SbRows)
<1> DEFINE RowsOf(t) == {t} \X (0..(Rows[t] - 1))
           f == [t \in Tiles |-> RowsOf(t)]
           F == {RowsOf(t) : t \in Tiles}
<1>1. f \in Surjection(Tiles, F)
  BY DEF Surjection
<1>2. IsFiniteSet(F)
  BY <1>1, FiniteTiles, FS_Surjection
<1>3. ASSUME NEW t \in Tiles PROVE IsFiniteSet(RowsOf(t))
  <2>1. IsFiniteSet({t})
    BY FS_Singleton
  <2>2. IsFiniteSet(0..(Rows[t] - 1))
    BY FS_Interval, Sizes
  <2> QED
    BY <2>1, <2>2, FS_Product
<1>4. IsFiniteSet(UNION F)
  BY <1>2, <1>3, FS_UNION
<1>5. W!SbRows = UNION F
  BY DEF W!SbRows, W!Tiles, Tiles
<1> QED
  BY <1>4, <1>5

LEMMA FiniteSbs == IsFiniteSet(W!Sbs)
<1> DEFINE OfRow(s) == {s} \X (0..(Cols[s[1]] - 1))
           f == [s \in W!SbRows |-> OfRow(s)]
           F == {OfRow(s) : s \in W!SbRows}
           g == [x \in UNION F |-> <<x[1][1], x[1][2], x[2]>>]
<1>1. f \in Surjection(W!SbRows, F)
  BY DEF Surjection
<1>2. IsFiniteSet(F)
  BY <1>1, FiniteRows, FS_Surjection
<1>3. ASSUME NEW s \in W!SbRows PROVE IsFiniteSet(OfRow(s))
  <2>1. s[1] \in Tiles
    BY RowSet
  <2>2. IsFiniteSet({s})
    BY FS_Singleton
  <2>3. IsFiniteSet(0..(Cols[s[1]] - 1))
    BY <2>1, FS_Interval, Sizes
  <2> QED
    BY <2>2, <2>3, FS_Product
<1>4. IsFiniteSet(UNION F)
  BY <1>2, <1>3, FS_UNION
<1>5. ASSUME NEW sb \in W!Sbs PROVE \E x \in UNION F : g[x] = sb
  <2>1. /\ sb = <<sb[1], sb[2], sb[3]>> /\ <<sb[1], sb[2]>> \in W!SbRows
        /\ sb[3] \in 0..(Cols[sb[1]] - 1)
    BY RowSet, SbSet
  <2>2. <<<<sb[1], sb[2]>>, sb[3]>> \in OfRow(<<sb[1], sb[2]>>)
    BY <2>1
  <2>3. <<<<sb[1], sb[2]>>, sb[3]>> \in UNION F
    BY <2>1, <2>2
  <2> QED
    BY <2>1, <2>3
<1>6. g \in Surjection(UNION F, {g[x] : x \in UNION F})
  BY DEF Surjection
<1>7. IsFiniteSet({g[x] : x \in UNION F})
  <2> HIDE DEF g, F
  <2> QED
    BY <1>4, <1>6, FS_Surjection
<1>8. W!Sbs \subseteq {g[x] : x \in UNION F}
  <2> HIDE DEF g, F
  <2> QED
    BY <1>5
<1> HIDE DEF g, F
<1> QED
  BY <1>7, <1>8, FS_Subset

LEMMA FinitePlaces == IsFiniteSet(Places)
<1>1. IsFiniteSet(Workers)
  BY FS_Interval, NumWorkersAssumption DEF Workers
<1>2. IsFiniteSet(1..6)
  <2>1. PICK a \in Int, b \in Int : a = 1 /\ b = 6
    OBVIOUS
  <2>2. IsFiniteSet(a..b)
    BY FS_Interval
  <2> QED
    BY <2>1, <2>2, Zenon
<1>3. IsFiniteSet(Workers \X (1..6))
  BY <1>1, <1>2, FS_Product
<1> QED
  BY <1>3, FS_Subset DEF Places

\* a step that wakes nobody
LEMMA OwnStep ==
  ASSUME TypeOK, NEW w \in Workers,
         pc' \in [Workers -> PCs], \A v \in Workers : v # w => pc'[v] = pc[v],
         Ahead(w)' < Ahead(w)
  PROVE  Cardinality(Places') < Cardinality(Places)
<1>1. \A v \in Workers : Ahead(v) \in 0..6 /\ Ahead(v)' \in 0..6
  BY DEF Ahead
<1>2. \A v \in Workers : v # w => Ahead(v)' = Ahead(v)
  BY DEF Ahead
<1>3. \A v \in Workers : Ahead(v)' <= Ahead(v)
  BY <1>1, <1>2
<1>4. Places' \subseteq Places
  <2> SUFFICES ASSUME NEW x \in Places' PROVE x \in Places
    OBVIOUS
  <2>1. x \in Workers \X (1..6) /\ x[2] <= Ahead(x[1])'
    BY DEF Places
  <2>2. x[1] \in Workers /\ x[2] \in 1..6
    BY <2>1
  <2>3. x[2] <= Ahead(x[1])
    BY <1>1, <1>3, <2>1, <2>2
  <2> QED
    BY <2>1, <2>3 DEF Places
<1>5. <<w, Ahead(w)>> \in Workers \X (1..6)
  BY <1>1
<1>6. <<w, Ahead(w)>> \in Places /\ <<w, Ahead(w)>> \notin Places'
  BY <1>1, <1>5 DEF Places
<1> QED
  BY <1>4, <1>6, FinitePlaces, FewerThan

LEMMA TakesRow ==
  ASSUME TypeOK, NEW w \in Workers, NextJob(w)
  PROVE  Cardinality(Untaken') < Cardinality(Untaken)
<1>1. PICK t \in Tiles : /\ next[t] \in 0..(Rows[t] - 1)
                         /\ next' = [next EXCEPT ![t] = @ + 1]
  BY NewRow
<1>2. \A u \in Tiles : next[u] \in Nat /\ next'[u] = IF u = t THEN next[u] + 1 ELSE next[u]
  BY <1>1 DEF TypeOK
<1>3. Untaken' \subseteq Untaken
  BY <1>2, RowSet DEF Untaken
<1> DEFINE s == <<t, next[t]>>
<1>4. s \in W!SbRows /\ s[1] = t /\ s[2] = next[t]
  BY <1>1, RowSet
<1> HIDE DEF s
<1>5. s \in Untaken /\ s \notin Untaken'
  BY <1>2, <1>4 DEF Untaken
<1>6. IsFiniteSet(Untaken)
  BY FiniteRows, FS_Subset DEF Untaken
<1> QED
  BY <1>3, <1>5, <1>6, FewerThan

LEMMA ReportsSb ==
  ASSUME IInv, NEW w \in Workers, SyncWrite(w)
  PROVE  Untaken' = Untaken /\ Cardinality(Unreported') < Cardinality(Unreported)
<1> USE DEF IInv
<1>1. /\ next' = next /\ Row(w) \in W!SbRows /\ finished[Row(w)] = job[w].col - 1
      /\ job[w].tile \in Tiles /\ job[w].row \in Nat /\ job[w].col \in Nat
      /\ Cols[job[w].tile] \in Nat \ {0} /\ job[w].col <= Cols[job[w].tile] - 1
  BY WrittenAt
<1>2. finished' = [finished EXCEPT ![Row(w)] = Published(job[w].tile, job[w].col)]
  BY DEF SyncWrite, Row
<1>3. finished'[Row(w)] >= job[w].col
  BY <1>1, <1>2 DEF TypeOK, Published
<1>4. \A s \in W!SbRows : /\ finished[s] \in Int /\ finished'[s] \in Int
                          /\ finished'[s] >= finished[s]
  BY FinishedGrows DEF Step, Worker
<1>5. \A sb \in W!Sbs : <<sb[1], sb[2]>> \in W!SbRows /\ sb[3] \in Nat
  BY RowSet, SbSet
<1>6. Unreported' \subseteq Unreported
  <2> SUFFICES ASSUME NEW sb \in W!Sbs, sb[3] > finished'[<<sb[1], sb[2]>>]
               PROVE  sb[3] > finished[<<sb[1], sb[2]>>]
    BY DEF Unreported
  <2> QED
    BY <1>4, <1>5
<1> DEFINE sb == <<job[w].tile, job[w].row, job[w].col>>
<1>7. /\ sb \in W!Sbs /\ sb[3] = job[w].col /\ <<sb[1], sb[2]>> = Row(w)
  <2>1. job[w].row \in 0..(Rows[job[w].tile] - 1) /\ job[w].col \in 0..(Cols[job[w].tile] - 1)
    BY <1>1, RowSet DEF Row
  <2> QED
    BY <1>1, <2>1, SbSet DEF Row
<1> HIDE DEF sb
<1>8. sb \in Unreported
  BY <1>1, <1>7 DEF Unreported
<1>9. sb \notin Unreported'
  BY <1>1, <1>3, <1>4, <1>7 DEF Unreported
<1>10. IsFiniteSet(Unreported)
  BY FiniteSbs, FS_Subset DEF Unreported
<1>11. Cardinality(Unreported') < Cardinality(Unreported)
  BY <1>6, <1>8, <1>9, <1>10, FewerThan
<1> QED
  BY <1>1, <1>11 DEF Untaken

\* No worker goes round for ever in enc_row_mt_worker_hook: each of its steps takes a
\* row, reports a superblock, or brings it nearer to one of these, and only a wake-up
\* without a signal takes it back.  With NoDeadlock this is why a frame ends.
THEOREM FrameTerminates ==
  Spec => [][\A w \in Workers : LaunchWorker(w) \/ Worker(w) => Closer]_vars
<1>1. IInv /\ [Next]_vars
        => [\A w \in Workers : LaunchWorker(w) \/ Worker(w) => Closer]_vars
  <2> SUFFICES ASSUME IInv, NEW w \in Workers, LaunchWorker(w) \/ Worker(w) PROVE Closer
    OBVIOUS
  <2> USE DEF IInv
  <2>1. CASE NextJob(w)
    BY <2>1, TakesRow DEF Closer
  <2>2. CASE SyncWrite(w)
    BY <2>2, ReportsSb DEF Closer
  <2>3. CASE \/ LaunchWorker(w) \/ EndOfFrame(w) \/ EndRow(w) \/ SyncRead(w)
             \/ LoadContext(w) \/ EncodeSb(w) \/ SaveContext(w)
    <3>1. UNCHANGED <<next, finished>>
      BY <2>3 DEF LaunchWorker, EndOfFrame, EndRow, SyncRead, LoadContext, EncodeSb,
                  SaveContext
    <3>2. \A v \in Workers : v # w => pc'[v] = pc[v]
      BY <2>3 DEF LaunchWorker, EndOfFrame, EndRow, SyncRead, LoadContext, EncodeSb,
                  SaveContext, Goto
    <3>3. pc' \in [Workers -> PCs]
      BY <2>3, StepMoves DEF Moves
    <3>4. \/ pc[w] = "idle" /\ pc'[w] = "job"
          \/ pc[w] = "job" /\ pc'[w] = "returned"
          \/ pc[w] = "endRow" /\ pc'[w] = "job"
          \/ pc[w] = "read" /\ pc'[w] \in {"rowWait", "load", "encode"}
          \/ pc[w] = "load" /\ pc'[w] = "encode"
          \/ pc[w] = "encode" /\ pc'[w] \in {"save", "write"}
          \/ pc[w] = "save" /\ pc'[w] = "write"
      BY <2>3, StepMoves DEF Moves, LaunchWorker, EndOfFrame, EndRow, SyncRead, LoadContext,
                             EncodeSb, SaveContext
    <3>5. Ahead(w)' < Ahead(w)
      BY <3>4 DEF Ahead
    <3>6. Cardinality(Places') < Cardinality(Places)
      BY <3>2, <3>3, <3>5, OwnStep
    <3>7. Untaken' = Untaken /\ Unreported' = Unreported
      BY <3>1 DEF Untaken, Unreported
    <3> QED
      BY <3>6, <3>7 DEF Closer
  <2> QED
    BY <2>1, <2>2, <2>3 DEF Worker
<1> QED
  BY <1>1, AlwaysIInv, PTL DEF Spec
=============================================================================
