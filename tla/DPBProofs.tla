----------------------------- MODULE DPBProofs -----------------------------
(***************************************************************************)
(* Proofs about DPB.                                                       *)
(***************************************************************************)
EXTENDS DPB, FiniteSetTheorems, WellFoundedInduction, TLAPS

\* How often b occurs among f[s], s \in S.
Count(f, S, b) == Cardinality({s \in S : f[s] = b})

LEMMA SlotsFinite == IsFiniteSet(Slots)
BY NumSlotsAssumption, FS_Interval DEF Slots

LEMMA CountNat ==
  ASSUME NEW f, NEW S, IsFiniteSet(S), NEW b
  PROVE  IsFiniteSet({s \in S : f[s] = b}) /\ Count(f, S, b) \in Nat
<1>1. IsFiniteSet({s \in S : f[s] = b})
  BY FS_Subset
<1> QED
  BY <1>1, FS_CardinalityType DEF Count

-----------------------------------------------------------------------------
(* Types.  The current frame exists from AssignBuffer until the unit fails  *)
(* or is finished, and the pointers read in a step are not NULL.            *)

NoFramePCs == {"idle", "units", "keyflush", "flush", "eos", "assign"}
Holding == cur = NoBuf <=> pc \in NoFramePCs
TargetExists == pc \in {"sefOlk", "sefShow"} => unit.target \in Buffers
TriggerExists == pc \in {"prev", "next"} => trigger \in Buffers
TInv == TypeOK /\ Holding /\ TargetExists /\ TriggerExists

LEMMA OrdersNat == Orders \subseteq Nat
BY MaxOrderAssumption DEF Orders, RestrictedDOH

LEMMA ActiveSubset ==
  ASSUME NEW n \in 0..NumSlots
  PROVE  ActiveSlots(n) \subseteq Slots
BY NumSlotsAssumption DEF ActiveSlots, Slots

LEMMA SlotRefsNat ==
  ASSUME NEW S \in SUBSET Slots, NEW b
  PROVE  SlotRefs(S, b) \in Nat
<1>1. IsFiniteSet(S)
  BY SlotsFinite, FS_Subset
<1>2. Count(refMap, S, b) \in Nat
  BY <1>1, CountNat
<1> QED
  BY <1>2 DEF SlotRefs, Count

LEMMA OutputRefsNat ==
  ASSUME outputs \in Seq(Buffers), NEW n \in Nat, NEW b
  PROVE  OutputRefs(n, b) \in Nat
<1>1. IsFiniteSet(n..Len(outputs))
  BY FS_Interval
<1>2. Count(outputs, n..Len(outputs), b) \in Nat
  BY <1>1, CountNat
<1> QED
  BY <1>2 DEF OutputRefs, Count

LEMMA DropRefsType ==
  ASSUME TypeOK, NEW lost \in [Buffers -> Int], NEW d \in [Buffers -> BOOLEAN],
         NEW f \in [Buffers -> Frames], DropRefs(lost, d, f)
  PROVE  /\ refCount' \in [Buffers -> Int]
         /\ data' \in [Buffers -> BOOLEAN]
         /\ frame' \in [Buffers -> Frames]
<1>1. Blank \in Frames
  BY MaxOrderAssumption DEF Blank, Frames, Orders, RestrictedDOH
<1>2. refCount' \in [Buffers -> Int]
  BY DEF TypeOK, DropRefs
<1>3. data' \in [Buffers -> BOOLEAN]
  BY Zenon DEF DropRefs
<1>4. frame' \in [Buffers -> Frames]
  BY <1>1 DEF DropRefs
<1> QED
  BY <1>2, <1>3, <1>4

LEMMA DropSlotsType ==
  ASSUME TypeOK, NEW S \in SUBSET Slots, NEW d \in [Buffers -> BOOLEAN], DropSlots(S, d)
  PROVE  /\ refCount' \in [Buffers -> Int]
         /\ data' \in [Buffers -> BOOLEAN]
         /\ frame' \in [Buffers -> Frames]
         /\ refMap' \in [Slots -> Buffers \cup {NoBuf}]
<1> DEFINE lost == [b \in Buffers |-> SlotRefs(S, b)]
<1>1. lost \in [Buffers -> Int]
  BY SlotRefsNat
<1>2. frame \in [Buffers -> Frames] /\ DropRefs(lost, d, frame)
  BY DEF TypeOK, DropSlots
<1>3. refMap' \in [Slots -> Buffers \cup {NoBuf}]
  BY DEF TypeOK, DropSlots
<1> HIDE DEF lost
<1> QED
  BY <1>1, <1>2, <1>3, DropRefsType

LEMMA ReleaseType ==
  ASSUME TypeOK, ReleaseOutputs
  PROVE  /\ refCount' \in [Buffers -> Int]
         /\ data' \in [Buffers -> BOOLEAN]
         /\ frame' \in [Buffers -> Frames]
         /\ outputs' \in Seq(Buffers)
         /\ dropped' \in Nat
<1> DEFINE lost == [b \in Buffers |-> OutputRefs(1, b)]
<1>1. lost \in [Buffers -> Int]
  BY OutputRefsNat DEF TypeOK
<1>2. frame \in [Buffers -> Frames] /\ data \in [Buffers -> BOOLEAN]
      /\ DropRefs(lost, data, frame)
  BY DEF TypeOK, ReleaseOutputs
<1>3. outputs' \in Seq(Buffers) /\ dropped' \in Nat
  BY DEF ReleaseOutputs
<1> HIDE DEF lost
<1> QED
  BY <1>1, <1>2, <1>3, DropRefsType

LEMMA OutputType ==
  ASSUME TypeOK, NEW b \in Buffers, Output(b)
  PROVE  /\ refCount' \in [Buffers -> Int]
         /\ frame' \in [Buffers -> Frames]
         /\ outputs' \in Seq(Buffers)
<1>1. refCount' \in [Buffers -> Int]
  BY DEF TypeOK, Output
<1>2. outputs' \in Seq(Buffers)
  BY DEF TypeOK, Output
<1>3. frame' \in [Buffers -> Frames]
  BY DEF TypeOK, Output, Frames
<1> QED
  BY <1>1, <1>2, <1>3

-----------------------------------------------------------------------------
LEMMA InitTInv == Init => TInv
<1> SUFFICES ASSUME Init PROVE TInv
  OBVIOUS
<1>1. Blank \in Frames /\ NoUnit \in Units
  BY MaxOrderAssumption
     DEF Blank, Frames, Orders, RestrictedDOH, NoUnit, Units, FrameTypes
<1>2. /\ frame \in [Buffers -> Frames]
      /\ refMap \in [Slots -> Buffers \cup {NoBuf}]
      /\ longTerm \in [Slots -> LongTermIds \cup {NoLongTerm}]
      /\ refCount \in [Buffers -> Int]
      /\ data \in [Buffers -> BOOLEAN]
  BY <1>1, LongTermIdsAssumption DEF Init
<1>3. /\ lastOlk \in Orders
      /\ units \in 0..MaxUnits
      /\ refFrames \in 0..NumSlots
  BY MaxOrderAssumption, MaxUnitsAssumption, NumSlotsAssumption
     DEF Init, Orders, RestrictedDOH
<1>4. reach \in Nat /\ dropped \in Nat /\ outputs \in Seq(Buffers)
  BY DEF Init
<1>5. TypeOK
  BY <1>1, <1>2, <1>3, <1>4, Zenon DEF Init, TypeOK, PCs
<1> QED
  BY <1>5 DEF Init, TInv, Holding, NoFramePCs, TargetExists, TriggerExists

LEMMA CallStepsTInv ==
  ASSUME TInv, CallSteps \/ (\E n \in 1..MaxUnits : Decode(n)) \/ Flush
  PROVE  TInv'
<1> USE DEF TInv, Holding, NoFramePCs, TargetExists, TriggerExists, PCs, HeaderPCs
<1>1. ASSUME NEW n \in 1..MaxUnits, Decode(n) PROVE TInv'
  <2>1. TypeOK'
    BY <1>1, ReleaseType DEF Decode, TypeOK, loopVars, olkVars, stateVars
  <2> QED
    BY <1>1, <2>1 DEF Decode, loopVars
<1>2. ASSUME Flush PROVE TInv'
  <2>1. TypeOK'
    BY <1>2, ReleaseType DEF Flush, TypeOK, loopVars, olkVars, stateVars
  <2> QED
    BY <1>2, <2>1 DEF Flush, loopVars
<1>3. ASSUME NEW kind \in Kinds, NEW first \in BOOLEAN, StartUnit(kind, first)
      PROVE  TInv'
  <2>1. units' \in 0..MaxUnits
    BY <1>3, MaxUnitsAssumption DEF StartUnit, TypeOK
  <2>2. unit' \in Units
    BY <1>3, KindsAssumption DEF StartUnit, Units, NoUnit, FrameTypes
  <2>3. TypeOK'
    BY <1>3, <2>1, <2>2 DEF StartUnit, TypeOK, loopVars, bufferVars, olkVars, stateVars
  <2> QED
    BY <1>3, <2>3 DEF StartUnit, loopVars
<1>4. ASSUME FlushOne PROVE TInv'
  <2>1. PICK s \in Pending(Slots) : Output(refMap[s])
    BY <1>4 DEF FlushOne
  <2>2. refMap[s] \in Buffers
    BY <2>1 DEF Pending, Eligible, TypeOK
  <2>3. TypeOK'
    BY <1>4, <2>1, <2>2, OutputType DEF FlushOne, TypeOK, loopVars, olkVars, stateVars
  <2> QED
    BY <1>4, <2>3 DEF FlushOne, loopVars
<1>5. ASSUME KeyFlushed PROVE TInv'
  <2>1. TypeOK'
    BY <1>5 DEF KeyFlushed, TypeOK, loopVars, bufferVars, olkVars, stateVars
  <2> QED
    BY <1>5, <2>1 DEF KeyFlushed, loopVars
<1>6. ASSUME Flushed PROVE TInv'
  <2> DEFINE lost == [b \in Buffers |-> OutputRefs(1, b)]
  <2>1. lost \in [Buffers -> Int]
    BY OutputRefsNat DEF TypeOK
  <2>2. frame \in [Buffers -> Frames] /\ data \in [Buffers -> BOOLEAN]
        /\ DropRefs(lost, data, frame)
    BY <1>6 DEF TypeOK, Flushed
  <2> HIDE DEF lost
  <2>3. /\ refCount' \in [Buffers -> Int]
        /\ data' \in [Buffers -> BOOLEAN]
        /\ frame' \in [Buffers -> Frames]
    BY <2>1, <2>2, DropRefsType
  <2>4. TypeOK'
    BY <1>6, <2>3 DEF Flushed, TypeOK, loopVars, olkVars, stateVars
  <2> QED
    BY <1>6, <2>4 DEF Flushed, loopVars
<1>7. ASSUME AssignBuffer PROVE TInv'
  <2>1. PICK b \in Buffers : /\ cur' = b
                             /\ refCount' = [refCount EXCEPT ![b] = 1]
                             /\ beforeError' = beforeError \ {b}
    BY <1>7 DEF AssignBuffer
  <2>2. TypeOK'
    BY <1>7, <2>1 DEF AssignBuffer, TypeOK, loopVars, olkVars, stateVars
  <2> QED
    BY <1>7, <2>1, <2>2, BuffersAssumption DEF AssignBuffer, loopVars
<1>8. ASSUME AssignFails PROVE TInv'
  <2>1. NoUnit \in Units
    BY DEF NoUnit, Units, FrameTypes
  <2>2. TypeOK'
    BY <1>8, <2>1, MaxUnitsAssumption
       DEF AssignFails, UnitFails, TypeOK, loopVars, bufferVars, olkVars
  <2> QED
    BY <1>8, <2>2 DEF AssignFails, UnitFails, loopVars
<1>9. ASSUME Fail PROVE TInv'
  <2> DEFINE lost == [b \in Buffers |-> IF b = cur THEN 1 ELSE 0]
  <2>1. lost \in [Buffers -> Int]
    OBVIOUS
  <2>2. frame \in [Buffers -> Frames] /\ data \in [Buffers -> BOOLEAN]
        /\ DropRefs(lost, data, frame)
    BY <1>9 DEF TypeOK, Fail
  <2> HIDE DEF lost
  <2>3. /\ refCount' \in [Buffers -> Int]
        /\ data' \in [Buffers -> BOOLEAN]
        /\ frame' \in [Buffers -> Frames]
    BY <2>1, <2>2, DropRefsType
  <2>4. NoUnit \in Units
    BY DEF NoUnit, Units, FrameTypes
  <2>5. TypeOK'
    BY <1>9, <2>3, <2>4, MaxUnitsAssumption
       DEF Fail, UnitFails, TypeOK, loopVars, olkVars
  <2> QED
    BY <1>9, <2>5 DEF Fail, UnitFails, loopVars
<1>10. ASSUME CallEnds PROVE TInv'
  <2>1. TypeOK'
    BY <1>10, MaxUnitsAssumption DEF CallEnds, TypeOK, loopVars, bufferVars, olkVars, stateVars
  <2> QED
    BY <1>10, <2>1 DEF CallEnds, loopVars
<1> QED
  BY <1>1, <1>2, <1>3, <1>4, <1>5, <1>6, <1>7, <1>8, <1>9, <1>10 DEF CallSteps

LEMMA DropsType ==
  ASSUME TypeOK, NEW c, NEW d \in [Buffers -> BOOLEAN],
         DropRefs([b \in Buffers |-> IF b = c THEN 1 ELSE 0], d, frame)
  PROVE  /\ refCount' \in [Buffers -> Int]
         /\ data' \in [Buffers -> BOOLEAN]
         /\ frame' \in [Buffers -> Frames]
<1> DEFINE lost == [b \in Buffers |-> IF b = c THEN 1 ELSE 0]
<1>1. lost \in [Buffers -> Int] /\ DropRefs(lost, d, frame)
  OBVIOUS
<1>2. frame \in [Buffers -> Frames]
  BY DEF TypeOK
<1> HIDE DEF lost
<1> QED
  BY <1>1, <1>2, DropRefsType

LEMMA ResetType ==
  ASSUME TypeOK, ResetOtherThanOLK
  PROVE  /\ refCount' \in [Buffers -> Int]
         /\ data' \in [Buffers -> BOOLEAN]
         /\ frame' \in [Buffers -> Frames]
         /\ refMap' \in [Slots -> Buffers \cup {NoBuf}]
         /\ olkFlags' \in SUBSET Slots
         /\ olkCoFlags' \in SUBSET Slots
<1> DEFINE S == {s \in ActiveSlots(refFrames) :
                   s \notin olkFlags \cup olkCoFlags /\ longTerm[s] = NoLongTerm}
<1>1. S \in SUBSET Slots /\ data \in [Buffers -> BOOLEAN]
  BY ActiveSubset DEF TypeOK
<1>2. CASE unit.first
  <2>1. DropSlots(S, data) /\ olkFlags' = {} /\ olkCoFlags' = {}
    BY <1>2 DEF ResetOtherThanOLK
  <2> HIDE DEF S
  <2> QED
    BY <1>1, <2>1, DropSlotsType
<1>3. CASE ~unit.first
  BY <1>3 DEF ResetOtherThanOLK, bufferVars, TypeOK
<1> QED
  BY <1>2, <1>3

LEMMA FlagsAreSlots ==
  ASSUME TypeOK, NEW kind, NEW type, NEW flags \in FlagChoices(kind, type)
  PROVE  flags \subseteq Slots
<1>1. ActiveSlots(refFrames) \subseteq Slots
  BY ActiveSubset DEF TypeOK
<1> QED
  BY <1>1 DEF FlagChoices

LEMMA HeaderStepsTInv ==
  ASSUME TInv, HeaderSteps
  PROVE  TInv'
<1> USE DEF TInv, Holding, NoFramePCs, TargetExists, TriggerExists, PCs, HeaderPCs
<1>1. ASSUME ReadSequence PROVE TInv'
  <2>1. PICK n \in IF unit.kind = "CLK" THEN RefFramesChoices ELSE {refFrames} \ {0} :
          /\ refFrames' = n
          /\ IF unit.kind = "CLK" /\ unit.first
             THEN DropSlots(ActiveSlots(n), data) /\ olkFlags' = {} /\ olkCoFlags' = {}
             ELSE UNCHANGED <<refMap, bufferVars, olkFlags, olkCoFlags>>
    BY <1>1 DEF ReadSequence
  <2>2. n \in 0..NumSlots /\ data \in [Buffers -> BOOLEAN]
    BY <2>1, RefFramesAssumption DEF TypeOK
  <2>3. ActiveSlots(n) \in SUBSET Slots
    BY <2>2, ActiveSubset
  <2>4. /\ refCount' \in [Buffers -> Int]
        /\ data' \in [Buffers -> BOOLEAN]
        /\ frame' \in [Buffers -> Frames]
        /\ refMap' \in [Slots -> Buffers \cup {NoBuf}]
        /\ olkFlags' \in SUBSET Slots
        /\ olkCoFlags' \in SUBSET Slots
    <3>1. CASE unit.kind = "CLK" /\ unit.first
      BY <2>1, <2>2, <2>3, <3>1, DropSlotsType
    <3>2. CASE ~(unit.kind = "CLK" /\ unit.first)
      BY <2>1, <3>2 DEF TypeOK, bufferVars
    <3> QED
      BY <3>1, <3>2
  <2>5. TypeOK'
    BY <1>1, <2>1, <2>2, <2>4 DEF ReadSequence, TypeOK, loopVars, stateVars
  <2> QED
    BY <1>1, <2>5 DEF ReadSequence, loopVars
<1>2. ASSUME NEW type \in FrameTypes, NEW restrict \in BOOLEAN, NEW show \in BOOLEAN,
             NEW implicit \in BOOLEAN, NEW lt \in LongTermIds \cup {NoLongTerm},
             NEW order \in 0..MaxOrder,
             ReadFrame(type, restrict, lt, show, implicit, order)
      PROVE  TInv'
  <2>1. unit' \in Units
    BY <1>2 DEF ReadFrame, TypeOK, Units
  <2>2. order \in Orders /\ RestrictedDOH \in Orders
    BY MaxOrderAssumption DEF Orders, RestrictedDOH
  <2>3. ASSUME NEW b \in Buffers PROVE frame'[b] \in Frames
    <3>1. frame[b] \in Frames
      BY DEF TypeOK
    <3>2. CASE b = cur
      <4>1. IsLeading(unit.kind) \in BOOLEAN
        BY DEF IsLeading
      <4>2. frame'[b] = [frame[b] EXCEPT !.order = order, !.implicit = implicit,
                                         !.immediate = show, !.done = FALSE,
                                         !.leading = IsLeading(unit.kind)]
        BY <1>2, <3>2 DEF ReadFrame
      <4> QED
        BY <2>2, <3>1, <4>1, <4>2 DEF Frames
    <3>3. CASE b # cur
      BY <1>2, <2>2, <3>1, <3>3 DEF ReadFrame, Frames
    <3> QED
      BY <3>2, <3>3
  <2>4. frame' \in [Buffers -> Frames]
    BY <1>2, <2>3 DEF ReadFrame
  <2>5. TypeOK'
    BY <1>2, <2>1, <2>4 DEF ReadFrame, TypeOK, loopVars, olkVars, stateVars
  <2> QED
    BY <1>2, <2>5 DEF ReadFrame, loopVars
<1>3. ASSUME ReadOlk PROVE TInv'
  <2>1. /\ refCount' \in [Buffers -> Int]
        /\ data' \in [Buffers -> BOOLEAN]
        /\ frame' \in [Buffers -> Frames]
        /\ refMap' \in [Slots -> Buffers \cup {NoBuf}]
        /\ olkFlags' \in SUBSET Slots
        /\ olkCoFlags' \in SUBSET Slots
    <3>1. CASE EndsLeading
      BY <1>3, <3>1, ResetType DEF ReadOlk
    <3>2. CASE ~EndsLeading
      BY <1>3, <3>2 DEF ReadOlk, TypeOK, bufferVars
    <3> QED
      BY <3>1, <3>2
  <2>2. olk' \in BOOLEAN
    BY <1>3 DEF ReadOlk, TypeOK
  <2>3. TypeOK'
    BY <1>3, <2>1, <2>2 DEF ReadOlk, TypeOK, loopVars, stateVars
  <2> QED
    BY <1>3, <2>3 DEF ReadOlk, loopVars
<1>4. ASSUME NEW flags \in SUBSET Slots, ReadRefresh(flags) PROVE TInv'
  <2> DEFINE resync == needResync /\ unit.type \in {"KEY", "INTRA_ONLY"}
             bad == OverwritesOLK(flags) \/ (needResync /\ ~resync)
             S == IF resync THEN ActiveSlots(refFrames) ELSE {}
             d == IF bad THEN data ELSE [data EXCEPT ![cur] = TRUE]
  <2>1. S \in SUBSET Slots
    BY ActiveSubset DEF TypeOK
  <2>2. d \in [Buffers -> BOOLEAN]
    BY DEF TypeOK
  <2>3. DropSlots(S, d)
    BY <1>4 DEF ReadRefresh
  <2> HIDE DEF S, d
  <2>4. /\ refCount' \in [Buffers -> Int]
        /\ data' \in [Buffers -> BOOLEAN]
        /\ frame' \in [Buffers -> Frames]
        /\ refMap' \in [Slots -> Buffers \cup {NoBuf}]
    BY <2>1, <2>2, <2>3, DropSlotsType
  <2>5. /\ unit' = [unit EXCEPT !.flags = flags] /\ unit' \in Units
        /\ needResync' \in BOOLEAN
        /\ olkCoFlags' \in SUBSET Slots
    BY <1>4 DEF ReadRefresh, TypeOK, Units
  <2>6. cur \in Buffers /\ frame[cur].order \in Orders
    BY <1>4 DEF ReadRefresh, TypeOK, Frames
  <2>7. olkFlags' \in SUBSET Slots /\ lastOlk' \in Orders
    BY <1>4, <2>6 DEF ReadRefresh, TypeOK
  <2>8. pc' \in {"broken", "tiles"} /\ pc = "refresh"
    BY <1>4 DEF ReadRefresh
  <2>9. TypeOK'
    BY <1>4, <2>4, <2>5, <2>7, <2>8 DEF ReadRefresh, TypeOK, loopVars
  <2> QED
    BY <1>4, <2>8, <2>9 DEF ReadRefresh, loopVars
<1>5. ASSUME NEW slot \in Slots, NEW derive \in BOOLEAN, NEW order \in Orders,
             ReadSEF(slot, derive, order)
      PROVE  TInv'
  <2>1. refMap[slot] \in Buffers
    BY <1>5 DEF ReadSEF, TypeOK
  <2>2. unit' \in Units /\ unit'.target \in Buffers
    BY <1>5, <2>1 DEF ReadSEF, TypeOK, Units
  <2>3. data' \in [Buffers -> BOOLEAN]
    BY <1>5 DEF ReadSEF, TypeOK
  <2>4. frame' \in [Buffers -> Frames]
    <3>1. frame' = [frame EXCEPT ![cur] = [frame[cur] EXCEPT !.order = order]]
      BY <1>5 DEF ReadSEF
    <3>2. ASSUME NEW f \in Frames PROVE [f EXCEPT !.order = order] \in Frames
      BY <1>5 DEF Frames
    <3>3. frame \in [Buffers -> Frames]
      BY DEF TypeOK
    <3> QED
      BY <3>1, <3>2, <3>3
  <2>5. TypeOK'
    BY <1>5, <2>2, <2>3, <2>4 DEF ReadSEF, TypeOK, loopVars, olkVars, stateVars
  <2> QED
    BY <1>5, <2>2, <2>5 DEF ReadSEF, loopVars
<1>6. ASSUME SEFEndsLeading PROVE TInv'
  <2>1. TypeOK'
    BY <1>6, ResetType DEF SEFEndsLeading, TypeOK, Units, loopVars, stateVars
  <2> QED
    BY <1>6, <2>1 DEF SEFEndsLeading, loopVars
<1>7. ASSUME ShowSEF PROVE TInv'
  <2>1. unit' \in Units
    BY <1>7 DEF ShowSEF, TypeOK, Units
  <2>2. Blank \in Frames
    BY MaxOrderAssumption DEF Blank, Frames, Orders, RestrictedDOH
  <2>3. refCount' \in [Buffers -> Int] /\ frame' \in [Buffers -> Frames] /\ cur' \in Buffers
    <3>1. CASE unit.sef = "derive"
      <4>1. /\ refCount' = [refCount EXCEPT ![cur] = @ - 1, ![unit.target] = @ + 1]
            /\ frame' = [frame EXCEPT ![cur] = Blank]
            /\ cur' = unit.target
        BY <1>7, <3>1 DEF ShowSEF
      <4>2. unit.target \in Buffers /\ cur \in Buffers
        BY <1>7 DEF ShowSEF, TypeOK
      <4>3. refCount' \in [Buffers -> Int]
        BY <4>1, <4>2 DEF TypeOK
      <4>4. frame' \in [Buffers -> Frames]
        BY <2>2, <4>1 DEF TypeOK
      <4> QED
        BY <4>1, <4>2, <4>3, <4>4
    <3>2. CASE unit.sef # "derive"
      BY <1>7, <3>2 DEF ShowSEF, TypeOK
    <3> QED
      BY <3>1, <3>2
  <2>4. TypeOK'
    BY <1>7, <2>1, <2>3 DEF ShowSEF, TypeOK, loopVars, olkVars, stateVars
  <2> QED
    BY <1>7, <2>3, <2>4, BuffersAssumption DEF ShowSEF, loopVars
<1> QED
  BY <1>1, <1>2, <1>3, <1>4, <1>5, <1>6, <1>7 DEF HeaderSteps

LEMMA UpdateStepsTInv ==
  ASSUME TInv, UpdateSteps
  PROVE  TInv'
<1> USE DEF TInv, Holding, NoFramePCs, TargetExists, TriggerExists, PCs, HeaderPCs
<1>1. ASSUME DecodeTiles PROVE TInv'
  <2>1. longTerm' \in [Slots -> LongTermIds \cup {NoLongTerm}]
    BY <1>1 DEF DecodeTiles, TypeOK, Units
  <2>2. frame' \in [Buffers -> Frames]
    <3>1. frame' = [frame EXCEPT ![cur] = [frame[cur] EXCEPT !.restricted = FALSE]]
      BY <1>1 DEF DecodeTiles
    <3>2. ASSUME NEW f \in Frames PROVE [f EXCEPT !.restricted = FALSE] \in Frames
      BY DEF Frames
    <3>3. frame \in [Buffers -> Frames]
      BY DEF TypeOK
    <3> QED
      BY <3>1, <3>2, <3>3
  <2>3. todo' \in SUBSET Slots
    BY <1>1 DEF DecodeTiles, TypeOK, Units
  <2>4. TypeOK'
    BY <1>1, <2>1, <2>2, <2>3 DEF DecodeTiles, TypeOK, olkVars, stateVars
  <2> QED
    BY <1>1, <2>4 DEF DecodeTiles
<1>2. ASSUME OutputEvicted PROVE TInv'
  <2>1. PICK s \in First(todo) : Eligible(refMap[s]) /\ trigger' = refMap[s]
    BY <1>2 DEF OutputEvicted
  <2>2. trigger' \in Buffers
    BY <2>1 DEF First, Eligible, TypeOK
  <2>3. TypeOK'
    BY <1>2, <2>2 DEF OutputEvicted, TypeOK, bufferVars, olkVars, stateVars
  <2> QED
    BY <1>2, <2>2, <2>3 DEF OutputEvicted
<1>3. ASSUME RefreshSlot PROVE TInv'
  <2> DEFINE new(s) == IF s \in InsertedSlots THEN cur ELSE NoBuf
             lost(s) == [b \in Buffers |-> (IF b = refMap[s] THEN 1 ELSE 0)
                                           - (IF b = new(s) THEN 1 ELSE 0)]
  <2>1. PICK s \in First(todo) : SetSlot(s, new(s))
    BY <1>3 DEF RefreshSlot
  <2>2. lost(s) \in [Buffers -> Int]
    OBVIOUS
  <2>3. /\ DropRefs(lost(s), data, frame)
        /\ refMap' = [refMap EXCEPT ![s] = new(s)]
        /\ todo' = todo \ {s}
    BY <2>1 DEF SetSlot
  <2>4. new(s) \in Buffers \cup {NoBuf}
    BY DEF TypeOK
  <2> HIDE DEF lost, new
  <2>5. data \in [Buffers -> BOOLEAN] /\ frame \in [Buffers -> Frames]
    BY DEF TypeOK
  <2>6. /\ refCount' \in [Buffers -> Int]
        /\ data' \in [Buffers -> BOOLEAN]
        /\ frame' \in [Buffers -> Frames]
    BY <2>2, <2>3, <2>5, DropRefsType
  <2>7. TypeOK'
    BY <1>3, <2>3, <2>4, <2>6 DEF RefreshSlot, TypeOK, olkVars, stateVars
  <2> QED
    BY <1>3, <2>7 DEF RefreshSlot
<1>4. ASSUME OutputCurrent PROVE TInv'
  <2>1. cur \in Buffers
    BY <1>4 DEF OutputCurrent, TypeOK
  <2>2. TypeOK'
    BY <1>4, <2>1 DEF OutputCurrent, TypeOK, bufferVars, olkVars, stateVars
  <2> QED
    BY <1>4, <2>1, <2>2 DEF OutputCurrent
<1>5. ASSUME OutputBefore PROVE TInv'
  <2>1. PICK s \in Before : Output(refMap[s])
    BY <1>5 DEF OutputBefore
  <2>2. s \in Slots /\ Eligible(refMap[s])
    BY <2>1, ActiveSubset DEF Before, Pending, TypeOK
  <2>3. refMap[s] \in Buffers
    BY <2>2 DEF Eligible, TypeOK
  <2>4. TypeOK'
    BY <1>5, <2>1, <2>3, OutputType
       DEF OutputBefore, TypeOK, loopVars, olkVars, stateVars
  <2> QED
    BY <1>5, <2>4 DEF OutputBefore, loopVars
<1>6. ASSUME OutputTrigger PROVE TInv'
  <2>1. trigger \in Buffers
    BY <1>6 DEF OutputTrigger
  <2>2. reach' \in Nat
    BY <1>6, <2>1, OrdersNat DEF OutputTrigger, TypeOK, Frames
  <2>3. TypeOK'
    BY <1>6, <2>1, <2>2, OutputType DEF OutputTrigger, TypeOK, olkVars, stateVars
  <2> QED
    BY <1>6, <2>1, <2>3 DEF OutputTrigger
<1>7. ASSUME OutputNext PROVE TInv'
  <2>1. PICK s \in First(Successors) : Output(refMap[s])
    BY <1>7 DEF OutputNext
  <2>2. s \in Pending(ActiveSlots(refFrames))
    BY <2>1 DEF First, Successors, At
  <2>3. s \in Slots /\ Eligible(refMap[s])
    BY <2>2, ActiveSubset DEF Pending, TypeOK
  <2>4. refMap[s] \in Buffers
    BY <2>3 DEF Eligible, TypeOK
  <2>5. reach' \in Nat
    BY <1>7 DEF OutputNext, NextOrder, TypeOK
  <2>6. TypeOK'
    BY <1>7, <2>1, <2>4, <2>5, OutputType DEF OutputNext, TypeOK, olkVars, stateVars
  <2> QED
    BY <1>7, <2>6 DEF OutputNext
<1>8. ASSUME OutputEnds PROVE TInv'
  <2>1. TypeOK'
    BY <1>8 DEF OutputEnds, TypeOK, bufferVars, olkVars, stateVars
  <2>2. pc' \in {"update", "final"} /\ cur' = cur /\ cur # NoBuf
    BY <1>8 DEF OutputEnds, TypeOK
  <2> QED
    BY <2>1, <2>2
<1>9. ASSUME FinishUnit PROVE TInv'
  <2>1. NoUnit \in Units
    BY DEF NoUnit, Units, FrameTypes
  <2>2. data \in [Buffers -> BOOLEAN]
    BY DEF TypeOK
  <2>3. /\ refCount' \in [Buffers -> Int]
        /\ data' \in [Buffers -> BOOLEAN]
        /\ frame' \in [Buffers -> Frames]
    BY <1>9, <2>2, DropsType DEF FinishUnit
  <2>4. TypeOK'
    BY <1>9, <2>1, <2>3 DEF FinishUnit, NextUnit, TypeOK, loopVars, olkVars
  <2> QED
    BY <1>9, <2>4 DEF FinishUnit, NextUnit, loopVars
<1> QED
  BY <1>1, <1>2, <1>3, <1>4, <1>5, <1>6, <1>7, <1>8, <1>9 DEF UpdateSteps

LEMMA NextTInv == TInv /\ [Next]_vars => TInv'
<1> SUFFICES ASSUME TInv, [Next]_vars PROVE TInv'
  OBVIOUS
<1>1. CASE Next
  BY <1>1, CallStepsTInv, HeaderStepsTInv, UpdateStepsTInv DEF Next, Decoder
<1>2. CASE UNCHANGED vars
  BY <1>2 DEF vars, bufferVars, loopVars, olkVars, stateVars, TInv, TypeOK,
              Holding, TargetExists, TriggerExists
<1> QED
  BY <1>1, <1>2

LEMMA AlwaysTInv == Spec => []TInv
BY InitTInv, NextTInv, PTL DEF Spec

\* The decoder's state keeps its types: no step reads a field through a NULL
\* cur_frame, trigger_frame or frame_to_show, whatever the pool, the slots and
\* the stream.
THEOREM TypeCorrect == Spec => []TypeOK
<1>1. TInv => TypeOK
  BY DEF TInv
<1> QED
  BY <1>1, AlwaysTInv, PTL

-----------------------------------------------------------------------------
(* Reference counts.  Each step changes the holders of a buffer (slots, the *)
(* current frame, the queue) by as much as its count.                       *)

LEMMA SlotsCleared ==
  ASSUME TypeOK, NEW S \in SUBSET Slots, NEW d, DropSlots(S, d), NEW b \in Buffers
  PROVE  SlotRefs(Slots, b)' = SlotRefs(Slots, b) - SlotRefs(S, b)
<1> DEFINE A == {s \in Slots : refMap[s] = b}
           B == {s \in S : refMap[s] = b}
<1>1. {s \in Slots : refMap'[s] = b} = A \ B
  BY BuffersAssumption DEF DropSlots
<1>2. A \cap B = B /\ IsFiniteSet(A)
  BY SlotsFinite, FS_Subset
<1>3. Cardinality(A \ B) = Cardinality(A) - Cardinality(B)
  <2> HIDE DEF A, B
  <2>1. Cardinality(A \ B) = Cardinality(A) - Cardinality(A \cap B)
    BY <1>2, FS_Difference
  <2> QED
    BY <1>2, <2>1
<1> QED
  BY <1>1, <1>3 DEF SlotRefs

LEMMA SlotSet ==
  ASSUME TypeOK, NEW s0 \in Slots, NEW new, SetSlot(s0, new), NEW b \in Buffers
  PROVE  SlotRefs(Slots, b)' = SlotRefs(Slots, b) - (IF refMap[s0] = b THEN 1 ELSE 0)
                               + (IF new = b THEN 1 ELSE 0)
<1> DEFINE A == {s \in Slots : refMap[s] = b}
           G == {s \in Slots : refMap'[s] = b}
           C == A \ {s0}
<1>1. \A s \in Slots : refMap'[s] = IF s = s0 THEN new ELSE refMap[s]
  BY DEF SetSlot, TypeOK
<1>2. /\ IsFiniteSet(A) /\ IsFiniteSet(C)
      /\ Cardinality(C) \in Nat
  BY SlotsFinite, CountNat, FS_Subset, FS_CardinalityType
<1>3. A = IF refMap[s0] = b THEN C \cup {s0} ELSE C
  OBVIOUS
<1>4. G = IF new = b THEN C \cup {s0} ELSE C
  BY <1>1
<1>5. s0 \notin C
  OBVIOUS
<1>6. SlotRefs(Slots, b) = Cardinality(A) /\ SlotRefs(Slots, b)' = Cardinality(G)
  BY DEF SlotRefs
<1> HIDE DEF A, G, C
<1>7. Cardinality(C \cup {s0}) = Cardinality(C) + 1
  BY <1>2, <1>5, FS_AddElement
<1> QED
  BY <1>2, <1>3, <1>4, <1>6, <1>7

LEMMA OutputAppended ==
  ASSUME TypeOK, NEW c \in Buffers, outputs' = Append(outputs, c), NEW b \in Buffers
  PROVE  OutputRefs(1, b)' = OutputRefs(1, b) + (IF c = b THEN 1 ELSE 0)
<1> DEFINE n == Len(outputs)
           A == {i \in 1..n : outputs[i] = b}
           G == {i \in 1..Len(outputs') : outputs'[i] = b}
<1>1. n \in Nat /\ Len(outputs') = n + 1
  BY DEF TypeOK
<1>2. outputs'[n + 1] = c /\ \A i \in 1..n : outputs'[i] = outputs[i]
  BY DEF TypeOK
<1>3. IsFiniteSet(A) /\ Cardinality(A) \in Nat
  <2>1. IsFiniteSet(1..n)
    BY <1>1, FS_Interval
  <2> QED
    BY <2>1, FS_Subset, FS_CardinalityType
<1>4. G = IF c = b THEN A \cup {n + 1} ELSE A
  BY <1>1, <1>2
<1>5. n + 1 \notin A
  BY <1>1
<1>6. OutputRefs(1, b) = Cardinality(A) /\ OutputRefs(1, b)' = Cardinality(G)
  BY DEF OutputRefs
<1> HIDE DEF A, G
<1>7. Cardinality(A \cup {n + 1}) = Cardinality(A) + 1
  BY <1>3, <1>5, FS_AddElement
<1> QED
  BY <1>3, <1>4, <1>6, <1>7

\* beyond the end of the queue there is nothing
LEMMA NoOutputRefs ==
  ASSUME outputs \in Seq(Buffers), NEW n \in Nat, n > Len(outputs), NEW b
  PROVE  OutputRefs(n, b) = 0
<1>1. {i \in n..Len(outputs) : outputs[i] = b} = {}
  OBVIOUS
<1> QED
  BY <1>1, FS_EmptySet DEF OutputRefs

Undropped == pc # "eos" => dropped = 0
RInv == TInv /\ RefCountsMatch /\ Undropped

LEMMA HoldersNat ==
  ASSUME TypeOK, dropped = 0, NEW b \in Buffers
  PROVE  /\ SlotRefs(Slots, b) \in Nat
         /\ OutputRefs(1, b) \in Nat
         /\ refCount[b] \in Int
BY SlotRefsNat, OutputRefsNat DEF TypeOK

\* The counts match when the holders and the counts do not change ...
LEMMA CountsKept ==
  ASSUME RefCountsMatch, UNCHANGED <<refCount, refMap, cur, outputs, dropped>>
  PROVE  RefCountsMatch'
BY DEF RefCountsMatch, SlotRefs, OutputRefs

\* ... when slots are emptied ...
LEMMA CountsDropSlots ==
  ASSUME TypeOK, RefCountsMatch, dropped = 0, NEW S \in SUBSET Slots, NEW d,
         DropSlots(S, d), UNCHANGED <<cur, outputs, dropped>>
  PROVE  RefCountsMatch'
<1> SUFFICES ASSUME NEW b \in Buffers
             PROVE  refCount'[b] = SlotRefs(Slots, b)' + (IF cur' = b THEN 1 ELSE 0)
                                   + OutputRefs(dropped + 1, b)'
  BY DEF RefCountsMatch
<1>1. refCount'[b] = refCount[b] - SlotRefs(S, b)
  BY DEF DropSlots, DropRefs
<1>2. SlotRefs(Slots, b)' = SlotRefs(Slots, b) - SlotRefs(S, b)
  BY SlotsCleared
<1>3. OutputRefs(dropped + 1, b)' = OutputRefs(dropped + 1, b)
  BY DEF OutputRefs
<1>4. refCount[b] = SlotRefs(Slots, b) + (IF cur = b THEN 1 ELSE 0)
                    + OutputRefs(dropped + 1, b)
  BY DEF RefCountsMatch
<1>5. SlotRefs(S, b) \in Nat /\ SlotRefs(Slots, b) \in Nat
      /\ OutputRefs(dropped + 1, b) \in Nat
  BY SlotRefsNat, OutputRefsNat DEF TypeOK
<1> QED
  BY <1>1, <1>2, <1>3, <1>4, <1>5

\* ... when a frame is queued ...
LEMMA CountsOutput ==
  ASSUME TypeOK, RefCountsMatch, dropped = 0, NEW c \in Buffers, Output(c),
         UNCHANGED <<refMap, cur, dropped>>
  PROVE  RefCountsMatch'
<1> SUFFICES ASSUME NEW b \in Buffers
             PROVE  refCount'[b] = SlotRefs(Slots, b)' + (IF cur' = b THEN 1 ELSE 0)
                                   + OutputRefs(dropped + 1, b)'
  BY DEF RefCountsMatch
<1>1. refCount'[b] = refCount[b] + (IF c = b THEN 1 ELSE 0)
  BY DEF Output, TypeOK
<1>2. OutputRefs(1, b)' = OutputRefs(1, b) + (IF c = b THEN 1 ELSE 0)
  BY OutputAppended DEF Output
<1>3. dropped + 1 = 1
  OBVIOUS
<1>4. SlotRefs(Slots, b)' = SlotRefs(Slots, b)
  BY DEF SlotRefs
<1>5. refCount[b] = SlotRefs(Slots, b) + (IF cur = b THEN 1 ELSE 0) + OutputRefs(1, b)
  BY <1>3 DEF RefCountsMatch
<1>6. OutputRefs(dropped + 1, b)' = OutputRefs(1, b)'
  BY <1>3 DEF OutputRefs
<1> QED
  BY <1>1, <1>2, <1>4, <1>5, <1>6, HoldersNat

\* ... and when the current frame changes to c, b losing lost[b] references.
LEMMA CountsCurrent ==
  ASSUME TypeOK, RefCountsMatch, NEW c, cur' = c,
         \A b \in Buffers : refCount'[b] = refCount[b] - (IF cur = b THEN 1 ELSE 0)
                                           + (IF c = b THEN 1 ELSE 0),
         UNCHANGED <<refMap, outputs, dropped>>
  PROVE  RefCountsMatch'
<1> SUFFICES ASSUME NEW b \in Buffers
             PROVE  refCount'[b] = SlotRefs(Slots, b)' + (IF cur' = b THEN 1 ELSE 0)
                                   + OutputRefs(dropped + 1, b)'
  BY DEF RefCountsMatch
<1>1. SlotRefs(Slots, b)' = SlotRefs(Slots, b)
      /\ OutputRefs(dropped + 1, b)' = OutputRefs(dropped + 1, b)
  BY DEF SlotRefs, OutputRefs
<1>2. SlotRefs(Slots, b) \in Nat /\ OutputRefs(dropped + 1, b) \in Nat
  BY SlotRefsNat, OutputRefsNat DEF TypeOK
<1>3. refCount[b] = SlotRefs(Slots, b) + (IF cur = b THEN 1 ELSE 0)
                    + OutputRefs(dropped + 1, b)
  BY DEF RefCountsMatch
<1> QED
  BY <1>1, <1>2, <1>3

LEMMA InitRInv == Init => RInv
<1> SUFFICES ASSUME Init PROVE RInv
  OBVIOUS
<1>1. TInv
  BY InitTInv
<1>2. ASSUME NEW b \in Buffers
      PROVE  refCount[b] = SlotRefs(Slots, b) + (IF cur = b THEN 1 ELSE 0)
                           + OutputRefs(dropped + 1, b)
  <2>1. {s \in Slots : refMap[s] = b} = {}
    BY <1>2, BuffersAssumption DEF Init
  <2>2. SlotRefs(Slots, b) = 0
    BY <2>1, FS_EmptySet DEF SlotRefs
  <2>3. outputs \in Seq(Buffers) /\ Len(outputs) = 0 /\ dropped = 0
    BY DEF Init
  <2>4. OutputRefs(dropped + 1, b) = 0
    BY <2>3, NoOutputRefs
  <2> QED
    BY <1>2, <2>2, <2>4, BuffersAssumption DEF Init
<1> QED
  BY <1>1, <1>2 DEF Init, RInv, RefCountsMatch, Undropped

\* The frames of the last call are given up.
LEMMA CountsRelease ==
  ASSUME TypeOK, RefCountsMatch, dropped = 0,
         DropRefs([b \in Buffers |-> OutputRefs(1, b)], data, frame),
         UNCHANGED <<refMap, cur>>,
         outputs' \in Seq(Buffers), dropped' = Len(outputs')
  PROVE  RefCountsMatch'
<1> SUFFICES ASSUME NEW b \in Buffers
             PROVE  refCount'[b] = SlotRefs(Slots, b)' + (IF cur' = b THEN 1 ELSE 0)
                                   + OutputRefs(dropped + 1, b)'
  BY DEF RefCountsMatch
<1>1. refCount'[b] = refCount[b] - OutputRefs(1, b)
  BY DEF DropRefs
<1>2. {i \in (dropped' + 1)..Len(outputs') : outputs'[i] = b} = {}
  OBVIOUS
<1>3. OutputRefs(dropped + 1, b)' = 0
  BY <1>2, FS_EmptySet DEF OutputRefs
<1>4. SlotRefs(Slots, b)' = SlotRefs(Slots, b)
  BY DEF SlotRefs
<1>5. refCount[b] = SlotRefs(Slots, b) + (IF cur = b THEN 1 ELSE 0)
                    + OutputRefs(1, b)
  BY DEF RefCountsMatch
<1> QED
  BY <1>1, <1>3, <1>4, <1>5, HoldersNat

LEMMA CallStepsCounts ==
  ASSUME ~ReuseAfterFlush, RInv,
         CallSteps \/ (\E n \in 1..MaxUnits : Decode(n)) \/ Flush
  PROVE  RefCountsMatch' /\ Undropped'
<1> USE DEF RInv, TInv, Undropped
<1>1. ASSUME NEW n \in 1..MaxUnits, Decode(n) PROVE RefCountsMatch' /\ Undropped'
  BY <1>1, CountsRelease DEF Decode, ReleaseOutputs
<1>2. ASSUME Flush PROVE RefCountsMatch' /\ Undropped'
  BY <1>2, CountsRelease DEF Flush, ReleaseOutputs
<1>3. ASSUME NEW kind \in Kinds, NEW first \in BOOLEAN, StartUnit(kind, first)
      PROVE  RefCountsMatch' /\ Undropped'
  BY <1>3, CountsKept DEF StartUnit, bufferVars
<1>4. ASSUME FlushOne PROVE RefCountsMatch' /\ Undropped'
  <2>1. PICK s \in Pending(Slots) : Output(refMap[s])
    BY <1>4 DEF FlushOne
  <2>2. refMap[s] \in Buffers
    BY <2>1 DEF Pending, Eligible, TypeOK
  <2> QED
    BY <1>4, <2>1, <2>2, CountsOutput DEF FlushOne
<1>5. ASSUME KeyFlushed PROVE RefCountsMatch' /\ Undropped'
  BY <1>5, CountsKept DEF KeyFlushed, bufferVars
<1>6. ASSUME Flushed PROVE RefCountsMatch' /\ Undropped'
  <2>1. outputs' \in Seq(Buffers) /\ dropped' = Len(outputs')
    BY <1>6 DEF Flushed, TypeOK
  <2>2. pc' = "eos"
    BY <1>6 DEF Flushed
  <2> QED
    BY <1>6, <2>1, <2>2, CountsRelease DEF Flushed
<1>7. ASSUME AssignBuffer PROVE RefCountsMatch' /\ Undropped'
  <2>1. PICK b \in Buffers : refCount[b] = 0 /\ cur' = b
                             /\ refCount' = [refCount EXCEPT ![b] = 1]
    BY <1>7 DEF AssignBuffer
  <2>2. cur = NoBuf
    BY <1>7 DEF AssignBuffer, Holding, NoFramePCs
  <2>3. \A c \in Buffers : refCount'[c] = refCount[c] - (IF cur = c THEN 1 ELSE 0)
                                          + (IF b = c THEN 1 ELSE 0)
    BY <2>1, <2>2, BuffersAssumption DEF TypeOK
  <2>4. UNCHANGED <<refMap, outputs, dropped>>
    BY <1>7 DEF AssignBuffer
  <2>5. RefCountsMatch'
    BY <2>1, <2>3, <2>4, CountsCurrent
  <2> QED
    BY <1>7, <2>5 DEF AssignBuffer
<1>8. ASSUME AssignFails PROVE RefCountsMatch' /\ Undropped'
  BY <1>8, CountsKept DEF AssignFails, UnitFails, bufferVars
<1>9. ASSUME Fail PROVE RefCountsMatch' /\ Undropped'
  <2>1. \A c \in Buffers : refCount'[c] = refCount[c] - (IF cur = c THEN 1 ELSE 0)
                                          + (IF NoBuf = c THEN 1 ELSE 0)
    BY <1>9, BuffersAssumption DEF Fail, DropRefs, TypeOK
  <2>2. RefCountsMatch'
    BY <1>9, <2>1, CountsCurrent DEF Fail
  <2> QED
    BY <1>9, <2>2 DEF Fail, HeaderPCs
<1>10. ASSUME CallEnds PROVE RefCountsMatch' /\ Undropped'
  BY <1>10, CountsKept DEF CallEnds, bufferVars
<1> QED
  BY <1>1, <1>2, <1>3, <1>4, <1>5, <1>6, <1>7, <1>8, <1>9, <1>10 DEF CallSteps

LEMMA HeaderStepsCounts ==
  ASSUME RInv, HeaderSteps
  PROVE  RefCountsMatch' /\ Undropped'
<1> USE DEF RInv, TInv, Undropped
<1>1. ASSUME ReadSequence PROVE RefCountsMatch' /\ Undropped'
  <2>1. PICK n \in IF unit.kind = "CLK" THEN RefFramesChoices ELSE {refFrames} \ {0} :
          IF unit.kind = "CLK" /\ unit.first
          THEN DropSlots(ActiveSlots(n), data)
          ELSE UNCHANGED <<refMap, bufferVars>>
    BY <1>1 DEF ReadSequence
  <2>2. n \in 0..NumSlots
    BY <2>1, RefFramesAssumption DEF TypeOK
  <2>3. ActiveSlots(n) \in SUBSET Slots
    BY <2>2, ActiveSubset
  <2>4. UNCHANGED <<cur, outputs, dropped>> /\ pc = "sequence"
    BY <1>1 DEF ReadSequence
  <2>5. RefCountsMatch'
    BY <2>1, <2>3, <2>4, CountsDropSlots, CountsKept DEF bufferVars
  <2> QED
    BY <2>4, <2>5
<1>2. ASSUME NEW type \in FrameTypes, NEW restrict \in BOOLEAN, NEW show \in BOOLEAN,
             NEW implicit \in BOOLEAN, NEW lt \in LongTermIds \cup {NoLongTerm},
             NEW order \in 0..MaxOrder,
             ReadFrame(type, restrict, lt, show, implicit, order)
      PROVE  RefCountsMatch' /\ Undropped'
  BY <1>2, CountsKept DEF ReadFrame
<1>3. ASSUME ResetOtherThanOLK \/ UNCHANGED <<refMap, bufferVars>>,
             UNCHANGED <<cur, outputs, dropped>>, dropped = 0
      PROVE  RefCountsMatch'
  <2> DEFINE S == {s \in ActiveSlots(refFrames) :
                     s \notin olkFlags \cup olkCoFlags /\ longTerm[s] = NoLongTerm}
  <2>1. S \in SUBSET Slots
    BY ActiveSubset DEF TypeOK
  <2>2. DropSlots(S, data) \/ UNCHANGED <<refMap, refCount>>
    BY <1>3 DEF ResetOtherThanOLK, bufferVars
  <2> HIDE DEF S
  <2> QED
    BY <1>3, <2>1, <2>2, CountsDropSlots, CountsKept
<1>4. ASSUME ReadOlk PROVE RefCountsMatch' /\ Undropped'
  <2>1. ResetOtherThanOLK \/ UNCHANGED <<refMap, bufferVars>>
    BY <1>4 DEF ReadOlk
  <2>2. UNCHANGED <<cur, outputs, dropped>> /\ pc = "olk"
    BY <1>4 DEF ReadOlk
  <2> QED
    BY <1>3, <2>1, <2>2
<1>5. ASSUME NEW flags \in SUBSET Slots, ReadRefresh(flags)
      PROVE  RefCountsMatch' /\ Undropped'
  <2> DEFINE resync == needResync /\ unit.type \in {"KEY", "INTRA_ONLY"}
             bad == OverwritesOLK(flags) \/ (needResync /\ ~resync)
             S == IF resync THEN ActiveSlots(refFrames) ELSE {}
             d == IF bad THEN data ELSE [data EXCEPT ![cur] = TRUE]
  <2>1. S \in SUBSET Slots
    BY ActiveSubset DEF TypeOK
  <2>2. DropSlots(S, d) /\ UNCHANGED <<cur, outputs, dropped>> /\ pc = "refresh"
    BY <1>5 DEF ReadRefresh
  <2> HIDE DEF S, d
  <2> QED
    BY <2>1, <2>2, CountsDropSlots
<1>6. ASSUME NEW slot \in Slots, NEW derive \in BOOLEAN, NEW order \in Orders,
             ReadSEF(slot, derive, order)
      PROVE  RefCountsMatch' /\ Undropped'
  BY <1>6, CountsKept DEF ReadSEF
<1>7. ASSUME SEFEndsLeading PROVE RefCountsMatch' /\ Undropped'
  <2>1. ResetOtherThanOLK /\ UNCHANGED <<cur, outputs, dropped>> /\ pc = "sefOlk"
    BY <1>7 DEF SEFEndsLeading
  <2> QED
    BY <1>3, <2>1
<1>8. ASSUME ShowSEF PROVE RefCountsMatch' /\ Undropped'
  <2>1. UNCHANGED <<refMap, outputs, dropped>> /\ pc = "sefShow"
    BY <1>8 DEF ShowSEF
  <2>2. CASE unit.sef = "derive"
    <3>1. /\ refCount' = [refCount EXCEPT ![cur] = @ - 1, ![unit.target] = @ + 1]
          /\ cur' = unit.target
      BY <1>8, <2>2 DEF ShowSEF
    <3>2. cur \in Buffers /\ unit.target \in Buffers
      BY <1>8 DEF ShowSEF, TypeOK, Holding, NoFramePCs, TargetExists
    <3>3. \A c \in Buffers : refCount'[c] = refCount[c] - (IF cur = c THEN 1 ELSE 0)
                                            + (IF unit.target = c THEN 1 ELSE 0)
      BY <3>1, <3>2 DEF TypeOK
    <3> QED
      BY <2>1, <3>1, <3>3, CountsCurrent
  <2>3. CASE unit.sef # "derive"
    BY <1>8, <2>1, <2>3, CountsKept DEF ShowSEF
  <2> QED
    BY <2>2, <2>3
<1> QED
  BY <1>1, <1>2, <1>4, <1>5, <1>6, <1>7, <1>8 DEF HeaderSteps

LEMMA UpdateStepsCounts ==
  ASSUME RInv, UpdateSteps
  PROVE  RefCountsMatch' /\ Undropped'
<1> USE DEF RInv, TInv, Undropped
<1>1. ASSUME DecodeTiles PROVE RefCountsMatch' /\ Undropped'
  BY <1>1, CountsKept DEF DecodeTiles
<1>2. ASSUME OutputEvicted PROVE RefCountsMatch' /\ Undropped'
  BY <1>2, CountsKept DEF OutputEvicted, bufferVars
<1>3. ASSUME RefreshSlot PROVE RefCountsMatch' /\ Undropped'
  <2> DEFINE new(s) == IF s \in InsertedSlots THEN cur ELSE NoBuf
  <2>1. PICK s \in First(todo) : SetSlot(s, new(s))
    BY <1>3 DEF RefreshSlot
  <2>2. s \in Slots
    BY <2>1 DEF First, TypeOK
  <2> HIDE DEF new
  <2>3. UNCHANGED <<cur, outputs, dropped>> /\ pc' = pc /\ dropped = 0
    BY <1>3 DEF RefreshSlot
  <2>4. ASSUME NEW b \in Buffers
        PROVE  refCount'[b] = SlotRefs(Slots, b)' + (IF cur' = b THEN 1 ELSE 0)
                              + OutputRefs(dropped + 1, b)'
    <3>1. refCount'[b] = refCount[b] - ((IF b = refMap[s] THEN 1 ELSE 0)
                                        - (IF b = new(s) THEN 1 ELSE 0))
      BY <2>1 DEF SetSlot, DropRefs
    <3>2. SlotRefs(Slots, b)' = SlotRefs(Slots, b) - (IF refMap[s] = b THEN 1 ELSE 0)
                                + (IF new(s) = b THEN 1 ELSE 0)
      BY <2>1, <2>2, SlotSet
    <3>3. OutputRefs(dropped + 1, b)' = OutputRefs(1, b)
      BY <2>3 DEF OutputRefs
    <3>4. refCount[b] = SlotRefs(Slots, b) + (IF cur = b THEN 1 ELSE 0) + OutputRefs(1, b)
      BY <2>3 DEF RefCountsMatch
    <3> QED
      BY <2>3, <3>1, <3>2, <3>3, <3>4, HoldersNat
  <2> QED
    BY <2>3, <2>4 DEF RefCountsMatch
<1>4. ASSUME OutputCurrent PROVE RefCountsMatch' /\ Undropped'
  BY <1>4, CountsKept DEF OutputCurrent, bufferVars
<1>5. ASSUME OutputBefore PROVE RefCountsMatch' /\ Undropped'
  <2>1. PICK s \in Before : Output(refMap[s])
    BY <1>5 DEF OutputBefore
  <2>2. s \in Slots /\ Eligible(refMap[s])
    BY <2>1, ActiveSubset DEF Before, Pending, TypeOK
  <2>3. refMap[s] \in Buffers
    BY <2>2 DEF Eligible, TypeOK
  <2> QED
    BY <1>5, <2>1, <2>3, CountsOutput DEF OutputBefore
<1>6. ASSUME OutputTrigger PROVE RefCountsMatch' /\ Undropped'
  <2>1. trigger \in Buffers /\ Output(trigger)
    BY <1>6 DEF OutputTrigger, TriggerExists
  <2> QED
    BY <1>6, <2>1, CountsOutput DEF OutputTrigger
<1>7. ASSUME OutputNext PROVE RefCountsMatch' /\ Undropped'
  <2>1. PICK s \in First(Successors) : Output(refMap[s])
    BY <1>7 DEF OutputNext
  <2>2. s \in Slots /\ Eligible(refMap[s])
    BY <2>1, ActiveSubset DEF First, Successors, At, Pending, TypeOK
  <2>3. refMap[s] \in Buffers
    BY <2>2 DEF Eligible, TypeOK
  <2> QED
    BY <1>7, <2>1, <2>3, CountsOutput DEF OutputNext
<1>8. ASSUME OutputEnds PROVE RefCountsMatch' /\ Undropped'
  BY <1>8, CountsKept DEF OutputEnds, bufferVars
<1>9. ASSUME FinishUnit PROVE RefCountsMatch' /\ Undropped'
  <2>1. \A c \in Buffers : refCount'[c] = refCount[c] - (IF cur = c THEN 1 ELSE 0)
                                          + (IF NoBuf = c THEN 1 ELSE 0)
    BY <1>9, BuffersAssumption DEF FinishUnit, DropRefs, TypeOK
  <2>2. RefCountsMatch'
    BY <1>9, <2>1, CountsCurrent DEF FinishUnit
  <2> QED
    BY <1>9, <2>2 DEF FinishUnit, NextUnit
<1> QED
  BY <1>1, <1>2, <1>3, <1>4, <1>5, <1>6, <1>7, <1>8, <1>9 DEF UpdateSteps

LEMMA NextRInv ==
  ASSUME ~ReuseAfterFlush
  PROVE  RInv /\ [Next]_vars => RInv'
<1> SUFFICES ASSUME RInv, [Next]_vars PROVE RInv'
  OBVIOUS
<1>1. TInv'
  BY NextTInv DEF RInv
<1>2. CASE Next
  BY <1>1, <1>2, CallStepsCounts, HeaderStepsCounts, UpdateStepsCounts
     DEF RInv, Next, Decoder
<1>3. CASE UNCHANGED vars
  BY <1>1, <1>3, CountsKept DEF vars, bufferVars, RInv, Undropped
<1> QED
  BY <1>2, <1>3

\* An application that does not call the decoder again after the flush at the
\* end of the stream never sees a wrong reference count: after every step of
\* decoding, of an error and of the output loops, the count of a buffer is the
\* number of slots, current frame and queue entries that hold it
\* (check_ref_count_status_dec), whatever the size of the pool and the stream.
THEOREM CountsAlwaysMatch ==
  ASSUME ~ReuseAfterFlush
  PROVE  Spec => []RefCountsMatch
<1>1. RInv /\ [Next]_vars => RInv'
  BY NextRInv
<1>2. RInv => RefCountsMatch
  BY DEF RInv
<1> QED
  BY <1>1, <1>2, InitRInv, PTL DEF Spec

-----------------------------------------------------------------------------
(* The pool.  The rest holds for an application that does not call the      *)
(* decoder again after the flush at the end of the stream: how many buffers *)
(* are held, whose pixels are allocated, that no frame is queued twice, and *)
(* that no frame from before an error is used after it.  As the reference   *)
(* counts match in every state, a buffer is held exactly when a slot, the   *)
(* current frame or the queue refers to it.                                 *)

Held == {b \in Buffers : refCount[b] > 0}
InQueue(b) == \E i \in (dropped + 1)..Len(outputs) : outputs[i] = b

\* buffers the units left in the call will take
Reserved == units + (IF pc \in {"keyflush", "assign"} THEN 1 ELSE 0)

PoolBound == Cardinality(Held) + Reserved <= NumSlots + MaxUnits

\* a buffer that is not held is as if it were new
UnheldInv ==
  \A b \in Buffers : refCount[b] = 0 => ~data[b] /\ ~frame[b].done

HeldInv == \A b \in Buffers : InMap(b) \/ InQueue(b) => data[b]

\* The current frame has the buffer for itself, without pixels, until the frame
\* header has been read; a show_existing_frame puts another frame in its place.
EmptyPCs == {"sequence", "frame", "olk", "refresh", "sef"}
TargetPCs == {"sefOlk", "sefShow"}
FullPCs == {"tiles", "update", "prev", "next", "final"}

CurrentInv ==
  /\ pc \in EmptyPCs \cup TargetPCs => ~InMap(cur) /\ ~InQueue(cur)
  /\ pc \in EmptyPCs \cup TargetPCs \cup {"tiles"} => ~frame[cur].done
  /\ pc \in EmptyPCs => ~data[cur]
  /\ pc \in FullPCs => data[cur]
  /\ pc \in TargetPCs => /\ unit.target # cur
                         /\ data[cur] <=> unit.sef # "derive"

\* A shown frame refreshes no slot; the frame that triggers the output is the
\* current one or in a slot, and has not been output.
OutputInv ==
  /\ pc \in {"keyflush", "assign"} \cup (EmptyPCs \ {"sef"}) => unit.sef = "no"
  /\ pc = "tiles" /\ unit.sef # "no" => unit.flags = {}
  /\ pc = "update" /\ unit.sef # "no" => todo = {} /\ ~frame[cur].done
  /\ pc \in {"prev", "next"} /\ ret = "update" => unit.sef = "no"
  /\ pc \in {"prev", "next"} => trigger = cur \/ InMap(trigger)
  /\ pc = "prev" => ~frame[trigger].done

DoneInv == \A b \in Buffers : InQueue(b) => frame[b].done

QueueBound == Len(outputs) <= NumSlots + MaxUnits

MInv == /\ RInv /\ PoolBound /\ UnheldInv /\ HeldInv /\ CurrentInv /\ OutputInv
        /\ DoneInv /\ NoFrameTwice /\ QueueBound

-----------------------------------------------------------------------------
(* Who holds a buffer.                                                      *)

LEMMA CountPositive ==
  ASSUME NEW f, NEW S, IsFiniteSet(S), NEW b
  PROVE  Count(f, S, b) \in Nat /\ (Count(f, S, b) > 0 <=> \E s \in S : f[s] = b)
<1> DEFINE C == {s \in S : f[s] = b}
<1>1. IsFiniteSet(C) /\ Cardinality(C) \in Nat
  <2>1. C \in SUBSET S
    OBVIOUS
  <2>2. IsFiniteSet(C)
    BY <2>1, FS_Subset
  <2> QED
    BY <2>2, FS_CardinalityType
<1>2. Cardinality(C) = 0 <=> C = {}
  BY <1>1, FS_EmptySet
<1>3. C = {} <=> ~\E s \in S : f[s] = b
  OBVIOUS
<1> HIDE DEF C
<1>4. Cardinality(C) > 0 <=> \E s \in S : f[s] = b
  BY <1>1, <1>2, <1>3
<1> QED
  BY <1>1, <1>4 DEF Count, C

LEMMA HoldersOf ==
  ASSUME RInv, NEW b \in Buffers
  PROVE  refCount[b] \in Nat /\ (refCount[b] > 0 <=> InMap(b) \/ cur = b \/ InQueue(b))
<1>1. Count(refMap, Slots, b) \in Nat /\ (Count(refMap, Slots, b) > 0 <=> InMap(b))
  BY SlotsFinite, CountPositive DEF InMap
<1>2. IsFiniteSet((dropped + 1)..Len(outputs))
  BY FS_Interval DEF RInv, TInv, TypeOK
<1>3. LET n == Count(outputs, (dropped + 1)..Len(outputs), b)
      IN n \in Nat /\ (n > 0 <=> InQueue(b))
  BY <1>2, CountPositive DEF InQueue
<1>4. refCount[b] = Count(refMap, Slots, b) + (IF cur = b THEN 1 ELSE 0)
                    + Count(outputs, (dropped + 1)..Len(outputs), b)
  BY DEF RInv, RefCountsMatch, SlotRefs, OutputRefs, Count
<1> QED
  BY <1>1, <1>3, <1>4

LEMMA HoldersNext ==
  ASSUME RInv', NEW b \in Buffers
  PROVE  /\ refCount'[b] \in Nat
         /\ refCount'[b] > 0 <=> InMap(b)' \/ cur' = b \/ InQueue(b)'
<1>1. Count(refMap', Slots, b) \in Nat /\ (Count(refMap', Slots, b) > 0 <=> InMap(b)')
  BY SlotsFinite, CountPositive DEF InMap
<1>2. IsFiniteSet((dropped' + 1)..Len(outputs'))
  BY FS_Interval DEF RInv, TInv, TypeOK
<1>3. LET n == Count(outputs', (dropped' + 1)..Len(outputs'), b)
      IN n \in Nat /\ (n > 0 <=> InQueue(b)')
  BY <1>2, CountPositive DEF InQueue
<1>4. refCount'[b] = Count(refMap', Slots, b) + (IF cur' = b THEN 1 ELSE 0)
                     + Count(outputs', (dropped' + 1)..Len(outputs'), b)
  BY DEF RInv, RefCountsMatch, SlotRefs, OutputRefs, Count
<1> QED
  BY <1>1, <1>3, <1>4

-----------------------------------------------------------------------------
(* Most steps only give references up, or touch none.                       *)

Allocates == \/ pc = "refresh" /\ pc' = "tiles"
             \/ pc = "sef" /\ pc' \in TargetPCs /\ unit'.sef # "derive"

GivesUp ==
  \A b \in Buffers :
    /\ refCount'[b] <= refCount[b]
    /\ refCount'[b] > 0 => /\ data'[b] <=> (data[b] \/ (b = cur /\ Allocates))
                           /\ frame'[b].done <=> frame[b].done
    /\ refCount'[b] = 0 => /\ data'[b] => data[b] /\ refCount[b] = 0
                           /\ frame'[b].done => frame[b].done /\ refCount[b] = 0
    /\ InMap(b)' => InMap(b)
    /\ InQueue(b)' => InQueue(b)

LEMMA Dropped ==
  ASSUME RInv, NEW lost \in [Buffers -> Nat], NEW d \in [Buffers -> BOOLEAN],
         DropRefs(lost, d, frame), NEW b \in Buffers
  PROVE  /\ refCount'[b] \in Int /\ refCount'[b] <= refCount[b]
         /\ refCount'[b] # 0 => (data'[b] <=> d[b]) /\ frame'[b] = frame[b]
         /\ refCount'[b] = 0 => /\ data'[b] => d[b] /\ refCount[b] = 0
                                /\ ~frame'[b].done
<1>1. refCount[b] \in Nat /\ lost[b] \in Nat
  BY HoldersOf
<1>2. refCount'[b] = refCount[b] - lost[b]
  BY DEF DropRefs
<1>3. data'[b] <=> d[b] /\ (lost[b] <= 0 \/ refCount[b] # lost[b])
  BY Zenon DEF DropRefs
<1>4. frame'[b] = IF refCount[b] = lost[b] THEN Blank ELSE frame[b]
  BY DEF DropRefs
<1>5. refCount'[b] = 0 <=> refCount[b] = lost[b]
  BY <1>1, <1>2
<1>6. refCount[b] = lost[b] /\ lost[b] <= 0 => refCount[b] = 0
  BY <1>1
<1>7. ~Blank.done
  BY DEF Blank
<1>8. refCount'[b] \in Int /\ refCount'[b] <= refCount[b]
  BY <1>1, <1>2
<1> QED
  BY <1>3, <1>4, <1>5, <1>6, <1>7, <1>8

LEMMA DroppedGives ==
  ASSUME RInv, RInv', NEW lost \in [Buffers -> Nat], DropRefs(lost, data, frame), ~Allocates,
         \A b \in Buffers : InMap(b)' => InMap(b),
         \A b \in Buffers : InQueue(b)' => InQueue(b)
  PROVE  GivesUp
<1>1. data \in [Buffers -> BOOLEAN]
  BY DEF RInv, TInv, TypeOK
<1> QED
  BY <1>1, Dropped DEF GivesUp

LEMMA QuietGives ==
  ASSUME RInv, RInv', UNCHANGED <<bufferVars, refMap, cur, outputs, dropped>>, ~Allocates
  PROVE  GivesUp
BY HoldersOf DEF GivesUp, bufferVars, InMap, InQueue

LEMMA SlotsGive ==
  ASSUME RInv, RInv', NEW S \in SUBSET Slots, DropSlots(S, data),
         UNCHANGED <<outputs, dropped>>, ~Allocates
  PROVE  GivesUp
<1> DEFINE lost == [b \in Buffers |-> SlotRefs(S, b)]
<1>1. lost \in [Buffers -> Nat]
  BY SlotRefsNat
<1>2. DropRefs(lost, data, frame)
  BY DEF DropSlots
<1>3. \A b \in Buffers : InMap(b)' => InMap(b)
  BY BuffersAssumption DEF DropSlots, InMap
<1>4. \A b \in Buffers : InQueue(b)' => InQueue(b)
  BY DEF InQueue
<1> HIDE DEF lost
<1> QED
  BY <1>1, <1>2, <1>3, <1>4, DroppedGives

LEMMA CurGives ==
  ASSUME RInv, RInv', DropRefs([b \in Buffers |-> IF b = cur THEN 1 ELSE 0], data, frame),
         UNCHANGED <<refMap, outputs, dropped>>, ~Allocates
  PROVE  GivesUp
<1> DEFINE lost == [b \in Buffers |-> IF b = cur THEN 1 ELSE 0]
<1>1. lost \in [Buffers -> Nat] /\ DropRefs(lost, data, frame)
  OBVIOUS
<1>2. \A b \in Buffers : (InMap(b)' => InMap(b)) /\ (InQueue(b)' => InQueue(b))
  BY DEF InMap, InQueue
<1> HIDE DEF lost
<1> QED
  BY <1>1, <1>2, DroppedGives

\* The queue gives its references up: a new call empties it, the end of the
\* stream leaves it to the application.
LEMMA ReleaseGives ==
  ASSUME RInv, RInv', DropRefs([b \in Buffers |-> OutputRefs(1, b)], data, frame),
         UNCHANGED refMap, dropped' = Len(outputs'), ~Allocates
  PROVE  GivesUp
<1> DEFINE lost == [b \in Buffers |-> OutputRefs(1, b)]
<1>1. lost \in [Buffers -> Nat] /\ DropRefs(lost, data, frame)
  BY OutputRefsNat DEF RInv, TInv, TypeOK
<1>2. \A b \in Buffers : InMap(b)' => InMap(b)
  BY DEF InMap
<1>3. \A b \in Buffers : ~InQueue(b)'
  BY DEF InQueue, RInv, TInv, TypeOK
<1> HIDE DEF lost
<1> QED
  BY <1>1, <1>2, <1>3, DroppedGives

LEMMA CallStepsGive ==
  ASSUME RInv, RInv',
         \/ \E n \in 1..MaxUnits : Decode(n)
         \/ Flush
         \/ \E kind \in Kinds, first \in BOOLEAN : StartUnit(kind, first)
         \/ KeyFlushed \/ Flushed \/ AssignFails \/ Fail \/ CallEnds
  PROVE  GivesUp
<1>1. ASSUME NEW n \in 1..MaxUnits, Decode(n) PROVE GivesUp
  BY <1>1, ReleaseGives DEF Decode, ReleaseOutputs, Allocates
<1>2. ASSUME Flush PROVE GivesUp
  BY <1>2, ReleaseGives DEF Flush, ReleaseOutputs, Allocates
<1>3. ASSUME NEW kind \in Kinds, NEW first \in BOOLEAN, StartUnit(kind, first)
      PROVE  GivesUp
  BY <1>3, QuietGives DEF StartUnit, Allocates
<1>4. ASSUME KeyFlushed PROVE GivesUp
  BY <1>4, QuietGives DEF KeyFlushed, Allocates
<1>5. ASSUME Flushed PROVE GivesUp
  BY <1>5, ReleaseGives DEF Flushed, Allocates
<1>6. ASSUME AssignFails PROVE GivesUp
  BY <1>6, QuietGives DEF AssignFails, Allocates
<1>7. ASSUME Fail PROVE GivesUp
  <2>1. ~Allocates
    BY <1>7 DEF Fail, UnitFails, Allocates, TargetPCs
  <2> QED
    BY <1>7, <2>1, CurGives DEF Fail
<1>8. ASSUME CallEnds PROVE GivesUp
  BY <1>8, QuietGives DEF CallEnds, Allocates
<1> QED
  BY <1>1, <1>2, <1>3, <1>4, <1>5, <1>6, <1>7, <1>8

LEMMA ResetGives ==
  ASSUME RInv, RInv', ResetOtherThanOLK \/ UNCHANGED <<refMap, bufferVars>>,
         UNCHANGED <<cur, outputs, dropped>>, ~Allocates
  PROVE  GivesUp
<1> DEFINE S == {s \in ActiveSlots(refFrames) :
                   s \notin olkFlags \cup olkCoFlags /\ longTerm[s] = NoLongTerm}
<1>1. S \in SUBSET Slots
  BY ActiveSubset DEF RInv, TInv, TypeOK
<1>2. DropSlots(S, data) \/ UNCHANGED <<refMap, bufferVars>>
  BY DEF ResetOtherThanOLK
<1> HIDE DEF S
<1> QED
  BY <1>1, <1>2, SlotsGive, QuietGives

LEMMA ReadRefreshGives ==
  ASSUME RInv, RInv', NEW flags, ReadRefresh(flags)
  PROVE  GivesUp
<1> DEFINE resync == needResync /\ unit.type \in {"KEY", "INTRA_ONLY"}
           bad == OverwritesOLK(flags) \/ (needResync /\ ~resync)
           S == IF resync THEN ActiveSlots(refFrames) ELSE {}
           d == IF bad THEN data ELSE [data EXCEPT ![cur] = TRUE]
           lost == [b \in Buffers |-> SlotRefs(S, b)]
<1>1. S \in SUBSET Slots
  BY ActiveSubset DEF RInv, TInv, TypeOK
<1>2. /\ DropSlots(S, d) /\ UNCHANGED <<cur, outputs, dropped>>
      /\ pc = "refresh" /\ pc' = IF bad THEN "broken" ELSE "tiles"
  BY DEF ReadRefresh
<1>3. cur \in Buffers
  BY <1>2 DEF RInv, TInv, TypeOK, Holding, NoFramePCs
<1>4. /\ d \in [Buffers -> BOOLEAN]
      /\ \A b \in Buffers : d[b] <=> (data[b] \/ (b = cur /\ ~bad))
  BY <1>3, Zenon DEF RInv, TInv, TypeOK
<1>5. Allocates <=> ~bad
  BY <1>2 DEF Allocates
<1>6. \A b \in Buffers : (InMap(b)' => InMap(b)) /\ (InQueue(b)' => InQueue(b))
  BY <1>2, BuffersAssumption DEF DropSlots, InMap, InQueue
<1> HIDE DEF S, d, bad
<1>7. lost \in [Buffers -> Nat] /\ DropRefs(lost, d, frame)
  BY <1>1, <1>2, SlotRefsNat DEF DropSlots
<1>8. \A b \in Buffers : refCount'[b] = 0 => b # cur
  BY <1>2, <1>3, HoldersNext
<1> HIDE DEF lost
<1>9. ASSUME NEW b \in Buffers
      PROVE  /\ refCount'[b] \in Int /\ refCount'[b] <= refCount[b]
             /\ refCount'[b] # 0 => (data'[b] <=> d[b]) /\ frame'[b] = frame[b]
             /\ refCount'[b] = 0 => /\ data'[b] => d[b] /\ refCount[b] = 0
                                    /\ ~frame'[b].done
  BY <1>4, <1>7, Dropped
<1> QED
  BY <1>4, <1>5, <1>6, <1>8, <1>9 DEF GivesUp

LEMMA ReadSEFGives ==
  ASSUME RInv, RInv', NEW slot, NEW derive \in BOOLEAN, NEW order,
         ReadSEF(slot, derive, order)
  PROVE  GivesUp
<1>1. /\ pc = "sef" /\ pc' \in {"sefOlk", "sefShow"}
      /\ UNCHANGED <<refMap, cur, outputs, dropped, refCount>>
      /\ unit'.sef = IF derive THEN "derive" ELSE "copy"
  BY DEF ReadSEF, RInv, TInv, TypeOK, Units
<1>2. cur \in Buffers
  BY <1>1 DEF RInv, TInv, TypeOK, Holding, NoFramePCs
<1>3. \A b \in Buffers : data'[b] <=> (data[b] \/ (b = cur /\ ~derive))
  BY <1>2, Zenon DEF ReadSEF, RInv, TInv, TypeOK
<1>4. \A b \in Buffers : frame'[b].done <=> frame[b].done
  BY <1>2 DEF ReadSEF, RInv, TInv, TypeOK, Frames
<1>5. Allocates <=> ~derive
  BY <1>1 DEF Allocates, TargetPCs
<1>6. refCount[cur] > 0
  BY <1>2, HoldersOf
<1>7. \A b \in Buffers : refCount[b] \in Nat
  BY HoldersOf
<1>8. \A b \in Buffers : (InMap(b)' <=> InMap(b)) /\ (InQueue(b)' <=> InQueue(b))
  BY <1>1 DEF InMap, InQueue
<1> QED
  BY <1>1, <1>3, <1>4, <1>5, <1>6, <1>7, <1>8 DEF GivesUp

LEMMA HeaderStepsGive ==
  ASSUME RInv, RInv',
         \/ ReadSequence \/ ReadOlk
         \/ \E flags \in SUBSET Slots : ReadRefresh(flags)
         \/ \E slot \in Slots, derive \in BOOLEAN, order \in Orders :
              ReadSEF(slot, derive, order)
         \/ SEFEndsLeading
  PROVE  GivesUp
<1>1. ASSUME ReadSequence PROVE GivesUp
  <2>1. PICK n \in IF unit.kind = "CLK" THEN RefFramesChoices ELSE {refFrames} \ {0} :
          IF unit.kind = "CLK" /\ unit.first
          THEN DropSlots(ActiveSlots(n), data)
          ELSE UNCHANGED <<refMap, bufferVars>>
    BY <1>1 DEF ReadSequence
  <2>2. n \in 0..NumSlots
    BY <2>1, RefFramesAssumption DEF RInv, TInv, TypeOK
  <2>3. ActiveSlots(n) \in SUBSET Slots
    BY <2>2, ActiveSubset
  <2>4. UNCHANGED <<cur, outputs, dropped>> /\ ~Allocates
    BY <1>1 DEF ReadSequence, Allocates
  <2> QED
    BY <2>1, <2>3, <2>4, SlotsGive, QuietGives
<1>2. ASSUME ReadOlk PROVE GivesUp
  <2>1. (ResetOtherThanOLK \/ UNCHANGED <<refMap, bufferVars>>)
        /\ UNCHANGED <<cur, outputs, dropped>> /\ ~Allocates
    BY <1>2 DEF ReadOlk, Allocates
  <2> QED
    BY <2>1, ResetGives
<1>3. ASSUME SEFEndsLeading PROVE GivesUp
  BY <1>3, ResetGives DEF SEFEndsLeading, Allocates
<1> QED
  BY <1>1, <1>2, <1>3, ReadRefreshGives, ReadSEFGives

LEMMA UpdateStepsGive ==
  ASSUME RInv, RInv',
         \/ DecodeTiles \/ OutputEvicted \/ OutputCurrent \/ OutputEnds \/ FinishUnit
  PROVE  GivesUp
<1>1. ASSUME DecodeTiles PROVE GivesUp
  <2>1. UNCHANGED <<refMap, cur, outputs, dropped, refCount, data>> /\ ~Allocates
    BY <1>1 DEF DecodeTiles, Allocates
  <2>2. \A b \in Buffers : frame'[b].done <=> frame[b].done
    BY <1>1 DEF DecodeTiles, RInv, TInv, TypeOK, Frames
  <2>3. \A b \in Buffers : refCount[b] \in Nat
    BY HoldersOf
  <2> QED
    BY <2>1, <2>2, <2>3 DEF GivesUp, InMap, InQueue
<1>2. ASSUME OutputEvicted PROVE GivesUp
  BY <1>2, QuietGives DEF OutputEvicted, Allocates
<1>3. ASSUME OutputCurrent PROVE GivesUp
  BY <1>3, QuietGives DEF OutputCurrent, Allocates
<1>4. ASSUME OutputEnds PROVE GivesUp
  BY <1>4, QuietGives DEF OutputEnds, Allocates
<1>5. ASSUME FinishUnit PROVE GivesUp
  BY <1>5, CurGives DEF FinishUnit, Allocates
<1> QED
  BY <1>1, <1>2, <1>3, <1>4, <1>5

-----------------------------------------------------------------------------
(* The other steps: a buffer is taken, a frame header is read, a frame of   *)
(* a slot becomes the current one, a slot is refreshed, a frame is queued.  *)

Gives ==
  \/ \E n \in 1..MaxUnits : Decode(n)
  \/ Flush
  \/ \E kind \in Kinds, first \in BOOLEAN : StartUnit(kind, first)
  \/ KeyFlushed \/ Flushed \/ AssignFails \/ Fail \/ CallEnds
  \/ ReadSequence \/ ReadOlk
  \/ \E flags \in SUBSET Slots : ReadRefresh(flags)
  \/ \E slot \in Slots, derive \in BOOLEAN, order \in Orders :
       ReadSEF(slot, derive, order)
  \/ SEFEndsLeading
  \/ DecodeTiles \/ OutputEvicted \/ OutputCurrent \/ OutputEnds \/ FinishUnit

ReadsFrame ==
  \E type \in FrameTypes, restrict, show, implicit \in BOOLEAN,
     lt \in LongTermIds \cup {NoLongTerm}, order \in 0..MaxOrder :
    ReadFrame(type, restrict, lt, show, implicit, order)

Queues == FlushOne \/ OutputBefore \/ OutputTrigger \/ OutputNext

LEMMA StepKinds ==
  ASSUME Next
  PROVE  Gives \/ ReadsFrame \/ Queues \/ AssignBuffer \/ ShowSEF \/ RefreshSlot
BY Zenon DEF Next, Decoder, CallSteps, HeaderSteps, UpdateSteps, Gives, ReadsFrame, Queues

\* What the steps of a call outside of its frame headers and their tiles change: no
\* long-term id, no slot to refresh and, but for a failure, nothing of the OLK.
CallActs == (\E n \in 1..MaxUnits : Decode(n)) \/ Flush \/ CallSteps

CallFlowFacts ==
  /\ UNCHANGED <<longTerm, todo, olk, olkFlags, refFrames>>
  /\ needResync' = needResync \/ needResync'
  /\ pc \in {"idle", "units", "keyflush", "flush", "assign"} \cup HeaderPCs
  /\ pc \in HeaderPCs => pc' = "idle" /\ needResync'

LEMMA CallFlow ==
  ASSUME CallActs
  PROVE  CallFlowFacts
<1>1. ASSUME NEW n \in 1..MaxUnits, Decode(n) PROVE CallFlowFacts
  BY <1>1 DEF CallFlowFacts, HeaderPCs, Decode, loopVars, olkVars, stateVars
<1>2. CASE Flush
  BY <1>2 DEF CallFlowFacts, HeaderPCs, Flush, loopVars, olkVars, stateVars
<1>3. ASSUME NEW kind \in Kinds, NEW first \in BOOLEAN, StartUnit(kind, first) PROVE CallFlowFacts
  BY <1>3 DEF CallFlowFacts, HeaderPCs, StartUnit, loopVars, olkVars, stateVars
<1>4. CASE FlushOne
  BY <1>4 DEF CallFlowFacts, HeaderPCs, FlushOne, loopVars, olkVars, stateVars
<1>5. CASE KeyFlushed
  BY <1>5 DEF CallFlowFacts, HeaderPCs, KeyFlushed, loopVars, olkVars, stateVars
<1>6. CASE Flushed
  BY <1>6 DEF CallFlowFacts, HeaderPCs, Flushed, loopVars, olkVars, stateVars
<1>7. CASE AssignBuffer
  BY <1>7 DEF CallFlowFacts, HeaderPCs, AssignBuffer, loopVars, olkVars, stateVars
<1>8. CASE AssignFails
  BY <1>8 DEF CallFlowFacts, HeaderPCs, AssignFails, UnitFails, loopVars, olkVars
<1>9. CASE Fail
  BY <1>9 DEF CallFlowFacts, Fail, UnitFails, loopVars, olkVars
<1>10. CASE CallEnds
  BY <1>10 DEF CallFlowFacts, HeaderPCs, CallEnds, loopVars, olkVars, stateVars
<1> QED
  BY <1>1, <1>2, <1>3, <1>4, <1>5, <1>6, <1>7, <1>8, <1>9, <1>10 DEF CallActs, CallSteps

\* The parameters of a frame header matter for the unit and the frame alone.
LEMMA ReadFrameKeeps ==
  ASSUME ReadsFrame
  PROVE  /\ pc = "frame" /\ pc' = "olk"
         /\ UNCHANGED <<units, todo, trigger, reach, ret, refFrames, refMap, longTerm, cur,
                        outputs, dropped, refCount, data, olk, olkFlags, olkCoFlags, lastOlk,
                        needResync, decodingFirst, beforeError>>
<1>1. PICK type \in FrameTypes, restrict \in BOOLEAN, show \in BOOLEAN,
           implicit \in BOOLEAN, lt \in LongTermIds \cup {NoLongTerm},
           order \in 0..MaxOrder : ReadFrame(type, restrict, lt, show, implicit, order)
  BY DEF ReadsFrame
<1> QED
  BY <1>1 DEF ReadFrame, loopVars, olkVars, stateVars

\* A step of a header leads to another one or to the tiles, and touches neither the
\* long-term ids nor the slots to refresh; those of the OLK are the ones named here.
TouchesOlk ==
  \/ ReadSequence \/ ReadsFrame \/ ReadOlk \/ SEFEndsLeading
  \/ \E flags \in SUBSET Slots : ReadRefresh(flags)

HeaderFlowFacts ==
  /\ UNCHANGED <<longTerm, todo>>
  /\ pc \in HeaderPCs \cup {"sefShow"} /\ pc # "tiles"
  /\ pc' \in {"sef", "frame", "olk", "refresh", "broken", "tiles", "sefOlk", "sefShow"}
  /\ pc \in {"olk", "sefOlk"} => ReadOlk \/ SEFEndsLeading
  /\ TouchesOlk \/ /\ pc \in {"sef", "sefShow"}
                   /\ UNCHANGED <<olk, olkFlags, refFrames, needResync>>

LEMMA HeaderFlow ==
  ASSUME HeaderSteps
  PROVE  HeaderFlowFacts
<1>1. CASE ReadSequence
  BY <1>1 DEF HeaderFlowFacts, ReadSequence, TouchesOlk, loopVars, HeaderPCs
<1>2. CASE ReadsFrame
  BY <1>2, ReadFrameKeeps DEF HeaderFlowFacts, TouchesOlk, HeaderPCs
<1>3. CASE ReadOlk
  BY <1>3 DEF HeaderFlowFacts, ReadOlk, TouchesOlk, loopVars, HeaderPCs
<1>4. ASSUME NEW flags \in SUBSET Slots, ReadRefresh(flags) PROVE HeaderFlowFacts
  <2>1. TouchesOlk
    BY <1>4 DEF TouchesOlk
  <2> QED
    BY <1>4, <2>1 DEF HeaderFlowFacts, ReadRefresh, loopVars, HeaderPCs
<1>5. ASSUME NEW slot \in Slots, NEW derive \in BOOLEAN, NEW order \in Orders,
             ReadSEF(slot, derive, order)
      PROVE  HeaderFlowFacts
  BY <1>5 DEF HeaderFlowFacts, ReadSEF, loopVars, olkVars, stateVars, HeaderPCs
<1>6. CASE SEFEndsLeading
  BY <1>6 DEF HeaderFlowFacts, SEFEndsLeading, TouchesOlk, loopVars, HeaderPCs
<1>7. CASE ShowSEF
  BY <1>7 DEF HeaderFlowFacts, ShowSEF, loopVars, olkVars, stateVars, HeaderPCs
<1> QED
  BY <1>1, <1>2, <1>3, <1>4, <1>5, <1>6, <1>7 DEF HeaderSteps, ReadsFrame

\* The steps after the header: the tiles, the refresh of the slots and the output.
UpdateFlowFacts ==
  /\ UNCHANGED <<olk, olkFlags, refFrames, needResync>>
  /\ DecodeTiles \/ longTerm' = longTerm
  /\ DecodeTiles \/ RefreshSlot \/ todo' = todo
  /\ RefreshSlot => todo' \subseteq todo
  /\ pc \in {"tiles", "update", "prev", "next", "final"}
  /\ pc = "tiles" => DecodeTiles
  /\ pc \in {"update", "prev", "next"} /\ todo # {}
       => OutputEvicted \/ RefreshSlot \/ OutputBefore \/ OutputTrigger \/ OutputNext
          \/ OutputEnds

LEMMA UpdateFlow ==
  ASSUME UpdateSteps
  PROVE  UpdateFlowFacts
<1>1. CASE DecodeTiles
  BY <1>1 DEF UpdateFlowFacts, DecodeTiles, RefreshSlot, olkVars, stateVars
<1>2. CASE OutputEvicted
  BY <1>2 DEF UpdateFlowFacts, OutputEvicted, RefreshSlot, SetSlot, olkVars, stateVars
<1>3. CASE RefreshSlot
  BY <1>3 DEF UpdateFlowFacts, RefreshSlot, SetSlot, olkVars, stateVars
<1>4. CASE OutputCurrent
  BY <1>4 DEF UpdateFlowFacts, OutputCurrent, RefreshSlot, SetSlot, olkVars, stateVars
<1>5. CASE OutputBefore
  BY <1>5 DEF UpdateFlowFacts, OutputBefore, RefreshSlot, SetSlot, loopVars, olkVars,
              stateVars
<1>6. CASE OutputTrigger
  BY <1>6 DEF UpdateFlowFacts, OutputTrigger, RefreshSlot, SetSlot, olkVars, stateVars
<1>7. CASE OutputNext
  BY <1>7 DEF UpdateFlowFacts, OutputNext, RefreshSlot, SetSlot, olkVars, stateVars
<1>8. CASE OutputEnds
  BY <1>8 DEF UpdateFlowFacts, OutputEnds, RefreshSlot, SetSlot, olkVars, stateVars
<1>9. CASE FinishUnit
  BY <1>9 DEF UpdateFlowFacts, FinishUnit, RefreshSlot, SetSlot, loopVars, olkVars
<1> QED
  BY <1>1, <1>2, <1>3, <1>4, <1>5, <1>6, <1>7, <1>8, <1>9 DEF UpdateSteps

\* A step of the decoder belongs to the call, to a header or to the update.
LEMMA StepParts ==
  ASSUME Next
  PROVE  CallActs \/ HeaderSteps \/ UpdateSteps
BY DEF Next, Decoder, CallActs

LEMMA GivesGivesUp ==
  ASSUME RInv, RInv', Gives
  PROVE  GivesUp
BY CallStepsGive, HeaderStepsGive, UpdateStepsGive, Zenon DEF Gives

\* The queued frame is one that a slot or the trigger of the output holds, and
\* it has not been output.
Enqueues(c) ==
  /\ c \in Buffers /\ Output(c)
  /\ UNCHANGED <<units, unit, todo, trigger, ret, cur, refMap, dropped, data>>
  /\ refCount[c] > 0 /\ data[c] /\ ~frame[c].done
  /\ \/ pc' = pc /\ pc \in {"keyflush", "flush", "next"}
     \/ pc' = pc /\ pc = "prev" /\ c # trigger
     \/ pc = "prev" /\ pc' = "next"

LEMMA QueuesOne ==
  ASSUME MInv, Queues
  PROVE  \E c : Enqueues(c)
<1> USE DEF MInv, RInv, TInv
<1>1. ASSUME NEW s \in Slots, Eligible(refMap[s])
      PROVE  /\ refMap[s] \in Buffers /\ refCount[refMap[s]] > 0 /\ data[refMap[s]]
             /\ ~frame[refMap[s]].done
  <2>1. refMap[s] \in Buffers /\ InMap(refMap[s]) /\ ~frame[refMap[s]].done
    BY <1>1 DEF Eligible, TypeOK, InMap
  <2> QED
    BY <2>1, HoldersOf DEF HeldInv
<1>2. CASE FlushOne
  <2>1. PICK s \in Pending(Slots) : Output(refMap[s])
    BY <1>2 DEF FlushOne
  <2>2. s \in Slots /\ Eligible(refMap[s])
    BY <2>1 DEF Pending
  <2>3. Enqueues(refMap[s])
    BY <1>1, <1>2, <2>1, <2>2 DEF FlushOne, Enqueues, loopVars
  <2> QED
    BY <2>3
<1>3. CASE OutputBefore
  <2>1. PICK s \in Before : Output(refMap[s])
    BY <1>3 DEF OutputBefore
  <2>2. /\ s \in Slots /\ Eligible(refMap[s])
        /\ frame[refMap[s]].order < frame[trigger].order
    BY <2>1, ActiveSubset DEF Before, Pending, TypeOK
  <2>3. refMap[s] \in Buffers
    BY <1>1, <2>2
  <2>4. frame[refMap[s]].order \in Nat
    BY <2>3, OrdersNat DEF TypeOK, Frames
  <2>5. refMap[s] # trigger
    BY <2>2, <2>4
  <2>6. Enqueues(refMap[s])
    BY <1>1, <1>3, <2>1, <2>2, <2>5 DEF OutputBefore, Enqueues, loopVars
  <2> QED
    BY <2>6
<1>4. CASE OutputTrigger
  <2>1. /\ trigger \in Buffers /\ Output(trigger) /\ pc = "prev"
        /\ trigger = cur \/ InMap(trigger)
        /\ ~frame[trigger].done
    BY <1>4 DEF OutputTrigger, TriggerExists, OutputInv
  <2>2. data[trigger]
    BY <2>1 DEF CurrentInv, FullPCs, HeldInv
  <2>3. Enqueues(trigger)
    BY <1>4, <2>1, <2>2, HoldersOf DEF OutputTrigger, Enqueues
  <2> QED
    BY <2>3
<1>5. CASE OutputNext
  <2>1. PICK s \in First(Successors) : Output(refMap[s])
    BY <1>5 DEF OutputNext
  <2>2. s \in Slots /\ Eligible(refMap[s])
    BY <2>1, ActiveSubset DEF First, Successors, At, Pending, TypeOK
  <2>3. Enqueues(refMap[s])
    BY <1>1, <1>5, <2>1, <2>2 DEF OutputNext, Enqueues
  <2> QED
    BY <2>3
<1> QED
  BY <1>2, <1>3, <1>4, <1>5 DEF Queues

\* What queueing c does to each buffer.
LEMMA QueuedEffect ==
  ASSUME MInv, NEW c, Enqueues(c), dropped = 0, NEW b \in Buffers
  PROVE  /\ refCount'[b] > 0 <=> refCount[b] > 0
         /\ data'[b] <=> data[b]
         /\ frame'[b].done <=> (frame[b].done \/ b = c)
         /\ InMap(b)' <=> InMap(b)
         /\ InQueue(b)' <=> (InQueue(b) \/ b = c)
<1> USE DEF MInv, RInv, TInv
<1>1. c \in Buffers /\ Output(c) /\ UNCHANGED <<refMap, dropped, data>> /\ refCount[c] > 0
  BY DEF Enqueues
<1>2. refCount[b] \in Nat
  BY HoldersOf
<1>3. refCount'[b] = IF b = c THEN refCount[b] + 1 ELSE refCount[b]
  BY <1>1 DEF Output, TypeOK
<1>4. refCount'[b] > 0 <=> refCount[b] > 0
  BY <1>1, <1>2, <1>3
<1>5. frame'[b].done <=> (frame[b].done \/ b = c)
  BY <1>1 DEF Output, TypeOK, Frames
<1>6. InMap(b)' <=> InMap(b)
  BY <1>1 DEF InMap
<1>7. /\ Len(outputs') = Len(outputs) + 1 /\ Len(outputs) \in Nat
      /\ outputs'[Len(outputs) + 1] = c
      /\ \A i \in 1..Len(outputs) : outputs'[i] = outputs[i]
  BY <1>1 DEF Output, TypeOK
<1>8. InQueue(b)' <=> \E i \in 1..Len(outputs') : outputs'[i] = b
  BY <1>1 DEF InQueue
<1>9. InQueue(b) <=> \E i \in 1..Len(outputs) : outputs[i] = b
  BY DEF InQueue
<1>10. InQueue(b)' <=> (InQueue(b) \/ b = c)
  BY <1>7, <1>8, <1>9
<1> QED
  BY <1>1, <1>4, <1>5, <1>6, <1>10

LEMMA RefreshEffect ==
  ASSUME MInv, RInv', RefreshSlot, NEW b \in Buffers
  PROVE  /\ refCount'[b] = 0 => ~data'[b] /\ ~frame'[b].done
         /\ refCount'[b] > 0 => (data'[b] <=> data[b]) /\ frame'[b] = frame[b]
         /\ InMap(b)' => InMap(b) \/ b = cur
         /\ InQueue(b)' <=> InQueue(b)
<1> USE DEF MInv, RInv, TInv
<1> DEFINE new(s) == IF s \in InsertedSlots THEN cur ELSE NoBuf
           Ref(c, e) == IF c = e THEN 1 ELSE 0
<1>1. PICK s \in First(todo) : SetSlot(s, new(s))
  BY DEF RefreshSlot
<1>2. s \in Slots
  BY <1>1 DEF First, TypeOK
<1> DEFINE lost == [c \in Buffers |-> Ref(c, refMap[s]) - Ref(c, new(s))]
<1>3. DropRefs(lost, data, frame) /\ refMap' = [refMap EXCEPT ![s] = new(s)]
  BY <1>1 DEF SetSlot
<1>4. lost[b] \in Int /\ refCount[b] \in Nat
  BY HoldersOf
<1>5. \A c \in Slots : refMap'[c] = refMap[c] \/ refMap'[c] = cur \/ refMap'[c] = NoBuf
  BY <1>2, <1>3 DEF TypeOK
<1>6. InMap(b)' => InMap(b) \/ b = cur
  BY <1>5, BuffersAssumption DEF InMap
<1>7. InQueue(b)' <=> InQueue(b)
  BY DEF RefreshSlot, InQueue
<1> HIDE DEF lost
<1>8. refCount'[b] = refCount[b] - lost[b]
  BY <1>3 DEF DropRefs
<1>9. data'[b] <=> data[b] /\ (lost[b] <= 0 \/ refCount[b] # lost[b])
  BY <1>3, Zenon DEF DropRefs
<1>10. frame'[b] = IF refCount[b] = lost[b] THEN Blank ELSE frame[b]
  BY <1>3 DEF DropRefs
<1>11. refCount'[b] = 0 <=> refCount[b] = lost[b]
  BY <1>4, <1>8
<1>12. refCount[b] = lost[b] /\ lost[b] <= 0 => refCount[b] = 0
  BY <1>4
<1>13. refCount[b] = 0 => ~data[b]
  BY DEF UnheldInv
<1>14. ~Blank.done
  BY DEF Blank
<1> QED
  BY <1>6, <1>7, <1>9, <1>10, <1>11, <1>12, <1>13, <1>14

\* A show_existing_frame with its own order hint gives the empty buffer back.
LEMMA ShowEffect ==
  ASSUME MInv, ShowSEF, NEW b \in Buffers
  PROVE  /\ refCount'[b] = 0 => refCount[b] = 0 \/ (b = cur /\ ~data[b] /\ ~frame'[b].done)
         /\ refCount[b] = 0 => refCount'[b] = 0
         /\ b # cur => frame'[b] = frame[b]
         /\ frame'[b].done => frame[b].done
         /\ data'[b] <=> data[b]
         /\ InMap(b)' <=> InMap(b)
         /\ InQueue(b)' <=> InQueue(b)
<1> USE DEF MInv, RInv, TInv
<1> DEFINE t == unit.target
<1>1. /\ pc = "sefShow" /\ UNCHANGED <<refMap, outputs, dropped, data>>
      /\ refCount[t] > 0
  BY DEF ShowSEF
<1>2. cur \in Buffers /\ t \in Buffers /\ t # cur
  BY <1>1 DEF TypeOK, Holding, NoFramePCs, TargetExists, CurrentInv, TargetPCs
<1>3. (InMap(b)' <=> InMap(b)) /\ (InQueue(b)' <=> InQueue(b)) /\ (data'[b] <=> data[b])
  BY <1>1 DEF InMap, InQueue
<1>4. CASE unit.sef = "derive"
  <2>1. /\ refCount' = [refCount EXCEPT ![cur] = @ - 1, ![t] = @ + 1]
        /\ frame' = [frame EXCEPT ![cur] = Blank]
    BY <1>4 DEF ShowSEF
  <2>2. ~data[cur]
    BY <1>1, <1>4 DEF CurrentInv, TargetPCs
  <2>3. refCount[b] \in Nat /\ refCount[t] \in Nat /\ refCount[cur] > 0
    BY <1>2, HoldersOf
  <2>4. refCount'[b] = refCount[b] - (IF b = cur THEN 1 ELSE 0) + (IF b = t THEN 1 ELSE 0)
    BY <1>2, <2>1 DEF TypeOK
  <2>5. (b # cur => frame'[b] = frame[b]) /\ (b = cur => ~frame'[b].done)
    BY <1>2, <2>1 DEF TypeOK, Blank
  <2> QED
    BY <1>1, <1>2, <1>3, <2>2, <2>3, <2>4, <2>5
<1>5. CASE unit.sef # "derive"
  <2>1. UNCHANGED <<refCount, frame>>
    BY <1>5 DEF ShowSEF
  <2> QED
    BY <1>3, <2>1
<1> QED
  BY <1>4, <1>5

LEMMA AssignEffect ==
  ASSUME MInv, AssignBuffer
  PROVE  /\ cur' \in Buffers /\ refCount[cur'] = 0
         /\ \A b \in Buffers : refCount'[b] = IF b = cur' THEN 1 ELSE refCount[b]
         /\ UNCHANGED <<data, frame, refMap, outputs, dropped, unit, units>>
         /\ pc = "assign" /\ pc' = "sequence"
BY DEF AssignBuffer, MInv, RInv, TInv, TypeOK

LEMMA ReadFrameEffect ==
  ASSUME MInv, ReadsFrame
  PROVE  /\ pc = "frame" /\ pc' = "olk" /\ cur \in Buffers /\ unit'.sef = unit.sef
         /\ UNCHANGED <<refCount, data, refMap, cur, outputs, dropped, units>>
         /\ ~frame'[cur].done
         /\ \A b \in Buffers \ {cur} :
              /\ frame[b].done => frame'[b].done
              /\ frame'[b].done => frame[b].done \/ InMap(b)
<1> USE DEF MInv, RInv, TInv
<1>1. PICK type \in FrameTypes, restrict \in BOOLEAN, show \in BOOLEAN,
           implicit \in BOOLEAN, lt \in LongTermIds \cup {NoLongTerm},
           order \in 0..MaxOrder : ReadFrame(type, restrict, lt, show, implicit, order)
  BY DEF ReadsFrame
<1>2. /\ pc = "frame" /\ pc' = "olk"
      /\ UNCHANGED <<refCount, data, refMap, cur, outputs, dropped, units>>
  BY <1>1 DEF ReadFrame
<1>3. cur \in Buffers
  BY <1>2 DEF TypeOK, Holding, NoFramePCs
<1>4. unit'.sef = unit.sef
  BY <1>1 DEF ReadFrame, TypeOK, Units
<1>5. ~frame'[cur].done
  BY <1>1, <1>3 DEF ReadFrame, TypeOK, Frames
<1>6. ASSUME NEW b \in Buffers \ {cur}
      PROVE  /\ frame[b].done => frame'[b].done
             /\ frame'[b].done => frame[b].done \/ InMap(b)
  <2>1. frame[b] \in Frames
    BY DEF TypeOK
  <2>2. frame'[b].done <=> (frame[b].done \/ \E s \in Slots : restrict /\ refMap[s] # NoBuf
                                                              /\ refMap[s] = b)
    BY <1>1, <2>1, Zenon DEF ReadFrame, Frames
  <2> QED
    BY <2>2 DEF InMap
<1> QED
  BY <1>2, <1>3, <1>4, <1>5, <1>6

-----------------------------------------------------------------------------
(* Pixels and output flags of the buffers.                                  *)

LEMMA UnheldNext ==
  ASSUME MInv, RInv', Next
  PROVE  UnheldInv'
<1> SUFFICES ASSUME NEW b \in Buffers, refCount'[b] = 0
             PROVE  ~data'[b] /\ ~frame'[b].done
  BY DEF UnheldInv
<1>1. /\ refCount[b] = 0 => ~data[b] /\ ~frame[b].done
      /\ refCount[b] \in Nat /\ RInv
  BY HoldersOf DEF MInv, UnheldInv
<1>2. CASE Gives
  BY <1>1, <1>2, GivesGivesUp DEF GivesUp
<1>3. CASE ReadsFrame
  <2>1. refCount[b] = 0 /\ data'[b] = data[b]
    BY <1>3, ReadFrameEffect
  <2>2. ~InMap(b)
    BY <1>1, <2>1, HoldersOf
  <2> QED
    BY <1>1, <1>3, <2>1, <2>2, ReadFrameEffect
<1>4. CASE Queues
  <2>1. PICK c : Enqueues(c)
    BY <1>4, QueuesOne
  <2>2. dropped = 0 /\ refCount[c] > 0
    BY <2>1 DEF Enqueues, MInv, RInv, Undropped
  <2> QED
    BY <1>1, <2>1, <2>2, QueuedEffect
<1>5. CASE AssignBuffer
  BY <1>1, <1>5, AssignEffect
<1>6. CASE ShowSEF
  BY <1>1, <1>6, ShowEffect
<1>7. CASE RefreshSlot
  BY <1>7, RefreshEffect
<1> QED
  BY <1>2, <1>3, <1>4, <1>5, <1>6, <1>7, StepKinds

LEMMA HeldNext ==
  ASSUME MInv, RInv', Next
  PROVE  HeldInv'
<1> SUFFICES ASSUME NEW b \in Buffers, InMap(b)' \/ InQueue(b)'
             PROVE  data'[b]
  BY DEF HeldInv
<1>1. InMap(b) \/ InQueue(b) => data[b]
  BY DEF MInv, HeldInv
<1>2. refCount'[b] > 0 /\ RInv
  BY HoldersNext DEF MInv
<1>3. CASE Gives
  BY <1>1, <1>2, <1>3, GivesGivesUp DEF GivesUp
<1>4. CASE ReadsFrame
  BY <1>1, <1>4, ReadFrameEffect DEF InMap, InQueue
<1>5. CASE Queues
  <2>1. PICK c : Enqueues(c)
    BY <1>5, QueuesOne
  <2>2. dropped = 0 /\ data[c]
    BY <2>1 DEF Enqueues, MInv, RInv, Undropped
  <2> QED
    BY <1>1, <2>1, <2>2, QueuedEffect
<1>6. CASE AssignBuffer
  BY <1>1, <1>6, AssignEffect DEF InMap, InQueue
<1>7. CASE ShowSEF
  BY <1>1, <1>7, ShowEffect
<1>8. CASE RefreshSlot
  <2>1. data[cur]
    BY <1>8 DEF RefreshSlot, MInv, CurrentInv, FullPCs
  <2> QED
    BY <1>1, <1>2, <1>8, <2>1, RefreshEffect
<1> QED
  BY <1>3, <1>4, <1>5, <1>6, <1>7, <1>8, StepKinds

LEMMA DoneNext ==
  ASSUME MInv, RInv', Next
  PROVE  DoneInv'
<1> SUFFICES ASSUME NEW b \in Buffers, InQueue(b)'
             PROVE  frame'[b].done
  BY DEF DoneInv
<1>1. InQueue(b) => frame[b].done
  BY DEF MInv, DoneInv
<1>2. refCount'[b] > 0 /\ RInv
  BY HoldersNext DEF MInv
<1>3. CASE Gives
  BY <1>1, <1>2, <1>3, GivesGivesUp DEF GivesUp
<1>4. CASE ReadsFrame
  <2>1. pc = "frame" /\ InQueue(b)
    BY <1>4, ReadFrameEffect DEF InQueue
  <2>2. b # cur
    BY <2>1 DEF MInv, CurrentInv, EmptyPCs
  <2> QED
    BY <1>1, <1>4, <2>1, <2>2, ReadFrameEffect
<1>5. CASE Queues
  <2>1. PICK c : Enqueues(c)
    BY <1>5, QueuesOne
  <2>2. dropped = 0
    BY <2>1 DEF Enqueues, MInv, RInv, Undropped
  <2> QED
    BY <1>1, <2>1, <2>2, QueuedEffect
<1>6. CASE AssignBuffer
  BY <1>1, <1>6, AssignEffect DEF InQueue
<1>7. CASE ShowSEF
  <2>1. pc = "sefShow" /\ InQueue(b)
    BY <1>7, ShowEffect DEF ShowSEF
  <2>2. b # cur
    BY <2>1 DEF MInv, CurrentInv, TargetPCs
  <2> QED
    BY <1>1, <1>7, <2>1, <2>2, ShowEffect
<1>8. CASE RefreshSlot
  BY <1>1, <1>2, <1>8, RefreshEffect
<1> QED
  BY <1>3, <1>4, <1>5, <1>6, <1>7, <1>8, StepKinds

LEMMA QueueUnchanged ==
  ASSUME Gives \/ ReadsFrame \/ AssignBuffer \/ ShowSEF \/ RefreshSlot
  PROVE  outputs' = outputs \/ outputs' = <<>>
<1>1. CASE Gives
  BY <1>1 DEF Gives, Decode, Flush, StartUnit, KeyFlushed, Flushed, AssignFails, Fail,
     CallEnds, ReadSequence, ReadOlk, ReadRefresh, ReadSEF, SEFEndsLeading, DecodeTiles,
     OutputEvicted, OutputCurrent, OutputEnds, FinishUnit, ReleaseOutputs
<1>2. CASE ReadsFrame
  BY <1>2, ReadFrameKeeps
<1>3. CASE AssignBuffer \/ ShowSEF \/ RefreshSlot
  BY <1>3 DEF AssignBuffer, ShowSEF, RefreshSlot
<1> QED
  BY <1>1, <1>2, <1>3

LEMMA TwiceNext ==
  ASSUME MInv, RInv', Next
  PROVE  NoFrameTwice'
<1> SUFFICES ASSUME NEW b \in Buffers
             PROVE  OutputRefs(1, b)' <= 1
  BY DEF NoFrameTwice
<1>1. OutputRefs(1, b) <= 1 /\ OutputRefs(1, b) \in Nat /\ TypeOK
  BY OutputRefsNat DEF MInv, NoFrameTwice, RInv, TInv, TypeOK
<1>2. CASE outputs' = outputs
  <2>1. OutputRefs(1, b)' = OutputRefs(1, b)
    BY <1>2 DEF OutputRefs
  <2> QED
    BY <1>1, <2>1
<1>3. CASE outputs' = <<>>
  <2>1. {i \in 1..Len(outputs') : outputs'[i] = b} = {}
    BY <1>3
  <2>2. OutputRefs(1, b)' = 0
    BY <2>1, FS_EmptySet DEF OutputRefs
  <2> QED
    BY <2>2
<1>4. CASE Queues
  <2>1. PICK c : Enqueues(c)
    BY <1>4, QueuesOne
  <2>2. /\ dropped = 0 /\ c \in Buffers /\ ~frame[c].done
        /\ outputs' = Append(outputs, c)
    BY <2>1 DEF Enqueues, Output, MInv, RInv, Undropped
  <2>3. OutputRefs(1, b)' = OutputRefs(1, b) + (IF c = b THEN 1 ELSE 0)
    BY <1>1, <2>2, OutputAppended
  <2>4. ASSUME b = c PROVE OutputRefs(1, b) = 0
    <3>1. ~InQueue(c)
      BY <2>2 DEF MInv, DoneInv
    <3>2. {i \in 1..Len(outputs) : outputs[i] = b} = {}
      BY <2>2, <2>4, <3>1 DEF InQueue
    <3> QED
      BY <3>2, FS_EmptySet DEF OutputRefs
  <2> QED
    BY <1>1, <2>3, <2>4
<1> QED
  BY <1>2, <1>3, <1>4, StepKinds, QueueUnchanged

-----------------------------------------------------------------------------
(* The current frame and the frame that triggers the output.                *)

\* A step that only gives up keeps what is known of the current frame.
LEMMA CurrentKept ==
  ASSUME MInv, RInv', GivesUp, cur' = cur,
         pc' \in EmptyPCs => pc \in EmptyPCs,
         pc' \in TargetPCs => pc \in EmptyPCs \cup TargetPCs,
         pc' \in TargetPCs /\ pc \notin TargetPCs =>
           /\ pc = "sef" /\ unit'.target # cur
           /\ Allocates <=> unit'.sef # "derive",
         pc' \in TargetPCs /\ pc \in TargetPCs => unit' = unit,
         pc' = "tiles" => pc \in EmptyPCs \cup {"tiles"},
         pc' \in FullPCs => pc \in FullPCs \/ Allocates
  PROVE  CurrentInv'
<1> USE DEF EmptyPCs, TargetPCs, FullPCs
<1> SUFFICES ASSUME pc' \in EmptyPCs \cup TargetPCs \cup FullPCs
             PROVE  CurrentInv'
  BY DEF CurrentInv
<1>1. cur \in Buffers
  BY DEF MInv, RInv, TInv, TypeOK, Holding, NoFramePCs
<1>2. refCount'[cur] > 0
  BY <1>1, HoldersNext
<1>3. /\ data'[cur] <=> (data[cur] \/ Allocates)
      /\ frame'[cur].done <=> frame[cur].done
      /\ InMap(cur)' => InMap(cur)
      /\ InQueue(cur)' => InQueue(cur)
  BY <1>1, <1>2 DEF GivesUp, InMap, InQueue
<1>4. pc \in EmptyPCs /\ pc' \in EmptyPCs => ~Allocates
  BY DEF Allocates
<1>5. pc \in TargetPCs => ~Allocates
  BY DEF Allocates
<1>6. pc \in EmptyPCs \cup TargetPCs => ~InMap(cur) /\ ~InQueue(cur)
  BY DEF MInv, CurrentInv
<1>7. pc \in EmptyPCs \cup TargetPCs \cup {"tiles"} => ~frame[cur].done
  BY DEF MInv, CurrentInv
<1>8. pc \in EmptyPCs => ~data[cur]
  BY DEF MInv, CurrentInv
<1>9. pc \in FullPCs => data[cur]
  BY DEF MInv, CurrentInv
<1>10. pc \in TargetPCs => unit.target # cur /\ (data[cur] <=> unit.sef # "derive")
  BY DEF MInv, CurrentInv
<1>11. pc' \in EmptyPCs \cup TargetPCs => ~InMap(cur)' /\ ~InQueue(cur)'
  BY <1>3, <1>6
<1>12. pc' \in EmptyPCs \cup TargetPCs \cup {"tiles"} => ~frame'[cur].done
  BY <1>3, <1>7
<1>13. pc' \in EmptyPCs => ~data'[cur]
  BY <1>3, <1>4, <1>8
<1>14. pc' \in FullPCs => data'[cur]
  BY <1>3, <1>9
<1>15. pc' \in TargetPCs => unit'.target # cur /\ (data'[cur] <=> unit'.sef # "derive")
  BY <1>3, <1>5, <1>8, <1>10
<1> QED
  BY <1>11, <1>12, <1>13, <1>14, <1>15, Zenon DEF CurrentInv, InMap, InQueue

LEMMA CurrentGives ==
  ASSUME MInv, RInv', Gives
  PROVE  CurrentInv'
<1>1. GivesUp /\ RInv
  BY GivesGivesUp DEF MInv
<1> USE DEF EmptyPCs, TargetPCs, FullPCs
<1>2. CASE pc' \in NoFramePCs \cup {"broken"}
  BY <1>2 DEF CurrentInv, NoFramePCs
<1> SUFFICES ASSUME pc' \notin NoFramePCs \cup {"broken"} PROVE CurrentInv'
  BY <1>2
<1>3. ASSUME ReadSequence PROVE CurrentInv'
  BY <1>1, <1>3, CurrentKept DEF ReadSequence
<1>4. ASSUME ReadOlk PROVE CurrentInv'
  BY <1>1, <1>4, CurrentKept DEF ReadOlk
<1>5. ASSUME NEW flags \in SUBSET Slots, ReadRefresh(flags) PROVE CurrentInv'
  <2>1. pc = "refresh" /\ cur' = cur /\ pc' = "tiles"
    BY <1>5 DEF ReadRefresh
  <2> QED
    BY <1>1, <2>1, CurrentKept DEF Allocates
<1>6. ASSUME NEW slot \in Slots, NEW derive \in BOOLEAN, NEW order \in Orders,
             ReadSEF(slot, derive, order)
      PROVE  CurrentInv'
  <2>1. pc = "sef" /\ cur' = cur /\ pc' \in TargetPCs
    BY <1>6 DEF ReadSEF
  <2>2. unit'.target = refMap[slot] /\ refMap[slot] # NoBuf
    BY <1>6 DEF ReadSEF, MInv, RInv, TInv, TypeOK, Units
  <2>3. ~InMap(cur)
    BY <2>1 DEF MInv, CurrentInv
  <2>4. unit'.target # cur
    BY <2>2, <2>3 DEF InMap
  <2> QED
    BY <1>1, <2>1, <2>4, CurrentKept DEF Allocates
<1>7. ASSUME SEFEndsLeading PROVE CurrentInv'
  BY <1>1, <1>7, CurrentKept DEF SEFEndsLeading
<1>8. ASSUME DecodeTiles PROVE CurrentInv'
  BY <1>1, <1>8, CurrentKept DEF DecodeTiles
<1>9. ASSUME OutputEvicted \/ OutputCurrent \/ OutputEnds PROVE CurrentInv'
  BY <1>1, <1>9, CurrentKept
     DEF OutputEvicted, OutputCurrent, OutputEnds, MInv, RInv, TInv, TypeOK
<1>10. CASE \/ \E n \in 1..MaxUnits : Decode(n)
            \/ Flush
            \/ \E kind \in Kinds, first \in BOOLEAN : StartUnit(kind, first)
            \/ KeyFlushed \/ Flushed \/ AssignFails \/ Fail \/ CallEnds \/ FinishUnit
  BY <1>10 DEF Decode, Flush, StartUnit, KeyFlushed, Flushed, AssignFails, Fail, CallEnds,
               FinishUnit, UnitFails, NextUnit, NoFramePCs
<1> QED
  BY <1>3, <1>4, <1>5, <1>6, <1>7, <1>8, <1>9, <1>10 DEF Gives

LEMMA CurrentNext ==
  ASSUME MInv, RInv', Next
  PROVE  CurrentInv'
<1> USE DEF EmptyPCs, TargetPCs, FullPCs
<1>1. RInv
  BY DEF MInv
<1>2. CASE Gives
  BY <1>2, CurrentGives
<1>3. CASE ReadsFrame
  <2>1. /\ pc = "frame" /\ pc' = "olk" /\ UNCHANGED <<data, refMap, cur, outputs, dropped>>
        /\ ~frame'[cur].done
    BY <1>3, ReadFrameEffect
  <2>2. ~InMap(cur) /\ ~InQueue(cur) /\ ~data[cur]
    BY <2>1 DEF MInv, CurrentInv
  <2> QED
    BY <2>1, <2>2 DEF CurrentInv, InMap, InQueue
<1>4. CASE Queues
  <2>1. PICK c : Enqueues(c)
    BY <1>4, QueuesOne
  <2>2. UNCHANGED <<data, cur>> /\ ((pc \in {"prev", "next"} /\ pc' \in {"prev", "next"})
                                    \/ pc' \in {"keyflush", "flush"})
    BY <2>1 DEF Enqueues
  <2> QED
    BY <2>2 DEF MInv, CurrentInv
<1>5. CASE AssignBuffer
  <2>1. ~InMap(cur') /\ ~InQueue(cur') /\ ~data[cur'] /\ ~frame[cur'].done
    BY <1>1, <1>5, AssignEffect, HoldersOf DEF MInv, UnheldInv
  <2>2. UNCHANGED <<data, frame, refMap, outputs, dropped>> /\ pc' = "sequence"
    BY <1>5, AssignEffect
  <2> QED
    BY <2>1, <2>2 DEF CurrentInv, InMap, InQueue
<1>6. CASE ShowSEF
  <2> DEFINE t == unit.target
  <2>1. /\ pc = "sefShow" /\ pc' \in {"tiles", "broken"} /\ data' = data
        /\ refCount[t] > 0
    BY <1>6 DEF ShowSEF
  <2>2. t \in Buffers /\ t # cur /\ (data[cur] <=> unit.sef # "derive") /\ ~frame[cur].done
    BY <2>1 DEF MInv, RInv, TInv, TargetExists, CurrentInv
  <2>3. data[t]
    BY <1>1, <2>1, <2>2, HoldersOf DEF MInv, HeldInv
  <2>4. CASE unit.sef = "derive"
    <3>1. cur' = t /\ frame'[t] = frame[t] /\ (pc' = "tiles" => ~frame[t].done)
      BY <1>6, <2>2, <2>4 DEF ShowSEF, MInv, RInv, TInv, TypeOK
    <3> QED
      BY <2>1, <2>3, <3>1 DEF CurrentInv
  <2>5. CASE unit.sef # "derive"
    <3>1. cur' = cur /\ frame' = frame
      BY <1>6, <2>5 DEF ShowSEF
    <3> QED
      BY <2>1, <2>2, <2>5, <3>1 DEF CurrentInv
  <2> QED
    BY <2>4, <2>5
<1>7. CASE RefreshSlot
  <2>1. pc = "update" /\ pc' = pc /\ cur' = cur /\ data[cur]
    BY <1>7 DEF RefreshSlot, MInv, CurrentInv
  <2>2. cur \in Buffers
    BY <2>1 DEF MInv, RInv, TInv, TypeOK, Holding, NoFramePCs
  <2>3. data'[cur]
    BY <1>7, <2>1, <2>2, HoldersNext, RefreshEffect
  <2> QED
    BY <2>1, <2>3 DEF CurrentInv
<1> QED
  BY <1>2, <1>3, <1>4, <1>5, <1>6, <1>7, StepKinds

LEMMA OutputGives ==
  ASSUME MInv, RInv', Gives
  PROVE  OutputInv'
<1> USE DEF EmptyPCs
<1>1. OutputInv /\ TypeOK /\ CurrentInv
  BY DEF MInv, RInv, TInv
<1>2. CASE pc' \notin {"keyflush", "assign", "tiles", "update", "prev", "next"} \cup EmptyPCs
  BY <1>2 DEF OutputInv
<1>3. ASSUME NEW kind \in Kinds, NEW first \in BOOLEAN, StartUnit(kind, first)
      PROVE  OutputInv'
  BY <1>3 DEF StartUnit, NoUnit, OutputInv
<1>4. ASSUME KeyFlushed \/ ReadSequence \/ ReadOlk \/ SEFEndsLeading PROVE OutputInv'
  BY <1>1, <1>4 DEF KeyFlushed, ReadSequence, ReadOlk, SEFEndsLeading, OutputInv
<1>5. ASSUME NEW flags \in SUBSET Slots, ReadRefresh(flags) PROVE OutputInv'
  <2>1. pc = "refresh" /\ pc' \in {"broken", "tiles"} /\ unit'.sef = unit.sef
    BY <1>1, <1>5 DEF ReadRefresh, TypeOK, Units
  <2>2. unit'.sef = "no"
    BY <1>1, <2>1 DEF OutputInv
  <2> QED
    BY <2>1, <2>2 DEF OutputInv
<1>6. ASSUME DecodeTiles PROVE OutputInv'
  <2>1. /\ pc = "tiles" /\ pc' = "update" /\ UNCHANGED <<unit, cur>> /\ todo' = unit.flags
    BY <1>6 DEF DecodeTiles
  <2>2. cur \in Buffers
    BY <2>1 DEF MInv, RInv, TInv, TypeOK, Holding, NoFramePCs
  <2>3. frame'[cur].done <=> frame[cur].done
    BY <1>1, <1>6, <2>2 DEF DecodeTiles, TypeOK, Frames
  <2>4. ~frame[cur].done
    BY <1>1, <2>1 DEF CurrentInv
  <2> QED
    BY <1>1, <2>1, <2>3, <2>4 DEF OutputInv
<1>7. ASSUME OutputEvicted PROVE OutputInv'
  <2>1. PICK s \in First(todo) : Eligible(refMap[s]) /\ trigger' = refMap[s]
    BY <1>7 DEF OutputEvicted
  <2>2. s \in todo /\ s \in Slots
    BY <1>1, <2>1 DEF First, TypeOK
  <2>3. /\ pc = "update" /\ pc' = "prev" /\ ret' = "update"
        /\ UNCHANGED <<unit, todo, cur, refMap, frame>>
    BY <1>7 DEF OutputEvicted, bufferVars
  <2>4. unit.sef = "no"
    BY <1>1, <2>2, <2>3 DEF OutputInv
  <2>5. InMap(trigger)' /\ ~frame'[trigger'].done
    BY <2>1, <2>2, <2>3 DEF InMap, Eligible
  <2> QED
    BY <2>3, <2>4, <2>5 DEF OutputInv
<1>8. ASSUME OutputCurrent, pc' = "prev" PROVE OutputInv'
  <2>1. /\ pc = "update" /\ trigger' = cur /\ ret' = "final" /\ UNCHANGED <<cur, frame>>
        /\ (unit.show /\ ~frame[cur].done) \/ unit.sef # "no"
    BY <1>8 DEF OutputCurrent, bufferVars
  <2>2. ~frame[cur].done
    BY <1>1, <2>1 DEF OutputInv
  <2> QED
    BY <1>8, <2>1, <2>2 DEF OutputInv
<1>9. ASSUME OutputEnds, pc' = "update" PROVE OutputInv'
  <2>1. pc = "next" /\ ret = "update" /\ unit' = unit
    BY <1>9 DEF OutputEnds
  <2> QED
    BY <1>1, <1>9, <2>1 DEF OutputInv
<1>10. ASSUME (OutputCurrent /\ pc' # "prev") \/ (OutputEnds /\ pc' # "update")
       PROVE  OutputInv'
  BY <1>1, <1>2, <1>10 DEF OutputCurrent, OutputEnds, TypeOK
<1>11. CASE \/ \E n \in 1..MaxUnits : Decode(n)
            \/ Flush \/ Flushed \/ AssignFails \/ Fail \/ CallEnds \/ FinishUnit
            \/ \E slot \in Slots, derive \in BOOLEAN, order \in Orders :
                 ReadSEF(slot, derive, order)
  BY <1>2, <1>11 DEF Decode, Flush, Flushed, AssignFails, Fail, CallEnds, FinishUnit,
                     UnitFails, NextUnit, ReadSEF
<1> QED
  BY <1>3, <1>4, <1>5, <1>6, <1>7, <1>8, <1>9, <1>10, <1>11 DEF Gives

LEMMA OutputNextInv ==
  ASSUME MInv, RInv', Next
  PROVE  OutputInv'
<1> USE DEF EmptyPCs
<1>1. OutputInv /\ RInv /\ TypeOK
  BY DEF MInv, RInv, TInv
<1>2. CASE Gives
  BY <1>2, OutputGives
<1>3. CASE ReadsFrame
  <2>1. pc = "frame" /\ pc' = "olk" /\ unit'.sef = unit.sef
    BY <1>3, ReadFrameEffect
  <2> QED
    BY <1>1, <2>1 DEF OutputInv
<1>4. CASE Queues
  <2>1. PICK c : Enqueues(c)
    BY <1>4, QueuesOne
  <2>2. dropped = 0 /\ UNCHANGED <<unit, trigger, ret, cur, refMap>>
    BY <2>1 DEF Enqueues, RInv, Undropped, MInv
  <2>3. CASE pc' = pc /\ pc = "keyflush"
    BY <1>1, <2>2, <2>3 DEF OutputInv
  <2>4. CASE pc' = pc /\ pc = "flush"
    BY <2>4 DEF OutputInv
  <2>5. CASE pc' = "next" /\ pc \in {"prev", "next"}
    BY <1>1, <2>2, <2>5 DEF OutputInv, InMap
  <2>6. CASE pc' = pc /\ pc = "prev" /\ c # trigger
    <3>1. trigger \in Buffers /\ ~frame[trigger].done
      BY <1>1, <2>6 DEF OutputInv, RInv, TInv, TriggerExists
    <3>2. ~frame'[trigger].done
      BY <2>1, <2>2, <2>6, <3>1, QueuedEffect
    <3> QED
      BY <1>1, <2>2, <2>6, <3>2 DEF OutputInv, InMap
  <2> QED
    BY <2>1, <2>3, <2>4, <2>5, <2>6 DEF Enqueues
<1>5. CASE AssignBuffer
  <2>1. pc = "assign" /\ pc' = "sequence" /\ unit' = unit
    BY <1>5, AssignEffect
  <2> QED
    BY <1>1, <2>1 DEF OutputInv
<1>6. CASE ShowSEF
  <2>1. pc' \in {"tiles", "broken"} /\ unit'.flags = {}
    BY <1>1, <1>6 DEF ShowSEF, TypeOK, Units
  <2> QED
    BY <2>1 DEF OutputInv
<1>7. CASE RefreshSlot
  <2>1. pc = "update" /\ pc' = pc /\ unit' = unit /\ todo # {}
    BY <1>7 DEF RefreshSlot, First
  <2> QED
    BY <1>1, <2>1 DEF OutputInv
<1> QED
  BY <1>2, <1>3, <1>4, <1>5, <1>6, <1>7, StepKinds

-----------------------------------------------------------------------------
(* How many buffers are held.                                               *)

LEMMA HeldFinite == IsFiniteSet(Held) /\ Cardinality(Held) \in Nat
<1>1. Held \in SUBSET Buffers
  BY DEF Held
<1> QED
  BY <1>1, BuffersAssumption, FS_Subset, FS_CardinalityType

LEMMA ReservedNat ==
  ASSUME TypeOK
  PROVE  Reserved \in Nat
BY MaxUnitsAssumption DEF TypeOK, Reserved

LEMMA ReservedNext ==
  ASSUME RInv'
  PROVE  Reserved' \in Nat
<1>1. units' \in 0..MaxUnits
  BY DEF RInv, TInv, TypeOK
<1> DEFINE n == units'
<1>2. Reserved' = n + 1 \/ Reserved' = n + 0
  BY Zenon DEF Reserved
<1>3. n \in 0..MaxUnits /\ MaxUnits \in Nat
  BY <1>1, MaxUnitsAssumption
<1> HIDE DEF n
<1> QED
  BY <1>2, <1>3

LEMMA PoolShrinks ==
  ASSUME MInv, RInv', Held' \subseteq Held, Reserved' <= Reserved
  PROVE  PoolBound'
<1>1. Cardinality(Held') <= Cardinality(Held) /\ Cardinality(Held') \in Nat
  BY HeldFinite, FS_Subset, FS_CardinalityType
<1>2. Reserved' \in Nat
  BY ReservedNext
<1>3. /\ Cardinality(Held) + Reserved <= NumSlots + MaxUnits
      /\ Cardinality(Held) \in Nat /\ Reserved \in Nat
  BY HeldFinite, ReservedNat DEF MInv, PoolBound, RInv, TInv
<1>4. NumSlots + MaxUnits \in Nat
  BY NumSlotsAssumption, MaxUnitsAssumption
<1> HIDE DEF Reserved
<1>5. Cardinality(Held') + Reserved' <= NumSlots + MaxUnits
  BY <1>1, <1>2, <1>3, <1>4
<1> QED
  BY <1>5 DEF PoolBound

\* A new call holds the frames of the slots only.
LEMMA PoolOfCall ==
  ASSUME MInv, RInv', NEW n \in 1..MaxUnits, Decode(n)
  PROVE  PoolBound'
<1> DEFINE slot == [b \in Held' |-> CHOOSE s \in Slots : refMap'[s] = b]
<1>1. pc' = "units" /\ units' = n /\ cur' = cur /\ pc = "idle"
      /\ outputs' = <<>> /\ dropped' = 0
  BY DEF Decode, ReleaseOutputs
<1>2. cur = NoBuf
  BY <1>1 DEF MInv, RInv, TInv, Holding, NoFramePCs
<1>3. ASSUME NEW b \in Held' PROVE InMap(b)'
  <2>1. b \in Buffers /\ refCount'[b] > 0
    BY DEF Held
  <2>2. cur' # b /\ ~InQueue(b)'
    BY <1>1, <1>2, <2>1, BuffersAssumption DEF InQueue
  <2> QED
    BY <2>1, <2>2, HoldersNext
<1>4. \A b \in Held' : slot[b] \in Slots /\ refMap'[slot[b]] = b
  BY <1>3 DEF InMap
<1>5. slot \in Injection(Held', Slots)
  BY <1>4 DEF Injection, IsInjective
<1>6. Cardinality(Held') <= Cardinality(Slots)
  BY <1>5, SlotsFinite, FS_Injection
<1>7. Cardinality(Slots) = NumSlots
  BY NumSlotsAssumption, FS_Interval DEF Slots
<1>8. Reserved' = n
  BY <1>1 DEF Reserved
<1>9. Cardinality(Held') \in Nat
  <2>1. Held' \in SUBSET Buffers
    BY DEF Held
  <2> QED
    BY <2>1, BuffersAssumption, FS_Subset, FS_CardinalityType
<1>10. Cardinality(Held') + n <= NumSlots + MaxUnits
  BY <1>6, <1>7, <1>9, NumSlotsAssumption, MaxUnitsAssumption
<1> QED
  BY <1>8, <1>10 DEF PoolBound

LEMMA ReservedGives ==
  ASSUME MInv, Gives \/ ReadsFrame \/ Queues \/ ShowSEF \/ RefreshSlot,
         ~\E n \in 1..MaxUnits : Decode(n)
  PROVE  Reserved' <= Reserved
<1> DEFINE r == IF pc \in {"keyflush", "assign"} THEN 1 ELSE 0
           s == IF pc' \in {"keyflush", "assign"} THEN 1 ELSE 0
<1>1. units \in Nat /\ TypeOK
  BY MaxUnitsAssumption DEF MInv, RInv, TInv, TypeOK
<1>2. Reserved = units + r /\ Reserved' = units' + s
  BY DEF Reserved
<1>3. ASSUME NEW kind \in Kinds, NEW first \in BOOLEAN, StartUnit(kind, first)
      PROVE  Reserved' <= Reserved
  BY <1>1, <1>2, <1>3 DEF StartUnit
<1>4. CASE CallEnds \/ AssignFails \/ Fail
  BY <1>1, <1>2, <1>4 DEF CallEnds, AssignFails, Fail, UnitFails
<1>5. CASE units' = units /\ (s = 0 \/ r = 1)
  BY <1>1, <1>2, <1>5
<1>6. CASE Flush \/ KeyFlushed \/ Flushed \/ ReadSequence \/ ReadOlk \/ SEFEndsLeading
  BY <1>5, <1>6 DEF Flush, KeyFlushed, Flushed, ReadSequence, ReadOlk, SEFEndsLeading
<1>7. CASE \/ \E flags \in SUBSET Slots : ReadRefresh(flags)
           \/ \E slot \in Slots, derive \in BOOLEAN, order \in Orders :
                ReadSEF(slot, derive, order)
  BY <1>5, <1>7 DEF ReadRefresh, ReadSEF
<1>8. CASE DecodeTiles \/ OutputEvicted \/ OutputCurrent \/ OutputEnds \/ FinishUnit
  BY <1>1, <1>5, <1>8 DEF DecodeTiles, OutputEvicted, OutputCurrent, OutputEnds, FinishUnit,
                          NextUnit, TypeOK
<1>9. CASE ReadsFrame
  BY <1>5, <1>9, ReadFrameEffect
<1>10. CASE Queues
  <2>1. PICK c : Enqueues(c)
    BY <1>10, QueuesOne
  <2> QED
    BY <1>5, <2>1 DEF Enqueues
<1>11. CASE ShowSEF \/ RefreshSlot
  BY <1>5, <1>11 DEF ShowSEF, RefreshSlot
<1> QED
  BY <1>3, <1>4, <1>6, <1>7, <1>8, <1>9, <1>10, <1>11 DEF Gives

LEMMA HeldShrinks ==
  ASSUME MInv, RInv', Gives \/ ReadsFrame \/ Queues \/ ShowSEF \/ RefreshSlot
  PROVE  Held' \subseteq Held
<1> SUFFICES ASSUME NEW b \in Buffers, refCount'[b] > 0
             PROVE  refCount[b] > 0
  BY DEF Held
<1>1. RInv /\ refCount[b] \in Nat /\ refCount'[b] \in Nat
  BY HoldersOf, HoldersNext DEF MInv
<1>2. CASE Gives
  <2>1. refCount'[b] <= refCount[b]
    BY <1>1, <1>2, GivesGivesUp DEF GivesUp
  <2> QED
    BY <1>1, <2>1
<1>3. CASE ReadsFrame
  BY <1>3, ReadFrameEffect
<1>4. CASE Queues
  <2>1. PICK c : Enqueues(c)
    BY <1>4, QueuesOne
  <2>2. dropped = 0
    BY <2>1 DEF Enqueues, MInv, RInv, Undropped
  <2> QED
    BY <2>1, <2>2, QueuedEffect
<1>5. CASE ShowSEF
  BY <1>1, <1>5, ShowEffect
<1>6. CASE RefreshSlot
  <2>1. cur \in Buffers
    BY <1>6 DEF RefreshSlot, MInv, RInv, TInv, TypeOK, Holding, NoFramePCs
  <2>2. UNCHANGED <<cur, outputs, dropped>>
    BY <1>6 DEF RefreshSlot
  <2>3. InMap(b)' \/ cur' = b \/ InQueue(b)'
    BY HoldersNext
  <2>4. InMap(b) \/ cur = b \/ InQueue(b)
    BY <1>6, <2>2, <2>3, RefreshEffect
  <2> QED
    BY <1>1, <2>4, HoldersOf
<1> QED
  BY <1>2, <1>3, <1>4, <1>5, <1>6

LEMMA PoolAssign ==
  ASSUME MInv, RInv', AssignBuffer
  PROVE  PoolBound'
<1>1. /\ cur' \in Buffers /\ refCount[cur'] = 0
      /\ \A b \in Buffers : refCount'[b] = IF b = cur' THEN 1 ELSE refCount[b]
      /\ units' = units /\ pc = "assign" /\ pc' = "sequence"
  BY AssignEffect
<1>2. Held' = Held \cup {cur'} /\ cur' \notin Held
  BY <1>1 DEF Held
<1>3. Cardinality(Held') = Cardinality(Held) + 1
  BY <1>2, HeldFinite, FS_AddElement
<1>4. units \in Nat
  BY MaxUnitsAssumption DEF MInv, RInv, TInv, TypeOK
<1>5. Reserved = units + 1 /\ Reserved' = units
  BY <1>1, <1>4 DEF Reserved
<1>6. Cardinality(Held) + (units + 1) <= NumSlots + MaxUnits
  BY <1>5 DEF MInv, PoolBound
<1>7. Cardinality(Held') + units <= NumSlots + MaxUnits
  BY <1>3, <1>4, <1>6, HeldFinite, NumSlotsAssumption, MaxUnitsAssumption
<1> QED
  BY <1>5, <1>7 DEF PoolBound

LEMMA PoolNext ==
  ASSUME MInv, RInv', Next
  PROVE  PoolBound'
<1>1. CASE \E n \in 1..MaxUnits : Decode(n)
  BY <1>1, PoolOfCall
<1>2. CASE AssignBuffer
  BY <1>2, PoolAssign
<1>3. CASE ~AssignBuffer /\ ~\E n \in 1..MaxUnits : Decode(n)
  <2>1. Gives \/ ReadsFrame \/ Queues \/ ShowSEF \/ RefreshSlot
    BY <1>3, StepKinds
  <2> QED
    BY <1>3, <2>1, HeldShrinks, ReservedGives, PoolShrinks
<1> QED
  BY <1>1, <1>2, <1>3

\* The queue of a call holds each of its frames once.
LEMMA QueueNext ==
  ASSUME MInv, RInv', PoolBound', NoFrameTwice', Next
  PROVE  QueueBound'
<1>1. CASE outputs' = outputs \/ outputs' = <<>>
  BY <1>1, NumSlotsAssumption, MaxUnitsAssumption DEF MInv, QueueBound
<1>2. CASE Queues
  <2> DEFINE queue == [i \in 1..Len(outputs') |-> outputs'[i]]
  <2>1. outputs' \in Seq(Buffers) /\ Len(outputs') \in Nat
    BY DEF RInv, TInv, TypeOK
  <2>2. dropped' = 0
    <3>1. PICK c : Enqueues(c)
      BY <1>2, QueuesOne
    <3> QED
      BY <3>1 DEF Enqueues, MInv, RInv, Undropped
  <2>3. ASSUME NEW i \in 1..Len(outputs') PROVE outputs'[i] \in Held'
    <3>1. PICK b \in Buffers : b = outputs'[i]
      BY <2>1
    <3>2. InQueue(b)'
      BY <2>2, <3>1 DEF InQueue
    <3> QED
      BY <3>1, <3>2, HoldersNext DEF Held
  <2>4. ASSUME NEW i \in 1..Len(outputs'), NEW j \in 1..Len(outputs'),
               outputs'[i] = outputs'[j], i # j
        PROVE  FALSE
    <3> DEFINE b == outputs'[i]
               S == {k \in 1..Len(outputs') : outputs'[k] = b}
               T == {i} \cup {j}
    <3>1. b \in Buffers /\ T \in SUBSET S
      BY <2>1, <2>4
    <3>2. IsFiniteSet(S)
      <4>1. IsFiniteSet(1..Len(outputs'))
        BY <2>1, FS_Interval
      <4> QED
        BY <4>1, FS_Subset
    <3>3. Cardinality(T) = 1 + 1
      <4>1. IsFiniteSet({i}) /\ Cardinality({i}) = 1 /\ j \notin {i}
        BY <2>4, FS_Singleton
      <4> QED
        BY <4>1, FS_AddElement
    <3>4. Cardinality(S) <= 1 /\ Cardinality(S) \in Nat
      BY <3>1, <3>2, FS_CardinalityType DEF NoFrameTwice, OutputRefs
    <3> HIDE DEF T
    <3>5. Cardinality(T) <= Cardinality(S)
      BY <3>1, <3>2, FS_Subset
    <3> HIDE DEF S
    <3> QED
      BY <3>3, <3>4, <3>5
  <2>5. queue \in Injection(1..Len(outputs'), Held')
    BY <2>3, <2>4 DEF Injection, IsInjective
  <2>6. IsFiniteSet(Held') /\ Cardinality(Held') \in Nat
    <3>1. Held' \in SUBSET Buffers
      BY DEF Held
    <3> QED
      BY <3>1, BuffersAssumption, FS_Subset, FS_CardinalityType
  <2>7. Cardinality(1..Len(outputs')) <= Cardinality(Held')
    BY <2>5, <2>6, FS_Injection
  <2>8. Cardinality(1..Len(outputs')) = Len(outputs')
    <3>1. PICK m \in Nat : m = Len(outputs')
      BY <2>1
    <3>2. 1 \in Int /\ m \in Int /\ (1 > m => m = 0) /\ m - 1 + 1 = m
      BY <3>1
    <3>3. Cardinality(1..m) = IF 1 > m THEN 0 ELSE m - 1 + 1
      BY <3>2, FS_Interval
    <3>4. Cardinality(1..m) = m
      BY <3>2, <3>3
    <3> QED
      BY <3>1, <3>4
  <2>9. Cardinality(Held') + Reserved' <= NumSlots + MaxUnits /\ Reserved' \in Nat
    BY ReservedNext DEF PoolBound
  <2>10. Len(outputs') <= NumSlots + MaxUnits
    BY <2>1, <2>6, <2>7, <2>8, <2>9, NumSlotsAssumption, MaxUnitsAssumption
  <2> QED
    BY <2>10 DEF QueueBound
<1> QED
  BY <1>1, <1>2, StepKinds, QueueUnchanged

-----------------------------------------------------------------------------
LEMMA InitMInv == Init => MInv
<1> SUFFICES ASSUME Init PROVE MInv
  OBVIOUS
<1>1. RInv
  BY InitRInv
<1>2. Held = {} /\ Reserved = 0
  BY DEF Init, Held, Reserved
<1>3. PoolBound
  BY <1>2, FS_EmptySet, NumSlotsAssumption, MaxUnitsAssumption DEF PoolBound
<1>4. UnheldInv
  BY DEF Init, UnheldInv, Blank
<1>5. ASSUME NEW b \in Buffers PROVE ~InMap(b) /\ ~InQueue(b)
  BY BuffersAssumption DEF Init, InMap, InQueue
<1>6. HeldInv /\ DoneInv
  BY <1>5 DEF HeldInv, DoneInv
<1>7. CurrentInv /\ OutputInv
  BY DEF Init, CurrentInv, OutputInv, EmptyPCs, TargetPCs, FullPCs
<1>8. NoFrameTwice
  <2>1. outputs \in Seq(Buffers) /\ Len(outputs) = 0
    BY DEF Init
  <2>2. \A b \in Buffers : OutputRefs(1, b) = 0
    BY <2>1, NoOutputRefs
  <2> QED
    BY <2>2 DEF NoFrameTwice
<1>9. QueueBound
  BY NumSlotsAssumption, MaxUnitsAssumption DEF Init, QueueBound
<1> QED
  BY <1>1, <1>3, <1>4, <1>6, <1>7, <1>8, <1>9 DEF MInv

LEMMA NextMInv ==
  ASSUME ~ReuseAfterFlush
  PROVE  MInv /\ [Next]_vars => MInv'
<1> SUFFICES ASSUME MInv, [Next]_vars PROVE MInv'
  OBVIOUS
<1>1. RInv'
  BY NextRInv DEF MInv
<1>2. CASE Next
  <2>1. PoolBound' /\ UnheldInv' /\ HeldInv' /\ DoneInv' /\ NoFrameTwice'
    BY <1>1, <1>2, PoolNext, UnheldNext, HeldNext, DoneNext, TwiceNext
  <2>2. CurrentInv' /\ OutputInv'
    BY <1>1, <1>2, CurrentNext, OutputNextInv
  <2>3. QueueBound'
    BY <1>1, <1>2, <2>1, QueueNext
  <2> QED
    BY <1>1, <2>1, <2>2, <2>3 DEF MInv
<1>3. CASE UNCHANGED vars
  <2>1. /\ PoolBound' /\ UnheldInv' /\ HeldInv' /\ DoneInv' /\ NoFrameTwice' /\ QueueBound'
    BY <1>3 DEF vars, bufferVars, MInv, PoolBound, Held, Reserved, UnheldInv, HeldInv,
                DoneInv, NoFrameTwice, OutputRefs, QueueBound, InMap, InQueue
  <2>2. CurrentInv' /\ OutputInv'
    BY <1>3 DEF vars, bufferVars, loopVars, MInv, CurrentInv, OutputInv, InMap, InQueue
  <2> QED
    BY <1>1, <2>1, <2>2 DEF MInv
<1> QED
  BY <1>2, <1>3

LEMMA AlwaysMInv ==
  ASSUME ~ReuseAfterFlush
  PROVE  Spec => []MInv
<1>1. MInv /\ [Next]_vars => MInv'
  BY NextMInv
<1> QED
  BY <1>1, InitMInv, PTL DEF Spec

-----------------------------------------------------------------------------
\* With as many buffers as slots and units in a call, get_free_fb finds a free
\* one ("We should never run out of free buffers"): between calls only the slots
\* hold buffers, and a unit takes one and gives back no less than it keeps,
\* whatever the slots, the errors and the frames queued.  The decoder has
\* REF_FRAMES slots and the share of FRAME_BUFFERS that one stream has.
THEOREM NeverRunsOut ==
  ASSUME ~ReuseAfterFlush, Cardinality(Buffers) >= NumSlots + MaxUnits
  PROVE  Spec => []NeverOutOfBuffers
<1>1. MInv => NeverOutOfBuffers
  <2> SUFFICES ASSUME MInv, pc = "assign", \A b \in Buffers : refCount[b] # 0
               PROVE  FALSE
    BY DEF NeverOutOfBuffers
  <2>1. Held = Buffers
    BY HoldersOf DEF MInv, Held
  <2>2. units \in Nat
    BY MaxUnitsAssumption DEF MInv, RInv, TInv, TypeOK
  <2>3. Reserved = units + 1
    BY DEF Reserved
  <2>4. Cardinality(Buffers) + (units + 1) <= NumSlots + MaxUnits
    BY <2>1, <2>3 DEF MInv, PoolBound
  <2>5. Cardinality(Buffers) \in Nat
    BY BuffersAssumption, FS_CardinalityType
  <2> QED
    BY <2>2, <2>4, <2>5, NumSlotsAssumption, MaxUnitsAssumption
<1> QED
  BY <1>1, AlwaysMInv, PTL

\* A frame of a slot or of the application's queue has its pixels, and a buffer
\* nobody refers to has none (decrease_ref_count, assign_frame_buffer_p): errors,
\* show_existing_frame and the key frames that empty the slots included.
THEOREM PixelsHeld ==
  ASSUME ~ReuseAfterFlush
  PROVE  Spec => []DataHeld
<1>1. MInv => DataHeld
  <2> SUFFICES ASSUME MInv, NEW b \in Buffers
               PROVE  /\ InMap(b) \/ OutputRefs(dropped + 1, b) > 0 => data[b]
                      /\ refCount[b] = 0 => ~data[b]
    BY DEF DataHeld
  <2>1. IsFiniteSet((dropped + 1)..Len(outputs))
    BY FS_Interval DEF MInv, RInv, TInv, TypeOK
  <2>2. Count(outputs, (dropped + 1)..Len(outputs), b) > 0 => InQueue(b)
    BY <2>1, CountPositive DEF InQueue
  <2> QED
    BY <2>2 DEF MInv, HeldInv, UnheldInv, OutputRefs, Count
<1> QED
  BY <1>1, AlwaysMInv, PTL

\* No call hands a frame to the application twice, by whichever of the four ways
\* a frame is queued: flushed by a key frame, evicted from its slot, output in
\* order, or shown (frame_output_done).
THEOREM QueuedOnce ==
  ASSUME ~ReuseAfterFlush
  PROVE  Spec => []NoFrameTwice
<1>1. MInv => NoFrameTwice
  BY DEF MInv
<1> QED
  BY <1>1, AlwaysMInv, PTL

\* A call with one frame unit never writes past output_frames[REF_FRAMES + 1]:
\* the queued frames are distinct, and held by the slots and the current frame.
THEOREM QueueFits ==
  ASSUME ~ReuseAfterFlush, MaxUnits = 1
  PROVE  Spec => []QueueWithinArray
<1>1. MInv => QueueWithinArray
  BY DEF MInv, QueueBound, QueueWithinArray
<1> QED
  BY <1>1, AlwaysMInv, PTL

-----------------------------------------------------------------------------
(* Resynchronisation.  Every sequence of the stream has n reference slots.  *)

ResyncInv(n) ==
  /\ refFrames \in {0, n}
  /\ pc \in {"frame", "olk", "refresh", "sef"} => refFrames = n
  /\ ~needResync => \A s \in ActiveSlots(n) : refMap[s] \notin beforeError
  /\ unit.sef = "no" => cur \notin beforeError
  /\ pc \in {"sefOlk", "sefShow"} => unit.sef # "no"
  /\ pc = "tiles" /\ unit.sef = "no" => ~needResync

\* A step that keeps need_resync and stores no frame keeps the slots free of the
\* frames from before the error.
LEMMA ResyncKept ==
  ASSUME NEW n, MInv, ResyncInv(n), UNCHANGED <<needResync, beforeError>>,
         \A s \in ActiveSlots(n) : refMap'[s] \in {refMap[s], NoBuf},
         refFrames' \in {0, n},
         pc' \in {"frame", "olk", "refresh", "sef"} => refFrames' = n,
         unit'.sef = "no" => (unit.sef = "no" /\ cur' = cur) \/ cur' = NoBuf,
         pc' \in {"sefOlk", "sefShow"} => unit'.sef # "no",
         pc' = "tiles" => unit'.sef # "no"
  PROVE  ResyncInv(n)'
<1>1. NoBuf \notin beforeError
  BY BuffersAssumption DEF MInv, RInv, TInv, TypeOK
<1> QED
  BY <1>1 DEF ResyncInv

LEMMA ResyncCall ==
  ASSUME NEW n \in 1..NumSlots, RefFramesChoices = {n}, MInv, ResyncInv(n),
         CallSteps \/ (\E k \in 1..MaxUnits : Decode(k)) \/ Flush
  PROVE  ResyncInv(n)'
<1>1. NoBuf \notin beforeError
  BY BuffersAssumption DEF MInv, RInv, TInv, TypeOK
<1>2. ASSUME UnitFails, cur' = NoBuf, UNCHANGED <<refFrames, refMap>>
      PROVE  ResyncInv(n)'
  BY <1>2, BuffersAssumption DEF ResyncInv, UnitFails
<1>3. ASSUME (\E k \in 1..MaxUnits : Decode(k)) \/ Flush \/ Flushed \/ CallEnds
             \/ FlushOne \/ KeyFlushed
      PROVE  ResyncInv(n)'
  <2>1. /\ UNCHANGED <<needResync, beforeError, refMap, refFrames, unit, cur>>
        /\ pc' \in {"units", "flush", "idle", "eos", "keyflush", "assign"}
    BY <1>3 DEF Decode, Flush, Flushed, CallEnds, FlushOne, KeyFlushed, stateVars
  <2> QED
    BY <2>1 DEF ResyncInv
<1>4. ASSUME NEW kind \in Kinds, NEW first \in BOOLEAN, StartUnit(kind, first)
      PROVE  ResyncInv(n)'
  <2>1. /\ UNCHANGED <<needResync, beforeError, refMap, refFrames, cur>>
        /\ pc' \in {"keyflush", "assign"} /\ cur = NoBuf
    BY <1>4 DEF StartUnit, stateVars, MInv, RInv, TInv, Holding, NoFramePCs
  <2> QED
    BY <1>1, <2>1 DEF ResyncInv
<1>5. ASSUME AssignBuffer PROVE ResyncInv(n)'
  <2>1. /\ UNCHANGED <<needResync, refMap, refFrames, unit>>
        /\ pc' \in {"sequence", "broken"}
        /\ beforeError' = beforeError \ {cur'}
    BY <1>5 DEF AssignBuffer, stateVars
  <2> QED
    BY <2>1 DEF ResyncInv
<1>6. ASSUME AssignFails PROVE ResyncInv(n)'
  <2>1. cur = NoBuf
    BY <1>6 DEF AssignFails, MInv, RInv, TInv, Holding, NoFramePCs
  <2> QED
    BY <1>2, <1>6, <2>1 DEF AssignFails
<1>7. ASSUME Fail PROVE ResyncInv(n)'
  BY <1>2, <1>7 DEF Fail
<1> QED
  BY <1>3, <1>4, <1>5, <1>6, <1>7 DEF CallSteps

LEMMA ResyncHeader ==
  ASSUME NEW n \in 1..NumSlots, RefFramesChoices = {n}, MInv, ResyncInv(n), HeaderSteps
  PROVE  ResyncInv(n)'
<1>1. TypeOK /\ ActiveSlots(n) \subseteq Slots /\ NoBuf \notin beforeError
  BY BuffersAssumption, ActiveSubset DEF MInv, RInv, TInv, TypeOK
<1>2. ASSUME ReadSequence PROVE ResyncInv(n)'
  <2>1. PICK m \in IF unit.kind = "CLK" THEN RefFramesChoices ELSE {refFrames} \ {0} :
          /\ refFrames' = m
          /\ IF unit.kind = "CLK" /\ unit.first
             THEN DropSlots(ActiveSlots(m), data)
             ELSE UNCHANGED refMap
    BY <1>2 DEF ReadSequence
  <2>2. refFrames' = n
    BY <2>1 DEF ResyncInv
  <2>3. \A s \in Slots : refMap'[s] \in {refMap[s], NoBuf}
    BY <2>1 DEF DropSlots
  <2>4. /\ UNCHANGED <<needResync, beforeError, unit, cur>> /\ pc' \in {"sef", "frame"}
    BY <1>2 DEF ReadSequence, stateVars
  <2> QED
    BY <1>1, <2>2, <2>3, <2>4, ResyncKept
<1>3. ASSUME ReadsFrame PROVE ResyncInv(n)'
  <2>1. pc = "frame" /\ pc' = "olk" /\ unit'.sef = unit.sef /\ UNCHANGED <<refMap, cur>>
    BY <1>3, ReadFrameEffect
  <2>2. UNCHANGED <<needResync, beforeError, refFrames>>
    BY <1>3, ReadFrameKeeps
  <2> QED
    BY <2>1, <2>2 DEF ResyncInv
<1>4. ASSUME ResetOtherThanOLK \/ UNCHANGED <<refMap, bufferVars>>
      PROVE  \A s \in Slots : refMap'[s] \in {refMap[s], NoBuf}
  BY <1>4 DEF ResetOtherThanOLK, DropSlots
<1>5. ASSUME ReadOlk PROVE ResyncInv(n)'
  <2>1. /\ ResetOtherThanOLK \/ UNCHANGED <<refMap, bufferVars>>
        /\ UNCHANGED <<needResync, beforeError, refFrames, unit, cur>>
        /\ pc = "olk" /\ pc' = "refresh"
    BY <1>5 DEF ReadOlk, stateVars
  <2> QED
    BY <1>1, <1>4, <2>1, ResyncKept DEF ResyncInv
<1>6. ASSUME SEFEndsLeading PROVE ResyncInv(n)'
  <2>1. /\ ResetOtherThanOLK
        /\ UNCHANGED <<needResync, beforeError, refFrames, unit, cur>>
        /\ pc = "sefOlk" /\ pc' = "sefShow"
    BY <1>6 DEF SEFEndsLeading, stateVars
  <2> QED
    BY <1>1, <1>4, <2>1, ResyncKept DEF ResyncInv
<1>7. ASSUME NEW flags \in SUBSET Slots, ReadRefresh(flags) PROVE ResyncInv(n)'
  <2> DEFINE resync == needResync /\ unit.type \in {"KEY", "INTRA_ONLY"}
             bad == OverwritesOLK(flags) \/ (needResync /\ ~resync)
  <2>1. /\ pc = "refresh" /\ pc' = (IF bad THEN "broken" ELSE "tiles")
        /\ UNCHANGED <<beforeError, refFrames, cur>>
        /\ needResync' = (needResync /\ ~resync)
    BY <1>7 DEF ReadRefresh
  <2>2. refFrames = n /\ unit'.sef = unit.sef
    BY <1>1, <1>7, <2>1 DEF ResyncInv, ReadRefresh, TypeOK, Units
  <2>3. \A s \in Slots : refMap'[s] = IF resync /\ s \in ActiveSlots(n)
                                      THEN NoBuf ELSE refMap[s]
    BY <1>7, <2>2 DEF ReadRefresh, DropSlots
  <2>4. ~needResync' => \A s \in ActiveSlots(n) : refMap'[s] \notin beforeError
    BY <1>1, <2>1, <2>3 DEF ResyncInv
  <2>5. pc' = "tiles" => ~needResync'
    BY <2>1
  <2> HIDE DEF resync, bad
  <2> QED
    BY <2>1, <2>2, <2>4, <2>5 DEF ResyncInv
<1>8. ASSUME NEW slot \in Slots, NEW derive \in BOOLEAN, NEW order \in Orders,
             ReadSEF(slot, derive, order)
      PROVE  ResyncInv(n)'
  <2>1. /\ UNCHANGED <<needResync, beforeError, refFrames, refMap, cur>>
        /\ pc' \in {"sefOlk", "sefShow"} /\ unit'.sef \in {"derive", "copy"}
    BY <1>1, <1>8 DEF ReadSEF, stateVars, TypeOK, Units
  <2> QED
    BY <2>1, ResyncKept DEF ResyncInv
<1>9. ASSUME ShowSEF PROVE ResyncInv(n)'
  <2>1. /\ UNCHANGED <<needResync, beforeError, refFrames, refMap>>
        /\ pc = "sefShow" /\ pc' \in {"tiles", "broken"} /\ unit'.sef = unit.sef
    BY <1>1, <1>9 DEF ShowSEF, stateVars, TypeOK, Units
  <2>2. unit.sef # "no"
    BY <2>1 DEF ResyncInv
  <2> QED
    BY <2>1, <2>2, ResyncKept DEF ResyncInv
<1> QED
  BY <1>2, <1>3, <1>5, <1>6, <1>7, <1>8, <1>9 DEF HeaderSteps, ReadsFrame

LEMMA ResyncUpdate ==
  ASSUME NEW n \in 1..NumSlots, MInv, ResyncInv(n), UpdateSteps
  PROVE  ResyncInv(n)'
<1>1. TypeOK /\ ActiveSlots(n) \subseteq Slots /\ NoBuf \notin beforeError
  BY BuffersAssumption, ActiveSubset DEF MInv, RInv, TInv, TypeOK
<1>2. ASSUME RefreshSlot PROVE ResyncInv(n)'
  <2>1. PICK s \in First(todo) : SetSlot(s, IF s \in InsertedSlots THEN cur ELSE NoBuf)
    BY <1>2 DEF RefreshSlot
  <2>2. \A t \in Slots : refMap'[t] \in {refMap[t], cur, NoBuf}
    BY <1>1, <2>1 DEF SetSlot, TypeOK
  <2>3. /\ UNCHANGED <<needResync, beforeError, refFrames, unit, cur>>
        /\ pc = "update" /\ pc' = pc /\ todo # {}
    BY <1>2 DEF RefreshSlot, stateVars, First
  <2>4. cur \notin beforeError
    BY <2>3 DEF MInv, OutputInv, ResyncInv
  <2> QED
    BY <1>1, <2>2, <2>3, <2>4 DEF ResyncInv
<1>3. ASSUME FinishUnit PROVE ResyncInv(n)'
  <2>1. /\ UNCHANGED <<needResync, beforeError, refFrames, refMap>> /\ cur' = NoBuf
        /\ pc' \in {"idle", "units"}
    BY <1>3 DEF FinishUnit, NextUnit
  <2> QED
    BY <1>1, <2>1 DEF ResyncInv
<1>4. ASSUME DecodeTiles \/ OutputEvicted \/ OutputCurrent \/ OutputBefore
             \/ OutputTrigger \/ OutputNext \/ OutputEnds
      PROVE  ResyncInv(n)'
  <2>1. /\ UNCHANGED <<needResync, beforeError, refFrames, refMap, unit, cur>>
        /\ pc' \in {"update", "prev", "next", "final"}
    BY <1>1, <1>4 DEF DecodeTiles, OutputEvicted, OutputCurrent, OutputBefore, OutputTrigger,
                      OutputNext, OutputEnds, stateVars, TypeOK
  <2> QED
    BY <2>1 DEF ResyncInv
<1> QED
  BY <1>2, <1>3, <1>4 DEF UpdateSteps

\* After an error, and however many follow, no inter frame is decoded while a
\* slot of its sequence holds a frame from before (need_resync): the key or
\* intra-only frame that ends the resynchronisation empties the slots, nothing
\* shown from them is stored again.
THEOREM ResyncBeforeInter ==
  ASSUME ~ReuseAfterFlush, NEW n \in 1..NumSlots, RefFramesChoices = {n}
  PROVE  Spec => []NoStaleReferenceAfterError
<1>1. Init => ResyncInv(n)
  BY BuffersAssumption DEF Init, ResyncInv
<1>2. MInv /\ ResyncInv(n) /\ [Next]_vars => ResyncInv(n)'
  <2> SUFFICES ASSUME MInv, ResyncInv(n), [Next]_vars PROVE ResyncInv(n)'
    OBVIOUS
  <2>1. CASE Next
    BY <2>1, ResyncCall, ResyncHeader, ResyncUpdate DEF Next, Decoder
  <2>2. CASE UNCHANGED vars
    BY <2>2 DEF vars, stateVars, ResyncInv
  <2> QED
    BY <2>1, <2>2
<1>3. MInv /\ ResyncInv(n) => NoStaleReferenceAfterError
  <2> SUFFICES ASSUME MInv, ResyncInv(n), pc = "tiles", unit.sef = "no",
                      NEW s \in ActiveSlots(refFrames)
               PROVE  refMap[s] \notin beforeError
    BY DEF NoStaleReferenceAfterError
  <2>1. refFrames \in {0, n} /\ ~needResync
    BY DEF ResyncInv
  <2>2. s \in ActiveSlots(n)
    BY <2>1 DEF ActiveSlots
  <2> QED
    BY <2>1, <2>2 DEF ResyncInv
<1> QED
  BY <1>1, <1>2, <1>3, AlwaysMInv, PTL DEF Spec

-----------------------------------------------------------------------------
(* Output order.                                                            *)

OrderOf(s) == frame[refMap[s]].order

\* While the successors of the trigger frame are output, no frame waits between it
\* and the last order hint tried.
ReachInv ==
  pc = "next" =>
    \A s \in Pending(ActiveSlots(refFrames)) :
      OrderOf(s) <= frame[trigger].order \/ OrderOf(s) >= reach

LEMMA PendingOrder ==
  ASSUME TInv, NEW s \in Pending(ActiveSlots(refFrames))
  PROVE  s \in Slots /\ refMap[s] \in Buffers /\ OrderOf(s) \in Nat
<1> USE DEF TInv, TypeOK
<1>1. s \in Slots /\ Eligible(refMap[s])
  BY ActiveSubset DEF Pending
<1>2. refMap[s] \in Buffers
  BY <1>1 DEF Eligible
<1>3. frame[refMap[s]] \in Frames
  BY <1>2
<1> QED
  BY <1>1, <1>2, <1>3, OrdersNat DEF Frames, OrderOf

\* The next order hint passes no frame that waits.
LEMMA NextOrderIsNext ==
  ASSUME TInv, ReachInv, pc = "next"
  PROVE  /\ NextOrder \in Nat
         /\ \A s \in Pending(ActiveSlots(refFrames)) :
              OrderOf(s) <= frame[trigger].order \/ OrderOf(s) >= NextOrder
<1> USE DEF TInv
<1>1. reach \in Nat /\ trigger \in Buffers
  BY DEF TypeOK, TriggerExists
<1>2. frame[trigger].order \in Nat
  BY <1>1, OrdersNat DEF TypeOK, Frames
<1>3. NextOrder \in Nat
  BY <1>1 DEF NextOrder
<1>4. ASSUME NEW s \in Pending(ActiveSlots(refFrames)), OrderOf(s) > frame[trigger].order
      PROVE  OrderOf(s) >= NextOrder
  <2>1. OrderOf(s) \in Nat
    BY PendingOrder
  <2>2. OrderOf(s) >= reach
    BY <1>1, <1>2, <1>4, <2>1 DEF ReachInv
  <2>3. CASE NextOrder = reach
    BY <2>2, <2>3
  <2>4. CASE NextOrder # reach
    <3>1. NextOrder = reach + 1 /\ (reach <= frame[trigger].order \/ At(reach) = {})
      BY <1>1, <1>2, <2>4 DEF NextOrder
    <3>2. At(reach) = {} => OrderOf(s) # reach
      BY DEF At, OrderOf
    <3> QED
      BY <1>1, <1>2, <1>4, <2>1, <2>2, <3>1, <3>2
  <2> QED
    BY <2>3, <2>4
<1>5. \A s \in Pending(ActiveSlots(refFrames)) : OrderOf(s) \in Nat
  BY PendingOrder
<1> QED
  BY <1>2, <1>3, <1>4, <1>5

LEMMA HeaderStepsGo ==
  ASSUME HeaderSteps
  PROVE  pc' \in {"sef", "frame", "olk", "refresh", "broken", "tiles", "sefOlk", "sefShow"}
BY HeaderFlow DEF HeaderFlowFacts

LEMMA ReachNext ==
  ASSUME TInv, ReachInv, [Next]_vars
  PROVE  ReachInv'
<1> USE DEF TInv
<1>1. ASSUME NEW c \in Buffers, Output(c), UNCHANGED <<refMap, refFrames, trigger>>
      PROVE  /\ Pending(ActiveSlots(refFrames))' \subseteq Pending(ActiveSlots(refFrames))
             /\ \A s \in Slots : refMap[s] \in Buffers => OrderOf(s)' = OrderOf(s)
             /\ trigger \in Buffers => frame'[trigger].order = frame[trigger].order
  <2>1. frame' = [frame EXCEPT ![c].done = TRUE]
    BY <1>1 DEF Output
  <2>2. ASSUME NEW b \in Buffers
        PROVE  /\ frame'[b].order = frame[b].order
               /\ frame'[b].implicit = frame[b].implicit
               /\ frame[b].done => frame'[b].done
    BY <2>1 DEF TypeOK, Frames
  <2>3. \A s \in Slots : Eligible(refMap[s])' => Eligible(refMap[s])
    BY <1>1, <2>2 DEF Eligible, TypeOK
  <2>4. ActiveSlots(refFrames) \subseteq Slots
    BY ActiveSubset DEF TypeOK
  <2>5. Pending(ActiveSlots(refFrames))' \subseteq Pending(ActiveSlots(refFrames))
    BY <1>1, <2>3, <2>4 DEF Pending
  <2> QED
    BY <1>1, <2>2, <2>5 DEF OrderOf
<1>2. CASE OutputTrigger
  <2>1. /\ pc = "prev" /\ Output(trigger) /\ UNCHANGED <<refMap, refFrames, trigger>>
        /\ reach' = frame[trigger].order
    BY <1>2 DEF OutputTrigger
  <2>2. trigger \in Buffers
    BY <2>1 DEF TriggerExists
  <2>3. frame[trigger].order \in Nat
    BY <2>2, OrdersNat DEF TypeOK, Frames
  <2>4. ASSUME NEW s \in Pending(ActiveSlots(refFrames))'
        PROVE  OrderOf(s)' <= frame'[trigger].order \/ OrderOf(s)' >= reach'
    <3>1. s \in Pending(ActiveSlots(refFrames))
      BY <1>1, <2>1, <2>2
    <3>2. OrderOf(s) \in Nat /\ OrderOf(s)' = OrderOf(s)
          /\ frame'[trigger].order = frame[trigger].order
      BY <1>1, <2>1, <2>2, <3>1, PendingOrder
    <3> QED
      BY <2>1, <2>3, <3>2
  <2> QED
    BY <2>1, <2>4 DEF ReachInv
<1>3. CASE OutputNext
  <2>1. PICK t \in First(Successors) : Output(refMap[t])
    BY <1>3 DEF OutputNext
  <2>2. pc = "next" /\ UNCHANGED <<refMap, refFrames, trigger>> /\ reach' = NextOrder
    BY <1>3 DEF OutputNext
  <2>3. t \in Pending(ActiveSlots(refFrames))
    BY <2>1 DEF First, Successors, At
  <2>4. refMap[t] \in Buffers /\ trigger \in Buffers
    BY <2>2, <2>3, PendingOrder DEF TriggerExists
  <2>5. ASSUME NEW s \in Pending(ActiveSlots(refFrames))'
        PROVE  OrderOf(s)' <= frame'[trigger].order \/ OrderOf(s)' >= reach'
    <3>1. s \in Pending(ActiveSlots(refFrames))
      BY <1>1, <2>1, <2>2, <2>4
    <3>2. OrderOf(s)' = OrderOf(s) /\ frame'[trigger].order = frame[trigger].order
      BY <1>1, <2>1, <2>2, <2>4, <3>1, PendingOrder
    <3>3. OrderOf(s) <= frame[trigger].order \/ OrderOf(s) >= NextOrder
      BY <2>2, <3>1, NextOrderIsNext
    <3> QED
      BY <2>2, <3>2, <3>3
  <2> QED
    BY <2>2, <2>5 DEF ReachInv
<1>4. CASE CallSteps \/ HeaderSteps \/ (\E n \in 1..MaxUnits : Decode(n)) \/ Flush
  <2>1. CASE HeaderSteps
    BY <2>1, HeaderStepsGo DEF ReachInv
  <2>2. CASE CallSteps \/ (\E n \in 1..MaxUnits : Decode(n)) \/ Flush
    <3>1. pc' \in {"units", "flush", "keyflush", "assign", "sequence", "broken", "idle", "eos"}
      BY <2>2 DEF CallSteps, Decode, Flush, StartUnit, FlushOne, KeyFlushed, Flushed,
                  AssignBuffer, AssignFails, Fail, UnitFails, CallEnds
    <3> QED
      BY <3>1 DEF ReachInv
  <2> QED
    BY <1>4, <2>1, <2>2
<1>5. CASE \/ DecodeTiles \/ OutputEvicted \/ RefreshSlot \/ OutputCurrent
           \/ OutputBefore \/ OutputEnds \/ FinishUnit
  <2>1. pc' # "next"
    BY <1>5 DEF DecodeTiles, OutputEvicted, RefreshSlot, OutputCurrent, OutputBefore,
                OutputEnds, FinishUnit, NextUnit, TypeOK
  <2> QED
    BY <2>1 DEF ReachInv
<1>6. CASE UNCHANGED vars
  BY <1>6 DEF vars, loopVars, bufferVars, ReachInv, Pending, Eligible, OrderOf
<1> QED
  BY <1>2, <1>3, <1>4, <1>5, <1>6 DEF Next, Decoder, UpdateSteps

\* Each way to queue a frame takes one that is due.
LEMMA QueuedIsDue ==
  ASSUME TInv, ReachInv, Next, Queued, NEW s \in Pending(ActiveSlots(refFrames))
  PROVE  \/ frame[refMap[s]].order >= frame[outputs'[Len(outputs')]].order
         \/ pc = "next" /\ frame[refMap[s]].order <= frame[trigger].order
<1> USE DEF TInv
<1>1. s \in Slots /\ refMap[s] \in Buffers /\ OrderOf(s) \in Nat
  BY PendingOrder
<1>2. ASSUME NEW c \in Buffers, Output(c)
      PROVE  frame[outputs'[Len(outputs')]].order = frame[c].order
  BY <1>2 DEF Output, TypeOK
<1>3. CASE FlushOne
  <2>1. PICK t \in Pending(Slots) :
          /\ \A r \in Pending(Slots) :
               \/ OrderOf(t) < OrderOf(r)
               \/ OrderOf(t) = OrderOf(r) /\ t >= r
          /\ Output(refMap[t])
    BY <1>3 DEF FlushOne, OrderOf
  <2>2. s \in Pending(Slots) /\ refMap[t] \in Buffers
    BY <1>1, <2>1 DEF Pending, Eligible, TypeOK
  <2>3. OrderOf(t) \in Nat
    BY <2>2, OrdersNat DEF TypeOK, Frames, OrderOf
  <2>4. OrderOf(s) >= OrderOf(t)
    BY <1>1, <2>1, <2>2, <2>3
  <2> QED
    BY <1>2, <2>1, <2>2, <2>4 DEF OrderOf
<1>4. CASE OutputBefore
  <2>1. PICK t \in Before :
          /\ \A r \in Before :
               \/ OrderOf(t) < OrderOf(r)
               \/ OrderOf(t) = OrderOf(r) /\ t <= r
          /\ Output(refMap[t])
    BY <1>4 DEF OutputBefore, OrderOf
  <2>2. t \in Pending(ActiveSlots(refFrames)) /\ OrderOf(t) < frame[trigger].order
    BY <2>1 DEF Before, OrderOf
  <2>3. refMap[t] \in Buffers /\ OrderOf(t) \in Nat
    BY <2>2, PendingOrder
  <2>4. trigger \in Buffers
    BY <1>4 DEF OutputBefore, TriggerExists
  <2>5. frame[trigger].order \in Nat
    BY <2>4, OrdersNat DEF TypeOK, Frames
  <2>6. s \in Before \/ OrderOf(s) >= frame[trigger].order
    BY <1>1, <2>5 DEF Before, OrderOf
  <2>7. OrderOf(s) >= OrderOf(t)
    BY <1>1, <2>1, <2>2, <2>3, <2>5, <2>6
  <2> QED
    BY <1>2, <2>1, <2>3, <2>7 DEF OrderOf
<1>5. CASE OutputTrigger
  <2>1. Before = {} /\ Output(trigger) /\ trigger \in Buffers
    BY <1>5 DEF OutputTrigger, TriggerExists
  <2>2. frame[trigger].order \in Nat
    BY <2>1, OrdersNat DEF TypeOK, Frames
  <2>3. OrderOf(s) >= frame[trigger].order
    BY <1>1, <2>1, <2>2 DEF Before, OrderOf
  <2> QED
    BY <1>2, <2>1, <2>3 DEF OrderOf
<1>6. CASE OutputNext
  <2>1. PICK t \in First(Successors) : Output(refMap[t])
    BY <1>6 DEF OutputNext
  <2>2. pc = "next"
    BY <1>6 DEF OutputNext
  <2>3. t \in Pending(ActiveSlots(refFrames)) /\ OrderOf(t) = NextOrder
    BY <2>1 DEF First, Successors, At, OrderOf
  <2>4. refMap[t] \in Buffers
    BY <2>3, PendingOrder
  <2>5. OrderOf(s) <= frame[trigger].order \/ OrderOf(s) >= NextOrder
    BY <2>2, NextOrderIsNext
  <2> QED
    BY <1>2, <2>1, <2>2, <2>3, <2>4, <2>5 DEF OrderOf
<1>7. CASE Gives \/ ReadsFrame \/ AssignBuffer \/ ShowSEF \/ RefreshSlot
  <2>1. outputs' \in {outputs, <<>>}
    BY <1>7, QueueUnchanged
  <2>2. ~Queued
    BY <2>1 DEF Queued, TypeOK
  <2> QED
    BY <2>2
<1> QED
  BY <1>3, <1>4, <1>5, <1>6, <1>7, StepKinds DEF Queues

\* Frames reach the application in display order: whenever one is queued, by a key
\* frame or a flush, as an evicted frame with those before it and those that follow
\* it without a gap, no frame that waits in a slot of the sequence should have come
\* first (output_frame_buffers, flush_remaining_frames).
THEOREM DisplayOrder == Spec => OutputsInOrder
<1>1. Init => ReachInv
  BY DEF Init, ReachInv
<1>2. TInv /\ ReachInv /\ [Next]_vars => ReachInv'
  BY ReachNext
<1>3. TInv /\ ReachInv /\ [Next]_vars
        => [Queued =>
              \A s \in Pending(ActiveSlots(refFrames)) :
                \/ frame[refMap[s]].order >= frame[outputs'[Len(outputs')]].order
                \/ pc = "next" /\ frame[refMap[s]].order <= frame[trigger].order]_vars
  BY QueuedIsDue
<1> QED
  BY <1>1, <1>2, <1>3, AlwaysTInv, PTL DEF Spec, OutputsInOrder

-----------------------------------------------------------------------------
(* Waiting frames.  What a step leaves of the slots, and of the flags of a  *)
(* buffer that is still referred to.                                        *)

KeepsFlags(b) == /\ frame'[b].implicit = frame[b].implicit
                 /\ frame'[b].done = frame[b].done
                 /\ frame'[b].leading = frame[b].leading

LEMMA DroppedKeeps ==
  ASSUME TypeOK, NEW lost \in [Buffers -> Int], NEW d, DropRefs(lost, d, frame),
         NEW b \in Buffers, refCount'[b] > 0
  PROVE  KeepsFlags(b)
<1>1. refCount[b] \in Int /\ lost[b] \in Int
  BY DEF TypeOK
<1>2. refCount'[b] = refCount[b] - lost[b]
  BY DEF DropRefs
<1>3. frame'[b] = frame[b]
  BY <1>1, <1>2 DEF DropRefs
<1> QED
  BY <1>3 DEF KeepsFlags

\* the slots of S become NULL, the others stay
Emptied(S) == refMap' = [s \in Slots |-> IF s \in S THEN NoBuf ELSE refMap[s]]

LEMMA DropSlotsKeeps ==
  ASSUME TypeOK, NEW S \in SUBSET Slots, NEW d, DropSlots(S, d)
  PROVE  /\ Emptied(S)
         /\ \A b \in Buffers : refCount'[b] > 0 => KeepsFlags(b)
<1> DEFINE lost == [c \in Buffers |-> SlotRefs(S, c)]
<1>1. lost \in [Buffers -> Int]
  BY SlotRefsNat
<1>2. DropRefs(lost, d, frame)
  BY DEF DropSlots
<1>3. Emptied(S)
  BY DEF DropSlots, Emptied
<1> HIDE DEF lost
<1> QED
  BY <1>1, <1>2, <1>3, DroppedKeeps

\* the slots that reset_buffer_other_than_OLK empties
OtherThanOLK == {s \in ActiveSlots(refFrames) :
                   s \notin olkFlags \cup olkCoFlags /\ longTerm[s] = NoLongTerm}

LEMMA ResetKeeps ==
  ASSUME TypeOK, ResetOtherThanOLK
  PROVE  /\ (unit.first /\ Emptied(OtherThanOLK)) \/ refMap' = refMap
         /\ \A b \in Buffers : refCount'[b] > 0 => KeepsFlags(b)
<1>1. OtherThanOLK \in SUBSET Slots
  BY ActiveSubset DEF TypeOK, OtherThanOLK
<1>2. CASE unit.first
  <2>1. DropSlots(OtherThanOLK, data)
    BY <1>2 DEF ResetOtherThanOLK, OtherThanOLK
  <2> QED
    BY <1>1, <1>2, <2>1, DropSlotsKeeps
<1>3. CASE ~unit.first
  BY <1>3 DEF ResetOtherThanOLK, bufferVars, KeepsFlags
<1> QED
  BY <1>2, <1>3

\* the steps that may empty slots, and which
Empties ==
  \/ refMap' = refMap
  \/ /\ pc = "sequence" /\ unit.kind = "CLK" /\ unit.first
     /\ olkFlags' = {} /\ refFrames' \in 0..NumSlots
     /\ Emptied(ActiveSlots(refFrames'))
  \/ /\ (pc = "olk" /\ EndsLeading) \/ pc = "sefOlk"
     /\ unit.first
     /\ olkFlags' = {}
     /\ Emptied(OtherThanOLK)
  \/ /\ pc = "refresh" /\ needResync
     /\ Emptied(ActiveSlots(refFrames))

LEMMA CallStepsEmpty ==
  ASSUME TInv,
         \/ \E n \in 1..MaxUnits : Decode(n)
         \/ Flush
         \/ \E kind \in Kinds, first \in BOOLEAN : StartUnit(kind, first)
         \/ KeyFlushed \/ Flushed \/ AssignFails \/ Fail \/ CallEnds
         \/ DecodeTiles \/ OutputEvicted \/ OutputCurrent \/ OutputEnds \/ FinishUnit
  PROVE  /\ refMap' = refMap
         /\ \A b \in Buffers : refCount'[b] > 0 => KeepsFlags(b)
<1> USE DEF TInv
<1>1. ASSUME ReleaseOutputs \/ Flushed
      PROVE  \A b \in Buffers : refCount'[b] > 0 => KeepsFlags(b)
  <2> DEFINE lost == [b \in Buffers |-> OutputRefs(1, b)]
  <2>1. lost \in [Buffers -> Int]
    BY OutputRefsNat DEF TypeOK
  <2>2. DropRefs(lost, data, frame)
    BY <1>1 DEF ReleaseOutputs, Flushed
  <2> HIDE DEF lost
  <2> QED
    BY <2>1, <2>2, DroppedKeeps
<1>2. ASSUME Fail \/ FinishUnit
      PROVE  \A b \in Buffers : refCount'[b] > 0 => KeepsFlags(b)
  <2> DEFINE lost == [b \in Buffers |-> IF b = cur THEN 1 ELSE 0]
  <2>1. lost \in [Buffers -> Int]
    OBVIOUS
  <2>2. DropRefs(lost, data, frame)
    BY <1>2 DEF Fail, FinishUnit
  <2> HIDE DEF lost
  <2> QED
    BY <2>1, <2>2, DroppedKeeps
<1>3. ASSUME DecodeTiles
      PROVE  \A b \in Buffers : KeepsFlags(b)
  BY <1>3 DEF DecodeTiles, TypeOK, Frames, KeepsFlags
<1>4. refMap' = refMap
  BY Zenon DEF Decode, Flush, StartUnit, KeyFlushed, Flushed, AssignFails, Fail, CallEnds,
               DecodeTiles, OutputEvicted, OutputCurrent, OutputEnds, FinishUnit
<1>5. \/ UNCHANGED frame \/ ReleaseOutputs \/ Flushed \/ Fail \/ FinishUnit \/ DecodeTiles
  BY Zenon DEF Decode, Flush, StartUnit, KeyFlushed, AssignFails, CallEnds, bufferVars,
               OutputEvicted, OutputCurrent, OutputEnds
<1> QED
  BY <1>1, <1>2, <1>3, <1>4, <1>5 DEF KeepsFlags

LEMMA HeaderStepsEmpty ==
  ASSUME TInv,
         \/ ReadSequence \/ ReadOlk
         \/ \E flags \in SUBSET Slots : ReadRefresh(flags)
         \/ \E slot \in Slots, derive \in BOOLEAN, order \in Orders :
              ReadSEF(slot, derive, order)
         \/ SEFEndsLeading
  PROVE  /\ Empties
         /\ \A b \in Buffers : refCount'[b] > 0 => KeepsFlags(b)
<1> USE DEF TInv
<1>1. CASE ReadSequence
  <2>1. PICK n \in IF unit.kind = "CLK" THEN RefFramesChoices ELSE {refFrames} \ {0} :
          /\ refFrames' = n
          /\ IF unit.kind = "CLK" /\ unit.first
             THEN DropSlots(ActiveSlots(n), data) /\ olkFlags' = {}
             ELSE UNCHANGED <<refMap, bufferVars>>
    BY <1>1 DEF ReadSequence
  <2>2. n \in 0..NumSlots
    BY <2>1, RefFramesAssumption DEF TypeOK
  <2>3. ActiveSlots(n) \in SUBSET Slots
    BY <2>2, ActiveSubset
  <2>4. CASE unit.kind = "CLK" /\ unit.first
    BY <1>1, <2>1, <2>2, <2>3, <2>4, DropSlotsKeeps DEF ReadSequence, Empties
  <2>5. CASE ~(unit.kind = "CLK" /\ unit.first)
    BY <2>1, <2>5 DEF Empties, bufferVars, KeepsFlags
  <2> QED
    BY <2>4, <2>5
<1>2. CASE ReadOlk
  <2>1. CASE EndsLeading
    BY <1>2, <2>1, ResetKeeps DEF ReadOlk, Empties, ResetOtherThanOLK
  <2>2. CASE ~EndsLeading
    BY <1>2, <2>2 DEF ReadOlk, Empties, bufferVars, KeepsFlags
  <2> QED
    BY <2>1, <2>2
<1>3. CASE \E flags \in SUBSET Slots : ReadRefresh(flags)
  <2>1. PICK flags \in SUBSET Slots : ReadRefresh(flags)
    BY <1>3
  <2>2. ActiveSlots(refFrames) \in SUBSET Slots
    BY ActiveSubset DEF TypeOK
  <2>3. PICK d : DropSlots(IF needResync /\ unit.type \in {"KEY", "INTRA_ONLY"}
                           THEN ActiveSlots(refFrames) ELSE {}, d)
    BY <2>1, Zenon DEF ReadRefresh
  <2>4. CASE needResync /\ unit.type \in {"KEY", "INTRA_ONLY"}
    BY <2>1, <2>2, <2>3, <2>4, DropSlotsKeeps DEF ReadRefresh, Empties
  <2>5. CASE ~(needResync /\ unit.type \in {"KEY", "INTRA_ONLY"})
    <3>1. DropSlots({}, d)
      BY <2>3, <2>5
    <3>2. Emptied({}) /\ \A b \in Buffers : refCount'[b] > 0 => KeepsFlags(b)
      BY <3>1, DropSlotsKeeps
    <3>3. refMap' = refMap
      BY <3>2 DEF Emptied, TypeOK
    <3> QED
      BY <3>2, <3>3 DEF Empties
  <2> QED
    BY <2>4, <2>5
<1>4. CASE \E slot \in Slots, derive \in BOOLEAN, order \in Orders :
             ReadSEF(slot, derive, order)
  <2>1. PICK slot \in Slots, derive \in BOOLEAN, order \in Orders :
          ReadSEF(slot, derive, order)
    BY <1>4
  <2>2. refMap' = refMap /\ frame' = [frame EXCEPT ![cur].order = order]
    BY <2>1 DEF ReadSEF
  <2>3. \A b \in Buffers : KeepsFlags(b)
    BY <2>2 DEF KeepsFlags, TypeOK, Frames
  <2> QED
    BY <2>2, <2>3 DEF Empties
<1>5. CASE SEFEndsLeading
  BY <1>5, ResetKeeps DEF SEFEndsLeading, Empties, ResetOtherThanOLK
<1> QED
  BY <1>1, <1>2, <1>3, <1>4, <1>5

LEMMA GivesEmpty ==
  ASSUME TInv, Gives
  PROVE  /\ Empties
         /\ \A b \in Buffers : refCount'[b] > 0 => KeepsFlags(b)
BY CallStepsEmpty, HeaderStepsEmpty, Zenon DEF Gives, Empties

\* A key frame empties the slots only after the frames that wait in them have
\* been flushed.
NothingPending ==
  pc \in {"assign", "sequence"} /\ unit.kind = "CLK" /\ unit.first
    => \A s \in Slots : ~Eligible(refMap[s])

LEMMA NothingPendingNext ==
  ASSUME MInv, RInv', NothingPending, Next
  PROVE  NothingPending'
<1> USE DEF MInv, RInv, TInv
<1>1. CASE pc' \notin {"assign", "sequence"}
  BY <1>1 DEF NothingPending
<1>2. ASSUME NEW kind \in Kinds, NEW first \in BOOLEAN, StartUnit(kind, first)
      PROVE  NothingPending'
  BY <1>2 DEF StartUnit, NothingPending, NoUnit
<1>3. CASE KeyFlushed
  <2>1. \A s \in Slots : ~Eligible(refMap[s])
    BY <1>3 DEF KeyFlushed, Pending
  <2>2. UNCHANGED <<refMap, frame>>
    BY <1>3 DEF KeyFlushed, bufferVars
  <2> QED
    BY <2>1, <2>2 DEF NothingPending, Eligible
<1>4. CASE AssignBuffer
  <2>1. UNCHANGED <<refMap, frame, unit>> /\ pc = "assign"
    BY <1>4 DEF AssignBuffer
  <2> QED
    BY <2>1 DEF NothingPending, Eligible
<1>5. CASE \/ \E n \in 1..MaxUnits : Decode(n)
           \/ Flush \/ Flushed \/ AssignFails \/ Fail \/ CallEnds
           \/ HeaderSteps \/ UpdateSteps \/ FlushOne
  <2>1. CASE \/ \E n \in 1..MaxUnits : Decode(n)
             \/ Flush \/ Flushed \/ AssignFails \/ Fail \/ CallEnds \/ FlushOne
    BY <1>1, <2>1 DEF Decode, Flush, Flushed, AssignFails, Fail, UnitFails, CallEnds, FlushOne
  <2>2. CASE HeaderSteps
    BY <1>1, <2>2, HeaderStepsGo
  <2>3. CASE UpdateSteps
    <3>1. pc' \in {"update", "prev", "next", "final", "idle", "units"}
      BY <2>3 DEF UpdateSteps, DecodeTiles, OutputEvicted, RefreshSlot, OutputCurrent,
                  OutputBefore, OutputTrigger, OutputNext, OutputEnds, FinishUnit, NextUnit,
                  TypeOK
    <3> QED
      BY <1>1, <3>1
  <2> QED
    BY <1>5, <2>1, <2>2, <2>3
<1> QED
  BY <1>2, <1>3, <1>4, <1>5 DEF Next, Decoder, CallSteps

\* A step that keeps the frame of a waiting buffer's slot and its flags ...
LEMMA StillWaits ==
  ASSUME RInv', NEW b \in Buffers, Waits(b),
         \A s \in Slots : refMap[s] = b => refMap'[s] = b,
         refCount'[b] > 0 => KeepsFlags(b)
  PROVE  Waits(b)'
<1>1. PICK s \in Slots : refMap[s] = b
  BY DEF Waits, InMap
<1>2. InMap(b)'
  BY <1>1 DEF InMap
<1>3. refCount'[b] > 0
  BY <1>2, HoldersNext
<1> QED
  BY <1>2, <1>3 DEF Waits, Eligible, KeepsFlags

\* ... and the step that takes one away does it for one of the reasons named.
LEMMA PendingStep ==
  ASSUME MInv, RInv', NothingPending, Next, NEW b \in Buffers, Waits(b), ~Waits(b)'
  PROVE  \/ \E i \in DOMAIN outputs' : outputs'[i] = b
         \/ pc \in {"olk", "sefOlk"}
         \/ pc = "refresh" /\ needResync
         \/ pc = "frame" /\ unit'.type = "S"
<1> USE DEF MInv, RInv, TInv
<1>1. PICK s \in Slots : refMap[s] = b
  BY DEF Waits, InMap
<1>2. CASE Gives
  <2>1. Empties /\ (refCount'[b] > 0 => KeepsFlags(b))
    BY <1>2, GivesEmpty
  <2>2. refMap' # refMap
    BY <2>1, StillWaits
  <2>3. ~(pc = "sequence" /\ unit.kind = "CLK" /\ unit.first)
    BY <1>1 DEF NothingPending, Waits
  <2> QED
    BY <2>1, <2>2, <2>3 DEF Empties
<1>3. CASE ReadsFrame
  <2>1. PICK type \in FrameTypes, restrict \in BOOLEAN, show \in BOOLEAN,
             implicit \in BOOLEAN, lt \in LongTermIds \cup {NoLongTerm},
             order \in 0..MaxOrder : ReadFrame(type, restrict, lt, show, implicit, order)
    BY <1>3 DEF ReadsFrame
  <2>2. pc = "frame" /\ refMap' = refMap /\ unit'.type = type /\ (restrict => type = "S")
    BY <2>1 DEF ReadFrame, TypeOK, Units
  <2>3. b # cur
    BY <2>2 DEF CurrentInv, EmptyPCs, Waits
  <2>4. ASSUME ~restrict PROVE KeepsFlags(b)
    <3>1. frame[b] \in Frames
      BY DEF TypeOK
    <3>2. frame'[b].done = (frame[b].done \/ \E r \in Slots :
                              restrict /\ refMap[r] # NoBuf /\ refMap[r] = b)
      BY <2>1, <2>3, <3>1, Zenon DEF ReadFrame, Frames
    <3>3. /\ frame'[b].implicit = frame[b].implicit
          /\ frame'[b].leading = frame[b].leading
      BY <2>1, <2>3, <3>1, Zenon DEF ReadFrame, Frames
    <3>4. frame'[b].done = frame[b].done
      BY <2>4, <3>1, <3>2 DEF Frames
    <3> QED
      BY <3>3, <3>4 DEF KeepsFlags
  <2> QED
    BY <2>2, <2>4, StillWaits
<1>4. CASE Queues
  <2>1. PICK c : Enqueues(c)
    BY <1>4, QueuesOne
  <2>2. outputs' = Append(outputs, c) /\ refMap' = refMap
        /\ frame' = [frame EXCEPT ![c].done = TRUE]
    BY <2>1 DEF Enqueues, Output
  <2>3. CASE b = c
    <3>1. outputs'[Len(outputs) + 1] = b /\ Len(outputs) + 1 \in DOMAIN outputs'
      BY <2>1, <2>2, <2>3 DEF TypeOK, Enqueues
    <3> QED
      BY <3>1
  <2>4. CASE b # c
    BY <2>2, <2>4, StillWaits DEF KeepsFlags, TypeOK
  <2> QED
    BY <2>3, <2>4
<1>5. CASE AssignBuffer
  BY <1>5, AssignEffect, StillWaits DEF KeepsFlags
<1>6. CASE ShowSEF
  <2>1. b # cur
    BY <1>6 DEF ShowSEF, CurrentInv, TargetPCs, Waits
  <2>2. refMap' = refMap
    BY <1>6 DEF ShowSEF
  <2> QED
    BY <1>6, <2>1, <2>2, ShowEffect, StillWaits DEF KeepsFlags
<1>7. CASE RefreshSlot
  <2>1. PICK t \in First(todo) : /\ ~Eligible(refMap[t])
                                 /\ SetSlot(t, IF t \in InsertedSlots THEN cur ELSE NoBuf)
    BY <1>7 DEF RefreshSlot
  <2>2. \A r \in Slots : r # t => refMap'[r] = refMap[r]
    BY <2>1 DEF SetSlot, TypeOK
  <2>3. refMap[t] # b
    BY <2>1 DEF Waits
  <2>4. refCount'[b] > 0 => KeepsFlags(b)
    BY <1>7, RefreshEffect DEF KeepsFlags
  <2> QED
    BY <2>2, <2>3, <2>4, StillWaits
<1> QED
  BY <1>2, <1>3, <1>4, <1>5, <1>6, <1>7, StepKinds

\* A frame that waits in a slot is never lost silently: it is handed to the
\* application, unless an OLK, a resynchronisation or a restricted switch gives it
\* up.  Evictions, errors, key frames that empty the slots and show_existing_frame
\* lose none (flush_remaining_frames, update_frame_buffers).
THEOREM WaitingFramesReachApplication ==
  ASSUME ~ReuseAfterFlush
  PROVE  Spec => NoPendingLost
<1>1. Init => NothingPending
  BY DEF Init, NothingPending
<1>2. MInv /\ MInv' /\ NothingPending /\ [Next]_vars => NothingPending'
  <2> SUFFICES ASSUME MInv, MInv', NothingPending, [Next]_vars PROVE NothingPending'
    OBVIOUS
  <2>1. CASE Next
    BY <2>1, NothingPendingNext DEF MInv
  <2>2. CASE UNCHANGED vars
    BY <2>2 DEF vars, bufferVars, NothingPending, Eligible
  <2> QED
    BY <2>1, <2>2
<1>3. MInv /\ MInv' /\ NothingPending /\ [Next]_vars
        => [\A b \in Buffers :
              Waits(b) /\ ~Waits(b)'
                => \/ \E i \in DOMAIN outputs' : outputs'[i] = b
                   \/ pc \in {"olk", "sefOlk"}
                   \/ pc = "refresh" /\ needResync
                   \/ pc = "frame" /\ unit'.type = "S"]_vars
  BY PendingStep DEF MInv
<1>4. Spec => []MInv
  BY AlwaysMInv
<1> QED
  BY <1>1, <1>2, <1>3, <1>4, PTL DEF Spec, NoPendingLost

-----------------------------------------------------------------------------
(* Leading pictures.  Between an OLK and the regular frame that ends its    *)
(* leading pictures, the slots of the OLK hold no leading picture, and a    *)
(* slot that holds one has no long-term id.                                 *)

Leading(s) == refMap[s] # NoBuf /\ frame[refMap[s]].leading

\* update_frame_buffers and the output it calls
RefreshPCs == {"update", "prev", "next"}

UnitInv ==
  /\ pc \in TargetPCs => unit.sef # "no"
  /\ pc = "sefOlk" => olk
  /\ unit.sef = "no" /\ pc \in {"olk", "refresh", "tiles"} \cup RefreshPCs
       => /\ frame[cur].leading = IsLeading(unit.kind)
          /\ IsLeading(unit.kind) => unit.lt = NoLongTerm
  /\ pc \in {"tiles"} \cup RefreshPCs /\ IsLeading(unit.kind)
       => unit.flags \cap olkFlags = {}
  /\ pc = "tiles" => unit.flags \subseteq ActiveSlots(refFrames)

TodoInv ==
  /\ todo # {} => /\ pc \in RefreshPCs /\ unit.sef = "no"
                  /\ pc \in {"prev", "next"} => ret = "update"
  /\ todo \subseteq unit.flags
  /\ IsLeading(unit.kind) => \A s \in todo : longTerm[s] = NoLongTerm

LongTermInv == \A s \in Slots \ todo : Leading(s) => longTerm[s] = NoLongTerm

\* The slots of the OLK; a CLK that ends the leading pictures may first change
\* ref_frames, and an OLK stores itself in slots that held anything.
OlkInv ==
  olk /\ ~needResync =>
    \/ pc \in {"frame", "olk"} /\ unit.kind = "CLK"
    \/ pc = "refresh" /\ unit.kind = "OLK"
    \/ \A s \in (olkFlags \cap ActiveSlots(refFrames)) \ todo :
         Leading(s) => pc = "tiles" /\ unit.kind = "OLK" /\ s \in unit.flags

LeadingInv == UnitInv /\ TodoInv /\ LongTermInv /\ OlkInv

\* A leading picture gets into a slot as the frame of a refresh only.
LEMMA LeadingStep ==
  ASSUME MInv, RInv', Next, NEW s \in Slots, Leading(s)'
  PROVE  \/ Leading(s)
         \/ RefreshSlot /\ s \in First(todo) /\ frame[cur].leading
<1> USE DEF MInv, RInv, TInv
<1> DEFINE b == refMap'[s]
<1>1. b \in Buffers /\ frame'[b].leading
  BY DEF Leading, TypeOK
<1>2. refCount'[b] > 0
  BY <1>1, HoldersNext DEF InMap
<1>3. CASE Gives
  <2>1. Empties /\ KeepsFlags(b)
    BY <1>1, <1>2, <1>3, GivesEmpty
  <2>2. refMap[s] = b
    BY <1>1, <2>1, BuffersAssumption DEF Empties, Emptied
  <2> QED
    BY <1>1, <2>1, <2>2, BuffersAssumption DEF Leading, KeepsFlags
<1>4. CASE ReadsFrame
  <2>1. PICK type \in FrameTypes, restrict \in BOOLEAN, show \in BOOLEAN,
             implicit \in BOOLEAN, lt \in LongTermIds \cup {NoLongTerm},
             order \in 0..MaxOrder : ReadFrame(type, restrict, lt, show, implicit, order)
    BY <1>4 DEF ReadsFrame
  <2>2. pc = "frame" /\ refMap' = refMap
    BY <2>1 DEF ReadFrame
  <2>3. b # cur
    BY <2>2 DEF CurrentInv, EmptyPCs, InMap
  <2>4. frame[b] \in Frames
    BY <1>1 DEF TypeOK
  <2>5. frame'[b].leading = frame[b].leading
    BY <1>1, <2>1, <2>3, <2>4, Zenon DEF ReadFrame, Frames
  <2> QED
    BY <1>1, <2>2, <2>5, BuffersAssumption DEF Leading
<1>5. CASE Queues
  <2>1. PICK c : Enqueues(c)
    BY <1>5, QueuesOne
  <2>2. refMap' = refMap /\ frame' = [frame EXCEPT ![c].done = TRUE]
    BY <2>1 DEF Enqueues, Output
  <2>3. frame'[b].leading = frame[b].leading
    BY <1>1, <2>2 DEF TypeOK, Frames
  <2> QED
    BY <1>1, <2>2, <2>3, BuffersAssumption DEF Leading
<1>6. CASE AssignBuffer
  BY <1>1, <1>6, AssignEffect, BuffersAssumption DEF Leading
<1>7. CASE ShowSEF
  <2>1. refMap' = refMap
    BY <1>7 DEF ShowSEF
  <2>2. b # cur
    BY <1>7, <2>1 DEF ShowSEF, CurrentInv, TargetPCs, InMap
  <2> QED
    BY <1>1, <1>7, <2>1, <2>2, ShowEffect, BuffersAssumption DEF Leading
<1>8. CASE RefreshSlot
  <2>1. PICK t \in First(todo) : SetSlot(t, IF t \in InsertedSlots THEN cur ELSE NoBuf)
    BY <1>8 DEF RefreshSlot
  <2>2. \A r \in Slots : refMap'[r] = IF r = t THEN (IF t \in InsertedSlots THEN cur ELSE NoBuf)
                                      ELSE refMap[r]
    BY <2>1 DEF SetSlot, TypeOK
  <2>3. frame'[b] = frame[b]
    BY <1>1, <1>2, <1>8, RefreshEffect
  <2> QED
    BY <1>1, <1>8, <2>1, <2>2, <2>3, BuffersAssumption DEF Leading
<1> QED
  BY <1>3, <1>4, <1>5, <1>6, <1>7, <1>8, StepKinds

\* The steps of the header that come after the frame type, and of the update.
LEMMA TodoNext ==
  ASSUME MInv, UnitInv, TodoInv, Next
  PROVE  TodoInv'
<1> USE DEF MInv, RInv, TInv, RefreshPCs
<1>1. CASE DecodeTiles
  <2>1. /\ pc = "tiles" /\ pc' = "update" /\ unit' = unit /\ todo' = unit.flags
        /\ \A s \in Slots : s \in unit.flags \cap ActiveSlots(refFrames)
                             => longTerm'[s] \in {unit.lt, NoLongTerm}
    BY <1>1 DEF DecodeTiles
  <2>2. unit.flags # {} => unit.sef = "no"
    BY <2>1 DEF OutputInv
  <2>3. unit.flags \subseteq ActiveSlots(refFrames) /\ unit.flags \subseteq Slots
    BY <2>1 DEF UnitInv, TypeOK, Units
  <2>4. ASSUME IsLeading(unit.kind), NEW s \in unit.flags
        PROVE  longTerm'[s] = NoLongTerm
    BY <2>1, <2>2, <2>3, <2>4 DEF UnitInv
  <2> QED
    BY <2>1, <2>2, <2>4 DEF TodoInv
<1>2. CASE todo = {} /\ ~DecodeTiles
  <2>1. todo' \subseteq todo
    BY <1>2, StepParts, CallFlow, HeaderFlow, UpdateFlow
    DEF CallFlowFacts, HeaderFlowFacts, UpdateFlowFacts
  <2>2. todo' = {}
    BY <1>2, <2>1
  <2> QED
    BY <2>2 DEF TodoInv
<1>3. CASE todo # {}
  <2>1. pc \in RefreshPCs /\ unit.sef = "no" /\ (pc \in {"prev", "next"} => ret = "update")
    BY <1>3 DEF TodoInv
  <2>2. OutputEvicted \/ RefreshSlot \/ OutputBefore \/ OutputTrigger \/ OutputNext \/ OutputEnds
    <3>1. pc \in {"update", "prev", "next"}
      BY <2>1 DEF RefreshPCs
    <3>2. ~CallActs /\ ~HeaderSteps
      BY <3>1, CallFlow, HeaderFlow DEF CallFlowFacts, HeaderFlowFacts, HeaderPCs
    <3>3. UpdateFlowFacts
      BY <3>2, StepParts, UpdateFlow
    <3> QED
      BY <1>3, <3>1, <3>3 DEF UpdateFlowFacts
  <2>3. /\ todo' \subseteq todo /\ UNCHANGED <<unit, longTerm>> /\ pc' \in RefreshPCs
        /\ pc' \in {"prev", "next"} => ret' = "update"
    BY <2>1, <2>2 DEF OutputEvicted, RefreshSlot, SetSlot, OutputBefore, OutputTrigger,
                      OutputNext, OutputEnds, loopVars
  <2> QED
    BY <2>1, <2>3 DEF TodoInv
<1> QED
  BY <1>1, <1>2, <1>3

\* A step that keeps the current frame keeps what kind of picture it is.
LEMMA CurKeepsKind ==
  ASSUME MInv, RInv', Gives \/ Queues \/ RefreshSlot, cur' = cur, cur \in Buffers
  PROVE  frame'[cur].leading = frame[cur].leading
<1>1. refCount'[cur] > 0
  BY HoldersNext
<1>2. CASE Gives
  BY <1>1, <1>2, GivesEmpty DEF MInv, RInv, KeepsFlags
<1>3. CASE Queues
  <2>1. PICK c : Enqueues(c)
    BY <1>3, QueuesOne
  <2>2. frame' = [frame EXCEPT ![c].done = TRUE]
    BY <2>1 DEF Enqueues, Output
  <2> QED
    BY <2>2 DEF MInv, RInv, TInv, TypeOK, Frames
<1>4. CASE RefreshSlot
  BY <1>1, <1>4, RefreshEffect
<1> QED
  BY <1>2, <1>3, <1>4

LEMMA UnitNext ==
  ASSUME MInv, RInv', UnitInv, Next
  PROVE  UnitInv'
<1> USE DEF MInv, RInv, TInv, RefreshPCs
<1>1. CASE pc' \notin TargetPCs \cup {"olk", "refresh", "tiles"} \cup RefreshPCs
  BY <1>1 DEF UnitInv, TargetPCs
<1>2. CASE ReadsFrame
  <2>1. PICK type \in FrameTypes, restrict \in BOOLEAN, show \in BOOLEAN,
             implicit \in BOOLEAN, lt \in LongTermIds \cup {NoLongTerm},
             order \in 0..MaxOrder : ReadFrame(type, restrict, lt, show, implicit, order)
    BY <1>2 DEF ReadsFrame
  <2>2. /\ pc = "frame" /\ pc' = "olk" /\ cur' = cur
        /\ unit' = [unit EXCEPT !.type = type, !.lt = lt, !.show = show]
        /\ type \in TypeChoices(unit.kind) /\ (lt = NoLongTerm <=> type # "KEY")
    BY <2>1 DEF ReadFrame
  <2>3. cur \in Buffers
    BY <2>2 DEF TypeOK, Holding, NoFramePCs
  <2>4. frame[cur] \in Frames
    BY <2>3 DEF TypeOK
  <2>5. frame'[cur].leading = IsLeading(unit.kind)
    BY <2>1, <2>3, <2>4, Zenon DEF ReadFrame, Frames
  <2>6. unit'.kind = unit.kind /\ unit'.lt = lt
    BY <2>2 DEF TypeOK, Units
  <2>7. IsLeading(unit.kind) => type # "KEY"
    BY <2>2 DEF IsLeading, IsKey, TypeChoices
  <2> QED
    BY <2>2, <2>5, <2>6, <2>7 DEF UnitInv, TargetPCs
<1>3. CASE ReadOlk
  <2>1. pc = "olk" /\ pc' = "refresh" /\ UNCHANGED <<unit, cur>> /\ Gives
    BY <1>3 DEF ReadOlk, Gives
  <2>2. cur \in Buffers
    BY <2>1 DEF TypeOK, Holding, NoFramePCs
  <2>3. frame'[cur].leading = frame[cur].leading
    BY <2>1, <2>2, CurKeepsKind
  <2> QED
    BY <2>1, <2>3 DEF UnitInv, TargetPCs
<1>4. ASSUME NEW flags \in SUBSET Slots, ReadRefresh(flags)
      PROVE  UnitInv'
  <2>1. /\ pc = "refresh" /\ cur' = cur /\ refFrames' = refFrames
        /\ unit' = [unit EXCEPT !.flags = flags]
        /\ pc' \in {"broken", "tiles"} /\ (pc' = "tiles" => ~OverwritesOLK(flags))
        /\ flags \in FlagChoices(unit.kind, unit.type)
        /\ unit.kind # "OLK" => olkFlags' = olkFlags
    BY <1>4 DEF ReadRefresh
  <2>2. Gives /\ cur \in Buffers
    BY <1>4, <2>1 DEF Gives, TypeOK, Holding, NoFramePCs
  <2>3. frame'[cur].leading = frame[cur].leading
    BY <2>1, <2>2, CurKeepsKind
  <2>4. /\ unit'.kind = unit.kind /\ unit'.lt = unit.lt /\ unit'.sef = unit.sef
        /\ unit'.flags = flags
    BY <2>1 DEF TypeOK, Units
  <2>5. flags \subseteq ActiveSlots(refFrames)
    BY <2>1 DEF FlagChoices
  <2>6. IsLeading(unit.kind) /\ pc' = "tiles" => flags \cap olkFlags' = {}
    BY <2>1 DEF OverwritesOLK, IsLeading
  <2> QED
    BY <2>1, <2>3, <2>4, <2>5, <2>6 DEF UnitInv, TargetPCs
<1>5. ASSUME NEW slot \in Slots, NEW derive \in BOOLEAN, NEW order \in Orders,
             ReadSEF(slot, derive, order)
      PROVE  UnitInv'
  <2>1. /\ pc' \in {"sefOlk", "sefShow"} /\ unit'.sef \in {"copy", "derive"}
        /\ pc' = "sefOlk" => olk'
    BY <1>5 DEF ReadSEF, TypeOK, Units, olkVars
  <2> QED
    BY <2>1 DEF UnitInv
<1>6. CASE SEFEndsLeading
  BY <1>6 DEF SEFEndsLeading, UnitInv, TargetPCs
<1>7. CASE ShowSEF
  <2>1. /\ pc = "sefShow" /\ pc' \in {"tiles", "broken"} /\ unit'.sef = unit.sef
        /\ unit'.flags = {}
    BY <1>7 DEF ShowSEF, TypeOK, Units
  <2> QED
    BY <2>1 DEF UnitInv, TargetPCs
<1>8. CASE \/ DecodeTiles \/ OutputEvicted \/ RefreshSlot \/ OutputCurrent
           \/ OutputBefore \/ OutputTrigger \/ OutputNext \/ OutputEnds
  <2>1. /\ pc \in {"tiles"} \cup RefreshPCs /\ pc' \in RefreshPCs \cup {"final"}
        /\ UNCHANGED <<unit, cur, olkFlags>>
    BY <1>8 DEF DecodeTiles, OutputEvicted, RefreshSlot, OutputCurrent, OutputBefore,
                OutputTrigger, OutputNext, OutputEnds, olkVars, loopVars, TypeOK
  <2>2. (Gives \/ Queues \/ RefreshSlot) /\ cur \in Buffers
    BY <1>8, <2>1 DEF Gives, Queues, TypeOK, Holding, NoFramePCs
  <2>3. frame'[cur].leading = frame[cur].leading
    BY <2>1, <2>2, CurKeepsKind
  <2> QED
    BY <2>1, <2>3 DEF UnitInv, TargetPCs
<1>9. CASE CallSteps \/ (\E n \in 1..MaxUnits : Decode(n)) \/ Flush \/ ReadSequence
           \/ FinishUnit
  <2>1. pc' \in {"units", "flush", "keyflush", "assign", "sequence", "broken", "idle", "eos",
                "sef", "frame"}
    BY <1>9 DEF CallSteps, Decode, Flush, StartUnit, FlushOne, KeyFlushed, Flushed,
                AssignBuffer, AssignFails, Fail, UnitFails, CallEnds, ReadSequence,
                FinishUnit, NextUnit
  <2> QED
    BY <1>1, <2>1 DEF TargetPCs
<1> QED
  BY <1>2, <1>3, <1>4, <1>5, <1>6, <1>7, <1>8, <1>9
     DEF Next, Decoder, HeaderSteps, UpdateSteps, ReadsFrame

\* RefreshSlot is the step that stores a frame; only DecodeTiles changes the ids.
LEMMA RefreshTakes ==
  ASSUME MInv, RefreshSlot
  PROVE  /\ \E t \in todo : todo' = todo \ {t}
         /\ UNCHANGED <<unit, longTerm, olk, olkFlags, refFrames, needResync, pc>>
         /\ pc = "update"
BY DEF RefreshSlot, SetSlot, First, olkVars, stateVars

LEMMA IdsKept ==
  ASSUME Next
  PROVE  DecodeTiles \/ longTerm' = longTerm
BY StepParts, CallFlow, HeaderFlow, UpdateFlow
DEF CallFlowFacts, HeaderFlowFacts, UpdateFlowFacts

LEMMA TodoKept ==
  ASSUME Next
  PROVE  DecodeTiles \/ RefreshSlot \/ todo' = todo
BY StepParts, CallFlow, HeaderFlow, UpdateFlow
DEF CallFlowFacts, HeaderFlowFacts, UpdateFlowFacts

\* A slot with a leading picture after the refresh of a slot: a picture with no
\* long-term id, stored outside of the slots of the OLK.
LEMMA LeadingStored ==
  ASSUME MInv, UnitInv, TodoInv, RefreshSlot, frame[cur].leading, NEW s \in First(todo)
  PROVE  /\ s \in Slots /\ longTerm[s] = NoLongTerm /\ s \notin olkFlags
<1> USE DEF MInv, RInv, TInv, RefreshPCs
<1>1. s \in todo /\ s \in Slots /\ pc = "update" /\ unit.sef = "no"
  BY RefreshTakes DEF First, TypeOK, TodoInv
<1>2. IsLeading(unit.kind)
  BY <1>1 DEF UnitInv
<1> QED
  BY <1>1, <1>2 DEF UnitInv, TodoInv

LEMMA LongTermNext ==
  ASSUME MInv, RInv', UnitInv, TodoInv, LongTermInv, Next
  PROVE  LongTermInv'
<1> USE DEF MInv, RInv, TInv
<1> SUFFICES ASSUME NEW s \in Slots, s \notin todo', Leading(s)'
             PROVE  longTerm'[s] = NoLongTerm
  BY DEF LongTermInv
<1>1. Leading(s) \/ (RefreshSlot /\ s \in First(todo) /\ frame[cur].leading)
  BY LeadingStep
<1>2. CASE DecodeTiles
  <2>1. /\ todo' = unit.flags
        /\ s \notin unit.flags => longTerm'[s] = longTerm[s]
    BY <1>2 DEF DecodeTiles
  <2>2. todo = {} /\ ~RefreshSlot
    BY <1>2 DEF DecodeTiles, RefreshSlot, TodoInv, RefreshPCs
  <2> QED
    BY <1>1, <2>1, <2>2 DEF LongTermInv
<1>3. CASE RefreshSlot
  <2>1. longTerm' = longTerm
    BY <1>3 DEF RefreshSlot
  <2>2. CASE s \notin todo
    <3>1. Leading(s)
      BY <1>1, <2>2 DEF First
    <3> QED
      BY <2>1, <2>2, <3>1 DEF LongTermInv
  <2>3. CASE s \in todo
    <3>1. PICK t \in First(todo) : SetSlot(t, IF t \in InsertedSlots THEN cur ELSE NoBuf)
      BY <1>3 DEF RefreshSlot
    <3>2. s = t
      BY <2>3, <3>1 DEF SetSlot
    <3>3. refMap'[s] \in {cur, NoBuf}
      BY <3>1, <3>2 DEF SetSlot, TypeOK
    <3>4. refMap'[s] = cur /\ cur \in Buffers
      BY <3>3, BuffersAssumption DEF Leading, TypeOK
    <3>5. frame[cur].leading
      BY <1>3, <3>4, CurKeepsKind DEF Leading, RefreshSlot
    <3> QED
      BY <1>3, <2>1, <3>1, <3>2, <3>5, LeadingStored
  <2> QED
    BY <2>2, <2>3
<1>4. CASE ~DecodeTiles /\ ~RefreshSlot
  <2>1. longTerm' = longTerm /\ todo' = todo /\ Leading(s)
    BY <1>1, <1>4, IdsKept, TodoKept
  <2> QED
    BY <2>1 DEF LongTermInv
<1> QED
  BY <1>2, <1>3, <1>4

\* Steps that touch neither the OLK's variables nor need_resync.
OlkQuiet == UNCHANGED <<olk, olkFlags, refFrames, needResync>>

LEMMA OlkSteps ==
  ASSUME Next
  PROVE  \/ OlkQuiet /\ pc \notin {"frame", "olk", "refresh"}
         \/ needResync'
         \/ ReadSequence \/ ReadsFrame \/ ReadOlk \/ SEFEndsLeading
         \/ \E flags \in SUBSET Slots : ReadRefresh(flags)
<1>1. CASE CallActs
  BY <1>1, CallFlow DEF CallFlowFacts, HeaderPCs, OlkQuiet
<1>2. CASE HeaderSteps
  BY <1>2, HeaderFlow DEF HeaderFlowFacts, TouchesOlk, OlkQuiet
<1>3. CASE UpdateSteps
  BY <1>3, UpdateFlow DEF UpdateFlowFacts, OlkQuiet
<1> QED
  BY <1>1, <1>2, <1>3, StepParts

LEMMA OlkNext ==
  ASSUME MInv, RInv', UnitInv, TodoInv, TodoInv', OlkInv, Next
  PROVE  OlkInv'
<1> USE DEF MInv, RInv, TInv
<1> SUFFICES ASSUME olk', ~needResync' PROVE OlkInv'
  BY DEF OlkInv
<1>1. CASE OlkQuiet /\ pc \notin {"frame", "olk", "refresh"}
  <2>1. ASSUME NEW s \in (olkFlags \cap ActiveSlots(refFrames)) \ todo', Leading(s)'
        PROVE  FALSE
    <3>1. s \in Slots
      BY DEF TypeOK
    <3>2. Leading(s) \/ (RefreshSlot /\ s \in First(todo) /\ frame[cur].leading)
      BY <2>1, <3>1, LeadingStep
    <3>3. Leading(s)
      BY <2>1, <3>2, LeadingStored
    <3>4. s \notin todo => pc = "tiles" /\ s \in unit.flags
      BY <1>1, <2>1, <3>3 DEF OlkInv, OlkQuiet
    <3>5. CASE s \in todo
      <4>1. RefreshSlot
        BY <2>1, <3>5, TodoKept DEF DecodeTiles, TodoInv, RefreshPCs
      <4>2. PICK t \in First(todo) : SetSlot(t, IF t \in InsertedSlots THEN cur ELSE NoBuf)
        BY <4>1 DEF RefreshSlot
      <4>3. s = t
        BY <2>1, <3>5, <4>2 DEF SetSlot
      <4>4. refMap'[s] = cur /\ cur \in Buffers
        BY <2>1, <3>1, <4>2, <4>3, BuffersAssumption DEF Leading, SetSlot, TypeOK
      <4>5. frame[cur].leading
        BY <2>1, <4>1, <4>4, CurKeepsKind DEF Leading, RefreshSlot
      <4> QED
        BY <2>1, <4>1, <4>2, <4>3, <4>5, LeadingStored
    <3>6. CASE pc = "tiles" /\ s \in unit.flags
      <4>1. todo' = unit.flags
        <5>1. ~CallActs /\ ~HeaderSteps
          BY <3>6, CallFlow, HeaderFlow DEF CallFlowFacts, HeaderFlowFacts, HeaderPCs
        <5>2. DecodeTiles
          BY <3>6, <5>1, StepParts, UpdateFlow DEF UpdateFlowFacts
        <5> QED
          BY <3>6, <5>2 DEF DecodeTiles
      <4> QED
        BY <2>1, <3>6, <4>1
    <3> QED
      BY <3>4, <3>5, <3>6
  <2> QED
    BY <1>1, <2>1 DEF OlkInv, OlkQuiet
<1>2. CASE ReadSequence
  <2>1. /\ pc = "sequence" /\ UNCHANGED <<olk, needResync, unit, todo>>
        /\ olkFlags' \in {{}, olkFlags}
        /\ unit.kind # "CLK" => refFrames' = refFrames
        /\ pc' = IF IsSEF(unit.kind) THEN "sef" ELSE "frame"
    BY <1>2 DEF ReadSequence, loopVars, stateVars
  <2>2. CASE unit.kind = "CLK"
    BY <2>1, <2>2 DEF OlkInv, IsSEF
  <2>3. CASE unit.kind # "CLK"
    <3>1. \A s \in Slots : Leading(s)' => Leading(s)
      BY <1>2, <2>1, LeadingStep DEF RefreshSlot
    <3>2. olkFlags \subseteq Slots
      BY DEF TypeOK
    <3> QED
      BY <2>1, <2>3, <3>1, <3>2 DEF OlkInv
  <2> QED
    BY <2>2, <2>3
<1>3. CASE ReadsFrame
  <2>1. PICK type \in FrameTypes, restrict \in BOOLEAN, show \in BOOLEAN,
             implicit \in BOOLEAN, lt \in LongTermIds \cup {NoLongTerm},
             order \in 0..MaxOrder : ReadFrame(type, restrict, lt, show, implicit, order)
    BY <1>3 DEF ReadsFrame
  <2>2. /\ pc = "frame" /\ pc' = "olk"
        /\ UNCHANGED <<olk, olkFlags, needResync, refFrames, todo>>
        /\ unit' = [unit EXCEPT !.type = type, !.lt = lt, !.show = show]
    BY <2>1 DEF ReadFrame, loopVars, stateVars, olkVars
  <2>3. \A s \in Slots : Leading(s)' => Leading(s)
    BY <2>2, LeadingStep DEF RefreshSlot
  <2>4. olkFlags \subseteq Slots /\ unit'.kind = unit.kind
    BY <2>2 DEF TypeOK, Units
  <2> QED
    BY <2>2, <2>3, <2>4 DEF OlkInv
<1>4. CASE SEFEndsLeading
  <2>1. /\ pc = "sefOlk" /\ UNCHANGED <<needResync, refFrames, todo, unit>>
        /\ ~unit.first /\ olkFlags' = olkFlags
    BY <1>4 DEF SEFEndsLeading, ResetOtherThanOLK, loopVars, stateVars
  <2>2. \A s \in Slots : Leading(s)' => Leading(s)
    BY <2>1, LeadingStep DEF RefreshSlot
  <2>3. olkFlags \subseteq Slots
    BY DEF TypeOK
  <2> QED
    BY <2>1, <2>2, <2>3 DEF OlkInv, UnitInv
<1>5. CASE ReadOlk
  <2>1. /\ pc = "olk" /\ pc' = "refresh" /\ UNCHANGED <<needResync, refFrames, todo, unit>>
        /\ olkFlags' \in {{}, olkFlags} /\ unit.kind # "CLK"
        /\ unit.kind # "OLK" => olk
    BY <1>5 DEF ReadOlk, ResetOtherThanOLK, loopVars, stateVars
  <2>2. \A s \in Slots : Leading(s)' => Leading(s)
    BY <2>1, LeadingStep DEF RefreshSlot
  <2>3. olkFlags \subseteq Slots
    BY DEF TypeOK
  <2> QED
    BY <2>1, <2>2, <2>3 DEF OlkInv
<1>6. ASSUME NEW flags \in SUBSET Slots, ReadRefresh(flags)
      PROVE  OlkInv'
  <2> DEFINE resync == needResync /\ unit.type \in {"KEY", "INTRA_ONLY"}
  <2>1. /\ pc = "refresh" /\ UNCHANGED <<olk, refFrames, todo>>
        /\ unit' = [unit EXCEPT !.flags = flags]
        /\ needResync' = (needResync /\ ~resync)
        /\ pc' = IF OverwritesOLK(flags) \/ (needResync /\ ~resync) THEN "broken" ELSE "tiles"
        /\ olkFlags' = IF unit.kind = "OLK" THEN flags ELSE olkFlags
    BY <1>6 DEF ReadRefresh, loopVars
  <2>2. unit'.kind = unit.kind /\ unit'.flags = flags
    BY <2>1 DEF TypeOK, Units
  <2>3. CASE needResync
    <3>1. PICK d : DropSlots(ActiveSlots(refFrames), d)
      BY <1>6, <2>1, <2>3 DEF ReadRefresh
    <3>2. ActiveSlots(refFrames) \in SUBSET Slots
      BY ActiveSubset DEF TypeOK
    <3>3. \A s \in ActiveSlots(refFrames) : refMap'[s] = NoBuf
      BY <3>1, <3>2 DEF DropSlots
    <3> QED
      BY <2>1, <3>3 DEF OlkInv, Leading
  <2>4. CASE ~needResync /\ unit.kind = "OLK"
    <3>1. pc' = "tiles"
      BY <2>1, <2>4 DEF OverwritesOLK, IsLeading
    <3> QED
      BY <2>1, <2>2, <2>4, <3>1 DEF OlkInv
  <2>5. CASE ~needResync /\ unit.kind # "OLK"
    <3>1. \A s \in Slots : Leading(s)' => Leading(s)
      BY <2>1, LeadingStep DEF RefreshSlot
    <3>2. olkFlags \subseteq Slots
      BY DEF TypeOK
    <3> QED
      BY <2>1, <2>5, <3>1, <3>2 DEF OlkInv
  <2> QED
    BY <2>3, <2>4, <2>5
<1> QED
  BY <1>1, <1>2, <1>3, <1>4, <1>5, <1>6, OlkSteps

\* The reset that the first regular frame brings keeps the slots of the OLK, of the
\* frames in its temporal unit and of the frames with a long-term id.
LEMMA RegularStep ==
  ASSUME MInv, LeadingInv, Next, EndsLeading, unit.first, ~needResync,
         pc \in {"olk", "sefOlk"}, pc' \in {"refresh", "sefShow"},
         NEW s \in ActiveSlots(refFrames) \ olkCoFlags, refMap'[s] # NoBuf
  PROVE  ~frame[refMap'[s]].leading
<1> USE DEF MInv, RInv, TInv
<1>1. ReadOlk \/ SEFEndsLeading
  <2>1. ~CallActs
    BY CallFlow DEF CallFlowFacts, HeaderPCs
  <2>2. ~UpdateSteps
    BY UpdateFlow DEF UpdateFlowFacts
  <2>3. HeaderFlowFacts
    BY <2>1, <2>2, StepParts, HeaderFlow
  <2> QED
    BY <2>3 DEF HeaderFlowFacts
<1>2. DropSlots(OtherThanOLK, data)
  BY <1>1 DEF ReadOlk, SEFEndsLeading, ResetOtherThanOLK, OtherThanOLK
<1>3. s \in Slots /\ s \notin OtherThanOLK /\ refMap'[s] = refMap[s]
  BY <1>2, ActiveSubset DEF TypeOK, DropSlots
<1>4. todo = {}
  BY DEF LeadingInv, TodoInv, RefreshPCs
<1>5. s \in olkFlags \/ longTerm[s] # NoLongTerm
  BY <1>3 DEF OtherThanOLK
<1>6. longTerm[s] # NoLongTerm => ~Leading(s)
  BY <1>3, <1>4 DEF LeadingInv, LongTermInv
<1>7. olk /\ unit.kind # "CLK"
  BY DEF EndsLeading, IsRegularNonOLK
<1>8. s \in olkFlags => ~Leading(s)
  BY <1>4, <1>7 DEF LeadingInv, OlkInv
<1> QED
  BY <1>3, <1>5, <1>6, <1>8 DEF Leading

\* Once the leading pictures of an OLK end, the frames that follow find none of
\* them in the slots: dropped or decoded, they leave the same references
\* (reset_buffer_other_than_OLK, update_long_term_frame_id, the refusal of leading
\* pictures that would overwrite an OLK).  Errors and resynchronisations included.
THEOREM LeadingPicturesGone ==
  ASSUME ~ReuseAfterFlush
  PROVE  Spec => RegularSeesNoLeading
<1>1. Init => LeadingInv
  BY DEF Init, LeadingInv, UnitInv, TodoInv, LongTermInv, OlkInv, Leading, NoUnit, TargetPCs,
         RefreshPCs, IsLeading
<1>2. MInv /\ MInv' /\ LeadingInv /\ [Next]_vars => LeadingInv'
  <2> SUFFICES ASSUME MInv, MInv', LeadingInv, [Next]_vars PROVE LeadingInv'
    OBVIOUS
  <2>1. CASE Next
    <3>1. RInv' /\ UnitInv /\ TodoInv /\ LongTermInv /\ OlkInv
      BY DEF MInv, LeadingInv
    <3>2. UnitInv' /\ TodoInv' /\ LongTermInv'
      BY <2>1, <3>1, UnitNext, TodoNext, LongTermNext
    <3>3. OlkInv'
      BY <2>1, <3>1, <3>2, OlkNext
    <3> QED
      BY <3>2, <3>3 DEF LeadingInv
  <2>2. CASE UNCHANGED vars
    BY <2>2 DEF vars, bufferVars, loopVars, olkVars, stateVars, LeadingInv, UnitInv, TodoInv,
                LongTermInv, OlkInv, Leading
  <2> QED
    BY <2>1, <2>2
<1>3. MInv /\ LeadingInv /\ [Next]_vars
        => [EndsLeading /\ unit.first /\ ~needResync /\ pc \in {"olk", "sefOlk"}
              /\ pc' \in {"refresh", "sefShow"}
            => \A s \in ActiveSlots(refFrames) \ olkCoFlags :
                 refMap'[s] # NoBuf => ~frame[refMap'[s]].leading]_vars
  BY RegularStep
<1>4. Spec => []MInv
  BY AlwaysMInv
<1> QED
  BY <1>1, <1>2, <1>3, <1>4, PTL DEF Spec, RegularSeesNoLeading

-----------------------------------------------------------------------------
(* show_existing_frame.  A frame to show sits in a slot until the leading   *)
(* pictures of an OLK end with the very unit that shows it.                 *)

\* The unit may empty the slot of the frame it is about to show.
EndsWithShownFrame ==
  unit.kind = "REGULAR_SEF" /\ unit.first /\ "OLK" \in Kinds

ShownInv ==
  /\ unit.kind \in Kinds \cup {"NONE"}
  /\ olk => "OLK" \in Kinds
  /\ pc = "sefOlk" => InMap(unit.target) /\ olk /\ unit.kind = "REGULAR_SEF"
  /\ pc = "sefShow" => InMap(unit.target) \/ EndsWithShownFrame

\* where the unit and olk_encountered change
LEMMA UnitSteps ==
  ASSUME TypeOK, Next
  PROVE  \/ /\ pc' \notin TargetPCs
            /\ unit'.kind \in {unit.kind, "NONE"}
            /\ olk' => olk \/ unit.kind = "OLK"
         \/ \E kind \in Kinds, first \in BOOLEAN : StartUnit(kind, first)
         \/ \E slot \in Slots, derive \in BOOLEAN, order \in Orders :
              ReadSEF(slot, derive, order)
         \/ SEFEndsLeading
<1>1. CASE \E n \in 1..MaxUnits : Decode(n)
  BY <1>1 DEF Decode, TargetPCs, olkVars
<1>2. CASE Flush
  BY <1>2 DEF Flush, TargetPCs, olkVars
<1>3. CASE FlushOne \/ KeyFlushed \/ Flushed \/ AssignBuffer \/ CallEnds
  BY <1>3 DEF FlushOne, KeyFlushed, Flushed, AssignBuffer, CallEnds, TargetPCs, olkVars
<1>4. CASE AssignFails \/ Fail \/ FinishUnit
  BY <1>4 DEF AssignFails, Fail, UnitFails, FinishUnit, TargetPCs, olkVars, NoUnit, NextUnit
<1>5. CASE ReadSequence
  BY <1>5 DEF ReadSequence, TargetPCs
<1>6. CASE ReadsFrame
  <2>1. PICK type \in FrameTypes, restrict \in BOOLEAN, show \in BOOLEAN,
             implicit \in BOOLEAN, lt \in LongTermIds \cup {NoLongTerm},
             order \in 0..MaxOrder : ReadFrame(type, restrict, lt, show, implicit, order)
    BY <1>6 DEF ReadsFrame
  <2>2. /\ pc' = "olk" /\ olk' = olk
        /\ unit' = [unit EXCEPT !.type = type, !.lt = lt, !.show = show]
    BY <2>1 DEF ReadFrame, olkVars
  <2> QED
    BY <2>2 DEF TargetPCs, TypeOK, Units
<1>7. CASE ReadOlk
  BY <1>7 DEF ReadOlk, TargetPCs
<1>8. CASE \E flags \in SUBSET Slots : ReadRefresh(flags)
  BY <1>8 DEF ReadRefresh, TargetPCs, TypeOK, Units
<1>9. CASE ShowSEF
  BY <1>9 DEF ShowSEF, TargetPCs, TypeOK, Units, olkVars
<1>10. CASE DecodeTiles \/ OutputEvicted \/ RefreshSlot \/ OutputCurrent
  BY <1>10 DEF DecodeTiles, OutputEvicted, RefreshSlot, OutputCurrent, TargetPCs, olkVars
<1>11. CASE OutputBefore \/ OutputTrigger \/ OutputNext \/ OutputEnds
  BY <1>11 DEF OutputBefore, OutputTrigger, OutputNext, OutputEnds, TargetPCs, olkVars, TypeOK
<1> QED
  BY <1>1, <1>2, <1>3, <1>4, <1>5, <1>6, <1>7, <1>8, <1>9, <1>10, <1>11
     DEF Next, Decoder, CallSteps, HeaderSteps, UpdateSteps, ReadsFrame

LEMMA ShownNext ==
  ASSUME TInv, ShownInv, [Next]_vars
  PROVE  ShownInv'
<1> USE DEF TInv
<1>1. CASE UNCHANGED vars
  BY <1>1 DEF vars, olkVars, ShownInv, InMap, EndsWithShownFrame
<1>2. CASE /\ pc' \notin TargetPCs
           /\ unit'.kind \in {unit.kind, "NONE"}
           /\ olk' => olk \/ unit.kind = "OLK"
  BY <1>2 DEF ShownInv, TargetPCs
<1>3. CASE \E kind \in Kinds, first \in BOOLEAN : StartUnit(kind, first)
  BY <1>3 DEF StartUnit, ShownInv, NoUnit, olkVars
<1>4. CASE \E slot \in Slots, derive \in BOOLEAN, order \in Orders :
             ReadSEF(slot, derive, order)
  <2>1. PICK slot \in Slots, derive \in BOOLEAN, order \in Orders :
          ReadSEF(slot, derive, order)
    BY <1>4
  <2>2. /\ refMap' = refMap /\ olk' = olk
        /\ unit' = [unit EXCEPT !.sef = IF derive THEN "derive" ELSE "copy",
                                !.target = refMap[slot]]
        /\ pc' = IF unit.kind = "REGULAR_SEF" /\ olk THEN "sefOlk" ELSE "sefShow"
    BY <2>1 DEF ReadSEF, olkVars
  <2>3. unit'.kind = unit.kind /\ unit'.target = refMap[slot]
    BY <2>2 DEF TypeOK, Units
  <2>4. InMap(unit.target)'
    BY <2>2, <2>3 DEF InMap
  <2> QED
    BY <2>2, <2>3, <2>4 DEF ShownInv
<1>5. CASE SEFEndsLeading
  <2>1. /\ pc = "sefOlk" /\ pc' = "sefShow" /\ unit' = unit /\ (olk' <=> ~unit.first)
        /\ ~unit.first => refMap' = refMap
    BY <1>5 DEF SEFEndsLeading, ResetOtherThanOLK
  <2> QED
    BY <2>1 DEF ShownInv, InMap, EndsWithShownFrame
<1> QED
  BY <1>1, <1>2, <1>3, <1>4, <1>5, UnitSteps

\* assert(frame_to_show->ref_count > 0) in read_show_existing_frame holds in every
\* stream but one: a regular show_existing_frame that comes first in its temporal
\* unit after an OLK, and empties the slot of the frame it shows.
THEOREM ShownFrameHeld ==
  ASSUME ~ReuseAfterFlush
  PROVE  Spec => [](EndsWithShownFrame \/ ShownFrameIsHeld)
<1>1. Init => ShownInv
  BY DEF Init, ShownInv, NoUnit
<1>2. MInv /\ ShownInv /\ [Next]_vars => ShownInv'
  BY ShownNext DEF MInv, RInv
<1>3. MInv /\ ShownInv => EndsWithShownFrame \/ ShownFrameIsHeld
  <2> SUFFICES ASSUME MInv, ShownInv, pc = "sefShow", ~EndsWithShownFrame
               PROVE  refCount[unit.target] > 0
    BY DEF ShownFrameIsHeld
  <2>1. InMap(unit.target) /\ unit.target \in Buffers
    BY DEF ShownInv, MInv, RInv, TInv, TargetExists
  <2> QED
    BY <2>1, HoldersOf DEF MInv
<1> QED
  BY <1>1, <1>2, <1>3, AlwaysMInv, PTL DEF Spec

-----------------------------------------------------------------------------
(* A call comes to its end: every step of the decoder brings it nearer, and *)
(* there is always a next step.                                             *)

\* where the unit is between its first step and its last
Stage ==
  CASE pc = "keyflush" -> 13
    [] pc = "assign" -> 12
    [] pc = "sequence" -> 11
    [] pc \in {"frame", "sef"} -> 10
    [] pc \in {"olk", "sefOlk"} -> 9
    [] pc \in {"refresh", "sefShow"} -> 8
    [] pc = "tiles" -> 7
    [] pc = "broken" -> 6
    [] pc = "update" \/ (pc \in {"prev", "next"} /\ ret # "final") -> 5
    [] pc = "prev" /\ ret = "final" -> 4
    [] pc = "next" /\ ret = "final" -> 3
    [] pc = "final" -> 2
    [] pc \in {"units", "flush"} -> 1
    [] OTHER -> 0

\* Within update_frame_buffers: the slots left, the frames that can still be
\* output, and the way from one output back to the loop over the slots.
NotDone == {b \in Buffers : ~frame[b].done}
Turn == CASE pc = "next" -> 2 [] pc = "update" -> 1 [] OTHER -> 0

\* the lexicographic order of the five measures
Closer ==
  \/ units' < units
  \/ units' = units /\ Stage' < Stage
  \/ units' = units /\ Stage' = Stage /\ Cardinality(todo') < Cardinality(todo)
  \/ /\ units' = units /\ Stage' = Stage /\ todo' = todo
     /\ \/ Cardinality(NotDone') < Cardinality(NotDone)
        \/ NotDone' = NotDone /\ Turn' < Turn

LEMMA CallStepsCloser ==
  ASSUME TypeOK, ~ReuseAfterFlush, CallSteps, ~FlushOne
  PROVE  units' < units \/ (units' = units /\ Stage' < Stage)
<1>1. units \in Nat
  BY MaxUnitsAssumption DEF TypeOK
<1>2. CASE \E kind \in Kinds, first \in BOOLEAN : StartUnit(kind, first)
  BY <1>1, <1>2 DEF StartUnit
<1>3. CASE KeyFlushed \/ AssignBuffer
  BY <1>3 DEF KeyFlushed, AssignBuffer, Stage
<1>4. CASE Flushed
  BY <1>4 DEF Flushed, Stage
<1>5. CASE AssignFails \/ Fail \/ CallEnds
  <2>1. pc \in HeaderPCs \cup {"assign", "units"} /\ pc' = "idle" /\ units' = 0
    BY <1>5 DEF AssignFails, Fail, UnitFails, CallEnds
  <2>2. Stage' = 0 /\ Stage \in 1..13
    BY <2>1 DEF Stage, HeaderPCs
  <2> QED
    BY <1>1, <2>1, <2>2
<1> QED
  BY <1>2, <1>3, <1>4, <1>5 DEF CallSteps

LEMMA HeaderStepsCloser ==
  ASSUME HeaderSteps
  PROVE  units' = units /\ Stage' < Stage
<1>1. CASE ReadSequence
  BY <1>1 DEF ReadSequence, Stage
<1>2. CASE ReadsFrame
  <2>1. PICK type \in FrameTypes, restrict \in BOOLEAN, show \in BOOLEAN,
             implicit \in BOOLEAN, lt \in LongTermIds \cup {NoLongTerm},
             order \in 0..MaxOrder :
          ReadFrame(type, restrict, lt, show, implicit, order)
    BY <1>2 DEF ReadsFrame
  <2>2. pc = "frame" /\ pc' = "olk" /\ units' = units
    BY <2>1 DEF ReadFrame
  <2> QED
    BY <2>2 DEF Stage
<1>3. CASE ReadOlk \/ SEFEndsLeading \/ ShowSEF
  <2>1. /\ units' = units
        /\ \/ pc = "olk" /\ pc' = "refresh"
           \/ pc = "sefOlk" /\ pc' = "sefShow"
           \/ pc = "sefShow" /\ pc' \in {"broken", "tiles"}
    BY <1>3, Zenon DEF ReadOlk, SEFEndsLeading, ShowSEF
  <2> QED
    BY <2>1 DEF Stage
<1>4. CASE \E flags \in SUBSET Slots : ReadRefresh(flags)
  BY <1>4 DEF ReadRefresh, Stage
<1>5. CASE \E slot \in Slots, derive \in BOOLEAN, order \in Orders :
             ReadSEF(slot, derive, order)
  BY <1>5 DEF ReadSEF, Stage
<1> QED
  BY <1>1, <1>2, <1>3, <1>4, <1>5 DEF HeaderSteps, ReadsFrame

\* queueing a frame leaves one frame fewer to be output
LEMMA QueueCloser ==
  ASSUME MInv, MInv', Queues
  PROVE  Closer
<1> USE DEF MInv, RInv, TInv
<1>1. PICK c : Enqueues(c)
  BY QueuesOne
<1>2. /\ c \in Buffers /\ ~frame[c].done /\ Output(c)
      /\ UNCHANGED <<units, unit, todo, ret>>
      /\ pc' = pc \/ (pc = "prev" /\ pc' = "next")
  BY <1>1 DEF Enqueues
<1>3. frame' = [frame EXCEPT ![c].done = TRUE]
  BY <1>2 DEF Output
<1>4. NotDone' = NotDone \ {c} /\ c \in NotDone
  BY <1>2, <1>3 DEF NotDone, TypeOK, Frames
<1>5. IsFiniteSet(NotDone)
  BY BuffersAssumption, FS_Subset DEF NotDone
<1>6. Cardinality(NotDone') = Cardinality(NotDone) - 1 /\ Cardinality(NotDone) \in Nat
  BY <1>4, <1>5, FS_RemoveElement, FS_CardinalityType
<1>7. Cardinality(NotDone') < Cardinality(NotDone)
  BY <1>6
<1>8. Stage' < Stage \/ Stage' = Stage
  BY <1>2 DEF Stage
<1> QED
  BY <1>2, <1>7, <1>8, Zenon DEF Closer

LEMMA UpdateStepsCloser ==
  ASSUME TypeOK, UpdateSteps, ~Queues
  PROVE  Closer
<1>1. CASE DecodeTiles
  BY <1>1 DEF DecodeTiles, Stage, Closer
<1>2. CASE OutputEvicted
  <2>1. /\ pc = "update" /\ pc' = "prev" /\ ret' = "update"
        /\ UNCHANGED <<units, todo, frame>>
    BY <1>2 DEF OutputEvicted, bufferVars
  <2>2. NotDone' = NotDone
    BY <2>1 DEF NotDone
  <2>3. Stage' = Stage /\ Turn' < Turn
    BY <2>1 DEF Stage, Turn
  <2> QED
    BY <2>1, <2>2, <2>3 DEF Closer
<1>3. CASE RefreshSlot
  <2>1. PICK s \in First(todo) : todo' = todo \ {s}
    BY <1>3 DEF RefreshSlot, SetSlot
  <2>2. UNCHANGED <<units, pc, ret>>
    BY <1>3 DEF RefreshSlot
  <2>3. IsFiniteSet(todo) /\ s \in todo
    BY <2>1, SlotsFinite, FS_Subset DEF TypeOK, First
  <2>4. Cardinality(todo') = Cardinality(todo) - 1 /\ Cardinality(todo) \in Nat
    BY <2>1, <2>3, FS_RemoveElement, FS_CardinalityType
  <2>5. Cardinality(todo') < Cardinality(todo)
    BY <2>4
  <2>6. Stage' = Stage
    BY <2>2 DEF Stage
  <2> QED
    BY <2>2, <2>5, <2>6 DEF Closer
<1>4. CASE OutputCurrent
  <2>1. /\ pc = "update" /\ units' = units
        /\ pc' = "final" \/ (pc' = "prev" /\ ret' = "final")
    BY <1>4 DEF OutputCurrent
  <2>2. Stage' < Stage
    BY <2>1 DEF Stage
  <2> QED
    BY <2>1, <2>2 DEF Closer
<1>5. CASE OutputEnds
  <2>1. /\ pc = "next" /\ pc' = ret /\ ret \in {"update", "final"} /\ ret' = ret
        /\ UNCHANGED <<units, todo, frame>>
    BY <1>5 DEF OutputEnds, bufferVars, TypeOK
  <2>2. NotDone' = NotDone
    BY <2>1 DEF NotDone
  <2>3. CASE ret = "final"
    BY <2>1, <2>3 DEF Stage, Closer
  <2>4. CASE ret = "update"
    <3>1. Stage' = Stage /\ Turn' < Turn
      BY <2>1, <2>4 DEF Stage, Turn
    <3> QED
      BY <2>1, <2>2, <3>1 DEF Closer
  <2> QED
    BY <2>1, <2>3, <2>4
<1>6. CASE FinishUnit
  BY <1>6 DEF FinishUnit, NextUnit, Stage, Closer
<1> QED
  BY <1>1, <1>2, <1>3, <1>4, <1>5, <1>6 DEF UpdateSteps, Queues

\* Every step inside avm_codec_decode() uses up a unit, a stage of its unit, a slot
\* to refresh, or a frame that has not been output: the loops over the units of the
\* call, of update_frame_buffers and of output_frame_buffers cannot go round for
\* ever, whatever the headers say and wherever an error strikes.
THEOREM CallsTerminate ==
  ASSUME ~ReuseAfterFlush
  PROVE  Spec => [][Decoder => Closer]_vars
<1>1. MInv /\ MInv' /\ [Next]_vars => [Decoder => Closer]_vars
  <2> SUFFICES ASSUME MInv, MInv', Decoder PROVE Closer
    OBVIOUS
  <2>1. TypeOK
    BY DEF MInv, RInv, TInv
  <2>2. CASE Queues
    BY <2>2, QueueCloser
  <2>3. CASE ~Queues
    <3>1. ASSUME CallSteps PROVE Closer
      BY <2>1, <2>3, <3>1, CallStepsCloser DEF Queues, Closer
    <3>2. ASSUME HeaderSteps PROVE Closer
      BY <3>2, HeaderStepsCloser DEF Closer
    <3>3. ASSUME UpdateSteps PROVE Closer
      BY <2>1, <2>3, <3>3, UpdateStepsCloser
    <3> QED
      BY <3>1, <3>2, <3>3 DEF Decoder
  <2> QED
    BY <2>2, <2>3
<1> QED
  BY <1>1, AlwaysMInv, PTL DEF Spec

\* The slot flush_remaining_frames and output_frame_buffers look for: among
\* several with the smallest order hint the last one, or the first one.
EarliestLast(S, s) ==
  \A t \in S : OrderOf(s) < OrderOf(t) \/ (OrderOf(s) = OrderOf(t) /\ s >= t)
EarliestFirst(S, s) ==
  \A t \in S : OrderOf(s) < OrderOf(t) \/ (OrderOf(s) = OrderOf(t) /\ s <= t)

\* the guards of the decoder's steps
CanStep ==
  \/ pc \in HeaderPCs \cup {"units", "assign", "final"}
  \/ /\ pc \in {"keyflush", "flush"}
     /\ Pending(Slots) # {} => \E s \in Pending(Slots) : EarliestLast(Pending(Slots), s)
  \/ pc = "sefShow" /\ refCount[unit.target] > 0
  \/ pc = "update" /\ (todo # {} => First(todo) # {})
  \/ pc = "prev" /\ (Before # {} => \E s \in Before : EarliestFirst(Before, s))
  \/ pc = "next" /\ (Successors # {} => First(Successors) # {})

\* A call has returned, can go on, or has stopped at the assertion of
\* read_show_existing_frame.
NeverStuck ==
  \/ pc \in {"idle", "eos"}
  \/ CanStep
  \/ pc = "sefShow" /\ EndsWithShownFrame

\* the least number principle (induction, without an operator parameter)
LEMMA NatMin ==
  ASSUME NEW S \in SUBSET Nat, S # {}
  PROVE  \E m \in S : \A n \in S : m <= n
<1> DEFINE R == OpToRel(<, Nat)
<1>1. IsWellFoundedOn(R, Nat)
  BY NatLessThanWellFounded, Zenon
<1>2. \A x, y \in Nat : x < y => <<x, y>> \in R
  BY Zenon DEF OpToRel
<1> HIDE DEF R
<1>3. \E x \in S : \A y \in S : ~(<<y, x>> \in R)
  BY <1>1, WFMin, Zenon
<1>4. PICK x \in S : \A y \in S : ~(<<y, x>> \in R)
  BY <1>3, Zenon
<1>5. ASSUME NEW y \in S PROVE x <= y
  <2>1. ~(y < x)
    BY <1>2, <1>4, Zenon
  <2>2. x \in Nat /\ y \in Nat
    OBVIOUS
  <2> HIDE DEF R
  <2> QED
    BY <2>1, <2>2, SMT
<1> QED
  BY <1>5, Zenon

LEMMA FirstExists ==
  ASSUME NEW S \in SUBSET Slots, S # {}
  PROVE  First(S) # {}
<1>1. S \subseteq Nat
  BY NumSlotsAssumption DEF Slots
<1>2. PICK s \in S : \A t \in S : s <= t
  BY <1>1, NatMin
<1> QED
  BY <1>2 DEF First

LEMMA LastExists ==
  ASSUME NEW S \in SUBSET Slots, S # {}
  PROVE  \E s \in S : \A t \in S : s >= t
<1> DEFINE D == {NumSlots - s : s \in S}
<1>1. \A s \in S : s \in Nat /\ NumSlots - s \in Nat
  BY NumSlotsAssumption DEF Slots
<1>2. D \in SUBSET Nat /\ D # {}
  BY <1>1
<1>3. PICK d \in D : \A e \in D : d <= e
  BY <1>2, NatMin
<1>4. PICK s \in S : d = NumSlots - s
  BY <1>3
<1>5. \A t \in S : NumSlots - s <= NumSlots - t
  BY <1>3, <1>4
<1> QED
  BY <1>1, <1>5, NumSlotsAssumption

LEMMA EarliestExists ==
  ASSUME NEW S \in SUBSET Slots, S # {}, \A s \in S : OrderOf(s) \in Nat
  PROVE  /\ \E s \in S : EarliestFirst(S, s)
         /\ \E s \in S : EarliestLast(S, s)
<1> DEFINE Hints == {OrderOf(s) : s \in S}
<1>1. Hints \in SUBSET Nat /\ Hints # {}
  OBVIOUS
<1>2. PICK h \in Hints : \A i \in Hints : h <= i
  BY <1>1, NatMin
<1> DEFINE E == {s \in S : OrderOf(s) = h}
<1>3. E \in SUBSET Slots /\ E # {} /\ E \subseteq S
  BY <1>2
<1>4. \A t \in S : h \in Nat /\ OrderOf(t) \in Nat /\ h <= OrderOf(t)
  BY <1>1, <1>2
<1>5. \A t \in S : h < OrderOf(t) \/ t \in E
  BY <1>4
<1>6. PICK s \in E : \A t \in E : s <= t
  BY <1>3, FirstExists DEF First
<1>7. PICK r \in E : \A t \in E : r >= t
  BY <1>3, LastExists
<1>8. \A t \in E : OrderOf(t) = h
  OBVIOUS
<1> HIDE DEF E, Hints
<1>9. EarliestFirst(S, s)
  BY <1>5, <1>6, <1>8, <1>3 DEF EarliestFirst
<1>10. EarliestLast(S, r)
  BY <1>5, <1>7, <1>8, <1>3 DEF EarliestLast
<1> QED
  BY <1>3, <1>9, <1>10

\* avm_codec_decode() is never stuck between two of its steps: the searches of
\* flush_remaining_frames, update_frame_buffers and output_frame_buffers find what
\* they look for whenever a frame or a slot is left.  The one place where a call
\* stops is the assertion on the frame a show_existing_frame names.
THEOREM CallsGoOn ==
  ASSUME ~ReuseAfterFlush
  PROVE  Spec => []NeverStuck
<1>1. Init => ShownInv
  BY DEF Init, ShownInv, NoUnit
<1>2. MInv /\ ShownInv /\ [Next]_vars => ShownInv'
  BY ShownNext DEF MInv, RInv
<1>3. MInv /\ ShownInv => NeverStuck
  <2> SUFFICES ASSUME MInv, ShownInv PROVE NeverStuck
    OBVIOUS
  <2> USE DEF MInv, RInv, TInv
  <2>1. \A s \in Pending(Slots) : s \in Slots /\ OrderOf(s) \in Nat
    <3> SUFFICES ASSUME NEW s \in Pending(Slots) PROVE s \in Slots /\ OrderOf(s) \in Nat
      OBVIOUS
    <3>1. s \in Slots /\ refMap[s] \in Buffers
      BY DEF Pending, Eligible, TypeOK
    <3>2. frame[refMap[s]] \in Frames
      BY <3>1 DEF TypeOK
    <3> QED
      BY <3>1, <3>2, OrdersNat DEF Frames, OrderOf
  <2>2. /\ Pending(ActiveSlots(refFrames)) \subseteq Pending(Slots)
        /\ Before \subseteq Pending(Slots) /\ Successors \subseteq Slots
    BY ActiveSubset DEF Pending, Before, Successors, At, TypeOK
  <2>3. CASE pc \in {"keyflush", "flush"}
    BY <2>1, <2>3, EarliestExists DEF NeverStuck, CanStep
  <2>4. CASE pc = "prev"
    BY <2>1, <2>2, <2>4, EarliestExists DEF NeverStuck, CanStep
  <2>5. CASE pc = "next"
    BY <2>2, <2>5, FirstExists DEF NeverStuck, CanStep
  <2>6. CASE pc = "update"
    BY <2>6, FirstExists DEF NeverStuck, CanStep, TypeOK
  <2>7. CASE pc = "sefShow"
    <3>1. CASE EndsWithShownFrame
      BY <2>7, <3>1 DEF NeverStuck
    <3>2. CASE InMap(unit.target)
      BY <2>7, <3>2, HoldersOf DEF TargetExists, NeverStuck, CanStep
    <3> QED
      BY <2>7, <3>1, <3>2 DEF ShownInv
  <2> QED
    BY <2>3, <2>4, <2>5, <2>6, <2>7 DEF TypeOK, PCs, NeverStuck, CanStep
<1> QED
  BY <1>1, <1>2, <1>3, AlwaysMInv, PTL DEF Spec
-----------------------------------------------------------------------------
(* Delivery.  The life of a buffer, and what a step makes of it.            *)

LEMMA LifeIs ==
  ASSUME NEW b
  PROVE  /\ refCount[b] = 0 => Life(b) = "free"
         /\ refCount[b] # 0 /\ frame[b].done => Life(b) = "past"
         /\ refCount[b] # 0 /\ ~frame[b].done /\ Waits(b) => Life(b) = "waiting"
         /\ refCount[b] # 0 /\ ~frame[b].done /\ ~Waits(b) => Life(b) = "held"
<1>1. Waits(b) => ~frame[b].done
  BY DEF Waits, Eligible
<1> QED
  BY <1>1 DEF Life

LEMMA LifeIsNext ==
  ASSUME NEW b
  PROVE  /\ refCount'[b] = 0 => Life(b)' = "free"
         /\ refCount'[b] # 0 /\ frame'[b].done => Life(b)' = "past"
         /\ refCount'[b] # 0 /\ ~frame'[b].done /\ Waits(b)' => Life(b)' = "waiting"
         /\ refCount'[b] # 0 /\ ~frame'[b].done /\ ~Waits(b)' => Life(b)' = "held"
<1>1. Waits(b)' => ~frame'[b].done
  BY DEF Waits, Eligible
<1> QED
  BY <1>1 DEF Life

LEMMA SameLife ==
  ASSUME NEW b, refCount'[b] = 0 <=> refCount[b] = 0, frame'[b].done <=> frame[b].done,
         Waits(b)' <=> Waits(b)
  PROVE  Life(b)' = Life(b)
BY LifeIs, LifeIsNext

\* A buffer in a slot has references, and so has one in the queue of a call.
LEMMA HeldLives ==
  ASSUME RInv, RInv', NEW b \in Buffers
  PROVE  /\ refCount[b] \in Nat /\ refCount'[b] \in Nat
         /\ Waits(b) => refCount[b] # 0
         /\ Waits(b)' => refCount'[b] # 0
<1>1. Waits(b) => InMap(b)
  BY DEF Waits
<1>2. Waits(b)' => InMap(b)'
  BY DEF Waits
<1> QED
  BY <1>1, <1>2, HoldersOf, HoldersNext

LEMMA GivesCur ==
  ASSUME Gives
  PROVE  cur' = cur \/ cur' = NoBuf
BY DEF Gives, Decode, Flush, StartUnit, KeyFlushed, Flushed, AssignFails, Fail, CallEnds,
       ReadSequence, ReadOlk, ReadRefresh, ReadSEF, SEFEndsLeading, DecodeTiles,
       OutputEvicted, OutputCurrent, OutputEnds, FinishUnit

\* Steps that give references up end lives or leave them; one that waits ends only
\* while a header empties slots.
LEMMA GivesLife ==
  ASSUME MInv, MInv', Gives, NEW b \in Buffers
  PROVE  /\ Life(b)' \in {Life(b), "free"}
         /\ Life(b) = "waiting" /\ Life(b)' # "waiting"
              => pc \in {"sequence", "olk", "sefOlk", "refresh"}
<1> USE DEF MInv, RInv, TInv
<1>1. /\ refCount'[b] <= refCount[b] /\ refCount[b] \in Nat /\ refCount'[b] \in Nat
      /\ refCount'[b] > 0 => (frame'[b].done <=> frame[b].done)
      /\ InMap(b)' => InMap(b)
      /\ InQueue(b)' => InQueue(b)
  BY GivesGivesUp, HeldLives DEF GivesUp
<1>2. Empties /\ (refCount'[b] > 0 => frame'[b].implicit = frame[b].implicit)
  BY GivesEmpty DEF KeepsFlags
<1>3. b # NoBuf
  BY BuffersAssumption
<1>4. CASE refCount'[b] = 0
  <2>1. Life(b)' = "free"
    BY <1>4, LifeIsNext
  <2>2. ASSUME refMap' = refMap PROVE ~Waits(b)
    BY <1>4, <2>2, HoldersNext DEF Waits, InMap
  <2>3. Life(b) = "waiting" => Waits(b)
    BY LifeIs
  <2> QED
    BY <1>2, <2>1, <2>2, <2>3 DEF Empties
<1>5. CASE refCount'[b] # 0
  <2>1. refCount'[b] > 0 /\ refCount[b] > 0
    BY <1>1, <1>5
  <2>2. Waits(b)' => Waits(b)
    BY <1>1, <1>2, <2>1 DEF Waits, Eligible
  <2>3. ASSUME Waits(b), ~Waits(b)' PROVE FALSE
    <3>1. ~InMap(b)' /\ ~frame[b].done /\ InMap(b)
      BY <1>1, <1>2, <2>1, <2>3 DEF Waits, Eligible
    <3>2. cur' = b
      BY <1>1, <2>1, <3>1, HoldersNext DEF DoneInv
    <3>3. cur = b
      BY <1>3, <3>2, GivesCur
    <3>4. refMap' # refMap
      BY <3>1 DEF InMap
    <3>5. pc \in {"sequence", "olk", "sefOlk", "refresh"}
      BY <1>2, <3>4 DEF Empties
    <3> QED
      BY <3>1, <3>3, <3>5 DEF CurrentInv, EmptyPCs, TargetPCs
  <2>4. Life(b)' = Life(b)
    BY <1>1, <2>1, <2>2, <2>3, SameLife
  <2> QED
    BY <2>4
<1> QED
  BY <1>4, <1>5

\* The frames that the current call has queued keep their references.
LEMMA QueuedLive ==
  ASSUME MInv, MInv', outputs' = outputs, pc # "eos", pc' # "eos",
         NEW b \in Delivery!Queued
  PROVE  Life(b) = "past" /\ Life(b)' = "past"
<1> USE DEF MInv, RInv, TInv
<1>1. PICK i \in DOMAIN outputs : outputs[i] = b
  BY DEF Delivery!Queued
<1>2. dropped = 0 /\ dropped' = 0
  BY DEF Undropped
<1>3. DOMAIN outputs = 1..Len(outputs)
  BY DEF TypeOK
<1>4. b \in Buffers
  BY DEF Delivery!Queued
<1>5. InQueue(b) /\ InQueue(b)'
  BY <1>1, <1>2, <1>3 DEF InQueue
<1>6. frame[b].done /\ frame'[b].done
  BY <1>4, <1>5 DEF DoneInv
<1>7. refCount[b] # 0 /\ refCount'[b] # 0
  BY <1>4, <1>5, HoldersOf, HoldersNext
<1> QED
  BY <1>6, <1>7, LifeIs, LifeIsNext

\* A step after which some lives are over.
LEMMA Released ==
  ASSUME MInv, MInv', outputs' = outputs, pc' # "eos",
         Phase # "over", Phase' \in {"call", "header"},
         \A b \in Buffers : Life(b)' \in {Life(b), "free"},
         \A b \in Buffers : Life(b) = "waiting" => Life(b)' = "waiting" \/ Phase = "header"
  PROVE  Delivery!Release \/ Delivery!Reset
<1> DEFINE S == {b \in Buffers : Life(b)' # Life(b)}
<1>1. pc # "eos"
  BY DEF Phase, ReadPCs
<1>2. S \subseteq Buffers \ Delivery!Queued
  BY <1>1, QueuedLive
<1>3. [b \in Buffers |-> Life(b)]' = Delivery!With(S, "free")
  BY DEF Delivery!With
<1>4. CASE Phase = "header"
  BY <1>2, <1>3, <1>4 DEF Delivery!Reset
<1>5. CASE Phase # "header"
  <2>1. S \subseteq Delivery!Unneeded
    BY <1>2, <1>5 DEF Delivery!Unneeded
  <2> QED
    BY <1>3, <2>1 DEF Delivery!Release
<1> QED
  BY <1>4, <1>5

\* A call and the end of the stream give up the frames of the queue.
LEMMA QueueReleased ==
  ASSUME MInv, MInv', Gives, pc # "eos", UNCHANGED <<refMap, cur>>
  PROVE  \E S \in SUBSET Delivery!Queued :
           [b \in Buffers |-> Life(b)]' = Delivery!With(S, "free")
<1> USE DEF MInv, RInv, TInv
<1> DEFINE S == {b \in Buffers : Life(b)' # Life(b)}
<1>1. ASSUME NEW b \in S PROVE b \in Delivery!Queued
  <2>1. b \in Buffers /\ Life(b)' = "free" /\ Life(b) # "free"
    BY GivesLife
  <2>2. refCount[b] > 0 /\ refCount'[b] = 0
    BY <2>1, HeldLives, LifeIs, LifeIsNext
  <2>3. ~InMap(b) /\ cur # b
    BY <2>1, <2>2, HoldersNext DEF InMap
  <2>4. InQueue(b)
    BY <2>1, <2>2, <2>3, HoldersOf
  <2>5. dropped = 0 /\ DOMAIN outputs = 1..Len(outputs)
    BY DEF Undropped, TypeOK
  <2> QED
    BY <2>1, <2>4, <2>5 DEF InQueue, Delivery!Queued
<1>2. [b \in Buffers |-> Life(b)]' = Delivery!With(S, "free")
  BY GivesLife DEF Delivery!With
<1> QED
  BY <1>1, <1>2

\* The stream is over with the flush, and nothing happens after it.
LEMMA EosIsLast ==
  ASSUME TypeOK, Next
  PROVE  pc # "eos" /\ (pc' = "eos" => Flushed)
<1>1. CASE CallActs
  <2>1. pc # "eos"
    BY <1>1, CallFlow DEF CallFlowFacts, HeaderPCs
  <2>2. CASE \/ \E n \in 1..MaxUnits : Decode(n)
             \/ \E kind \in Kinds, first \in BOOLEAN : StartUnit(kind, first)
             \/ Flush \/ FlushOne \/ KeyFlushed
    BY <2>1, <2>2 DEF Decode, StartUnit, Flush, FlushOne, KeyFlushed
  <2>3. CASE AssignBuffer \/ AssignFails \/ Fail \/ CallEnds
    BY <2>1, <2>3 DEF AssignBuffer, AssignFails, Fail, UnitFails, CallEnds
  <2>4. CASE Flushed
    BY <2>1, <2>4
  <2> QED
    BY <1>1, <2>2, <2>3, <2>4 DEF CallActs, CallSteps
<1>2. CASE HeaderSteps
  BY <1>2, HeaderFlow DEF HeaderFlowFacts, HeaderPCs
<1>3. CASE UpdateSteps
  <2>1. pc # "eos"
    BY <1>3, UpdateFlow DEF UpdateFlowFacts
  <2>2. CASE DecodeTiles \/ OutputEvicted \/ RefreshSlot \/ OutputCurrent \/ OutputBefore
    BY <2>1, <2>2 DEF DecodeTiles, OutputEvicted, RefreshSlot, OutputCurrent, OutputBefore
  <2>3. CASE OutputTrigger \/ OutputNext \/ OutputEnds \/ FinishUnit
    BY <2>1, <2>3 DEF OutputTrigger, OutputNext, OutputEnds, FinishUnit, NextUnit, TypeOK
  <2> QED
    BY <1>3, <2>2, <2>3 DEF UpdateSteps
<1> QED
  BY <1>1, <1>2, <1>3, StepParts

LEMMA PhaseIs ==
  /\ Phase = "over" <=> pc = "eos"
  /\ Phase = "header" <=> pc \in ReadPCs
  /\ Phase \in {"call", "header", "over"}
BY DEF Phase, ReadPCs

LEMMA PhaseIsNext ==
  /\ Phase' = "over" <=> pc' = "eos"
  /\ Phase' = "header" <=> pc' \in ReadPCs
  /\ Phase' \in {"call", "header", "over"}
BY DEF Phase, ReadPCs

LEMMA GivesDelivers ==
  ASSUME MInv, MInv', ~ReuseAfterFlush, Gives, Next
  PROVE  Delivery!Next
<1> USE DEF MInv, RInv, TInv
<1>1. pc # "eos" /\ (pc' = "eos" => Flushed)
  BY EosIsLast
<1>2. CASE (\E n \in 1..MaxUnits : Decode(n)) \/ Flush
  <2>1. /\ pc = "idle" /\ pc' \in {"units", "flush"} /\ outputs' = <<>>
        /\ UNCHANGED <<refMap, cur>>
    BY <1>2 DEF Decode, Flush, ReleaseOutputs
  <2>2. Phase = "call" /\ Phase' = "call"
    BY <2>1 DEF Phase, ReadPCs
  <2>3. Delivery!Call
    BY <1>1, <2>1, <2>2, QueueReleased DEF Delivery!Call
  <2> QED
    BY <2>3 DEF Delivery!Next
<1>3. CASE Flushed
  <2>1. /\ pc = "flush" /\ pc' = "eos" /\ UNCHANGED <<refMap, cur, outputs>>
    BY <1>3 DEF Flushed
  <2>2. Phase = "call" /\ Phase' = "over"
    BY <2>1 DEF Phase, ReadPCs
  <2>3. Delivery!End
    BY <1>1, <2>1, <2>2, QueueReleased DEF Delivery!End
  <2> QED
    BY <2>3 DEF Delivery!Next
<1>4. CASE \/ \E kind \in Kinds, first \in BOOLEAN : StartUnit(kind, first)
           \/ KeyFlushed \/ AssignFails \/ Fail \/ CallEnds
           \/ ReadSequence \/ ReadOlk
           \/ \E flags \in SUBSET Slots : ReadRefresh(flags)
           \/ \E slot \in Slots, derive \in BOOLEAN, order \in Orders :
                ReadSEF(slot, derive, order)
           \/ SEFEndsLeading
           \/ DecodeTiles \/ OutputEvicted \/ OutputCurrent \/ OutputEnds \/ FinishUnit
  <2>1. outputs' = outputs
    BY <1>4 DEF StartUnit, KeyFlushed, AssignFails, Fail, CallEnds, ReadSequence, ReadOlk,
       ReadRefresh, ReadSEF, SEFEndsLeading, DecodeTiles, OutputEvicted, OutputCurrent,
       OutputEnds, FinishUnit
  <2>2. pc' # "eos"
    <3>1. CASE pc = "flush"
      BY <1>4, <3>1 DEF StartUnit, KeyFlushed, AssignFails, Fail, HeaderPCs, CallEnds,
         ReadSequence, ReadOlk, ReadRefresh, ReadSEF, SEFEndsLeading, DecodeTiles,
         OutputEvicted, OutputCurrent, OutputEnds, FinishUnit
    <3>2. CASE pc # "flush"
      BY <1>1, <3>2 DEF Flushed
    <3> QED
      BY <3>1, <3>2
  <2>3. Phase # "over" /\ Phase' \in {"call", "header"}
    BY <1>1, <2>2, PhaseIs, PhaseIsNext
  <2>4. ASSUME NEW b \in Buffers, Life(b) = "waiting"
        PROVE  Life(b)' = "waiting" \/ Phase = "header"
    BY <2>4, GivesLife, PhaseIs DEF ReadPCs
  <2>5. Delivery!Release \/ Delivery!Reset
    BY <2>1, <2>2, <2>3, <2>4, GivesLife, Released
  <2> QED
    BY <2>5 DEF Delivery!Next
<1> QED
  BY <1>2, <1>3, <1>4 DEF Gives

\* A buffer is taken for a frame, and its life begins.
LEMMA AssignDelivers ==
  ASSUME MInv, MInv', AssignBuffer
  PROVE  Delivery!Next
<1> USE DEF MInv, RInv, TInv
<1>1. PICK c \in Buffers :
        /\ refCount[c] = 0
        /\ \A b \in Buffers : refCount'[b] = IF b = c THEN 1 ELSE refCount[b]
        /\ UNCHANGED <<frame, refMap, outputs>>
        /\ pc = "assign" /\ pc' = "sequence"
  <2>1. PICK c \in Buffers : c = cur'
    BY AssignEffect
  <2> QED
    BY <2>1, AssignEffect
<1>2. \A b \in Buffers : Waits(b)' <=> Waits(b)
  BY <1>1 DEF Waits, InMap, Eligible
<1>3. \A b \in Buffers \ {c} : Life(b)' = Life(b)
  BY <1>1, <1>2, SameLife
<1>4. Life(c) = "free" /\ Life(c)' = "held"
  <2>1. ~frame[c].done /\ ~Waits(c) /\ refCount'[c] # 0
    BY <1>1, HeldLives DEF UnheldInv
  <2>2. ~frame'[c].done /\ ~Waits(c)'
    BY <1>1, <1>2, <2>1
  <2> QED
    BY <1>1, <2>1, <2>2, LifeIs, LifeIsNext
<1>5. Phase = "call" /\ Phase' = "header"
  BY <1>1 DEF Phase, ReadPCs
<1>6. Delivery!Take(c)
  BY <1>1, <1>3, <1>4, <1>5 DEF Delivery!Take
<1> QED
  BY <1>6 DEF Delivery!Next

\* A frame header may declare the frames in the slots unfit for output.
LEMMA ReadFrameDelivers ==
  ASSUME MInv, MInv', ReadsFrame
  PROVE  Delivery!Next
<1> USE DEF MInv, RInv, TInv
<1>1. /\ pc = "frame" /\ pc' = "olk" /\ cur \in Buffers
      /\ UNCHANGED <<refCount, refMap, outputs>>
      /\ ~frame'[cur].done
      /\ \A b \in Buffers \ {cur} : frame[b].done => frame'[b].done
  BY ReadFrameEffect
<1>2. \A b \in Buffers \ {cur} : frame'[b].implicit = frame[b].implicit
  <2>1. PICK type \in FrameTypes, restrict \in BOOLEAN, show \in BOOLEAN,
             implicit \in BOOLEAN, lt \in LongTermIds \cup {NoLongTerm},
             order \in 0..MaxOrder : ReadFrame(type, restrict, lt, show, implicit, order)
    BY DEF ReadsFrame
  <2> TAKE b \in Buffers \ {cur}
  <2>2. frame[b] \in Frames
    BY DEF TypeOK
  <2> QED
    BY <2>1, <2>2, Zenon DEF ReadFrame, Frames
<1>3. PICK c \in Buffers : c = cur
  BY <1>1
<1>4. Life(c)' = Life(c)
  <2>1. ~Waits(c) /\ ~Waits(c)' /\ ~frame[c].done /\ ~frame'[c].done
    BY <1>1, <1>3 DEF CurrentInv, EmptyPCs, Waits, InMap
  <2> QED
    BY <1>1, <2>1, SameLife
<1>5. ASSUME NEW b \in Buffers \ {c}
      PROVE  Life(b)' = Life(b) \/ (Life(b)' = "past" /\ Life(b) # "free")
  <2>1. CASE frame'[b].done <=> frame[b].done
    <3>1. Waits(b)' <=> Waits(b)
      BY <1>1, <1>2, <1>3, <2>1 DEF Waits, InMap, Eligible
    <3> QED
      BY <1>1, <2>1, <3>1, SameLife
  <2>2. CASE ~(frame'[b].done <=> frame[b].done)
    <3>1. frame'[b].done /\ ~frame[b].done
      BY <1>1, <1>3, <2>2
    <3>2. CASE refCount[b] = 0
      BY <1>1, <3>2, LifeIs, LifeIsNext
    <3>3. CASE refCount[b] # 0
      BY <1>1, <3>1, <3>3, LifeIs, LifeIsNext
    <3> QED
      BY <3>2, <3>3
  <2> QED
    BY <2>1, <2>2
<1> DEFINE S == {b \in Buffers : Life(b)' # Life(b)}
<1>6. [b \in Buffers |-> Life(b)]' = Delivery!With(S, "past")
  BY <1>4, <1>5 DEF Delivery!With
<1>7. S \subseteq {b \in Buffers : [a \in Buffers |-> Life(a)][b] # "free"}
  BY <1>4, <1>5
<1>8. Phase = "header" /\ Phase' = "header"
  BY <1>1 DEF Phase, ReadPCs
<1>9. Delivery!Retire
  BY <1>1, <1>6, <1>7, <1>8 DEF Delivery!Retire
<1> QED
  BY <1>9 DEF Delivery!Next

\* A frame is queued: it has not been before, in this call or an earlier one.
LEMMA QueueDelivers ==
  ASSUME MInv, MInv', Queues
  PROVE  Delivery!Next
<1> USE DEF MInv, RInv, TInv
<1>1. PICK c : Enqueues(c)
  BY QueuesOne
<1>2. /\ c \in Buffers /\ outputs' = Append(outputs, c)
      /\ frame' = [frame EXCEPT ![c].done = TRUE]
      /\ refMap' = refMap /\ refCount[c] > 0 /\ ~frame[c].done
      /\ pc \in {"keyflush", "flush", "next", "prev"}
      /\ pc' \in {"keyflush", "flush", "next", "prev"}
  BY <1>1 DEF Enqueues, Output
<1>3. dropped = 0
  BY <1>2 DEF Undropped
<1>4. ASSUME NEW b \in Buffers
      PROVE  /\ refCount'[b] = 0 <=> refCount[b] = 0
             /\ frame'[b].done <=> (frame[b].done \/ b = c)
             /\ frame'[b].implicit = frame[b].implicit
             /\ InMap(b)' <=> InMap(b)
  <2>1. frame'[b].implicit = frame[b].implicit
    BY <1>2 DEF TypeOK, Frames
  <2> QED
    BY <1>1, <1>3, <2>1, QueuedEffect, HeldLives
<1>5. ASSUME NEW b \in Buffers \ {c} PROVE Life(b)' = Life(b)
  <2>1. Waits(b)' <=> Waits(b)
    BY <1>4 DEF Waits, Eligible
  <2> QED
    BY <1>4, <2>1, SameLife
<1>6. Life(c) \in {"held", "waiting"} /\ Life(c)' = "past"
  <2>1. refCount[c] # 0 /\ refCount'[c] # 0 /\ frame'[c].done
    BY <1>2, <1>4, HeldLives
  <2> QED
    BY <1>2, <2>1, LifeIs, LifeIsNext
<1>7. Phase = "call" /\ Phase' = "call"
  BY <1>2 DEF Phase, ReadPCs
<1>8. Delivery!Hand(c)
  BY <1>2, <1>5, <1>6, <1>7 DEF Delivery!Hand
<1> QED
  BY <1>2, <1>8 DEF Delivery!Next

\* A show-existing frame gives its own buffer back, or goes on with it.
LEMMA ShowDelivers ==
  ASSUME MInv, MInv', ShowSEF
  PROVE  Delivery!Next
<1> USE DEF MInv, RInv, TInv
<1>1. pc = "sefShow" /\ pc' \in {"broken", "tiles"} /\ outputs' = outputs
  BY DEF ShowSEF
<1>2. ~InMap(cur) /\ ~frame[cur].done /\ cur \in Buffers
  BY <1>1 DEF CurrentInv, TargetPCs, Holding, NoFramePCs, TypeOK
<1>3. ASSUME NEW b \in Buffers
      PROVE  /\ Life(b)' \in {Life(b), "free"}
             /\ Life(b) = "waiting" => Life(b)' = "waiting"
  <2>1. InMap(b)' <=> InMap(b)
    BY ShowEffect
  <2>2. CASE b # cur
    <3>1. frame'[b] = frame[b] /\ (refCount'[b] = 0 <=> refCount[b] = 0)
      BY <2>2, ShowEffect
    <3>2. Waits(b)' <=> Waits(b)
      BY <2>1, <3>1 DEF Waits, Eligible
    <3> QED
      BY <3>1, <3>2, SameLife
  <2>3. CASE b = cur
    <3>1. ~Waits(b) /\ ~Waits(b)' /\ ~frame[b].done
      BY <1>2, <2>1, <2>3 DEF Waits
    <3>2. ~frame'[b].done
      BY <3>1, ShowEffect
    <3>3. refCount[b] # 0
      BY <2>3, HoldersOf
    <3>4. Life(b) = "held" /\ Life(b)' \in {"held", "free"}
      BY <3>1, <3>2, <3>3, LifeIs, LifeIsNext
    <3> QED
      BY <3>4
  <2> QED
    BY <2>2, <2>3
<1>4. Phase # "over" /\ Phase' \in {"call", "header"} /\ pc' # "eos"
  BY <1>1 DEF Phase, ReadPCs
<1>5. Delivery!Release \/ Delivery!Reset
  BY <1>1, <1>3, <1>4, Released
<1> QED
  BY <1>5 DEF Delivery!Next

\* A slot is refreshed: the frame in it, which does not wait, goes, and the current
\* one may begin to wait.
LEMMA RefreshDelivers ==
  ASSUME MInv, MInv', RefreshSlot
  PROVE  Delivery!Next
<1> USE DEF MInv, RInv, TInv
<1>1. /\ pc = "update" /\ pc' = "update" /\ UNCHANGED <<cur, outputs, dropped>>
  BY DEF RefreshSlot
<1>2. PICK c \in Buffers : c = cur
  BY <1>1 DEF Holding, NoFramePCs, TypeOK
<1>3. PICK s \in First(todo) : /\ ~Eligible(refMap[s])
                              /\ SetSlot(s, IF s \in InsertedSlots THEN cur ELSE NoBuf)
  BY DEF RefreshSlot
<1>4. \A r \in Slots : r # s => refMap'[r] = refMap[r]
  BY <1>3 DEF SetSlot, TypeOK
<1>5. ASSUME NEW b \in Buffers
      PROVE  /\ refCount'[b] # 0 => frame'[b] = frame[b]
             /\ InMap(b)' => InMap(b) \/ b = c
             /\ InQueue(b)' <=> InQueue(b)
             /\ refCount[b] \in Nat /\ refCount'[b] \in Nat
  BY <1>2, RefreshEffect, HeldLives
<1>6. ASSUME NEW b \in Buffers, Waits(b) PROVE Waits(b)'
  <2>1. PICK r \in Slots : refMap[r] = b
    BY <1>6 DEF Waits, InMap
  <2>2. r # s
    BY <1>3, <1>6, <2>1 DEF Waits
  <2>3. InMap(b)'
    BY <1>4, <2>1, <2>2 DEF InMap
  <2>4. refCount'[b] > 0
    BY <2>3, HoldersNext
  <2> QED
    BY <1>5, <1>6, <2>3, <2>4 DEF Waits, Eligible
<1>7. ASSUME NEW b \in Buffers \ {c} PROVE Life(b)' \in {Life(b), "free"}
  <2>1. CASE refCount'[b] = 0
    BY <2>1, LifeIsNext
  <2>2. CASE refCount'[b] # 0
    <3>1. InMap(b)' \/ InQueue(b)'
      BY <1>1, <1>2, <1>5, <2>2, HoldersNext
    <3>2. refCount[b] # 0
      BY <1>5, <3>1, HoldersOf
    <3>3. Waits(b)' => Waits(b)
      BY <1>5, <2>2 DEF Waits, Eligible
    <3>4. Life(b)' = Life(b)
      BY <1>5, <1>6, <2>2, <3>2, <3>3, SameLife
    <3> QED
      BY <3>4
  <2> QED
    BY <2>1, <2>2
<1>8. ASSUME NEW b \in Buffers, Life(b) = "waiting" PROVE Life(b)' = "waiting"
  <2>1. Waits(b) /\ Waits(b)'
    BY <1>6, <1>8, LifeIs
  <2>2. refCount'[b] # 0 /\ ~frame'[b].done
    BY <2>1, HeldLives DEF Waits, Eligible
  <2> QED
    BY <2>1, <2>2, LifeIsNext
<1>9. Life(c)' = Life(c) \/ (Life(c) = "held" /\ Life(c)' = "waiting")
  <2>1. refCount[c] # 0 /\ refCount'[c] # 0
    BY <1>1, <1>2, HoldersOf, HoldersNext
  <2>2. frame'[c].done <=> frame[c].done
    BY <1>5, <2>1
  <2>3. CASE frame[c].done \/ (Waits(c)' <=> Waits(c))
    BY <2>1, <2>2, <2>3, LifeIs, LifeIsNext
  <2>4. CASE ~frame[c].done /\ ~(Waits(c)' <=> Waits(c))
    BY <1>6, <2>1, <2>2, <2>4, LifeIs, LifeIsNext
  <2> QED
    BY <2>3, <2>4
<1>10. Phase = "call" /\ Phase' = "call" /\ pc # "eos" /\ pc' # "eos"
  BY <1>1 DEF Phase, ReadPCs
<1>11. CASE Life(c)' = Life(c)
  <2>1. Delivery!Release \/ Delivery!Reset
    <3>1. \A b \in Buffers : Life(b)' \in {Life(b), "free"}
      BY <1>7, <1>11
    <3> QED
      BY <1>1, <1>8, <1>10, <3>1, Released
  <2> QED
    BY <2>1 DEF Delivery!Next
<1>12. CASE Life(c) = "held" /\ Life(c)' = "waiting"
  <2> DEFINE S == {b \in Buffers \ {c} : Life(b)' # Life(b)}
  <2>1. S \subseteq Delivery!Unneeded \ {c}
    <3> SUFFICES ASSUME NEW b \in S PROVE b \in Delivery!Unneeded
      OBVIOUS
    <3>1. b \notin Delivery!Queued
      BY <1>1, <1>10, QueuedLive
    <3> QED
      BY <1>8, <3>1 DEF Delivery!Unneeded
  <2>2. [b \in Buffers |-> Life(b)]' = [Delivery!With(S, "free") EXCEPT ![c] = "waiting"]
    BY <1>7, <1>12 DEF Delivery!With
  <2>3. Delivery!Store(c)
    BY <1>1, <1>10, <1>12, <2>1, <2>2 DEF Delivery!Store
  <2> QED
    BY <2>3 DEF Delivery!Next
<1> QED
  BY <1>9, <1>11, <1>12

\* Frames are delivered as FrameDelivery says: in a life of its buffer, which may span
\* any number of calls, a frame is handed to the application at most once; a frame
\* that waits is not overwritten, evicted unseen or lost in an error, but given up by
\* a frame header or not at all; a queued frame is not used for another one before
\* the next call (frame_output_done, ref_count, update_frame_buffers).
THEOREM RefinesDelivery ==
  ASSUME ~ReuseAfterFlush
  PROVE  Spec => ImplementsDelivery
<1>1. Init => Delivery!Init
  <2> SUFFICES ASSUME Init PROVE Delivery!Init
    OBVIOUS
  <2>1. \A b \in Buffers : Life(b) = "free"
    BY LifeIs DEF Init
  <2>2. Phase = "call" /\ outputs = <<>>
    BY DEF Init, Phase, ReadPCs
  <2> QED
    BY <2>1, <2>2 DEF Delivery!Init
<1>2. MInv /\ MInv' /\ [Next]_vars => [Delivery!Next]_(Delivery!vars)
  <2> SUFFICES ASSUME MInv, MInv', [Next]_vars PROVE [Delivery!Next]_(Delivery!vars)
    OBVIOUS
  <2>1. CASE Next
    BY <2>1, StepKinds, GivesDelivers, ReadFrameDelivers, QueueDelivers, AssignDelivers,
       ShowDelivers, RefreshDelivers
  <2>2. CASE UNCHANGED vars
    <3>1. UNCHANGED <<pc, refMap, refCount, frame, outputs>>
      BY <2>2 DEF vars, bufferVars
    <3>2. Phase' = Phase
      BY <3>1 DEF Phase
    <3>3. \A b \in Buffers : Life(b)' = Life(b)
      BY <3>1, SameLife DEF Waits, InMap, Eligible
    <3> QED
      BY <3>1, <3>2, <3>3 DEF Delivery!vars
  <2> QED
    BY <2>1, <2>2
<1>3. Spec => []MInv
  BY AlwaysMInv
<1> QED
  BY <1>1, <1>2, <1>3, PTL DEF Spec, ImplementsDelivery, Delivery!Spec

=============================================================================
