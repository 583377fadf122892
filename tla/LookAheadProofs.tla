------------------------- MODULE LookAheadProofs --------------------------
(***************************************************************************)
(* Proofs about the look-ahead for every lag, every number of frames and   *)
(* every order of the encoder's choices, when no allocation fails.         *)
(***************************************************************************)
EXTENDS LookAhead, SequenceTheorems, TLAPS

NumLap == num_lap_buffers
PE == pop_sz[Encode]
PL == pop_sz[Lap]
Ahead == sz[Encode] - sz[Lap]
Early == IF filtered THEN 1 ELSE 0

(* The write position is where every reader's frames end.                   *)
RingInv == \A s \in valid : write_idx = Wrap(read_idx[s] + sz[s])

(* What a reader took last and what waits for it are all that was given.    *)
GotInv ==
  /\ \A s \in valid : got[s] = given - sz[s]
  /\ \A s \in Stages \ valid : got[s] = 0 /\ sz[s] = 0

(* A frame may be coded, and would be if the output buffer has room.        *)
Coding == pc = "encode" /\ ~visible /\ CanPop(Encode)

(* Between calls neither reader has its fill, unless the last call was cut  *)
(* short, and the look-ahead pass is never behind the encoder.              *)
PaceInv ==
  /\ (pc = "app" /\ room) \/ visible => sz[Encode] < PE
  /\ visible => pc # "lap"
  /\ pc = "lap" => Lap \in valid
  /\ pending = "half" => ~room /\ pc # "lap"
  /\ Lap \in valid =>
       /\ sz[Lap] <= sz[Encode]
       /\ pending # "half" => sz[Lap] <= PL /\ (pc # "lap" => sz[Lap] < PL)
       /\ Coding => sz[Lap] < sz[Encode]
       /\ ~cut => Ahead <= NumLap + 1 /\ (~Coding => Ahead <= NumLap)

(* The statistics are those of the frames only the look-ahead pass took.    *)
StatsInv ==
  /\ Lap \notin valid => stats = <<>>
  /\ Lap \in valid =>
       /\ Len(stats) = Ahead - Early
       /\ \A i \in 1..Len(stats) : stats[i] = got[Encode] + Early + i

FlushInv ==
  pc = "app" /\ flush /\ ~visible /\ room => sz[Encode] = 0

FilteredInv == filtered => sz[Encode] > 0 /\ (Lap \in valid => sz[Lap] < sz[Encode])

IInv == /\ TypeOK /\ RingInv /\ FramesKept /\ GotInv
        /\ PaceInv /\ StatsInv /\ FlushInv /\ FilteredInv

-----------------------------------------------------------------------------
(* The sizes of a configuration.                                            *)

LEMMA ConfigFacts ==
  ASSUME TypeOK
  PROVE  /\ NumLap \in Nat /\ PE \in Nat /\ PL \in Nat /\ max_sz \in Nat
         /\ PE >= 1 /\ PL >= 1 /\ max_sz = PE + 1
         /\ pop_sz[Encode] = PE /\ pop_sz[Lap] = PL
         /\ Encode \in valid /\ valid \subseteq Stages
         /\ Lap \in valid <=> NumLap > 0
         /\ cbr => Lap \notin valid
         /\ NumLap > 0 => PL <= PE /\ PE - PL <= NumLap
<1>1. lag \in Nat /\ cbr \in BOOLEAN /\ MaxLap \in Nat /\ LapLag \in Nat
  BY LagsAssumption, LapLagAssumption DEF TypeOK
<1>2. NumLap \in Nat /\ (cbr => NumLap = 0)
  BY <1>1 DEF NumLap, num_lap_buffers, AtMost
<1>3. lag_in_frames \in Nat
  BY <1>1, <1>2 DEF lag_in_frames, NumLap
<1>4. /\ pop_sz[Encode] = AtLeast(1, lag_in_frames + NumLap)
      /\ pop_sz[Lap] = AtLeast(1, lag_in_frames)
  BY DEF pop_sz, NumLap, Encode, Lap, Stages
<1>5. valid = IF NumLap > 0 THEN {"encode", "lap"} ELSE {"encode"}
  BY DEF valid, NumLap, Stages, Encode, Lap
<1>6. max_sz = pop_sz[Encode] + 1
  BY DEF max_sz, MAX_PRE_FRAMES
<1>7. /\ PE \in Nat /\ PL \in Nat /\ PE >= 1 /\ PL >= 1
      /\ NumLap > 0 => PL <= PE /\ PE - PL <= NumLap
  BY <1>2, <1>3, <1>4 DEF PE, PL, AtLeast
<1> QED
  BY <1>2, <1>4, <1>5, <1>6, <1>7 DEF PE, PL, Stages, Encode, Lap

LEMMA Fixed ==
  ASSUME UNCHANGED config
  PROVE  /\ max_sz' = max_sz /\ pop_sz' = pop_sz /\ valid' = valid
         /\ NumLap' = NumLap /\ PE' = PE /\ PL' = PL
         /\ num_lap_buffers' = num_lap_buffers
         /\ cbr' = cbr /\ lag' = lag
BY DEF config, max_sz, pop_sz, valid, NumLap, PE, PL, num_lap_buffers,
       lag_in_frames

(* Positions of the ring: a position a few entries from a read position is  *)
(* an entry, and different distances are different entries.                 *)
LEMMA WrapFacts ==
  ASSUME max_sz \in Nat, NEW r \in 0..max_sz - 1
  PROVE  /\ \A k \in -1..max_sz : Wrap(r + k) \in 0..max_sz - 1
         /\ \A k \in -1..max_sz - 1 : Wrap(Wrap(r + k) + 1) = Wrap(r + k + 1)
         /\ \A k \in -1..max_sz - 1 : Wrap(Wrap(r + 1) + k) = Wrap(r + k + 1)
         /\ \A j, k \in -1..max_sz - 2 : Wrap(r + j) = Wrap(r + k) => j = k
         /\ Wrap(r) = r
BY DEF Wrap

(* A reader takes the oldest frame that waits for it.                       *)
LEMMA PopKeeps ==
  ASSUME IInv, NEW s \in valid, sz[s] > 0, av2_lookahead_pop(s),
         UNCHANGED <<config, ring, given>>
  PROVE  /\ RingInv' /\ FramesKept'
         /\ got' \in [Stages -> 0..given] /\ sz' \in [Stages -> 0..PE]
         /\ read_idx' \in [Stages -> 0..max_sz - 1]
         /\ got'[s] = given - sz[s] + 1 /\ got'[s] \in 1..given
         /\ got'[s] = got[s] + 1
         /\ sz'[s] = sz[s] - 1
         /\ \A r \in Stages \ {s} : got'[r] = got[r] /\ sz'[r] = sz[r]
<1> USE DEF IInv
<1>1. /\ max_sz' = max_sz /\ valid' = valid
  BY Fixed
<1>2. /\ max_sz \in Nat /\ max_sz = PE + 1 /\ PE \in Nat /\ pop_sz[Encode] = PE
      /\ valid \subseteq Stages
  BY ConfigFacts
<1>3. /\ read_idx \in [Stages -> 0..max_sz - 1] /\ sz \in [Stages -> 0..PE]
      /\ got \in [Stages -> 0..given] /\ given \in Nat /\ s \in Stages
  BY <1>2 DEF TypeOK
<1>4. /\ read_idx' = [read_idx EXCEPT ![s] = Wrap(read_idx[s] + 1)]
      /\ sz' = [sz EXCEPT ![s] = sz[s] - 1]
      /\ got' = [got EXCEPT ![s] = Peek(0, s)]
      /\ buf' = buf /\ write_idx' = write_idx /\ given' = given
  BY DEF av2_lookahead_pop, ring
<1>5. got[s] = given - sz[s] /\ sz[s] \in 1..PE
  BY <1>3 DEF GotInv
<1>6. Peek(0, s) = given - sz[s] + 1 /\ Peek(0, s) \in 1..given
  <2>1. 0 \in -1..max_sz - 2 /\ 0 < sz[s] /\ given - sz[s] + 0 + 1 > 0
    BY <1>2, <1>3, <1>5
  <2>2. Peek(0, s) = given - sz[s] + 0 + 1
    BY <2>1 DEF FramesKept
  <2> QED
    BY <2>2, <1>3, <1>5
<1>7. /\ got'[s] = Peek(0, s) /\ sz'[s] = sz[s] - 1
      /\ read_idx'[s] = Wrap(read_idx[s] + 1)
      /\ \A r \in Stages \ {s} : got'[r] = got[r] /\ sz'[r] = sz[r]
                                 /\ read_idx'[r] = read_idx[r]
  BY <1>3, <1>4
<1>8. Wrap(read_idx[s] + 1) \in 0..max_sz - 1
  <2>1. read_idx[s] \in 0..max_sz - 1 /\ 1 \in -1..max_sz
    BY <1>2, <1>3
  <2> QED
    BY <2>1, <1>2, WrapFacts
<1>9. /\ got' \in [Stages -> 0..given]
      /\ read_idx' \in [Stages -> 0..max_sz - 1]
  BY <1>3, <1>4, <1>6, <1>8
<1>10. sz' \in [Stages -> 0..PE]
  <2>1. sz[s] - 1 \in 0..PE
    BY <1>5, <1>2
  <2> QED
    BY <2>1, <1>3, <1>4
<1>11. \A k \in -1..max_sz - 1 :
         Wrap(read_idx'[s] + k) = Wrap(read_idx[s] + k + 1)
  BY <1>2, <1>3, <1>7, WrapFacts
<1>12. \A i : Wrap(i)' = Wrap(i)
  BY <1>1 DEF Wrap
<1>13. RingInv'
  <2> SUFFICES ASSUME NEW r \in valid
               PROVE  write_idx = Wrap(read_idx'[r] + sz'[r])
    BY <1>1, <1>4, <1>12 DEF RingInv, Wrap
  <2>1. write_idx = Wrap(read_idx[r] + sz[r])
    BY DEF RingInv
  <2>2. CASE r = s
    <3>1. sz[s] - 1 \in -1..max_sz - 1 /\ read_idx[s] + (sz[s] - 1) + 1 = read_idx[s] + sz[s]
      BY <1>2, <1>3, <1>5
    <3> QED
      BY <2>1, <2>2, <3>1, <1>7, <1>11
  <2>3. CASE r # s
    BY <2>1, <2>3, <1>7, <1>2
  <2> QED
    BY <2>2, <2>3
<1>14. FramesKept'
  <2> SUFFICES ASSUME NEW r \in valid, NEW k \in -1..max_sz - 2,
                      k < sz'[r], given - sz'[r] + k + 1 > 0
               PROVE  buf[Wrap(read_idx'[r] + k)] = given - sz'[r] + k + 1
    BY <1>1, <1>4 DEF FramesKept, Peek, Wrap
  <2>1. CASE r = s
    <3>1. k + 1 \in -1..max_sz - 2 /\ k + 1 < sz[s]
      BY <2>1, <1>2, <1>5, <1>7
    <3>2. given - sz[s] + (k + 1) + 1 = given - sz'[s] + k + 1
      BY <1>3, <1>5, <1>7
    <3>3. Peek(k + 1, s) = given - sz[s] + (k + 1) + 1
      BY <3>1, <3>2, <2>1 DEF FramesKept
    <3>4. read_idx[s] + (k + 1) = read_idx[s] + k + 1
      BY <1>3, <1>2
    <3>5. Wrap(read_idx'[s] + k) = Wrap(read_idx[s] + k + 1)
      BY <1>11, <1>2
    <3> QED
      BY <3>2, <3>3, <3>4, <3>5, <2>1 DEF Peek
  <2>2. CASE r # s
    <3>1. sz'[r] = sz[r] /\ read_idx'[r] = read_idx[r]
      BY <2>2, <1>7, <1>2
    <3> QED
      BY <3>1 DEF FramesKept, Peek
  <2> QED
    BY <2>1, <2>2
<1> QED
  BY <1>3, <1>5, <1>6, <1>7, <1>9, <1>10, <1>13, <1>14

(* A push that fits puts the new frame after the others, and overwrites     *)
(* neither a frame that waits nor the one before it.                        *)
LEMMA PushKeeps ==
  ASSUME IInv, ~AllocFails, sz[Encode] < PE, av2_lookahead_push(given + 1),
         UNCHANGED <<config, read_idx, got, frmSize>>, given' = given + 1,
         \A s \in valid : sz[s] <= sz[Encode]
  PROVE  /\ RingInv' /\ FramesKept' /\ GotInv'
         /\ buf' \in [0..max_sz - 1 -> 0..given'] /\ bufSize' \in [0..max_sz - 1 -> Sizes]
         /\ write_idx' \in 0..max_sz - 1
         /\ sz' \in [Stages -> 0..PE]
         /\ \A s \in valid : sz'[s] = sz[s] + 1
         /\ \A s \in Stages \ valid : sz'[s] = sz[s]
<1> USE DEF IInv
<1>1. /\ max_sz' = max_sz /\ valid' = valid
  BY Fixed
<1>2. /\ max_sz \in Nat /\ max_sz = PE + 1 /\ PE \in Nat /\ pop_sz[Encode] = PE
      /\ valid \subseteq Stages
  BY ConfigFacts
<1>3. /\ read_idx \in [Stages -> 0..max_sz - 1] /\ sz \in [Stages -> 0..PE]
      /\ got \in [Stages -> 0..given] /\ given \in Nat
      /\ buf \in [0..max_sz - 1 -> 0..given] /\ bufSize \in [0..max_sz - 1 -> Sizes]
      /\ write_idx \in 0..max_sz - 1 /\ frmSize \in Sizes
  BY <1>2 DEF TypeOK
<1>4. /\ sz' = [s \in Stages |-> IF s \in valid THEN sz[s] + 1 ELSE sz[s]]
      /\ write_idx' = Wrap(write_idx + 1)
      /\ buf' = [buf EXCEPT ![write_idx] = given + 1]
      /\ bufSize' = [bufSize EXCEPT ![write_idx] = AtLeast(bufSize[write_idx], frmSize)]
      /\ read_idx' = read_idx /\ got' = got
  BY DEF av2_lookahead_push
<1>5. \A s \in valid : s \in Stages /\ sz[s] \in 0..PE - 1
  <2> TAKE s \in valid
  <2>1. s \in Stages /\ sz[s] \in Nat /\ sz[Encode] \in Nat /\ sz[s] <= sz[Encode]
    BY <1>2, <1>3 DEF Stages, Encode
  <2> QED
    BY <2>1, <1>2
<1>6. /\ \A s \in valid : sz'[s] = sz[s] + 1
      /\ \A s \in Stages \ valid : sz'[s] = sz[s]
  BY <1>2, <1>4
<1>7. sz' \in [Stages -> 0..PE]
  <2>1. \A s \in Stages : (IF s \in valid THEN sz[s] + 1 ELSE sz[s]) \in 0..PE
    <3> TAKE s \in Stages
    <3>1. CASE s \in valid
      <4>1. sz[s] \in 0..PE - 1
        BY <3>1, <1>5
      <4> QED
        BY <4>1, <3>1, <1>2
    <3>2. CASE s \notin valid
      BY <3>2, <1>3
    <3> QED
      BY <3>1, <3>2
  <2> QED
    BY <2>1, <1>4
<1>8. write_idx' \in 0..max_sz - 1
  <2>1. 1 \in -1..max_sz
    BY <1>2
  <2> QED
    BY <2>1, <1>2, <1>3, <1>4, WrapFacts
<1>9. buf' \in [0..max_sz - 1 -> 0..given + 1]
  BY <1>3, <1>4
<1>10. bufSize' \in [0..max_sz - 1 -> Sizes]
  <2>1. AtLeast(bufSize[write_idx], frmSize) \in Sizes
    BY <1>3 DEF AtLeast
  <2> QED
    BY <2>1, <1>3, <1>4
<1>11. \A i : Wrap(i)' = Wrap(i)
  BY <1>1 DEF Wrap
<1>12. RingInv'
  <2> SUFFICES ASSUME NEW r \in valid
               PROVE  write_idx' = Wrap(read_idx[r] + sz'[r])
    BY <1>1, <1>4, <1>11 DEF RingInv, Wrap
  <2>1. write_idx = Wrap(read_idx[r] + sz[r])
    BY DEF RingInv
  <2>2. sz[r] \in -1..max_sz - 1 /\ read_idx[r] \in 0..max_sz - 1
        /\ read_idx[r] + sz[r] + 1 = read_idx[r] + (sz[r] + 1)
    <3>1. sz[r] \in -1..max_sz - 1 /\ read_idx[r] \in 0..max_sz - 1
      BY <1>2, <1>3, <1>5
    <3>2. PICK i \in Int, j \in Int : i = read_idx[r] /\ j = sz[r]
      BY <3>1, <1>2
    <3> QED
      BY <3>1, <3>2
  <2>3. Wrap(Wrap(read_idx[r] + sz[r]) + 1) = Wrap(read_idx[r] + sz[r] + 1)
    BY <2>2, <1>2, WrapFacts
  <2> QED
    BY <2>1, <2>2, <2>3, <1>4, <1>6
<1>13. FramesKept'
  <2> SUFFICES ASSUME NEW r \in valid, NEW k \in -1..max_sz - 2,
                      k < sz'[r], given' - sz'[r] + k + 1 > 0
               PROVE  buf'[Wrap(read_idx[r] + k)] = given' - sz'[r] + k + 1
    <3>1. read_idx' = read_idx /\ max_sz' = max_sz /\ valid' = valid
      BY <1>1, <1>4
    <3> QED
      BY <3>1 DEF FramesKept, Peek, Wrap
  <2>1. /\ write_idx = Wrap(read_idx[r] + sz[r])
        /\ sz[r] \in -1..max_sz - 2 /\ sz[r] \in Nat
        /\ sz'[r] = sz[r] + 1 /\ read_idx[r] \in 0..max_sz - 1
    <3>1. write_idx = Wrap(read_idx[r] + sz[r])
      BY DEF RingInv
    <3>2. sz[r] \in 0..PE - 1 /\ r \in Stages
      BY <1>5
    <3>3. sz'[r] = sz[r] + 1 /\ read_idx[r] \in 0..max_sz - 1
      BY <3>2, <1>3, <1>6
    <3> QED
      BY <3>1, <3>2, <3>3, <1>2
  <2>2. given' - sz'[r] + k + 1 = given - sz[r] + k + 1
    <3>1. \A g, z \in Int : g + 1 - (z + 1) + k + 1 = g - z + k + 1
      BY <1>2
    <3>2. given \in Int /\ sz[r] \in Int /\ given' = given + 1
      BY <2>1, <1>3
    <3> QED
      BY <3>1, <3>2, <2>1
  <2>3. CASE k = sz[r]
    <3>1. buf'[write_idx] = given + 1
      BY <1>3, <1>4
    <3> QED
      BY <3>1, <2>1, <2>2, <2>3, <1>3
  <2>4. CASE k # sz[r]
    <3>1. k < sz[r]
      BY <2>1, <2>4
    <3>2. Wrap(read_idx[r] + k) # write_idx
      <4>1. \A i, j \in -1..max_sz - 2 :
              Wrap(read_idx[r] + i) = Wrap(read_idx[r] + j) => i = j
        BY <2>1, <1>2, WrapFacts
      <4> QED
        BY <4>1, <2>1, <2>4
    <3>3. Wrap(read_idx[r] + k) \in 0..max_sz - 1
      <4>1. k \in -1..max_sz
        BY <1>2
      <4> QED
        BY <4>1, <2>1, <1>2, WrapFacts
    <3>4. Peek(k, r) = given - sz[r] + k + 1
      BY <3>1, <2>2 DEF FramesKept
    <3> QED
      BY <3>2, <3>3, <3>4, <2>2, <1>3, <1>4 DEF Peek
  <2> QED
    BY <2>3, <2>4
<1>14. GotInv'
  <2>1. \A s \in valid : got[s] = given' - sz'[s]
    <3> TAKE s \in valid
    <3>1. got[s] = given - sz[s]
      BY DEF GotInv
    <3>2. sz'[s] = sz[s] + 1 /\ sz[s] \in Nat
      BY <1>3, <1>5, <1>6
    <3> QED
      <4>1. \A g, z \in Int : g - z = g + 1 - (z + 1)
        OBVIOUS
      <4>2. given \in Int /\ sz[s] \in Int /\ given' = given + 1
        BY <3>2, <1>3
      <4> QED
        BY <4>1, <4>2, <3>1, <3>2
  <2>2. \A s \in Stages \ valid : got[s] = 0 /\ sz'[s] = 0
    BY <1>6 DEF GotInv
  <2> QED
    BY <2>1, <2>2, <1>1, <1>4 DEF GotInv
<1>15. buf' \in [0..max_sz - 1 -> 0..given']
  BY <1>9
<1> QED
  BY <1>15, <1>6, <1>7, <1>8, <1>9, <1>10, <1>12, <1>13, <1>14

(* Steps that leave the ring and the readers alone.                         *)
LEMMA RingKept ==
  ASSUME IInv, UNCHANGED <<config, ring, given, read_idx, sz, got>>
  PROVE  RingInv' /\ FramesKept' /\ GotInv'
<1>1. max_sz' = max_sz /\ valid' = valid
  BY Fixed
<1>2. /\ buf' = buf /\ write_idx' = write_idx /\ given' = given
      /\ read_idx' = read_idx /\ sz' = sz /\ got' = got
  BY DEF ring
<1>3. RingInv'
  BY <1>1, <1>2 DEF IInv, RingInv, Wrap
<1>4. FramesKept'
  BY <1>1, <1>2 DEF IInv, FramesKept, Peek, Wrap
<1> QED
  BY <1>1, <1>2, <1>3, <1>4 DEF IInv, GotInv

-----------------------------------------------------------------------------
(* The inductive invariant.                                                 *)

LEMMA Values ==
  ASSUME IInv
  PROVE  /\ sz[Encode] \in 0..PE /\ sz[Lap] \in 0..PE /\ given \in Nat
         /\ got[Encode] \in 0..given /\ got[Lap] \in 0..given
         /\ got[Encode] = given - sz[Encode]
         /\ Lap \in valid => got[Lap] = given - sz[Lap]
         /\ Early \in {0, 1} /\ stats \in Seq(1..given) /\ Len(stats) \in Nat
         /\ (CanPop(Encode) <=> sz[Encode] > 0 /\ (flush \/ sz[Encode] = PE))
         /\ (CanPop(Lap) <=> sz[Lap] > 0 /\ (flush \/ sz[Lap] = PL))
<1>1. pop_sz[Encode] = PE /\ pop_sz[Lap] = PL /\ Encode \in valid
  BY ConfigFacts DEF IInv
<1>2. /\ sz \in [Stages -> 0..PE] /\ got \in [Stages -> 0..given]
      /\ given \in Nat /\ stats \in Seq(1..given) /\ filtered \in BOOLEAN
  BY <1>1 DEF IInv, TypeOK
<1>3. Encode \in Stages /\ Lap \in Stages
  BY DEF Stages
<1>4. Len(stats) \in Nat
  BY <1>2
<1>5. Early \in {0, 1}
  BY DEF Early
<1>6. got[Encode] = given - sz[Encode] /\ (Lap \in valid => got[Lap] = given - sz[Lap])
  BY <1>1 DEF IInv, GotInv
<1> QED
  BY <1>1, <1>2, <1>3, <1>4, <1>5, <1>6 DEF CanPop

LEMMA InitInv == Init => IInv
<1> SUFFICES ASSUME Init PROVE IInv
  OBVIOUS
<1>1. /\ lag \in Nat /\ cbr \in BOOLEAN /\ MaxLap \in Nat /\ LapLag \in Nat
      /\ frmSize \in Sizes
  BY LagsAssumption, LapLagAssumption DEF Init
<1>2. NumLap \in Nat /\ (cbr => NumLap = 0)
  BY <1>1 DEF NumLap, num_lap_buffers, AtMost
<1>3. lag_in_frames \in Nat
  BY <1>1, <1>2 DEF lag_in_frames, NumLap
<1>4. /\ pop_sz[Encode] = AtLeast(1, lag_in_frames + NumLap)
      /\ pop_sz[Lap] = AtLeast(1, lag_in_frames)
  BY DEF pop_sz, NumLap, Encode, Lap, Stages
<1>5. PE \in Nat /\ PL \in Nat /\ PE >= 1 /\ PL >= 1 /\ max_sz = PE + 1
  BY <1>2, <1>3, <1>4 DEF PE, PL, AtLeast, max_sz, MAX_PRE_FRAMES
<1>6. TypeOK
  <2>1. /\ buf \in [0..max_sz - 1 -> 0..given] /\ bufSize \in [0..max_sz - 1 -> Sizes]
        /\ stats \in Seq(1..given) /\ hidden \subseteq 1..given /\ given \in Nat
    BY <1>1 DEF Init
  <2>2. /\ write_idx \in 0..max_sz - 1 /\ read_idx \in [Stages -> 0..max_sz - 1]
        /\ sz \in [Stages -> 0..pop_sz[Encode]] /\ got \in [Stages -> 0..given]
    <3>1. 0 \in 0..max_sz - 1 /\ 0 \in 0..pop_sz[Encode]
      BY <1>5 DEF PE
    <3> QED
      BY <3>1 DEF Init
  <2> QED
    BY <2>1, <2>2 DEF Init, TypeOK
<1>7. /\ sz[Encode] = 0 /\ sz[Lap] = 0 /\ given = 0 /\ got[Encode] = 0
      /\ got[Lap] = 0 /\ pc = "app" /\ visible = FALSE /\ filtered = FALSE
      /\ stats = <<>> /\ flush = FALSE /\ Encode \in Stages /\ Lap \in Stages
  BY DEF Init, Stages
<1>8. /\ Encode \in valid /\ valid \subseteq Stages /\ (Lap \in valid => NumLap > 0)
  BY DEF valid, NumLap, Stages, Encode, Lap
<1>9. \A s \in Stages : read_idx[s] = 0 /\ sz[s] = 0 /\ got[s] = 0
  BY DEF Init
<1>10. RingInv
  <2>1. Wrap(0 + 0) = 0
    BY <1>5 DEF Wrap
  <2> QED
    BY <2>1, <1>8, <1>9 DEF RingInv, Init
<1>11. FramesKept
  BY <1>5, <1>7, <1>8, <1>9 DEF FramesKept
<1>12. GotInv
  BY <1>7, <1>8, <1>9 DEF GotInv
<1>13. PaceInv
  <2>1. Ahead = 0 /\ Ahead <= NumLap /\ Ahead <= NumLap + 1
    BY <1>2, <1>7 DEF Ahead
  <2>2. 0 < PE /\ 0 <= 0 /\ 0 <= PL /\ 0 < PL
    BY <1>5
  <2>3. ~Coding /\ pc # "lap" /\ ~visible /\ pending = "none"
    BY <1>7 DEF Coding, Init
  <2> QED
    BY <2>1, <2>2, <2>3, <1>7 DEF PaceInv
<1>14. StatsInv
  <2>1. Ahead - Early = 0
    <3>1. Early = 0
      <4>1. ~filtered
        BY <1>7
      <4> QED
        BY <4>1 DEF Early
    <3>2. Ahead = 0
      BY <1>7 DEF Ahead
    <3> QED
      BY <3>1, <3>2
  <2>2. Len(stats) = 0
    <3>1. \A q \in Seq(1..0) : q = <<>> => Len(q) = 0
      BY EmptySeq
    <3>2. <<>> \in Seq(1..0) /\ stats = <<>>
      BY <1>7, EmptySeq
    <3> QED
      BY <3>1, <3>2
  <2>3. \A i \in 1..Len(stats) : FALSE
    BY <2>2
  <2> QED
    BY <2>1, <2>2, <2>3, <1>7 DEF StatsInv
<1> QED
  BY <1>6, <1>7, <1>10, <1>11, <1>12, <1>13, <1>14 DEF IInv, FlushInv, FilteredInv


LEMMA ConfigStep ==
  ASSUME IInv, NEW s \in Sizes, encoder_set_config(s)
  PROVE  IInv'
<1>1. /\ UNCHANGED <<config, ring, given, read_idx, sz, got>>
      /\ UNCHANGED <<stats, pc, flush, hidden, filtered, visible>>
      /\ UNCHANGED <<pending, room, cut>>
      /\ frmSize' = s
  BY DEF encoder_set_config, output
<1>2. RingInv' /\ FramesKept' /\ GotInv'
  BY <1>1, RingKept
<1>3. /\ max_sz' = max_sz /\ pop_sz' = pop_sz /\ valid' = valid
      /\ NumLap' = NumLap /\ PE' = PE /\ PL' = PL /\ cbr' = cbr /\ lag' = lag
  BY <1>1, Fixed
<1>4. TypeOK'
  BY <1>1, <1>3 DEF IInv, TypeOK, ring
<1>5. Coding' = Coding /\ Ahead' = Ahead /\ Early' = Early
  BY <1>1, <1>3 DEF Coding, CanPop, Ahead, Early
<1>6. PaceInv' /\ StatsInv'
  BY <1>1, <1>3, <1>5 DEF IInv, PaceInv, StatsInv
<1> QED
  BY <1>1, <1>2, <1>3, <1>4, <1>6 DEF IInv, FlushInv, FilteredInv

LEMMA SeqSubset ==
  ASSUME NEW S, NEW T, S \subseteq T, NEW q \in Seq(S)
  PROVE  q \in Seq(T)
OBVIOUS

(* What a call finds: it fails before the look-ahead pass, or goes on.      *)
LEMMA CalledFacts ==
  ASSUME IInv, NEW drain \in BOOLEAN, Called(drain)
  PROVE  /\ pc = "app" /\ flush' = drain /\ visible' = FALSE /\ room' \in BOOLEAN
         /\ UNCHANGED <<config, frmSize, stats, hidden, filtered, got>>
         /\ UNCHANGED <<pending, cut>>
         /\ pc' \in {"app", "lap", "encode"}
         /\ pc' = "app" => ~room'
         /\ pc' = "lap" => Lap \in valid
         /\ pc' = "encode" => Lap \notin valid
         /\ pending = "half" <=> pc' = "app"
<1>1. Lap \in valid <=> NumLap > 0
  BY ConfigFacts DEF IInv
<1>2. /\ room' = (pending # "half")
      /\ pc' = CASE ~room' -> "app"
                 [] room' /\ NumLap > 0 -> "lap"
                 [] OTHER -> "encode"
  BY DEF Called, NumLap
<1>3. CASE pending = "half"
  <2>1. ~room' /\ pc' = "app"
    BY <1>2, <1>3
  <2> QED
    BY <1>1, <1>3, <2>1 DEF Called
<1>4. CASE pending # "half"
  <2>1. room' = TRUE
    BY <1>2, <1>4
  <2>2. pc' = IF NumLap > 0 THEN "lap" ELSE "encode"
    BY <1>2, <2>1
  <2> QED
    BY <1>1, <1>4, <2>1, <2>2 DEF Called
<1> QED
  BY <1>3, <1>4

(* A call leaves the pace as it is when both readers gain the same.         *)
LEMMA CalledPace ==
  ASSUME IInv, NEW drain \in BOOLEAN, Called(drain), NEW n \in {0, 1},
         sz'[Encode] = sz[Encode] + n, Lap \in valid => sz'[Lap] = sz[Lap] + n
  PROVE  PaceInv' /\ StatsInv' /\ FlushInv' /\ (Lap \in valid => Ahead' = Ahead)
<1>1. /\ pc = "app" /\ ~visible' /\ UNCHANGED <<config, stats, got, filtered>>
      /\ UNCHANGED <<pending, cut>>
      /\ pc' = "app" => ~room'
      /\ pc' = "lap" => Lap \in valid
      /\ pc' = "encode" => Lap \notin valid
      /\ pending = "half" <=> pc' = "app"
      /\ pc' \in {"app", "lap", "encode"}
  BY CalledFacts
<1>2. /\ valid' = valid /\ NumLap' = NumLap /\ PE' = PE /\ PL' = PL
  BY <1>1, Fixed
<1>3. NumLap \in Nat /\ PE \in Nat /\ PL \in Nat
  BY ConfigFacts DEF IInv
<1>4. sz[Encode] \in 0..PE /\ sz[Lap] \in 0..PE
  BY Values
<1>5. ~Coding /\ (Lap \in valid => ~Coding')
  <2>1. ~Coding
    BY <1>1 DEF Coding
  <2>2. Coding' => pc' = "encode"
    BY DEF Coding
  <2> QED
    BY <2>1, <2>2, <1>1
<1>6. Lap \in valid => /\ sz[Lap] <= sz[Encode]
                       /\ pending # "half" => sz[Lap] < PL
                       /\ ~cut => Ahead <= NumLap
  BY <1>1, <1>5 DEF IInv, PaceInv
<1>7. Lap \in valid => Ahead' = Ahead /\ Ahead \in Int
  <2>1. \A e, l, k \in Int : e + k - (l + k) = e - l
    OBVIOUS
  <2> QED
    BY <2>1, <1>4 DEF Ahead
<1>8. Lap \in valid => /\ sz'[Lap] <= sz'[Encode]
                       /\ pc' = "lap" => sz'[Lap] <= PL
                       /\ ~cut => Ahead' <= NumLap + 1 /\ Ahead' <= NumLap
  <2>1. n \in Int
    OBVIOUS
  <2> QED
    BY <2>1, <1>1, <1>3, <1>4, <1>6, <1>7
<1>9. PaceInv'
  BY <1>1, <1>2, <1>5, <1>8 DEF PaceInv
<1>10. StatsInv'
  BY <1>1, <1>2, <1>7 DEF IInv, StatsInv, Early
<1>11. FlushInv'
  BY <1>1 DEF FlushInv
<1> QED
  BY <1>7, <1>9, <1>10, <1>11

(* A call that adds no frame: a flush, or an image that is refused.         *)
LEMMA CallWithoutFrame ==
  ASSUME IInv, NEW drain \in BOOLEAN, Called(drain),
         UNCHANGED <<given, ring, read_idx, sz>>
  PROVE  IInv'
<1>1. /\ flush' \in BOOLEAN /\ visible' = FALSE /\ room' \in BOOLEAN
      /\ pc' \in {"app", "lap", "encode"}
      /\ UNCHANGED <<config, ring, given, read_idx, sz, got>>
      /\ UNCHANGED <<frmSize, stats, hidden, filtered, pending, cut>>
  BY CalledFacts
<1>2. /\ max_sz' = max_sz /\ pop_sz' = pop_sz /\ valid' = valid
      /\ cbr' = cbr /\ lag' = lag
  BY <1>1, Fixed
<1>3. RingInv' /\ FramesKept' /\ GotInv'
  BY <1>1, RingKept
<1>4. TypeOK'
  BY <1>1, <1>2 DEF IInv, TypeOK, ring
<1>5. PaceInv' /\ StatsInv' /\ FlushInv'
  <2>1. sz[Encode] \in Int /\ sz[Lap] \in Int
    BY Values
  <2>2. sz'[Encode] = sz[Encode] + 0 /\ sz'[Lap] = sz[Lap] + 0
    BY <2>1, <1>1
  <2> QED
    BY <2>2, CalledPace
<1>6. FilteredInv'
  BY <1>1, <1>2 DEF IInv, FilteredInv
<1> QED
  BY <1>3, <1>4, <1>5, <1>6 DEF IInv

LEMMA FlushStep ==
  ASSUME IInv, Flush
  PROVE  IInv'
BY CallWithoutFrame DEF Flush

(* An image that the ring accepts.                                          *)
LEMMA AcceptStep ==
  ASSUME IInv, ~AllocFails, Push, ~Full
  PROVE  IInv' /\ given' = given + 1
<1>1. /\ Called(FALSE) /\ given' = given + 1 /\ av2_lookahead_push(given + 1)
      /\ read_idx' = read_idx
  BY DEF Push
<1>2. /\ flush' = FALSE /\ visible' = FALSE /\ room' \in BOOLEAN
      /\ pc' \in {"app", "lap", "encode"}
      /\ UNCHANGED <<config, frmSize, stats, hidden, filtered, got, pending, cut>>
  BY <1>1, CalledFacts
<1>3. /\ max_sz' = max_sz /\ pop_sz' = pop_sz /\ valid' = valid
      /\ cbr' = cbr /\ lag' = lag
  BY <1>2, Fixed
<1>4. /\ PE \in Nat /\ max_sz = PE + 1 /\ pop_sz[Encode] = PE
      /\ Encode \in valid /\ valid \subseteq Stages
  BY ConfigFacts DEF IInv
<1>5. /\ sz[Encode] < PE /\ sz[Encode] \in 0..PE /\ sz[Lap] \in 0..PE
      /\ Lap \in valid => sz[Lap] <= sz[Encode]
  <2>1. sz[Encode] \in 0..PE /\ sz[Lap] \in 0..PE
    BY Values
  <2>2. sz[Encode] < PE
    BY <2>1, <1>4 DEF Full, MAX_PRE_FRAMES
  <2> QED
    BY <2>1, <2>2 DEF IInv, PaceInv
<1>6. \A s \in valid : sz[s] <= sz[Encode]
  <2>1. \A s \in valid : s = Encode \/ s = Lap
    BY <1>4 DEF Stages
  <2> QED
    BY <2>1, <1>5
<1>7. /\ RingInv' /\ FramesKept' /\ GotInv'
      /\ buf' \in [0..max_sz - 1 -> 0..given'] /\ bufSize' \in [0..max_sz - 1 -> Sizes]
      /\ write_idx' \in 0..max_sz - 1
      /\ sz' \in [Stages -> 0..PE]
      /\ \A s \in valid : sz'[s] = sz[s] + 1
      /\ \A s \in Stages \ valid : sz'[s] = sz[s]
  BY <1>1, <1>2, <1>5, <1>6, PushKeeps
<1>8. sz'[Encode] = sz[Encode] + 1 /\ (Lap \in valid => sz'[Lap] = sz[Lap] + 1)
  BY <1>4, <1>7
<1>9. TypeOK'
  <2>1. given' \in Nat /\ given \in Nat /\ \A i \in 0..given : i \in 0..given'
    BY <1>1 DEF IInv, TypeOK
  <2>2. /\ stats \in Seq(1..given) /\ hidden \subseteq 1..given
        /\ got \in [Stages -> 0..given]
    BY DEF IInv, TypeOK
  <2>3. 1..given \subseteq 1..given' /\ 0..given \subseteq 0..given'
    BY <2>1, <1>1
  <2>4. /\ stats' \in Seq(1..given') /\ hidden' \subseteq 1..given'
        /\ got' \in [Stages -> 0..given']
    <3>1. stats \in Seq(1..given')
      BY <2>2, <2>3, SeqSubset
    <3>2. \A s \in Stages : got[s] \in 0..given'
      BY <2>2, <2>3
    <3>3. got \in [Stages -> 0..given']
      BY <2>2, <3>2
    <3> QED
      BY <2>2, <2>3, <3>1, <3>3, <1>2
  <2>5. /\ lag' \in Lags /\ cbr' \in BOOLEAN /\ frmSize' \in Sizes
        /\ read_idx' \in [Stages -> 0..max_sz - 1] /\ filtered' \in BOOLEAN
        /\ pending' \in {"none", "some", "half"} /\ cut' \in BOOLEAN
    BY <1>1, <1>2, <1>3 DEF IInv, TypeOK
  <2> QED
    BY <2>1, <2>4, <2>5, <1>2, <1>3, <1>4, <1>7 DEF TypeOK
<1>10. PaceInv' /\ StatsInv' /\ FlushInv'
  BY <1>1, <1>8, CalledPace
<1>11. FilteredInv'
  BY <1>2, <1>3, <1>5, <1>8 DEF IInv, FilteredInv
<1> QED
  BY <1>1, <1>7, <1>9, <1>10, <1>11 DEF IInv

LEMMA PushStep ==
  ASSUME IInv, ~AllocFails, Push
  PROVE  IInv'
<1>1. CASE ~Full
  BY <1>1, AcceptStep
<1>2. CASE Full
  BY <1>2, CallWithoutFrame DEF Push
<1> QED
  BY <1>1, <1>2

LEMMA LapStep ==
  ASSUME IInv, LapStage
  PROVE  IInv'
<1>1. /\ pc = "lap" /\ pc' = "encode"
      /\ UNCHANGED <<config, ring, given>>
      /\ UNCHANGED <<frmSize, flush, hidden, filtered, visible>>
      /\ UNCHANGED <<pending, room, cut>>
  BY DEF LapStage, output
<1>2. /\ max_sz' = max_sz /\ pop_sz' = pop_sz /\ valid' = valid
      /\ NumLap' = NumLap /\ PE' = PE /\ PL' = PL /\ cbr' = cbr /\ lag' = lag
  BY <1>1, Fixed
<1>3. /\ NumLap \in Nat /\ NumLap > 0 /\ PE \in Nat /\ PL \in Nat /\ PL >= 1
      /\ PL <= PE /\ PE - PL <= NumLap /\ pop_sz[Encode] = PE /\ pop_sz[Lap] = PL
      /\ Lap \in valid
  BY <1>1, ConfigFacts DEF IInv, PaceInv
<1>4. /\ sz[Encode] \in 0..PE /\ sz[Lap] \in 0..PE /\ given \in Nat
      /\ got[Encode] \in 0..given /\ stats \in Seq(1..given) /\ Early \in {0, 1}
      /\ got[Encode] = given - sz[Encode] /\ got[Lap] = given - sz[Lap]
      /\ CanPop(Encode) <=> sz[Encode] > 0 /\ (flush \/ sz[Encode] = PE)
      /\ CanPop(Lap) <=> sz[Lap] > 0 /\ (flush \/ sz[Lap] = PL)
  BY <1>3, Values
<1>5. /\ ~visible /\ sz[Lap] <= sz[Encode] /\ sz[Lap] <= PL /\ pending # "half"
      /\ ~cut => Ahead <= NumLap
      /\ Len(stats) = Ahead - Early
      /\ \A i \in 1..Len(stats) : stats[i] = got[Encode] + Early + i
  BY <1>1, <1>3 DEF IInv, PaceInv, StatsInv, Coding
<1>6. filtered => sz[Encode] > 0 /\ sz[Lap] < sz[Encode]
  BY <1>3 DEF IInv, FilteredInv
<1>7. Early' = Early
  BY <1>1 DEF Early
<1>8. CASE CanPop(Lap)
  <2>1. av2_lookahead_pop(Lap) /\ stats' = Append(stats, got'[Lap])
    BY <1>8 DEF LapStage
  <2>2. /\ RingInv' /\ FramesKept'
        /\ got' \in [Stages -> 0..given] /\ sz' \in [Stages -> 0..PE]
        /\ read_idx' \in [Stages -> 0..max_sz - 1]
        /\ got'[Lap] = given - sz[Lap] + 1 /\ got'[Lap] \in 1..given
        /\ sz'[Lap] = sz[Lap] - 1
        /\ \A r \in Stages \ {Lap} : got'[r] = got[r] /\ sz'[r] = sz[r]
    BY <2>1, <1>1, <1>3, <1>4, <1>8, PopKeeps
  <2>3. sz'[Encode] = sz[Encode] /\ got'[Encode] = got[Encode]
    BY <2>2 DEF Stages, Encode, Lap
  <2>4. Ahead' = Ahead + 1
    <3>1. sz'[Lap] = sz[Lap] - 1 /\ sz'[Encode] = sz[Encode]
      BY <2>2, <2>3
    <3>2. sz[Lap] \in Int /\ sz[Encode] \in Int
      BY <1>3, <1>4
    <3> QED
      BY <3>1, <3>2 DEF Ahead
  <2>5. /\ stats' \in Seq(1..given) /\ Len(stats') = Len(stats) + 1
        /\ stats'[Len(stats) + 1] = got'[Lap]
        /\ \A i \in 1..Len(stats) : stats'[i] = stats[i]
    BY <2>1, <2>2, <1>4
  <2>6. TypeOK'
    BY <2>2, <2>5, <1>1, <1>2, <1>3 DEF IInv, TypeOK, ring
  <2>7. GotInv'
    <3>1. \A s \in valid : got'[s] = given - sz'[s]
      <4> TAKE s \in valid
      <4>1. CASE s = Lap
        BY <4>1, <2>2, <1>4
      <4>2. CASE s # Lap
        <5>1. s = Encode
          BY <4>2, ConfigFacts DEF IInv, Stages
        <5> QED
          BY <5>1, <2>3, <1>4
      <4> QED
        BY <4>1, <4>2
    <3>2. \A s \in Stages \ valid : got'[s] = 0 /\ sz'[s] = 0
      BY <2>2, <1>3 DEF IInv, GotInv
    <3> QED
      BY <3>1, <3>2, <1>1, <1>2 DEF GotInv
  <2>8. StatsInv'
    <3>1. Len(stats') = Ahead' - Early
      BY <2>4, <2>5, <1>4, <1>5 DEF Ahead
    <3>2. \A i \in 1..Len(stats') : stats'[i] = got'[Encode] + Early + i
      <4> TAKE i \in 1..Len(stats')
      <4>1. CASE i \in 1..Len(stats)
        BY <4>1, <2>3, <2>5, <1>5
      <4>2. CASE i = Len(stats) + 1
        <5>1. got'[Lap] = got[Encode] + Early + (Len(stats) + 1)
          <6>1. Len(stats) = sz[Encode] - sz[Lap] - Early
            BY <1>5 DEF Ahead
          <6>2. /\ got'[Lap] = given - sz[Lap] + 1
                /\ got[Encode] = given - sz[Encode]
            BY <2>2, <1>4
          <6>3. \A g, e, l, x \in Int :
                  g - l + 1 = g - e + x + (e - l - x + 1)
            OBVIOUS
          <6>4. /\ given \in Int /\ sz[Encode] \in Int /\ sz[Lap] \in Int
                /\ Early \in Int
            BY <1>4
          <6>5. given - sz[Lap] + 1 =
                  given - sz[Encode] + Early + (sz[Encode] - sz[Lap] - Early + 1)
            BY <6>3, <6>4
          <6>6. got[Encode] + Early + (Len(stats) + 1) =
                  given - sz[Encode] + Early + (sz[Encode] - sz[Lap] - Early + 1)
            BY <6>1, <6>2
          <6> QED
            BY <6>2, <6>5, <6>6
        <5> QED
          BY <5>1, <4>2, <2>3, <2>5
      <4>3. Len(stats) \in Nat
        BY <1>4
      <4> QED
        BY <4>1, <4>2, <4>3, <2>5
    <3> QED
      BY <3>1, <3>2, <1>2, <1>3, <1>7 DEF StatsInv
  <2>9. PaceInv'
    <3>1. sz'[Lap] < sz'[Encode] /\ sz'[Lap] <= PL /\ sz'[Lap] < PL
          /\ sz'[Lap] <= sz'[Encode] /\ (~cut => Ahead' <= NumLap + 1)
      <4>1. sz[Lap] \in Int /\ sz[Encode] \in Int /\ NumLap \in Int /\ PL \in Int
        BY <1>3, <1>4
      <4>2. /\ sz'[Lap] = sz[Lap] - 1 /\ sz'[Encode] = sz[Encode]
            /\ Ahead' = Ahead + 1
        BY <2>2, <2>3, <2>4
      <4>3. sz[Lap] <= sz[Encode] /\ sz[Lap] <= PL /\ (~cut => Ahead <= NumLap)
        BY <1>5
      <4>4. Ahead \in Int
        BY <4>1 DEF Ahead
      <4> QED
        BY <4>1, <4>2, <4>3, <4>4
    <3>2. ASSUME ~Coding' PROVE Ahead' <= NumLap
      <4>1. ~(sz[Encode] > 0 /\ (flush \/ sz[Encode] = PE))
        BY <3>2, <2>3, <1>1, <1>2, <1>3, <1>5 DEF Coding, CanPop
      <4>2. ~flush /\ sz[Encode] # PE /\ sz[Lap] = PL
        BY <4>1, <1>4, <1>5, <1>8
      <4> QED
        BY <4>2, <2>4, <1>3, <1>4 DEF Ahead
    <3> QED
      BY <3>1, <3>2, <1>1, <1>2, <1>5 DEF PaceInv
  <2>10. FilteredInv' /\ FlushInv'
    BY <2>2, <2>3, <1>1, <1>2, <1>4, <1>6 DEF FilteredInv, FlushInv
  <2> QED
    BY <2>2, <2>6, <2>7, <2>8, <2>9, <2>10 DEF IInv
<1>9. CASE ~CanPop(Lap)
  <2>1. UNCHANGED <<got, read_idx, sz, stats>>
    BY <1>9 DEF LapStage
  <2>2. RingInv' /\ FramesKept' /\ GotInv'
    BY <2>1, <1>1, RingKept
  <2>3. TypeOK'
    BY <2>1, <1>1, <1>2 DEF IInv, TypeOK, ring
  <2>4. PaceInv'
    <3>1. sz[Lap] < PL
      BY <1>9, <1>3, <1>4, <1>5
    <3>2. ASSUME Coding' PROVE sz[Lap] < sz[Encode]
      <4>1. sz[Encode] > 0 /\ (flush \/ sz[Encode] = PE)
        BY <3>2, <2>1, <1>1, <1>2, <1>3 DEF Coding, CanPop
      <4> QED
        BY <4>1, <3>1, <1>9, <1>3, <1>4
    <3>3. Ahead' = Ahead
      BY <2>1 DEF Ahead
    <3>4. sz[Lap] \in Int /\ sz[Encode] \in Int /\ NumLap \in Int
      BY <1>3, <1>4
    <3>5. Ahead \in Int
      BY <3>4 DEF Ahead
    <3>6. ~cut => Ahead <= NumLap /\ Ahead <= NumLap + 1
      BY <3>4, <3>5, <1>5
    <3> QED
      BY <3>1, <3>2, <3>3, <3>6, <2>1, <1>1, <1>2, <1>3, <1>4, <1>5 DEF PaceInv
  <2>5. StatsInv' /\ FilteredInv' /\ FlushInv'
    BY <2>1, <1>1, <1>2, <1>7 DEF IInv, StatsInv, FilteredInv, FlushInv, Ahead
  <2> QED
    BY <2>2, <2>3, <2>4, <2>5 DEF IInv
<1> QED
  BY <1>8, <1>9

(* A frame that is not shown changes the room, and the pace not at all.     *)
LEMMA PendsPace ==
  ASSUME IInv, Encodes, Pends, UNCHANGED <<config, sz, pc, flush, visible, cut>>
  PROVE  /\ PaceInv' /\ FlushInv'
         /\ pending' \in {"none", "some", "half"} /\ room' \in BOOLEAN
<1>1. /\ pc = "encode" /\ pc' = pc /\ ~visible /\ ~visible' /\ room /\ sz' = sz
      /\ pending # "half" /\ pending' \in {"some", "half"} /\ room' \in BOOLEAN
      /\ pending' = "half" => ~room'
      /\ cut' = cut
  BY DEF Encodes, Pends, IInv, PaceInv
<1>2. /\ pop_sz' = pop_sz /\ valid' = valid
      /\ NumLap' = NumLap /\ PE' = PE /\ PL' = PL
  BY Fixed
<1>3. Coding' = Coding /\ Ahead' = Ahead
  BY <1>1, <1>2 DEF Coding, CanPop, Ahead
<1>4. PaceInv'
  BY <1>1, <1>2, <1>3 DEF IInv, PaceInv
<1> QED
  BY <1>1, <1>4 DEF FlushInv

(* Hidden frames and the return leave the ring alone.                       *)
LEMMA QuietStep ==
  ASSUME IInv, (\E k \in 1..sz[Encode] - 1 : CodeHidden(k)) \/ Return
  PROVE  IInv'
<1>1. /\ UNCHANGED <<config, ring, given, read_idx, sz, got>>
      /\ UNCHANGED <<frmSize, stats, flush, filtered, visible>>
      /\ pc = "encode"
  BY DEF CodeHidden, Return, Kept, Encodes
<1>2. /\ max_sz' = max_sz /\ pop_sz' = pop_sz /\ valid' = valid
      /\ NumLap' = NumLap /\ PE' = PE /\ PL' = PL /\ cbr' = cbr /\ lag' = lag
  BY <1>1, Fixed
<1>3. RingInv' /\ FramesKept' /\ GotInv'
  BY <1>1, RingKept
<1>4. Ahead' = Ahead /\ Early' = Early /\ CanPop(Encode)' = CanPop(Encode)
  BY <1>1, <1>2 DEF Ahead, Early, CanPop
<1>5. StatsInv' /\ FilteredInv'
  BY <1>1, <1>2, <1>4 DEF IInv, StatsInv, FilteredInv
<1>6. CASE \E k \in 1..sz[Encode] - 1 : CodeHidden(k)
  <2>1. PICK k \in 1..sz[Encode] - 1 : CodeHidden(k)
    BY <1>6
  <2>2. /\ hidden' = hidden \union {Peek(k, Encode)} /\ pc' = pc /\ cut' = cut
        /\ Encodes /\ Pends
    BY <2>1 DEF CodeHidden, Kept
  <2>3. Peek(k, Encode) \in 1..given
    <3>1. /\ max_sz = PE + 1 /\ PE \in Nat /\ Encode \in valid
          /\ sz[Encode] \in 0..PE /\ given \in Nat /\ got[Encode] = given - sz[Encode]
          /\ got[Encode] \in 0..given
      BY ConfigFacts, Values DEF IInv
    <3>2. k \in -1..max_sz - 2 /\ k < sz[Encode] /\ given - sz[Encode] + k + 1 > 0
          /\ given - sz[Encode] + k + 1 \in 1..given
      BY <3>1
    <3> QED
      BY <3>1, <3>2 DEF IInv, FramesKept
  <2>4. /\ PaceInv' /\ FlushInv'
        /\ pending' \in {"none", "some", "half"} /\ room' \in BOOLEAN
    BY <2>2, <1>1, PendsPace
  <2>5. TypeOK'
    BY <2>2, <2>3, <2>4, <1>1, <1>2 DEF IInv, TypeOK, ring
  <2> QED
    BY <2>4, <2>5, <1>3, <1>5 DEF IInv
<1>7. CASE Return
  <2>1. /\ pc' = "app" /\ hidden' = hidden /\ (visible \/ ~room \/ ~CanPop(Encode))
        /\ UNCHANGED <<pending, room>> /\ cut' = (cut \/ ~(visible \/ room))
    BY <1>7 DEF Return
  <2>2. ~Coding' /\ (~cut' => ~cut /\ ~Coding)
    BY <2>1 DEF Coding
  <2>3. TypeOK'
    BY <2>1, <1>1, <1>2 DEF IInv, TypeOK, ring
  <2>4. /\ PE \in Nat /\ PE >= 1 /\ sz[Encode] \in 0..PE
        /\ CanPop(Encode) <=> sz[Encode] > 0 /\ (flush \/ sz[Encode] = PE)
    BY ConfigFacts, Values DEF IInv
  <2>5. visible \/ room => sz[Encode] < PE
    BY <2>1, <2>4 DEF IInv, PaceInv
  <2>6. PaceInv'
    BY <2>1, <2>2, <2>5, <1>1, <1>2, <1>4 DEF IInv, PaceInv
  <2>7. FlushInv'
    BY <2>1, <2>4, <1>1 DEF FlushInv
  <2> QED
    BY <2>3, <2>6, <2>7, <1>3, <1>5 DEF IInv
<1> QED
  BY <1>6, <1>7

(* Reading the first statistics: those of the frame being coded.            *)
LEMMA ReadOne ==
  ASSUME IInv, Encodes, ~filtered, ReadStats, Lap \in valid
  PROVE  /\ stats # <<>> /\ stats' \in Seq(1..given)
         /\ Len(stats') = Ahead - 1
         /\ \A i \in 1..Len(stats') : stats'[i] = got[Encode] + 1 + i
<1>1. /\ Len(stats) = Ahead - Early /\ Early = 0
      /\ \A i \in 1..Len(stats) : stats[i] = got[Encode] + Early + i
  BY DEF IInv, StatsInv, Early
<1>2. /\ sz[Lap] < sz[Encode] /\ sz[Encode] \in Nat /\ sz[Lap] \in Nat
      /\ stats \in Seq(1..given) /\ got[Encode] \in Nat
  BY ConfigFacts, Values DEF IInv, PaceInv, Encodes, Coding
<1>3. Len(stats) >= 1 /\ Len(stats) = Ahead /\ Ahead \in Nat
  BY <1>1, <1>2 DEF Ahead
<1>4. stats # <<>>
  BY <1>2, <1>3, EmptySeq
<1>5. stats' = Tail(stats)
  BY <1>4 DEF ReadStats
<1>6. /\ stats' \in Seq(1..given) /\ Len(stats') = Len(stats) - 1
      /\ \A i \in 1..Len(stats') : stats'[i] = stats[i + 1]
  BY <1>2, <1>4, <1>5, HeadTailProperties
<1>7. \A i \in 1..Len(stats') : stats'[i] = got[Encode] + 1 + i
  <2> TAKE i \in 1..Len(stats')
  <2>1. i + 1 \in 1..Len(stats) /\ i \in Nat
    BY <1>2, <1>3, <1>6
  <2>2. stats[i + 1] = got[Encode] + 0 + (i + 1)
    BY <2>1, <1>1
  <2>3. \A g \in Nat : g + 0 + (i + 1) = g + 1 + i
    BY <2>1
  <2>4. stats'[i] = stats[i + 1]
    BY <1>6
  <2> QED
    BY <2>2, <2>3, <2>4, <1>2
<1> QED
  BY <1>3, <1>4, <1>6, <1>7

LEMMA FilteredStep ==
  ASSUME IInv, CodeFiltered
  PROVE  IInv'
<1>1. /\ UNCHANGED <<config, ring, given, read_idx, sz, got>>
      /\ UNCHANGED <<frmSize, pc, flush, hidden, visible>>
      /\ Encodes /\ ~filtered /\ filtered' = TRUE /\ ReadStats
      /\ Pends /\ cut' = cut
  BY DEF CodeFiltered, Kept
<1>2. /\ max_sz' = max_sz /\ pop_sz' = pop_sz /\ valid' = valid
      /\ NumLap' = NumLap /\ PE' = PE /\ PL' = PL /\ cbr' = cbr /\ lag' = lag
  BY <1>1, Fixed
<1>3. RingInv' /\ FramesKept' /\ GotInv'
  BY <1>1, RingKept
<1>4. Ahead' = Ahead /\ Early' = 1
  BY <1>1, <1>2 DEF Ahead, Early
<1>5. Lap \notin valid => stats' = <<>>
  BY <1>1 DEF ReadStats, IInv, StatsInv
<1>6. Lap \in valid => /\ stats' \in Seq(1..given) /\ Len(stats') = Ahead - 1
                       /\ \A i \in 1..Len(stats') : stats'[i] = got[Encode] + 1 + i
  BY <1>1, ReadOne
<1>7. stats' \in Seq(1..given)
  BY <1>5, <1>6, EmptySeq
<1>8. /\ PaceInv' /\ FlushInv'
      /\ pending' \in {"none", "some", "half"} /\ room' \in BOOLEAN
  BY <1>1, PendsPace
<1>9. StatsInv'
  BY <1>1, <1>2, <1>4, <1>5, <1>6 DEF StatsInv
<1>10. TypeOK'
  BY <1>1, <1>2, <1>7, <1>8 DEF IInv, TypeOK, ring
<1>11. FilteredInv'
  <2>1. sz[Encode] > 0 /\ (Lap \in valid => sz[Lap] < sz[Encode])
    BY <1>1 DEF Encodes, Coding, CanPop, IInv, PaceInv
  <2> QED
    BY <2>1, <1>1, <1>2 DEF FilteredInv
<1> QED
  BY <1>3, <1>8, <1>9, <1>10, <1>11 DEF IInv

(* A frame leaves the ring: coded and shown, or dropped.                    *)
LEMMA PoppedStep ==
  ASSUME IInv, CodeShown \/ Drop
  PROVE  IInv'
<1>1. /\ UNCHANGED <<config, ring, given, frmSize, pc, flush>>
      /\ Encodes /\ CanPop(Encode) /\ av2_lookahead_pop(Encode)
      /\ hidden' = hidden \ {got'[Encode]} /\ cut' = cut
      /\ room /\ room' = room /\ pending' \in {pending, "none"}
  BY DEF CodeShown, Drop, Kept, Encodes
<1>2. /\ max_sz' = max_sz /\ pop_sz' = pop_sz /\ valid' = valid
      /\ NumLap' = NumLap /\ PE' = PE /\ PL' = PL /\ cbr' = cbr /\ lag' = lag
  BY <1>1, Fixed
<1>3. /\ NumLap \in Nat /\ PE \in Nat /\ PL \in Nat /\ PE >= 1
      /\ Encode \in valid /\ valid \subseteq Stages /\ pop_sz[Encode] = PE
      /\ (cbr => Lap \notin valid)
  BY ConfigFacts DEF IInv
<1>4. /\ sz[Encode] \in 0..PE /\ sz[Lap] \in 0..PE /\ given \in Nat
      /\ got[Encode] \in 0..given /\ got[Encode] = given - sz[Encode]
      /\ sz[Encode] > 0
  BY <1>1, Values DEF CanPop
<1>5. /\ RingInv' /\ FramesKept'
      /\ got' \in [Stages -> 0..given] /\ sz' \in [Stages -> 0..PE]
      /\ read_idx' \in [Stages -> 0..max_sz - 1]
      /\ got'[Encode] = given - sz[Encode] + 1
      /\ got'[Encode] = got[Encode] + 1
      /\ sz'[Encode] = sz[Encode] - 1
      /\ \A r \in Stages \ {Encode} : got'[r] = got[r] /\ sz'[r] = sz[r]
  BY <1>1, <1>3, <1>4, PopKeeps
<1>6. sz'[Lap] = sz[Lap] /\ got'[Lap] = got[Lap]
  BY <1>5 DEF Stages, Encode, Lap
<1>7. Ahead' = Ahead - 1
  BY <1>4, <1>5, <1>6 DEF Ahead
<1>8. GotInv'
  <2>1. \A s \in valid : got'[s] = given - sz'[s]
    <3> TAKE s \in valid
    <3>1. CASE s = Encode
      BY <3>1, <1>4, <1>5
    <3>2. CASE s # Encode
      <4>1. s = Lap
        BY <3>2, <1>3 DEF Stages
      <4> QED
        BY <4>1, <1>6, Values
    <3> QED
      BY <3>1, <3>2
  <2>2. \A s \in Stages \ valid : got'[s] = 0 /\ sz'[s] = 0
    BY <1>3, <1>5 DEF IInv, GotInv
  <2> QED
    BY <2>1, <2>2, <1>1, <1>2 DEF GotInv
<1>9. /\ pending # "half"
      /\ Lap \in valid => /\ sz[Lap] < sz[Encode] /\ (~cut => Ahead <= NumLap + 1)
                          /\ sz[Lap] <= PL /\ sz[Lap] < PL
  BY <1>1 DEF IInv, PaceInv, Encodes, Coding
<1>10. PaceInv'
  <2>1. sz'[Encode] < PE
    BY <1>3, <1>4, <1>5
  <2>2. pc' = "encode"
    BY <1>1 DEF Encodes
  <2>3. Lap \in valid => /\ ~cbr /\ sz'[Lap] <= sz'[Encode] /\ sz'[Lap] < PL
                         /\ sz'[Lap] <= PL
                         /\ ~cut => Ahead' <= NumLap /\ Ahead' <= NumLap + 1
    <3>1. Ahead \in Int
      BY <1>4 DEF Ahead
    <3> QED
      BY <3>1, <1>3, <1>4, <1>5, <1>6, <1>7, <1>9
  <2>4. Lap \in valid => ~Coding'
    <3>1. Lap \in valid => CodeShown
      BY <2>3 DEF Drop
    <3>2. CodeShown => visible'
      BY DEF CodeShown
    <3> QED
      BY <3>1, <3>2 DEF Coding
  <2> QED
    BY <2>1, <2>2, <2>3, <2>4, <1>1, <1>2, <1>9 DEF PaceInv
<1>11. hidden' \subseteq 1..given /\ visible' \in BOOLEAN /\ filtered' = FALSE
  BY <1>1 DEF IInv, TypeOK, CodeShown, Drop
<1>12. /\ stats' \in Seq(1..given) /\ StatsInv'
  <2>1. Early' = 0
    <3>1. ~filtered'
      BY <1>11
    <3> QED
      BY <3>1 DEF Early
  <2>2. CASE Lap \notin valid
    <3>1. stats = <<>>
      BY <2>2 DEF IInv, StatsInv
    <3>2. stats' = <<>>
      BY <3>1 DEF CodeShown, Drop, ReadStats
    <3> QED
      BY <2>2, <3>2, <1>2, EmptySeq DEF StatsInv
  <2>3. CASE Lap \in valid /\ filtered
    <3>1. stats' = stats
      BY <2>3, <1>3 DEF CodeShown, Drop, ReadStats
    <3>2. /\ stats \in Seq(1..given) /\ Len(stats) = Ahead - 1
          /\ \A i \in 1..Len(stats) : stats[i] = got[Encode] + 1 + i
      BY <2>3, Values DEF IInv, StatsInv, Early
    <3>3. Len(stats') = Ahead' - Early'
      <4>1. Ahead \in Int
        BY <1>4 DEF Ahead
      <4> QED
        BY <4>1, <3>1, <3>2, <2>1, <1>7
    <3>4. \A i \in 1..Len(stats') : stats'[i] = got'[Encode] + Early' + i
      BY <3>1, <3>2, <2>1, <1>4, <1>5
    <3> QED
      BY <3>1, <3>2, <3>3, <3>4, <2>3, <1>2 DEF StatsInv
  <2>4. CASE Lap \in valid /\ ~filtered
    <3>1. ReadStats
      BY <2>4, <1>3 DEF CodeShown, Drop
    <3>2. /\ stats' \in Seq(1..given) /\ Len(stats') = Ahead - 1
          /\ \A i \in 1..Len(stats') : stats'[i] = got[Encode] + 1 + i
      BY <2>4, <3>1, <1>1, ReadOne
    <3>3. Len(stats') = Ahead' - Early'
      <4>1. Ahead \in Int
        BY <1>4 DEF Ahead
      <4> QED
        BY <4>1, <3>2, <2>1, <1>7
    <3>4. \A i \in 1..Len(stats') : stats'[i] = got'[Encode] + Early' + i
      BY <3>2, <2>1, <1>4, <1>5
    <3> QED
      BY <3>2, <3>3, <3>4, <2>4, <1>2 DEF StatsInv
  <2> QED
    BY <2>2, <2>3, <2>4
<1>13. TypeOK'
  BY <1>1, <1>2, <1>3, <1>5, <1>11, <1>12 DEF IInv, TypeOK, ring
<1>14. FlushInv' /\ FilteredInv'
  BY <1>1, <1>11 DEF FlushInv, FilteredInv, Encodes
<1> QED
  BY <1>5, <1>8, <1>10, <1>12, <1>13, <1>14 DEF IInv

LEMMA NextInv ==
  ASSUME ~AllocFails, IInv, [Next]_vars
  PROVE  IInv'
<1>1. CASE \E s \in Sizes : encoder_set_config(s)
  BY <1>1, ConfigStep
<1>2. CASE Push
  BY <1>2, PushStep
<1>3. CASE Flush
  BY <1>3, FlushStep
<1>4. CASE LapStage
  BY <1>4, LapStep
<1>5. CASE (\E k \in 1..sz[Encode] - 1 : CodeHidden(k)) \/ Return
  BY <1>5, QuietStep
<1>6. CASE CodeFiltered
  BY <1>6, FilteredStep
<1>7. CASE CodeShown \/ Drop
  BY <1>7, PoppedStep
<1>8. CASE UNCHANGED vars
  <2>1. /\ UNCHANGED <<config, ring, given, read_idx, sz, got>>
        /\ UNCHANGED <<frmSize, stats, pc, flush, hidden, filtered, visible>>
        /\ UNCHANGED <<pending, room, cut>>
    BY <1>8 DEF vars, output
  <2>2. /\ max_sz' = max_sz /\ pop_sz' = pop_sz /\ valid' = valid
        /\ NumLap' = NumLap /\ PE' = PE /\ PL' = PL /\ cbr' = cbr /\ lag' = lag
    BY <2>1, Fixed
  <2>3. RingInv' /\ FramesKept' /\ GotInv'
    BY <2>1, RingKept
  <2>4. TypeOK'
    BY <2>1, <2>2 DEF IInv, TypeOK, ring
  <2>5. Coding' = Coding /\ Ahead' = Ahead /\ Early' = Early
    BY <2>1, <2>2 DEF Coding, CanPop, Ahead, Early
  <2>6. PaceInv' /\ StatsInv' /\ FlushInv' /\ FilteredInv'
    BY <2>1, <2>2, <2>5 DEF IInv, PaceInv, StatsInv, FlushInv, FilteredInv
  <2> QED
    BY <2>3, <2>4, <2>6 DEF IInv
<1> QED
  BY <1>1, <1>2, <1>3, <1>4, <1>5, <1>6, <1>7, <1>8 DEF Next, EncodeStage

LEMMA Invariance == ASSUME ~AllocFails PROVE Spec => []IInv
<1>1. IInv /\ [Next]_vars => IInv'
  BY NextInv
<1> QED
  BY <1>1, InitInv, PTL DEF Spec

-----------------------------------------------------------------------------
(* The theorems.                                                            *)

(* Type correctness: the indices stay in the ring and the counts within its *)
(* size, for every lag.                                                     *)
THEOREM TypeCorrect == ASSUME ~AllocFails PROVE Spec => []TypeOK
<1>1. IInv => TypeOK
  BY DEF IInv
<1> QED
  BY <1>1, Invariance, PTL

(* A push overwrites neither a frame that still waits for a reader nor the  *)
(* frame before it, so that every peek of the encoder finds its frame; and  *)
(* no image is refused unless the last call failed or was cut short.        *)
THEOREM FramesInOrder == ASSUME ~AllocFails PROVE Spec => []PeeksInOrder
<1>1. ASSUME IInv PROVE PeeksInOrder
  <2>1. FramesKept
    BY <1>1 DEF IInv
  <2>2. ASSUME pc = "app", room PROVE ~Full
    <3>1. sz[Encode] < PE /\ max_sz = PE + 1 /\ PE \in Nat /\ sz[Encode] \in 0..PE
      BY <1>1, <2>2, ConfigFacts, Values DEF IInv, PaceInv
    <3> QED
      BY <3>1 DEF Full, MAX_PRE_FRAMES
  <2> QED
    BY <2>1, <2>2 DEF PeeksInOrder
<1> QED
  BY <1>1, Invariance, PTL

(* The statistics the encoder reads are those of the frame it codes, and    *)
(* they fit the array that is filled without a check as long as no call is  *)
(* cut short for want of room in the output buffer.                         *)
THEOREM StatsOfTheFrame == ASSUME ~AllocFails PROVE Spec => []StatsMatch
<1>1. ASSUME IInv PROVE StatsMatch
  <2> SUFFICES ASSUME NumLap > 0
               PROVE  /\ ~cut => Len(stats) <= get_stats_buf_size
                      /\ \A i \in 1..Len(stats) :
                           stats[i] = got[Encode] + (IF filtered THEN 2 ELSE 1) + i - 1
                      /\ pc = "encode" /\ CanPop(Encode) /\ ~filtered /\ ~visible
                           => stats # <<>>
    BY DEF StatsMatch, NumLap
  <2>1. /\ Lap \in valid /\ NumLap \in Nat
        /\ sz[Lap] \in Nat /\ sz[Encode] \in Nat /\ got[Encode] \in Nat
        /\ Early \in {0, 1}
    BY <1>1, ConfigFacts, Values DEF IInv
  <2>2. /\ ~cut => Ahead <= NumLap + 1
        /\ Len(stats) = Ahead - Early /\ Ahead \in Int
        /\ \A i \in 1..Len(stats) : stats[i] = got[Encode] + Early + i
        /\ Coding => sz[Lap] < sz[Encode]
    BY <1>1, <2>1 DEF IInv, PaceInv, StatsInv, Ahead
  <2>3. ~cut => Len(stats) <= get_stats_buf_size
    BY <2>1, <2>2 DEF get_stats_buf_size, NumLap
  <2>4. \A i \in 1..Len(stats) :
          stats[i] = got[Encode] + (IF filtered THEN 2 ELSE 1) + i - 1
    <3> TAKE i \in 1..Len(stats)
    <3>1. stats[i] = got[Encode] + Early + i
      BY <2>2
    <3>2. CASE filtered
      <4>1. Early = 1
        BY <3>2 DEF Early
      <4> QED
        BY <3>1, <3>2, <4>1, <2>1
    <3>3. CASE ~filtered
      <4>1. Early = 0
        BY <3>3 DEF Early
      <4> QED
        BY <3>1, <3>3, <4>1, <2>1
    <3> QED
      BY <3>2, <3>3
  <2>5. ASSUME Coding, ~filtered PROVE stats # <<>>
    <3>1. Early = 0
      BY <2>5 DEF Early
    <3>2. Len(stats) > 0
      BY <2>1, <2>2, <2>5, <3>1 DEF Ahead
    <3> QED
      BY <3>2, EmptySeq
  <2> QED
    BY <2>3, <2>4, <2>5 DEF Coding
<1> QED
  BY <1>1, Invariance, PTL

(* A call to flush without a packet means that every frame accepted has     *)
(* been taken by every reader, unless the call failed or its loop ended for *)
(* want of room in the output buffer.                                       *)
THEOREM FlushIsComplete == ASSUME ~AllocFails PROVE Spec => []FlushMeansDone
<1>1. ASSUME IInv PROVE FlushMeansDone
  <2> SUFFICES ASSUME pc = "app", flush, ~visible, room, NEW s \in valid
               PROVE  sz[s] = 0 /\ got[s] = given
    BY DEF FlushMeansDone
  <2>1. sz[Encode] = 0
    BY <1>1 DEF IInv, FlushInv
  <2>2. /\ sz[Lap] \in Nat /\ got[s] = given - sz[s] /\ given \in Nat
        /\ s = Encode \/ s = Lap
    BY <1>1, Values, ConfigFacts DEF IInv, GotInv, Stages
  <2>3. sz[s] = 0
    BY <1>1, <2>1, <2>2 DEF IInv, PaceInv
  <2> QED
    BY <2>2, <2>3
<1> QED
  BY <1>1, Invariance, PTL

(* What has been taken, as the abstract queue counts it.                    *)
Taken == [s \in Stages |-> IF s \in valid THEN given - sz[s] ELSE 0]

LEMMA QueueInit == Init => Queue!Init
<1> SUFFICES ASSUME Init PROVE Queue!Init
  OBVIOUS
<1>1. IInv
  BY InitInv
<1>2. valid \in {{Encode}, {Encode, Lap}}
  BY DEF valid, Stages
<1>3. /\ given = 0 /\ got = [r \in {Encode, Lap} |-> 0]
      /\ \A r \in Stages : sz[r] = 0
  BY DEF Init, Stages
<1>4. [s \in Stages |-> IF s \in valid THEN given - sz[s] ELSE 0]
        = [r \in {Encode, Lap} |-> 0]
  <2>1. \A s \in Stages : (IF s \in valid THEN given - sz[s] ELSE 0) = 0
    BY <1>3
  <2> QED
    BY <2>1 DEF Stages
<1> QED
  BY <1>2, <1>3, <1>4 DEF Queue!Init

(* A step that moves neither the readers nor the count of frames.           *)
LEMMA QueueStutters ==
  ASSUME UNCHANGED <<config, given, sz, got>>
  PROVE  UNCHANGED Queue!vars
<1>1. valid' = valid /\ given' = given /\ sz' = sz /\ got' = got
  BY Fixed
<1> QED
  BY <1>1 DEF Queue!vars

LEMMA QueueAccepts ==
  ASSUME ~AllocFails, IInv, Push, ~Full
  PROVE  Queue!Accept
<1>1. IInv' /\ given' = given + 1
  BY AcceptStep
<1>2. given' = given + 1 /\ UNCHANGED <<config, got>>
  BY <1>1 DEF Push, Called
<1>3. valid' = valid
  BY <1>2, Fixed
<1>4. \A s \in valid : got[s] = given - sz[s] /\ got'[s] = given' - sz'[s]
  BY <1>1, <1>3 DEF IInv, GotInv
<1>5. \A s \in Stages : (IF s \in valid THEN given - sz[s] ELSE 0)
                          = IF s \in valid' THEN given' - sz'[s] ELSE 0
  BY <1>2, <1>3, <1>4
<1>6. [s \in Stages |-> IF s \in valid THEN given - sz[s] ELSE 0]'
        = [s \in Stages |-> IF s \in valid THEN given - sz[s] ELSE 0]
  BY <1>5 DEF Stages
<1> QED
  BY <1>2, <1>3, <1>6 DEF Queue!Accept

LEMMA QueueTakes ==
  ASSUME IInv, NEW s \in valid, sz[s] > 0, av2_lookahead_pop(s),
         UNCHANGED <<config, ring, given>>,
         s = Encode => Encodes
  PROVE  \E r \in valid : Queue!Take(r)
<1>1. /\ sz' \in [Stages -> 0..PE]
      /\ got'[s] = given - sz[s] + 1 /\ sz'[s] = sz[s] - 1
      /\ \A r \in Stages \ {s} : got'[r] = got[r] /\ sz'[r] = sz[r]
  BY PopKeeps
<1>2. /\ valid' = valid /\ given' = given
  BY Fixed
<1>3. /\ valid \subseteq Stages /\ Encode \in valid /\ pop_sz[Encode] = PE /\ PE \in Nat
  BY ConfigFacts DEF IInv
<1>4. /\ sz \in [Stages -> 0..PE] /\ got \in [Stages -> 0..given] /\ given \in Nat
      /\ s \in Stages
  BY <1>3 DEF IInv, TypeOK
<1>5. Taken = [r \in Stages |-> IF r \in valid THEN given - sz[r] ELSE 0]
  BY DEF Taken
<1>6. Taken' = [r \in Stages |-> IF r \in valid THEN given - sz'[r] ELSE 0]
  BY <1>2 DEF Taken
<1>7. Taken[s] = given - sz[s] /\ Taken[s] < given /\ Taken[s] \in Int
  BY <1>4, <1>5
<1>8. Taken' = [Taken EXCEPT ![s] = Taken[s] + 1]
  <2>1. \A r \in Stages : (IF r \in valid THEN given - sz'[r] ELSE 0)
                            = IF r = s THEN Taken[s] + 1 ELSE Taken[r]
    <3> TAKE r \in Stages
    <3>1. CASE r = s
      <4>1. given - sz'[s] = given - sz[s] + 1
        BY <1>1, <1>4
      <4> QED
        BY <3>1, <4>1, <1>7
    <3>2. CASE r # s
      BY <3>2, <1>1, <1>5
    <3> QED
      BY <3>1, <3>2
  <2> QED
    BY <2>1, <1>5, <1>6
<1>9. got' = [got EXCEPT ![s] = Taken[s] + 1]
  <2>1. got' = [got EXCEPT ![s] = Peek(0, s)]
    BY DEF av2_lookahead_pop
  <2>2. Peek(0, s) = Taken[s] + 1
    BY <2>1, <1>1, <1>4, <1>7
  <2> QED
    BY <2>1, <2>2
<1>10. s = Encode /\ Lap \in valid => Taken[Encode] < Taken[Lap]
  <2> SUFFICES ASSUME s = Encode, Lap \in valid PROVE Taken[Encode] < Taken[Lap]
    OBVIOUS
  <2>1. sz[Lap] < sz[Encode] /\ Encodes
    BY DEF IInv, PaceInv, Encodes, Coding
  <2>2. Taken[Encode] = given - sz[Encode] /\ Taken[Lap] = given - sz[Lap]
        /\ sz[Encode] \in Nat /\ sz[Lap] \in Nat
    BY <1>3, <1>4, <1>5 DEF Stages
  <2> QED
    BY <2>1, <2>2, <1>4
<1>11. Queue!Take(s)
  BY <1>2, <1>7, <1>8, <1>9, <1>10 DEF Queue!Take, Taken
<1> QED
  BY <1>11

(* The look-ahead implements the queue it promises: every frame reaches     *)
(* every reader once and in order, the analysing reader first.              *)
THEOREM ImplementsQueue == ASSUME ~AllocFails PROVE Spec => Implements
<1>1. Init => Queue!Init
  BY QueueInit
<1>2. ASSUME IInv, [Next]_vars PROVE [Queue!Next]_(Queue!vars)
  <2>1. CASE \/ \E s \in Sizes : encoder_set_config(s)
             \/ \E k \in 1..sz[Encode] - 1 : CodeHidden(k)
             \/ Flush \/ (Push /\ Full)
             \/ CodeFiltered \/ Return \/ UNCHANGED vars
    <3>1. UNCHANGED <<config, given, sz, got>>
      BY <2>1 DEF encoder_set_config, Flush, Push, Called, CodeHidden, CodeFiltered,
                  Return, Kept, vars
    <3> QED
      BY <3>1, QueueStutters
  <2>2. CASE Push /\ ~Full
    BY <1>2, <2>2, QueueAccepts DEF Queue!Next
  <2>3. CASE LapStage
    <3>1. CASE CanPop(Lap)
      <4>1. /\ av2_lookahead_pop(Lap) /\ UNCHANGED <<config, ring, given>>
            /\ sz[Lap] > 0
        BY <2>3, <3>1 DEF LapStage, CanPop
      <4>2. Lap \in valid /\ Lap # Encode
        BY <1>2, <2>3 DEF LapStage, IInv, PaceInv, Lap, Encode
      <4> QED
        BY <1>2, <4>1, <4>2, QueueTakes DEF Queue!Next
    <3>2. CASE ~CanPop(Lap)
      BY <2>3, <3>2, QueueStutters DEF LapStage
    <3> QED
      BY <3>1, <3>2
  <2>4. CASE CodeShown \/ Drop
    <3>1. /\ av2_lookahead_pop(Encode) /\ UNCHANGED <<config, ring, given>>
          /\ sz[Encode] > 0 /\ Encodes
      BY <2>4 DEF CodeShown, Drop, Kept, Encodes, CanPop
    <3>2. Encode \in valid
      BY <1>2, ConfigFacts DEF IInv
    <3> QED
      BY <1>2, <3>1, <3>2, QueueTakes DEF Queue!Next
  <2> QED
    BY <1>2, <2>1, <2>2, <2>3, <2>4 DEF Next, EncodeStage
<1> QED
  BY <1>1, <1>2, Invariance, PTL DEF Spec, Implements, Queue!Spec
=============================================================================
