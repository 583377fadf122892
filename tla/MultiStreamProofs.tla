--------------------------- MODULE MultiStreamProofs ---------------------------
(***************************************************************************)
(* Proofs about MultiStream, for any number of streams, slots and buffers.  *)
(* The inductive invariant says that storing and restoring moves the        *)
(* contexts of the streams without changing them, which is what the count   *)
(* of the references of a buffer rests on.                                  *)
(***************************************************************************)
EXTENDS MultiStream, FiniteSetTheorems, TLAPS

\* a frame unit has its buffer
FramePCs == {"obu", "header", "update"}

HasMSDO == \E i \in DOMAIN obus : obus[i].type = "MSDO"

\* a frame unit ends with its frame
ObusInv ==
  pc \in {"flush", "assign", "obu"} =>
    /\ obus # <<>>
    /\ \A i \in DOMAIN obus : obus[i].type = "FRAME" <=> i = Len(obus)
    /\ obus[Len(obus)].layer = unit.stream

\* contexts are stored and restored only after the unit with the first
\* multi-stream decoder operation: until then there is nothing to be stored
ModeInv ==
  /\ ~mode =>
       /\ \A s \in Streams : stored[s] = EmptyMap
       /\ map # EmptyMap => msdo /\ pc \notin FramePCs
       /\ pc \in {"flush", "assign", "obu"} => msdo \/ HasMSDO
       /\ pc \in {"header", "update"} => msdo
  /\ mode \/ msdo => msdos > 0

LiveInv ==
  /\ pc \in {"header", "update"} => live = unit.stream
  /\ pc \in {"flush", "assign"} => live = unit.before

CurInv ==
  /\ cur = NoBuf <=> pc \notin FramePCs
  /\ cur # NoBuf => /\ \A s \in Streams : cur \notin Refs(Context(s))
                    /\ cur \notin outputs

WaitsInv ==
  /\ \A b \in waits : refCount[b] > 0 /\ b \notin outputs /\ b # cur
  /\ pc = "flush" => outputs = {}

\* after the flush of a key frame nothing waits in the slots it has looked at
FlushInv ==
  /\ pc \in {"assign", "obu", "header"}
  /\ unit.kind = "CLK" /\ unit.before = unit.stream
  => \A b \in Refs(Context(unit.stream)) : b \notin waits

IInv == /\ TypeOK /\ RefsAccounted
        /\ ObusInv /\ ModeInv /\ LiveInv /\ CurInv /\ WaitsInv /\ FlushInv

-----------------------------------------------------------------------------
(* Counting references                                                      *)

Contexts == [s \in Streams |-> Context(s)]
PairsOf(c, b) == {p \in Streams \X Slots : c[p[1]][p[2]] = b}
Held(m, S, b) == {i \in S : m[i] = b}

\* those that are not in the slots S of stream u
Rest(c, b, u, S) == {p \in PairsOf(c, b) : ~(p[1] = u /\ p[2] \in S)}

\* two families of contexts that differ only in the slots S of stream u
Differ(c, d, u, S) == /\ \A s \in Streams \ {u} : d[s] = c[s]
                      /\ \A i \in Slots \ S : d[u][i] = c[u][i]

LEMMA SlotsFinite == IsFiniteSet(Slots)
BY FS_Interval, BoundsAssumption DEF Slots

\* The slots of a set that hold a buffer are a finite number, zero only when
\* there are none.
LEMMA SlotCount ==
  ASSUME NEW m, NEW S \in SUBSET Slots, NEW b
  PROVE  /\ IsFiniteSet(Held(m, S, b))
         /\ Cardinality(Held(m, S, b)) \in Nat
         /\ Cardinality(Held(m, S, b)) = 0 <=> \A i \in S : m[i] # b
<1>1. Held(m, S, b) \in SUBSET Slots
  BY DEF Held
<1>2. IsFiniteSet(Held(m, S, b))
  BY <1>1, SlotsFinite, FS_Subset
<1>3. Held(m, S, b) = {} <=> \A i \in S : m[i] # b
  BY DEF Held
<1> QED
  BY <1>2, <1>3, FS_CardinalityType, FS_EmptySet

\* The same of the slots of all streams.
LEMMA PairCount ==
  ASSUME NEW c, NEW b
  PROVE  /\ IsFiniteSet(PairsOf(c, b))
         /\ Cardinality(PairsOf(c, b)) \in Nat
         /\ Cardinality(PairsOf(c, b)) = 0 <=>
              \A s \in Streams, i \in Slots : c[s][i] # b
<1>1. IsFiniteSet(Streams \X Slots)
  BY StreamsAssumption, SlotsFinite, FS_Product
<1>2. PairsOf(c, b) \in SUBSET (Streams \X Slots)
  BY DEF PairsOf
<1>3. IsFiniteSet(PairsOf(c, b))
  BY <1>1, <1>2, FS_Subset
<1>4. PairsOf(c, b) = {} <=> \A s \in Streams, i \in Slots : c[s][i] # b
  <2>1. ASSUME NEW s \in Streams, NEW i \in Slots, c[s][i] = b
        PROVE  <<s, i>> \in PairsOf(c, b)
    BY <2>1 DEF PairsOf
  <2>2. ASSUME NEW p \in PairsOf(c, b)
        PROVE  p[1] \in Streams /\ p[2] \in Slots /\ c[p[1]][p[2]] = b
    BY DEF PairsOf
  <2> QED
    BY <2>1, <2>2
<1> QED
  BY <1>3, <1>4, FS_CardinalityType, FS_EmptySet

\* The references of one stream in some slots, and all the others.
LEMMA Split ==
  ASSUME NEW c, NEW b, NEW u \in Streams, NEW S \in SUBSET Slots
  PROVE  /\ Cardinality(Rest(c, b, u, S)) \in Nat
         /\ Cardinality(PairsOf(c, b)) =
              Cardinality(Held(c[u], S, b)) + Cardinality(Rest(c, b, u, S))
<1> DEFINE rest == Rest(c, b, u, S)
           held == Held(c[u], S, b)
<1>1. IsFiniteSet(rest) /\ Cardinality(rest) \in Nat
  <2>1. rest \in SUBSET PairsOf(c, b)
    BY DEF Rest
  <2> QED
    BY <2>1, PairCount, FS_Subset, FS_CardinalityType
<1>2. IsFiniteSet(held) /\ Cardinality(held) \in Nat
  BY SlotCount
<1>3. IsFiniteSet({u} \X held) /\ Cardinality({u} \X held) = Cardinality(held)
  <2>1. IsFiniteSet({u}) /\ Cardinality({u}) = 1
    BY FS_Singleton
  <2>2. Cardinality({u} \X held) = Cardinality({u}) * Cardinality(held)
    BY <2>1, <1>2, FS_Product
  <2> HIDE DEF held
  <2>3. Cardinality({u} \X held) = Cardinality(held)
    BY <2>1, <2>2, <1>2
  <2> QED
    BY <2>1, <2>3, <1>2, FS_Product
<1>4. PairsOf(c, b) = ({u} \X held) \cup rest
  BY DEF PairsOf, Rest, Held
<1>5. ({u} \X held) \cap rest = {}
  BY DEF Rest, Held
<1> HIDE DEF rest, held
<1>6. Cardinality(PairsOf(c, b)) = Cardinality(held) + Cardinality(rest)
  <2> DEFINE mine == {u} \X held
  <2>1. IsFiniteSet(mine) /\ Cardinality(mine) = Cardinality(held)
    BY <1>3
  <2>2. PairsOf(c, b) = mine \cup rest /\ mine \cap rest = {}
    BY <1>4, <1>5
  <2> HIDE DEF mine
  <2>3. Cardinality(mine \cup rest)
          = Cardinality(mine) + Cardinality(rest) - Cardinality(mine \cap rest)
    BY <1>1, <2>1, FS_Union
  <2>4. Cardinality(mine \cap rest) = 0
    BY <2>2, FS_EmptySet
  <2> QED
    BY <1>1, <1>2, <2>1, <2>2, <2>3, <2>4
<1> QED
  BY <1>1, <1>6 DEF rest, held

\* Changing some slots of one stream changes the number of references by what
\* these slots held and hold.
LEMMA CountChange ==
  ASSUME NEW c, NEW d, NEW b, NEW u \in Streams, NEW S \in SUBSET Slots, Differ(c, d, u, S)
  PROVE  Cardinality(PairsOf(d, b)) =
           Cardinality(PairsOf(c, b)) - Cardinality(Held(c[u], S, b))
             + Cardinality(Held(d[u], S, b))
<1>1. Rest(d, b, u, S) = Rest(c, b, u, S)
  <2>1. ASSUME NEW p \in Streams \X Slots, ~(p[1] = u /\ p[2] \in S)
        PROVE  d[p[1]][p[2]] = c[p[1]][p[2]]
    BY <2>1 DEF Differ
  <2> QED
    BY <2>1 DEF PairsOf, Rest
<1>2. /\ Cardinality(Rest(c, b, u, S)) \in Nat
      /\ Cardinality(PairsOf(c, b)) =
           Cardinality(Held(c[u], S, b)) + Cardinality(Rest(c, b, u, S))
  BY Split
<1>3. Cardinality(PairsOf(d, b)) =
        Cardinality(Held(d[u], S, b)) + Cardinality(Rest(d, b, u, S))
  BY Split
<1>4. /\ Cardinality(Held(c[u], S, b)) \in Nat
      /\ Cardinality(Held(d[u], S, b)) \in Nat
  BY SlotCount
<1> QED
  BY <1>1, <1>2, <1>3, <1>4

\* What the number of references of a buffer says.
LEMMA RefsCount ==
  ASSUME NEW b \in Buffers
  PROVE  /\ ContextRefs(b) = Cardinality(PairsOf(Contexts, b))
         /\ ContextRefs(b) \in Nat
         /\ ContextRefs(b) = 0 <=> \A s \in Streams : b \notin Refs(Context(s))
<1>1. ContextRefs(b) = Cardinality(PairsOf(Contexts, b))
  BY DEF ContextRefs, PairsOf, Contexts
<1>2. \A s \in Streams : Contexts[s] = Context(s)
  BY DEF Contexts
<1>3. \A s \in Streams : b \notin Refs(Context(s)) <=> \A i \in Slots : Context(s)[i] # b
  BY BuffersAssumption DEF Refs
<1> QED
  BY <1>1, <1>2, <1>3, PairCount

-----------------------------------------------------------------------------
(* Storing and restoring contexts                                           *)

\* Empty slots hold no reference.
LEMMA EmptyRefs == EmptyMap \in Maps /\ Refs(EmptyMap) = {}
BY DEF EmptyMap, Maps, Refs

\* Without a step of live, map and stored the contexts stay.
LEMMA ContextsStay ==
  ASSUME UNCHANGED <<live, map, stored>>
  PROVE  /\ \A s \in Streams : Context(s)' = Context(s)
         /\ \A b \in Buffers : ContextRefs(b)' = ContextRefs(b)
<1>1. \A s \in Streams : Context(s)' = Context(s)
  BY DEF Context
<1> QED
  BY <1>1 DEF ContextRefs

\* The OBU of another layer leaves every context as it is, wherever it is kept.
LEMMA ContextsKept ==
  ASSUME TypeOK, ModeInv, pc = "obu", NEW x \in XLayers, Switch(x)
  PROVE  /\ \A s \in Streams : Context(s)' = Context(s)
         /\ \A b \in Buffers : ContextRefs(b)' = ContextRefs(b)
         /\ live' = x /\ map' \in Maps /\ stored' \in [Streams -> Maps]
         /\ ~mode => map' = map /\ stored' = stored
<1>1. live' = x
  BY DEF Switch
<1>2. CASE mode /\ x # live
  <2>1. stored' = IF live \in Streams THEN [stored EXCEPT ![live] = map] ELSE stored
    BY <1>2 DEF Switch
  <2>2. map' = IF x \in Streams THEN stored[x] ELSE map
    BY <1>2 DEF Switch
  <2>3. map' \in Maps /\ stored' \in [Streams -> Maps]
    BY <2>1, <2>2 DEF TypeOK
  <2>4. \A s \in Streams : Context(s)' = Context(s)
    BY <1>1, <1>2, <2>1, <2>2 DEF Context, TypeOK
  <2> QED
    BY <1>1, <1>2, <2>3, <2>4 DEF ContextRefs
<1>3. CASE ~(mode /\ x # live)
  <2>1. map' = map /\ stored' = stored
    BY <1>3 DEF Switch
  <2>2. \A s \in Streams : Context(s)' = Context(s)
    <3>1. CASE mode
      BY <1>1, <1>3, <2>1, <3>1 DEF Context
    <3>2. CASE ~mode
      <4>1. map = EmptyMap /\ \A s \in Streams : stored[s] = EmptyMap
        BY <3>2 DEF ModeInv, FramePCs
      <4> QED
        BY <2>1, <4>1 DEF Context, EmptyMap
    <3> QED
      BY <3>1, <3>2 DEF TypeOK
  <2> QED
    BY <1>1, <2>1, <2>2 DEF ContextRefs, TypeOK
<1> QED
  BY <1>2, <1>3

\* A change of some slots of the live stream.
LEMMA LiveChange ==
  ASSUME TypeOK, live \in Streams, UNCHANGED <<live, stored>>,
         NEW S \in SUBSET Slots, \A i \in Slots \ S : map'[i] = map[i]
  PROVE  /\ Context(live) = map
         /\ \A s \in Streams : Context(s)' = IF s = live THEN map' ELSE Context(s)
         /\ \A b \in Buffers :
              ContextRefs(b)' = ContextRefs(b) - SlotRefs(map, S)[b]
                                               + SlotRefs(map', S)[b]
<1>1. /\ Context(live) = map
      /\ \A s \in Streams : Context(s)' = IF s = live THEN map' ELSE Context(s)
  BY DEF Context
<1>2. ASSUME NEW b \in Buffers
      PROVE  ContextRefs(b)' = ContextRefs(b) - SlotRefs(map, S)[b]
                                              + SlotRefs(map', S)[b]
  <2> DEFINE c == Contexts
             d == Contexts'
  <2>1. ContextRefs(b) = Cardinality(PairsOf(c, b))
    BY RefsCount
  <2>2. ContextRefs(b)' = Cardinality(PairsOf(d, b))
    BY DEF ContextRefs, PairsOf, Contexts
  <2>3. \A s \in Streams \ {live} : d[s] = c[s]
    BY <1>1 DEF Contexts
  <2>4. c[live] = map /\ d[live] = map'
    BY <1>1 DEF Contexts
  <2> HIDE DEF c, d
  <2>5. Differ(c, d, live, S)
    BY <2>3, <2>4 DEF Differ
  <2>6. Cardinality(PairsOf(d, b)) =
          Cardinality(PairsOf(c, b)) - Cardinality(Held(c[live], S, b))
            + Cardinality(Held(d[live], S, b))
    <3>1. \A u \in Streams : Differ(c, d, u, S) =>
            Cardinality(PairsOf(d, b)) =
              Cardinality(PairsOf(c, b)) - Cardinality(Held(c[u], S, b))
                + Cardinality(Held(d[u], S, b))
      BY CountChange
    <3> QED
      BY <2>5, <3>1
  <2>7. /\ SlotRefs(map, S)[b] = Cardinality(Held(map, S, b))
        /\ SlotRefs(map', S)[b] = Cardinality(Held(map', S, b))
    BY DEF SlotRefs, Held
  <2> QED
    BY <2>1, <2>2, <2>4, <2>6, <2>7
<1> QED
  BY <1>1, <1>2

-----------------------------------------------------------------------------
(* The OBUs of a frame unit                                                 *)

OBURecord == [type : {"TD", "MSDO", "LCR", "SH", "FRAME"}, layer : XLayers]

\* OBUs none of which is a frame
Plain(o) == o \in Seq(OBURecord) /\ \A i \in 1..Len(o) : o[i].type # "FRAME"

LEMMA PlainConcat ==
  ASSUME NEW o, NEW p, Plain(o), Plain(p)
  PROVE  Plain(o \o p)
<1>1. /\ o \in Seq(OBURecord) /\ p \in Seq(OBURecord)
      /\ \A i \in 1..Len(o) : o[i].type # "FRAME"
      /\ \A i \in 1..Len(p) : p[i].type # "FRAME"
  BY DEF Plain
<1>2. o \o p \in Seq(OBURecord) /\ Len(o \o p) = Len(o) + Len(p)
  BY <1>1
<1>3. ASSUME NEW i \in 1..Len(o \o p)
      PROVE  (o \o p)[i].type # "FRAME"
  <2>1. CASE i <= Len(o)
    BY <1>1, <1>2, <2>1
  <2>2. CASE i > Len(o)
    <3>1. i - Len(o) \in 1..Len(p)
      BY <1>1, <1>2, <2>2
    <3>2. (o \o p)[i] = p[i - Len(o)]
      BY <1>1, <1>2, <2>2
    <3> QED
      BY <1>1, <3>1, <3>2
  <2> QED
    BY <1>1, <2>1, <2>2
<1> QED
  BY <1>2, <1>3 DEF Plain

\* Whatever precedes it, the frame is the last OBU of its unit.
LEMMA UnitShape ==
  ASSUME NEW s \in Streams, NEW kind, UnitOBUs(s, kind)
  PROVE  /\ obus' \in Seq(OBURecord) /\ obus' # <<>>
         /\ \A i \in DOMAIN obus' : obus'[i].type = "FRAME" <=> i = Len(obus')
         /\ obus'[Len(obus')].layer = s
<1>0. s \in XLayers /\ Global \in XLayers
  BY DEF XLayers
<1>1. ASSUME NEW type \in {"TD", "MSDO", "LCR", "SH"}, NEW layers \in SUBSET XLayers,
             NEW p \in Optional(type, layers)
      PROVE  Plain(p)
  <2>1. Plain(<<>>)
    BY DEF Plain
  <2>2. ASSUME NEW x \in layers, p = One(type, x)
        PROVE  Plain(p)
    <3>1. [type |-> type, layer |-> x] \in OBURecord
      BY DEF OBURecord
    <3>2. p \in Seq(OBURecord) /\ Len(p) = 1 /\ p[1].type = type
      BY <2>2, <3>1 DEF One
    <3> QED
      BY <3>2 DEF Plain
  <2> QED
    BY <2>1, <2>2 DEF Optional
<1>2. Plain(<<>>) /\ Plain(One("SH", s))
  BY <1>0 DEF Plain, OBURecord, One
<1>3. PICK td \in Optional("TD", TDLayers),
           ms \in Operations(kind),
           lcr \in Optional("LCR", {Global}) :
        obus' = td \o ms \o lcr \o SequenceHeader(s, kind) \o One("FRAME", s)
  BY DEF UnitOBUs
<1> DEFINE sh == SequenceHeader(s, kind)
<1>4. Plain(td) /\ Plain(ms) /\ Plain(lcr) /\ Plain(sh)
  BY <1>0, <1>1, <1>2, <1>3, TDLayersAssumption DEF Operations, SequenceHeader
<1>5. PICK p : p = td \o ms \o lcr \o sh
  OBVIOUS
<1>6. Plain(p)
  BY <1>4, <1>5, PlainConcat
<1>7. /\ p \in Seq(OBURecord) /\ \A i \in 1..Len(p) : p[i].type # "FRAME"
  BY <1>6 DEF Plain
<1> DEFINE f == [type |-> "FRAME", layer |-> s]
<1>8. obus' = p \o <<f>>
  BY <1>3, <1>5 DEF One
<1>9. f \in OBURecord
  BY <1>0 DEF OBURecord
<1>10. /\ <<f>> \in Seq(OBURecord) /\ Len(<<f>>) = 1 /\ <<f>>[1] = f
       /\ f.type = "FRAME" /\ f.layer = s
  BY <1>9
<1> HIDE DEF f
<1>11. /\ obus' \in Seq(OBURecord) /\ Len(obus') = Len(p) + 1
       /\ obus'[Len(obus')] = f /\ \A i \in 1..Len(p) : obus'[i] = p[i]
  BY <1>7, <1>8, <1>9, <1>10
<1> QED
  BY <1>7, <1>10, <1>11

\* Reading an OBU before the frame leaves the frame the last one.
LEMMA TailShape ==
  ASSUME TypeOK, ObusInv, pc = "obu", NextOBU.type # "FRAME"
  PROVE  /\ Tail(obus) \in Seq(OBURecord) /\ Tail(obus) # <<>>
         /\ \A i \in DOMAIN Tail(obus) :
              Tail(obus)[i].type = "FRAME" <=> i = Len(Tail(obus))
         /\ Tail(obus)[Len(Tail(obus))].layer = unit.stream
         /\ NextOBU \in OBURecord
         /\ HasMSDO /\ NextOBU.type # "MSDO" =>
              \E i \in DOMAIN Tail(obus) : Tail(obus)[i].type = "MSDO"
<1>1. /\ obus \in Seq(OBURecord) /\ obus # <<>>
      /\ \A i \in DOMAIN obus : obus[i].type = "FRAME" <=> i = Len(obus)
      /\ obus[Len(obus)].layer = unit.stream
  BY DEF TypeOK, ObusInv, OBURecord
<1>2. Len(obus) \in Nat /\ Len(obus) > 0 /\ NextOBU = obus[1] /\ 1 \in DOMAIN obus
  BY <1>1 DEF NextOBU
<1>3. Len(obus) > 1
  BY <1>1, <1>2
<1>4. /\ Tail(obus) \in Seq(OBURecord) /\ Len(Tail(obus)) = Len(obus) - 1
      /\ \A i \in 1..(Len(obus) - 1) : Tail(obus)[i] = obus[i + 1]
  BY <1>1, <1>2
<1>5. DOMAIN Tail(obus) = 1..(Len(obus) - 1) /\ DOMAIN obus = 1..Len(obus)
  BY <1>1, <1>4
<1>6. Tail(obus) # <<>>
  BY <1>2, <1>3, <1>4
<1>7. ASSUME NEW i \in DOMAIN Tail(obus)
      PROVE  Tail(obus)[i].type = "FRAME" <=> i = Len(Tail(obus))
  <2>1. i + 1 \in DOMAIN obus /\ Tail(obus)[i] = obus[i + 1]
    BY <1>2, <1>4, <1>5
  <2> QED
    BY <1>1, <1>2, <1>4, <1>5, <2>1
<1>8. Tail(obus)[Len(Tail(obus))].layer = unit.stream
  BY <1>1, <1>2, <1>3, <1>4
<1>9. NextOBU \in OBURecord
  BY <1>1, <1>2
<1>10. ASSUME NEW i \in DOMAIN obus, obus[i].type = "MSDO", NextOBU.type # "MSDO"
       PROVE  \E j \in DOMAIN Tail(obus) : Tail(obus)[j].type = "MSDO"
  <2>1. i # 1
    BY <1>2, <1>10
  <2>2. i - 1 \in DOMAIN Tail(obus) /\ Tail(obus)[i - 1] = obus[i]
    BY <1>2, <1>4, <1>5, <2>1
  <2> QED
    BY <1>10, <2>2
<1> QED
  BY <1>4, <1>6, <1>7, <1>8, <1>9, <1>10 DEF HasMSDO

-----------------------------------------------------------------------------
(* The invariant is inductive                                               *)

LEMMA OneRefType ==
  ASSUME NEW S, NEW b \in Buffers
  PROVE  OneRef(S)[b] = IF b \in S THEN 1 ELSE 0
BY DEF OneRef

LEMMA SlotRefsType ==
  ASSUME NEW m, NEW S \in SUBSET Slots, NEW b \in Buffers
  PROVE  /\ SlotRefs(m, S)[b] \in Nat
         /\ SlotRefs(m, S)[b] = 0 <=> \A i \in S : m[i] # b
<1>1. SlotRefs(m, S)[b] = Cardinality(Held(m, S, b))
  BY DEF SlotRefs, Held
<1> QED
  BY <1>1, SlotCount

\* What RefsAccounted says of one buffer.
LEMMA Counts ==
  ASSUME TypeOK, RefsAccounted, NEW b \in Buffers
  PROVE  /\ refCount[b] \in Nat /\ ContextRefs(b) \in Nat /\ lost[b] \in Nat
         /\ refCount[b] = ContextRefs(b) + lost[b]
                          + (IF cur = b THEN 1 ELSE 0)
                          + (IF b \in outputs /\ pc # "eos" THEN 1 ELSE 0)
         /\ b # NoBuf
<1>1. refCount[b] \in Nat /\ lost[b] \in Nat
  BY DEF TypeOK
<1> QED
  BY <1>1, RefsCount, BuffersAssumption DEF RefsAccounted

\* decrease_ref_count for every count of gone: what still waits has references.
LEMMA Dropped ==
  ASSUME NEW gone \in [Buffers -> Nat], NEW counts \in [Buffers -> Nat],
         NEW w \in SUBSET Buffers, DropRefs(gone, counts, w)
  PROVE  /\ \A b \in Buffers : refCount'[b] = counts[b] - gone[b]
         /\ refCount' = [b \in Buffers |-> refCount'[b]]
         /\ waits' \subseteq w
         /\ \A b \in waits' : refCount'[b] > 0
         /\ \A b \in w : gone[b] < counts[b] => b \in waits'
BY DEF DropRefs

\* The same of one reference of each buffer of a set.
LEMMA DropOne ==
  ASSUME TypeOK, NEW S, NEW w \in SUBSET Buffers,
         DropRefs(OneRef(S), refCount, w)
  PROVE  /\ \A b \in Buffers : refCount'[b] = refCount[b] - (IF b \in S THEN 1 ELSE 0)
         /\ refCount' = [b \in Buffers |-> refCount'[b]]
         /\ waits' \subseteq w
         /\ \A b \in waits' : refCount'[b] > 0
         /\ \A b \in w : b \notin S /\ refCount[b] > 0 => b \in waits'
<1>1. OneRef(S) \in [Buffers -> Nat] /\ refCount \in [Buffers -> Nat]
  BY DEF OneRef, TypeOK
<1> QED
  BY <1>1, Dropped, OneRefType

LEMMA InitInv == Init => IInv
<1> SUFFICES ASSUME Init PROVE IInv
  OBVIOUS
<1>1. \A s \in Streams : Context(s) = EmptyMap
  BY DEF Init, Context
<1>2. \A b \in Buffers : ContextRefs(b) = 0
  BY <1>1, RefsCount, EmptyRefs
<1>3. TypeOK
  <2>1. obus \in Seq(OBURecord)
    BY DEF Init
  <2>2. live \in XLayers /\ map \in Maps /\ stored \in [Streams -> Maps]
    BY EmptyRefs, TDLayersAssumption DEF Init
  <2>3. unit \in [stream : Streams, kind : {"CLK", "INTER"}, before : XLayers]
    BY DEF Init, XLayers
  <2> QED
    BY <2>1, <2>2, <2>3 DEF Init, TypeOK, OBURecord
<1>4. RefsAccounted
  BY <1>2, BuffersAssumption DEF Init, RefsAccounted
<1>5. ObusInv /\ ModeInv /\ LiveInv /\ CurInv /\ WaitsInv /\ FlushInv
  BY DEF Init, ObusInv, ModeInv, LiveInv, CurInv, WaitsInv, FlushInv, FramePCs
<1> QED
  BY <1>3, <1>4, <1>5 DEF IInv

LEMMA StartUnitInv ==
  ASSUME IInv, NEW s \in Streams, NEW kind \in {"CLK", "INTER"}, StartUnit(s, kind)
  PROVE  IInv'
<1>0. TypeOK /\ RefsAccounted /\ ModeInv /\ CurInv /\ WaitsInv
  BY DEF IInv
<1>1. /\ pc = "idle" /\ UNCHANGED <<streamVars, map, stored, needResync, cur>>
      /\ pc' = (IF kind = "CLK" THEN "flush" ELSE "assign")
      /\ unit' = [stream |-> s, kind |-> kind, before |-> live]
      /\ outputs' = {} /\ UnitOBUs(s, kind)
      /\ mode \/ msdo \/ \E i \in DOMAIN obus' : obus'[i].type = "MSDO"
      /\ DropRefs(OneRef(outputs), refCount, waits)
  BY DEF StartUnit
<1>2. cur = NoBuf
  BY <1>0, <1>1 DEF CurInv, FramePCs
<1>3. /\ \A t \in Streams : Context(t)' = Context(t)
      /\ \A b \in Buffers : ContextRefs(b)' = ContextRefs(b)
  BY <1>1, ContextsStay DEF streamVars
<1>4. RefsAccounted'
  <2> SUFFICES ASSUME NEW b \in Buffers
               PROVE  refCount'[b] = ContextRefs(b)' + lost'[b]
                                     + (IF cur' = b THEN 1 ELSE 0)
                                     + (IF b \in outputs' /\ pc' # "eos" THEN 1 ELSE 0)
    BY DEF RefsAccounted
  <2>1. refCount'[b] = refCount[b] - (IF b \in outputs THEN 1 ELSE 0)
    BY <1>1, OneRefType DEF DropRefs
  <2>2. lost'[b] = lost[b] /\ ContextRefs(b)' = ContextRefs(b)
    BY <1>1, <1>3 DEF streamVars
  <2> QED
    BY <1>0, <1>1, <1>2, <2>1, <2>2, Counts
<1>5. TypeOK'
  <2>1. refCount' \in [Buffers -> Nat] /\ waits' \subseteq Buffers
    <3>1. ASSUME NEW b \in Buffers PROVE refCount'[b] \in Nat
      <4>1. refCount'[b] = refCount[b] - (IF b \in outputs THEN 1 ELSE 0)
        BY <1>1, OneRefType DEF DropRefs
      <4> QED
        BY <1>0, <1>1, <4>1, Counts
    <3>2. refCount' = [b \in Buffers |-> refCount'[b]]
      BY <1>1 DEF DropRefs
    <3> QED
      BY <1>0, <1>1, <3>1, <3>2 DEF DropRefs, TypeOK
  <2>2. obus' \in Seq(OBURecord)
    BY <1>1, UnitShape
  <2> QED
    BY <1>0, <1>1, <2>1, <2>2 DEF TypeOK, streamVars, OBURecord
<1>6. ObusInv'
  BY <1>1, UnitShape DEF ObusInv
<1>7. ModeInv'
  BY <1>0, <1>1 DEF ModeInv, HasMSDO, streamVars, FramePCs
<1>8. LiveInv'
  BY <1>1 DEF LiveInv, streamVars
<1>9. CurInv'
  BY <1>1, <1>2 DEF CurInv, FramePCs
<1>10. WaitsInv'
  <2>1. waits' \subseteq waits /\ \A b \in waits' : refCount'[b] > 0
    BY <1>0, <1>1, DropOne DEF TypeOK
  <2> QED
    BY <1>0, <1>1, <1>2, <2>1, BuffersAssumption DEF WaitsInv, TypeOK
<1>11. FlushInv'
  BY <1>1 DEF FlushInv
<1> QED
  BY <1>4, <1>5, <1>6, <1>7, <1>8, <1>9, <1>10, <1>11 DEF IInv

\* The references taken for a set of frames that are not in the queue.
LEMMA OutputCounts ==
  ASSUME TypeOK, NEW S \in SUBSET Buffers, OutputAll(S)
  PROVE  /\ \A b \in Buffers : refCount'[b] = refCount[b] + (IF b \in S THEN 1 ELSE 0)
         /\ refCount' \in [Buffers -> Nat]
         /\ outputs' \subseteq Buffers /\ waits' \subseteq Buffers
<1>1. /\ outputs' = outputs \cup S /\ waits' = waits \ S
      /\ refCount' = [b \in Buffers |-> refCount[b] + OneRef(S)[b]]
  BY DEF OutputAll, Plus
<1>2. \A b \in Buffers : refCount'[b] = refCount[b] + (IF b \in S THEN 1 ELSE 0)
  BY <1>1, OneRefType
<1> QED
  BY <1>1, <1>2, OneRefType DEF TypeOK

LEMMA KeyFlushInv ==
  ASSUME IInv, KeyFlush
  PROVE  IInv'
<1>0. /\ TypeOK /\ RefsAccounted /\ ObusInv /\ ModeInv /\ LiveInv /\ CurInv /\ WaitsInv
  BY DEF IInv
<1>1. /\ pc = "flush" /\ pc' = "assign" /\ OutputAll(Waiting)
      /\ UNCHANGED <<unit, obus, streamVars, map, stored, needResync, cur>>
  BY DEF KeyFlush
<1>2. cur = NoBuf /\ outputs = {}
  BY <1>0, <1>1 DEF CurInv, FramePCs, WaitsInv
<1>3. /\ \A t \in Streams : Context(t)' = Context(t)
      /\ \A b \in Buffers : ContextRefs(b)' = ContextRefs(b)
  BY <1>1, ContextsStay DEF streamVars
<1>4. Waiting \in SUBSET Buffers
  BY <1>0 DEF Waiting, TypeOK
<1>5. /\ \A b \in Buffers :
           refCount'[b] = refCount[b] + (IF b \in Waiting THEN 1 ELSE 0)
      /\ refCount' \in [Buffers -> Nat]
      /\ outputs' \subseteq Buffers /\ waits' \subseteq Buffers
  BY <1>0, <1>1, <1>4, OutputCounts
<1>6. outputs' = Waiting /\ waits' = waits \ Waiting
  BY <1>1, <1>2 DEF OutputAll
<1>7. RefsAccounted'
  <2> SUFFICES ASSUME NEW b \in Buffers
               PROVE  refCount'[b] = ContextRefs(b)' + lost'[b]
                                     + (IF cur' = b THEN 1 ELSE 0)
                                     + (IF b \in outputs' /\ pc' # "eos" THEN 1 ELSE 0)
    BY DEF RefsAccounted
  <2>1. lost'[b] = lost[b] /\ ContextRefs(b)' = ContextRefs(b)
    BY <1>1, <1>3 DEF streamVars
  <2> QED
    BY <1>0, <1>1, <1>2, <1>5, <1>6, <2>1, Counts
<1>8. TypeOK'
  BY <1>0, <1>1, <1>5 DEF TypeOK, streamVars
<1>9. ObusInv' /\ ModeInv' /\ LiveInv'
  BY <1>0, <1>1 DEF ObusInv, ModeInv, LiveInv, HasMSDO, streamVars, FramePCs
<1>10. CurInv'
  BY <1>1, <1>2 DEF CurInv, FramePCs
<1>11. WaitsInv'
  BY <1>0, <1>1, <1>2, <1>5, <1>6, BuffersAssumption DEF WaitsInv, TypeOK
<1>12. FlushInv'
  <2>1. unit.before = unit.stream => Context(unit.stream) = map
    BY <1>0, <1>1 DEF LiveInv, Context
  <2>2. unit.stream \in Streams
    BY <1>0 DEF TypeOK
  <2> QED
    BY <1>1, <1>3, <1>6, <2>1, <2>2 DEF FlushInv, Waiting, Refs
<1> QED
  BY <1>7, <1>8, <1>9, <1>10, <1>11, <1>12 DEF IInv

LEMMA AssignBufferInv ==
  ASSUME IInv, AssignBuffer
  PROVE  IInv'
<1>0. /\ TypeOK /\ RefsAccounted /\ ObusInv /\ ModeInv /\ LiveInv /\ CurInv
      /\ WaitsInv /\ FlushInv
  BY DEF IInv
<1>1. PICK b \in Buffers :
        refCount[b] = 0 /\ cur' = b /\ refCount' = [refCount EXCEPT ![b] = 1]
  BY DEF AssignBuffer
<1>2. /\ pc = "assign" /\ pc' = "obu" /\ mode' = (mode \/ msdo) /\ msdo' = FALSE
      /\ UNCHANGED <<unit, obus, live, msdos, lost, map, stored, needResync, outputs, waits>>
  BY DEF AssignBuffer
<1>3. cur = NoBuf /\ b # NoBuf
  BY <1>0, <1>2, BuffersAssumption DEF CurInv, FramePCs
<1>4. /\ \A t \in Streams : Context(t)' = Context(t)
      /\ \A a \in Buffers : ContextRefs(a)' = ContextRefs(a)
  BY <1>2, ContextsStay
<1>5. ContextRefs(b) = 0 /\ b \notin outputs
  BY <1>0, <1>1, <1>2, Counts
<1>6. RefsAccounted'
  <2> SUFFICES ASSUME NEW a \in Buffers
               PROVE  refCount'[a] = ContextRefs(a)' + lost'[a]
                                     + (IF cur' = a THEN 1 ELSE 0)
                                     + (IF a \in outputs' /\ pc' # "eos" THEN 1 ELSE 0)
    BY DEF RefsAccounted
  <2>1. lost'[a] = lost[a] /\ ContextRefs(a)' = ContextRefs(a)
    BY <1>2, <1>4
  <2>2. refCount'[a] = IF a = b THEN 1 ELSE refCount[a]
    BY <1>0, <1>1 DEF TypeOK
  <2> QED
    BY <1>0, <1>1, <1>2, <1>3, <2>1, <2>2, Counts
<1>7. TypeOK'
  BY <1>0, <1>1, <1>2 DEF TypeOK
<1>8. ObusInv' /\ LiveInv' /\ FlushInv'
  BY <1>0, <1>2, <1>4 DEF ObusInv, LiveInv, FlushInv, TypeOK
<1>9. ModeInv'
  BY <1>0, <1>2 DEF ModeInv, HasMSDO, FramePCs
<1>10. CurInv'
  BY <1>1, <1>2, <1>3, <1>4, <1>5, RefsCount DEF CurInv, FramePCs
<1>11. WaitsInv'
  BY <1>0, <1>1, <1>2 DEF WaitsInv, TypeOK
<1> QED
  BY <1>6, <1>7, <1>8, <1>9, <1>10, <1>11 DEF IInv

LEMMA AssignFailsInv ==
  ASSUME IInv, AssignFails
  PROVE  IInv'
<1>0. /\ TypeOK /\ RefsAccounted /\ ModeInv /\ CurInv /\ WaitsInv
  BY DEF IInv
<1>1. /\ pc = "assign" /\ pc' = "idle" /\ needResync' = TRUE /\ obus' = <<>>
      /\ UNCHANGED <<unit, streamVars, map, stored, cur, frameVars>>
  BY DEF AssignFails, UnitFails
<1>2. /\ \A t \in Streams : Context(t)' = Context(t)
      /\ \A a \in Buffers : ContextRefs(a)' = ContextRefs(a)
  BY <1>1, ContextsStay DEF streamVars
<1>3. RefsAccounted'
  BY <1>0, <1>1, <1>2 DEF RefsAccounted, streamVars, frameVars
<1>4. TypeOK'
  BY <1>0, <1>1 DEF TypeOK, streamVars, frameVars
<1>5. ObusInv' /\ LiveInv' /\ FlushInv'
  BY <1>1 DEF ObusInv, LiveInv, FlushInv
<1>6. ModeInv' /\ CurInv' /\ WaitsInv'
  BY <1>0, <1>1 DEF ModeInv, CurInv, WaitsInv, FramePCs, streamVars, frameVars
<1> QED
  BY <1>3, <1>4, <1>5, <1>6 DEF IInv

LEMMA FailInv ==
  ASSUME IInv, Fail
  PROVE  IInv'
<1>0. /\ TypeOK /\ RefsAccounted /\ ModeInv /\ CurInv /\ WaitsInv
  BY DEF IInv
<1>1. /\ pc \in {"obu", "header"} /\ pc' = "idle" /\ obus' = <<>> /\ needResync' = TRUE
      /\ DropRefs(OneRef({cur}), refCount, waits) /\ cur' = NoBuf
      /\ UNCHANGED <<unit, streamVars, map, stored, outputs>>
  BY DEF Fail, UnitFails
<1>2. /\ \A t \in Streams : Context(t)' = Context(t)
      /\ \A a \in Buffers : ContextRefs(a)' = ContextRefs(a)
  BY <1>1, ContextsStay DEF streamVars
<1>3. /\ \A b \in Buffers : refCount'[b] = refCount[b] - (IF b \in {cur} THEN 1 ELSE 0)
      /\ refCount' = [b \in Buffers |-> refCount'[b]] /\ waits' \subseteq waits
      /\ \A b \in waits' : refCount'[b] > 0
  BY <1>0, <1>1, DropOne DEF TypeOK
<1>4. RefsAccounted'
  <2> SUFFICES ASSUME NEW a \in Buffers
               PROVE  refCount'[a] = ContextRefs(a)' + lost'[a]
                                     + (IF cur' = a THEN 1 ELSE 0)
                                     + (IF a \in outputs' /\ pc' # "eos" THEN 1 ELSE 0)
    BY DEF RefsAccounted
  <2>1. lost'[a] = lost[a] /\ ContextRefs(a)' = ContextRefs(a)
    BY <1>1, <1>2 DEF streamVars
  <2> QED
    BY <1>0, <1>1, <1>3, <2>1, Counts
<1>5. TypeOK'
  <2>1. \A b \in Buffers : refCount'[b] \in Nat
    BY <1>0, <1>3, Counts
  <2> QED
    BY <1>0, <1>1, <1>3, <2>1 DEF TypeOK, streamVars
<1>6. ObusInv' /\ LiveInv' /\ FlushInv'
  BY <1>1 DEF ObusInv, LiveInv, FlushInv
<1>7. ModeInv' /\ CurInv'
  BY <1>0, <1>1 DEF ModeInv, CurInv, FramePCs, streamVars
<1>8. WaitsInv'
  BY <1>0, <1>1, <1>3, BuffersAssumption DEF WaitsInv, TypeOK
<1> QED
  BY <1>4, <1>5, <1>6, <1>7, <1>8 DEF IInv

LEMMA FlushInvKept ==
  ASSUME IInv, Flush
  PROVE  IInv'
<1>0. /\ TypeOK /\ RefsAccounted /\ ModeInv /\ CurInv /\ WaitsInv
  BY DEF IInv
<1>1. /\ pc = "idle" /\ pc' = "eos" /\ outputs' = Waiting
      /\ DropRefs(OneRef(outputs), refCount, waits \ Waiting)
      /\ UNCHANGED <<unit, obus, streamVars, map, stored, needResync, cur>>
  BY DEF Flush
<1>2. /\ \A t \in Streams : Context(t)' = Context(t)
      /\ \A a \in Buffers : ContextRefs(a)' = ContextRefs(a)
  BY <1>1, ContextsStay DEF streamVars
<1>3. /\ \A b \in Buffers : refCount'[b] = refCount[b] - (IF b \in outputs THEN 1 ELSE 0)
      /\ refCount' = [b \in Buffers |-> refCount'[b]] /\ waits' \subseteq waits \ Waiting
      /\ \A b \in waits' : refCount'[b] > 0
  <2>1. waits \ Waiting \in SUBSET Buffers
    BY <1>0 DEF TypeOK
  <2> QED
    BY <1>0, <1>1, <2>1, DropOne
<1>4. RefsAccounted'
  <2> SUFFICES ASSUME NEW a \in Buffers
               PROVE  refCount'[a] = ContextRefs(a)' + lost'[a]
                                     + (IF cur' = a THEN 1 ELSE 0)
                                     + (IF a \in outputs' /\ pc' # "eos" THEN 1 ELSE 0)
    BY DEF RefsAccounted
  <2>1. lost'[a] = lost[a] /\ ContextRefs(a)' = ContextRefs(a)
    BY <1>1, <1>2 DEF streamVars
  <2> QED
    BY <1>0, <1>1, <1>3, <2>1, Counts
<1>5. TypeOK'
  <2>1. \A b \in Buffers : refCount'[b] \in Nat
    BY <1>0, <1>1, <1>3, Counts
  <2> QED
    BY <1>0, <1>1, <1>3, <2>1 DEF TypeOK, streamVars, Waiting
<1>6. ObusInv' /\ LiveInv' /\ FlushInv'
  BY <1>1 DEF ObusInv, LiveInv, FlushInv
<1>7. ModeInv'
  BY <1>0, <1>1 DEF ModeInv, FramePCs, streamVars
<1>8. cur = NoBuf
  BY <1>0, <1>1 DEF CurInv, FramePCs
<1>9. CurInv' /\ WaitsInv'
  BY <1>0, <1>1, <1>3, <1>8 DEF CurInv, WaitsInv, FramePCs
<1> QED
  BY <1>4, <1>5, <1>6, <1>7, <1>9 DEF IInv

\* A read OBU changes nothing but the place of the contexts.
LEMMA ReadOBUInv ==
  ASSUME IInv, ReadOBU
  PROVE  IInv'
<1>0. /\ TypeOK /\ RefsAccounted /\ ObusInv /\ ModeInv /\ LiveInv /\ CurInv
      /\ WaitsInv /\ FlushInv
  BY DEF IInv
<1>1. /\ pc = "obu" /\ NextOBU.type \in {"TD", "LCR", "SH"} /\ Switch(NextOBU.layer)
      /\ obus' = Tail(obus)
      /\ UNCHANGED <<pc, unit, mode, msdo, msdos, lost, needResync, cur, frameVars>>
  BY DEF ReadOBU
<1>2. /\ obus' \in Seq(OBURecord) /\ obus' # <<>>
      /\ \A i \in DOMAIN obus' : obus'[i].type = "FRAME" <=> i = Len(obus')
      /\ obus'[Len(obus')].layer = unit.stream
      /\ NextOBU \in OBURecord
      /\ HasMSDO => HasMSDO'
  BY <1>0, <1>1, TailShape DEF HasMSDO
<1>3. NextOBU.layer \in XLayers
  BY <1>2 DEF OBURecord
<1>4. /\ \A s \in Streams : Context(s)' = Context(s)
      /\ \A b \in Buffers : ContextRefs(b)' = ContextRefs(b)
      /\ live' \in XLayers /\ map' \in Maps /\ stored' \in [Streams -> Maps]
      /\ ~mode => map' = map /\ stored' = stored
  BY <1>0, <1>1, <1>3, ContextsKept
<1>5. RefsAccounted'
  BY <1>0, <1>1, <1>4 DEF RefsAccounted, frameVars
<1>6. TypeOK'
  BY <1>0, <1>1, <1>2, <1>4 DEF TypeOK, frameVars, OBURecord
<1>7. ObusInv' /\ LiveInv'
  BY <1>1, <1>2 DEF ObusInv, LiveInv
<1>8. ModeInv'
  BY <1>0, <1>1, <1>2, <1>4 DEF ModeInv, FramePCs
<1>9. CurInv'
  BY <1>0, <1>1, <1>4 DEF CurInv, frameVars, FramePCs
<1>10. WaitsInv'
  BY <1>0, <1>1 DEF WaitsInv, frameVars
<1>11. FlushInv'
  BY <1>0, <1>1, <1>4 DEF FlushInv, TypeOK, frameVars
<1> QED
  BY <1>5, <1>6, <1>7, <1>8, <1>9, <1>10, <1>11 DEF IInv

\* A multi-stream decoder operation leaves every stream without references.
LEMMA NoContexts ==
  ASSUME ReadMSDO
  PROVE  /\ \A s \in Streams : Context(s)' = EmptyMap
         /\ \A b \in Buffers : ContextRefs(b)' = 0
<1>1. live' = Global /\ stored' = [s \in Streams |-> EmptyMap]
  BY DEF ReadMSDO
<1>2. \A s \in Streams : Context(s)' = EmptyMap
  BY <1>1, LayersAssumption DEF Context
<1>3. ASSUME NEW b \in Buffers
      PROVE  ContextRefs(b)' = 0
  <2>1. ContextRefs(b)' = Cardinality(PairsOf(Contexts', b))
    BY DEF ContextRefs, PairsOf, Contexts
  <2>2. \A s \in Streams, i \in Slots : Contexts'[s][i] # b
    BY <1>2, BuffersAssumption DEF Contexts, EmptyMap
  <2> QED
    BY <2>1, <2>2, PairCount
<1> QED
  BY <1>2, <1>3

LEMMA ReadMSDOInv ==
  ASSUME IInv, ReadMSDO
  PROVE  IInv'
<1>0. /\ TypeOK /\ RefsAccounted /\ ObusInv /\ ModeInv /\ LiveInv /\ CurInv
      /\ WaitsInv /\ FlushInv
  BY DEF IInv
<1>1. /\ pc = "obu" /\ NextOBU.type = "MSDO" /\ obus' = Tail(obus)
      /\ live' = Global /\ stored' = [s \in Streams |-> EmptyMap]
      /\ lost' = [b \in Buffers |-> lost[b] + ContextRefs(b)]
      /\ msdo' = TRUE /\ msdos' = msdos + 1
      /\ UNCHANGED <<pc, unit, mode, map, needResync, cur, frameVars>>
  BY DEF ReadMSDO
<1>2. /\ obus' \in Seq(OBURecord) /\ obus' # <<>>
      /\ \A i \in DOMAIN obus' : obus'[i].type = "FRAME" <=> i = Len(obus')
      /\ obus'[Len(obus')].layer = unit.stream
  BY <1>0, <1>1, TailShape
<1>3. /\ \A s \in Streams : Context(s)' = EmptyMap
      /\ \A b \in Buffers : ContextRefs(b)' = 0
  BY NoContexts
<1>4. RefsAccounted'
  <2> SUFFICES ASSUME NEW b \in Buffers
               PROVE  refCount'[b] = ContextRefs(b)' + lost'[b]
                                     + (IF cur' = b THEN 1 ELSE 0)
                                     + (IF b \in outputs' /\ pc' # "eos" THEN 1 ELSE 0)
    BY DEF RefsAccounted
  <2>1. lost'[b] = lost[b] + ContextRefs(b) /\ ContextRefs(b)' = 0
    BY <1>1, <1>3
  <2> QED
    BY <1>0, <1>1, <2>1, Counts DEF frameVars
<1>5. TypeOK'
  <2>1. lost' \in [Buffers -> Nat]
    BY <1>0, <1>1, RefsCount DEF TypeOK
  <2> QED
    BY <1>0, <1>1, <1>2, <2>1, EmptyRefs DEF TypeOK, frameVars, OBURecord, XLayers
<1>6. ObusInv' /\ LiveInv'
  BY <1>1, <1>2 DEF ObusInv, LiveInv
<1>7. ModeInv'
  BY <1>0, <1>1 DEF ModeInv, FramePCs, TypeOK
<1>8. CurInv' /\ WaitsInv' /\ FlushInv'
  BY <1>0, <1>1, <1>3, EmptyRefs
     DEF CurInv, WaitsInv, FlushInv, frameVars, FramePCs, TypeOK
<1> QED
  BY <1>4, <1>5, <1>6, <1>7, <1>8 DEF IInv

\* The frame is the last OBU: no multi-stream decoder operation follows.
LEMMA FrameLast ==
  ASSUME TypeOK, ObusInv, pc = "obu", NextOBU.type = "FRAME"
  PROVE  /\ NextOBU.layer = unit.stream /\ unit.stream \in Streams /\ ~HasMSDO
         /\ Tail(obus) \in Seq(OBURecord)
<1>1. /\ obus \in Seq(OBURecord) /\ obus # <<>>
      /\ \A i \in DOMAIN obus : obus[i].type = "FRAME" <=> i = Len(obus)
      /\ obus[Len(obus)].layer = unit.stream
  BY DEF TypeOK, ObusInv, OBURecord
<1>2. Len(obus) \in Nat /\ Len(obus) > 0 /\ NextOBU = obus[1] /\ 1 \in DOMAIN obus
  BY <1>1 DEF NextOBU
<1>3. Len(obus) = 1
  BY <1>1, <1>2
<1>4. DOMAIN obus = {1}
  BY <1>1, <1>3
<1>5. ~HasMSDO
  BY <1>2, <1>4 DEF HasMSDO
<1> QED
  BY <1>1, <1>2, <1>3, <1>5 DEF TypeOK

LEMMA ReadFrameInv ==
  ASSUME IInv, ReadFrame
  PROVE  IInv'
<1>0. /\ TypeOK /\ RefsAccounted /\ ObusInv /\ ModeInv /\ LiveInv /\ CurInv
      /\ WaitsInv /\ FlushInv
  BY DEF IInv
<1>1. /\ pc = "obu" /\ NextOBU.type = "FRAME" /\ Switch(NextOBU.layer)
      /\ pc' = "header" /\ obus' = Tail(obus)
      /\ UNCHANGED <<unit, mode, msdo, msdos, lost, needResync, cur, frameVars>>
  BY DEF ReadFrame
<1>2. /\ NextOBU.layer = unit.stream /\ unit.stream \in Streams /\ ~HasMSDO
      /\ obus' \in Seq(OBURecord)
  BY <1>0, <1>1, FrameLast
<1>3. NextOBU.layer \in XLayers
  BY <1>2 DEF XLayers
<1>4. /\ \A s \in Streams : Context(s)' = Context(s)
      /\ \A b \in Buffers : ContextRefs(b)' = ContextRefs(b)
      /\ live' = unit.stream /\ map' \in Maps /\ stored' \in [Streams -> Maps]
      /\ ~mode => map' = map /\ stored' = stored
  BY <1>0, <1>1, <1>2, <1>3, ContextsKept
<1>5. RefsAccounted'
  BY <1>0, <1>1, <1>4 DEF RefsAccounted, frameVars
<1>6. TypeOK'
  BY <1>0, <1>1, <1>2, <1>3, <1>4 DEF TypeOK, frameVars, OBURecord
<1>7. ObusInv' /\ LiveInv'
  BY <1>1, <1>4 DEF ObusInv, LiveInv
<1>8. ModeInv'
  BY <1>0, <1>1, <1>2, <1>4 DEF ModeInv, FramePCs
<1>9. CurInv'
  BY <1>0, <1>1, <1>4 DEF CurInv, frameVars, FramePCs
<1>10. WaitsInv'
  BY <1>0, <1>1 DEF WaitsInv, frameVars
<1>11. FlushInv'
  BY <1>0, <1>1, <1>4 DEF FlushInv, TypeOK, frameVars
<1> QED
  BY <1>5, <1>6, <1>7, <1>8, <1>9, <1>10, <1>11 DEF IInv

\* What the header of a key frame releases: every slot of its stream.
LEMMA KeyHeader ==
  ASSUME IInv, ReadHeader, unit.kind = "CLK"
  PROVE  /\ live \in Streams /\ map' = EmptyMap
         /\ Context(live) = map
         /\ \A s \in Streams : Context(s)' = IF s = live THEN EmptyMap ELSE Context(s)
         /\ \A b \in Buffers :
              /\ ContextRefs(b)' = ContextRefs(b) - SlotRefs(map, Slots)[b]
              /\ SlotRefs(map, Slots)[b] \in Nat
              /\ refCount'[b] = refCount[b] - SlotRefs(map, Slots)[b]
         /\ refCount' = [b \in Buffers |-> refCount'[b]]
         /\ waits' \subseteq waits
         /\ \A b \in waits' : refCount'[b] > 0
         /\ \A b \in waits : SlotRefs(map, Slots)[b] < refCount[b] => b \in waits'
<1>0. TypeOK /\ LiveInv
  BY DEF IInv
<1>1. /\ pc = "header" /\ map' = EmptyMap /\ UNCHANGED <<live, stored>>
      /\ DropRefs(SlotRefs(map, Slots), refCount, waits)
  BY DEF ReadHeader, streamVars
<1>2. live \in Streams
  BY <1>0, <1>1 DEF LiveInv, TypeOK
<1>3. /\ Context(live) = map
      /\ \A s \in Streams : Context(s)' = IF s = live THEN map' ELSE Context(s)
      /\ \A b \in Buffers : ContextRefs(b)' = ContextRefs(b) - SlotRefs(map, Slots)[b]
                                                             + SlotRefs(map', Slots)[b]
  BY <1>0, <1>1, <1>2, LiveChange
<1>4. ASSUME NEW b \in Buffers
      PROVE  /\ ContextRefs(b)' = ContextRefs(b) - SlotRefs(map, Slots)[b]
             /\ SlotRefs(map, Slots)[b] \in Nat
  <2>1. \A i \in Slots : map'[i] # b
    BY <1>1, BuffersAssumption DEF EmptyMap
  <2>2. SlotRefs(map', Slots)[b] = 0
    BY <2>1, SlotRefsType
  <2> QED
    BY <1>3, <2>2, SlotRefsType, RefsCount
<1>5. SlotRefs(map, Slots) \in [Buffers -> Nat]
  BY <1>4 DEF SlotRefs
<1>6. refCount \in [Buffers -> Nat] /\ waits \in SUBSET Buffers
  BY <1>0 DEF TypeOK
<1>7. /\ \A b \in Buffers : refCount'[b] = refCount[b] - SlotRefs(map, Slots)[b]
      /\ refCount' = [b \in Buffers |-> refCount'[b]]
      /\ waits' \subseteq waits
      /\ \A b \in waits' : refCount'[b] > 0
      /\ \A b \in waits : SlotRefs(map, Slots)[b] < refCount[b] => b \in waits'
  BY <1>1, <1>5, <1>6, Dropped
<1> QED
  BY <1>1, <1>2, <1>3, <1>4, <1>7

LEMMA ReadHeaderInv ==
  ASSUME IInv, ReadHeader
  PROVE  IInv'
<1>0. /\ TypeOK /\ RefsAccounted /\ ModeInv /\ LiveInv /\ CurInv /\ WaitsInv
  BY DEF IInv
<1>1. /\ pc = "header" /\ pc' = "update"
      /\ UNCHANGED <<unit, obus, streamVars, stored, cur, outputs>>
  BY DEF ReadHeader
<1>2. ObusInv' /\ LiveInv' /\ FlushInv'
  BY <1>0, <1>1 DEF ObusInv, LiveInv, FlushInv, streamVars
<1>3. CASE unit.kind = "CLK"
  <2>1. /\ live \in Streams /\ map' = EmptyMap
        /\ \A s \in Streams : Context(s)' = IF s = live THEN EmptyMap ELSE Context(s)
        /\ \A b \in Buffers :
             /\ ContextRefs(b)' = ContextRefs(b) - SlotRefs(map, Slots)[b]
             /\ SlotRefs(map, Slots)[b] \in Nat
             /\ refCount'[b] = refCount[b] - SlotRefs(map, Slots)[b]
        /\ refCount' = [b \in Buffers |-> refCount'[b]]
        /\ waits' \subseteq waits
        /\ \A b \in waits' : refCount'[b] > 0
    BY <1>3, KeyHeader
  <2>2. needResync' = FALSE
    BY <1>3 DEF ReadHeader
  <2>3. ASSUME NEW b \in Buffers
        PROVE  /\ refCount'[b] = ContextRefs(b)' + lost'[b]
                                 + (IF cur' = b THEN 1 ELSE 0)
                                 + (IF b \in outputs' /\ pc' # "eos" THEN 1 ELSE 0)
               /\ refCount'[b] \in Nat
    <3>1. lost'[b] = lost[b] /\ cur' = cur /\ outputs' = outputs
      BY <1>1 DEF streamVars
    <3>2. ContextRefs(b)' \in Nat
      <4>1. ContextRefs(b)' = Cardinality(PairsOf(Contexts', b))
        BY DEF ContextRefs, PairsOf, Contexts
      <4> QED
        BY <4>1, PairCount
    <3>3. /\ ContextRefs(b)' = ContextRefs(b) - SlotRefs(map, Slots)[b]
          /\ SlotRefs(map, Slots)[b] \in Nat
          /\ refCount'[b] = refCount[b] - SlotRefs(map, Slots)[b]
      BY <2>1
    <3> QED
      BY <1>0, <1>1, <3>1, <3>2, <3>3, Counts
  <2>4. RefsAccounted'
    BY <2>3 DEF RefsAccounted
  <2>5. TypeOK'
    BY <1>0, <1>1, <2>1, <2>2, <2>3, EmptyRefs DEF TypeOK, streamVars
  <2>6. ModeInv'
    BY <1>0, <1>1, <2>1 DEF ModeInv, FramePCs, streamVars
  <2>7. CurInv'
    <3>1. ASSUME NEW s \in Streams, cur # NoBuf
          PROVE  cur \notin Refs(Context(s)')
      BY <1>0, <2>1, <3>1, EmptyRefs DEF CurInv
    <3>2. \A s \in Streams : Refs(Context(s))' = Refs(Context(s)')
      BY DEF Refs
    <3> QED
      BY <1>0, <1>1, <3>1, <3>2 DEF CurInv, FramePCs
  <2>8. WaitsInv'
    BY <1>0, <1>1, <2>1 DEF WaitsInv
  <2> QED
    BY <1>2, <2>4, <2>5, <2>6, <2>7, <2>8 DEF IInv
<1>4. CASE unit.kind # "CLK"
  <2>1. UNCHANGED <<refCount, waits, map, needResync>>
    BY <1>4 DEF ReadHeader
  <2>2. /\ \A t \in Streams : Context(t)' = Context(t)
        /\ \A a \in Buffers : ContextRefs(a)' = ContextRefs(a)
    BY <1>1, <2>1, ContextsStay DEF streamVars
  <2>3. TypeOK' /\ RefsAccounted'
    BY <1>0, <1>1, <2>1, <2>2 DEF TypeOK, RefsAccounted, streamVars
  <2>4. ModeInv' /\ CurInv' /\ WaitsInv'
    BY <1>0, <1>1, <2>1, <2>2 DEF ModeInv, CurInv, WaitsInv, FramePCs, streamVars
  <2> QED
    BY <1>2, <2>3, <2>4 DEF IInv
<1> QED
  BY <1>3, <1>4

\* What a refresh that outputs the frames of out does to the slots, the counts
\* and the frames that wait.
Net(flags, b) == SlotRefs(map', flags)[b] - SlotRefs(map, flags)[b]

Refreshed(flags, out) ==
  /\ live \in Streams /\ map' \in Maps
  /\ Context(live) = map
  /\ \A s \in Streams : Context(s)' = IF s = live THEN map' ELSE Context(s)
  /\ \A i \in Slots \ flags : map'[i] = map[i]
  /\ \A i \in flags : map'[i] \in {cur, NoBuf}
  /\ Evicted(flags) \subseteq out /\ out \subseteq waits \cup {cur}
  /\ outputs' = outputs \cup out /\ out \cap outputs = {}
  /\ \A b \in Buffers :
       /\ Net(flags, b) \in Int /\ ContextRefs(b)' \in Nat
       /\ ContextRefs(b)' = ContextRefs(b) + Net(flags, b)
       /\ refCount'[b] = refCount[b] + Net(flags, b) + (IF b \in out THEN 1 ELSE 0)
                                     - (IF b = cur THEN 1 ELSE 0)
  /\ refCount' = [b \in Buffers |-> refCount'[b]]
  /\ waits' \subseteq (waits \cup {cur}) \ out
  /\ \A b \in waits' : refCount'[b] > 0
  /\ \A b \in waits \ out : refCount'[b] > 0 => b \in waits'

LEMMA Refresh ==
  ASSUME IInv, NEW flags \in SUBSET Slots,
         NEW output \in {"hidden", "implicit", "shown"}, Update(flags, output)
  PROVE  \E out \in SUBSET Buffers : Refreshed(flags, out)
<1>0. TypeOK /\ LiveInv /\ CurInv /\ WaitsInv
  BY DEF IInv
<1>1. /\ pc = "update" /\ UNCHANGED <<live, stored>>
      /\ map' = [i \in Slots |-> IF i \notin flags THEN map[i]
                                 ELSE IF i \in Inserted(flags) THEN cur ELSE NoBuf]
  BY DEF Update, streamVars
<1>2. cur \in Buffers /\ cur \notin outputs
  BY <1>0, <1>1 DEF CurInv, FramePCs, TypeOK
<1>3. live \in Streams
  BY <1>0, <1>1 DEF LiveInv, TypeOK
<1>4. /\ map' \in Maps
      /\ \A i \in Slots \ flags : map'[i] = map[i]
      /\ \A i \in flags : map'[i] \in {cur, NoBuf}
  BY <1>0, <1>1, <1>2 DEF TypeOK, Maps
<1>5. /\ Context(live) = map
      /\ \A s \in Streams : Context(s)' = IF s = live THEN map' ELSE Context(s)
      /\ \A b \in Buffers : ContextRefs(b)' = ContextRefs(b) - SlotRefs(map, flags)[b]
                                                             + SlotRefs(map', flags)[b]
  BY <1>0, <1>1, <1>3, <1>4, LiveChange
<1> DEFINE w == waits \cup (IF output = "implicit" THEN {cur} ELSE {})
           counts(out) == Plus(refCount, Plus(OneRef(out), SlotRefs(map', flags)))
           gone == Plus(SlotRefs(map, flags), OneRef({cur}))
<1>6. PICK out \in Outputs(flags, output) :
        /\ outputs' = outputs \cup out
        /\ DropRefs(gone, counts(out), w \ out)
  BY DEF Update
<1>7. Evicted(flags) \subseteq out /\ out \subseteq waits \cup {cur}
  BY <1>6 DEF Outputs, Evicted, Waiting
<1>8. out \subseteq Buffers /\ out \cap outputs = {}
  BY <1>0, <1>2, <1>7 DEF TypeOK, WaitsInv
<1>9. \A b \in Buffers : SlotRefs(map', flags)[b] \in Nat /\ SlotRefs(map, flags)[b] \in Nat
  BY SlotRefsType
<1>10. ASSUME NEW b \in Buffers
       PROVE  /\ counts(out)[b] = refCount[b] + ((IF b \in out THEN 1 ELSE 0)
                                                 + SlotRefs(map', flags)[b])
              /\ gone[b] = SlotRefs(map, flags)[b] + (IF b = cur THEN 1 ELSE 0)
              /\ counts(out)[b] \in Nat /\ gone[b] \in Nat
  <2>1. /\ counts(out)[b] = refCount[b] + ((IF b \in out THEN 1 ELSE 0)
                                           + SlotRefs(map', flags)[b])
        /\ gone[b] = SlotRefs(map, flags)[b] + (IF b = cur THEN 1 ELSE 0)
    BY OneRefType DEF Plus
  <2>2. refCount[b] \in Nat
    BY <1>0 DEF TypeOK
  <2> QED
    BY <1>9, <2>1, <2>2
<1>11. counts(out) \in [Buffers -> Nat] /\ gone \in [Buffers -> Nat]
  BY <1>10 DEF Plus
<1>12. w \ out \in SUBSET Buffers
  BY <1>0, <1>2 DEF TypeOK
<1> HIDE DEF counts, gone
<1>13. /\ \A b \in Buffers : refCount'[b] = counts(out)[b] - gone[b]
       /\ refCount' = [b \in Buffers |-> refCount'[b]]
       /\ waits' \subseteq w \ out
       /\ \A b \in waits' : refCount'[b] > 0
       /\ \A b \in w \ out : gone[b] < counts(out)[b] => b \in waits'
  BY <1>6, <1>11, <1>12, Dropped
<1>14. ASSUME NEW b \in Buffers
       PROVE  /\ Net(flags, b) \in Int /\ ContextRefs(b)' \in Nat
              /\ ContextRefs(b)' = ContextRefs(b) + Net(flags, b)
              /\ refCount'[b] = refCount[b] + Net(flags, b) + (IF b \in out THEN 1 ELSE 0)
                                            - (IF b = cur THEN 1 ELSE 0)
  <2>1. ContextRefs(b)' \in Nat
    <3>1. ContextRefs(b)' = Cardinality(PairsOf(Contexts', b))
      BY DEF ContextRefs, PairsOf, Contexts
    <3> QED
      BY <3>1, PairCount
  <2>2. ContextRefs(b) \in Nat /\ refCount[b] \in Nat
    BY <1>0, RefsCount DEF TypeOK
  <2> QED
    BY <1>5, <1>9, <1>10, <1>13, <2>1, <2>2 DEF Net
<1>15. \A b \in waits \ out : refCount'[b] > 0 => b \in waits'
  <2> SUFFICES ASSUME NEW b \in waits \ out, refCount'[b] > 0
               PROVE  b \in waits'
    OBVIOUS
  <2>1. b \in w \ out /\ b \in Buffers
    BY <1>0 DEF TypeOK
  <2>2. gone[b] < counts(out)[b]
    BY <1>10, <1>13, <2>1
  <2> QED
    BY <1>13, <2>1, <2>2
<1>16. waits' \subseteq (waits \cup {cur}) \ out
  BY <1>13
<1> HIDE DEF w
<1> QED
  BY <1>3, <1>4, <1>5, <1>6, <1>7, <1>8, <1>13, <1>14, <1>15, <1>16 DEF Refreshed

LEMMA UpdateInv ==
  ASSUME IInv, NEW flags \in SUBSET Slots,
         NEW output \in {"hidden", "implicit", "shown"}, Update(flags, output)
  PROVE  IInv'
<1>0. /\ TypeOK /\ RefsAccounted /\ ModeInv /\ CurInv /\ WaitsInv
  BY DEF IInv
<1>1. /\ pc = "update" /\ pc' = "idle" /\ cur' = NoBuf
      /\ UNCHANGED <<unit, obus, streamVars, stored, needResync>>
  BY DEF Update
<1>2. PICK out \in SUBSET Buffers : Refreshed(flags, out)
  BY Refresh
<1>3. cur \in Buffers /\ cur \notin outputs
  BY <1>0, <1>1 DEF CurInv, FramePCs, TypeOK
<1>4. ASSUME NEW b \in Buffers
      PROVE  /\ refCount'[b] = ContextRefs(b)' + lost'[b]
                               + (IF cur' = b THEN 1 ELSE 0)
                               + (IF b \in outputs' /\ pc' # "eos" THEN 1 ELSE 0)
             /\ refCount'[b] \in Nat
  <2>1. lost'[b] = lost[b]
    BY <1>1 DEF streamVars
  <2>2. /\ Net(flags, b) \in Int /\ ContextRefs(b)' \in Nat
        /\ ContextRefs(b)' = ContextRefs(b) + Net(flags, b)
        /\ refCount'[b] = refCount[b] + Net(flags, b) + (IF b \in out THEN 1 ELSE 0)
                                      - (IF b = cur THEN 1 ELSE 0)
        /\ b \in outputs' <=> b \in outputs \/ b \in out
        /\ ~(b \in outputs /\ b \in out)
    BY <1>2 DEF Refreshed
  <2> QED
    BY <1>0, <1>1, <2>1, <2>2, Counts
<1>5. RefsAccounted'
  BY <1>4 DEF RefsAccounted
<1>6. TypeOK'
  <2>1. refCount' \in [Buffers -> Nat]
    BY <1>2, <1>4 DEF Refreshed
  <2>2. waits' \subseteq Buffers /\ outputs' \subseteq Buffers
    BY <1>0, <1>2, <1>3 DEF TypeOK, Refreshed
  <2> QED
    BY <1>0, <1>1, <1>2, <2>1, <2>2 DEF TypeOK, streamVars, Refreshed
<1>7. ObusInv' /\ LiveInv' /\ FlushInv'
  BY <1>1 DEF ObusInv, LiveInv, FlushInv
<1>8. ModeInv' /\ CurInv'
  BY <1>0, <1>1 DEF ModeInv, CurInv, FramePCs, streamVars
<1>9. WaitsInv'
  <2>1. /\ waits' \subseteq (waits \cup {cur}) \ out
        /\ \A b \in waits' : refCount'[b] > 0
        /\ outputs' = outputs \cup out
    BY <1>2 DEF Refreshed
  <2>2. NoBuf \notin waits'
    BY <1>6, BuffersAssumption DEF TypeOK
  <2> QED
    BY <1>0, <1>1, <1>3, <2>1, <2>2 DEF WaitsInv
<1> QED
  BY <1>5, <1>6, <1>7, <1>8, <1>9 DEF IInv

LEMMA StepInv == IInv /\ [Next]_vars => IInv'
<1> SUFFICES ASSUME IInv, [Next]_vars PROVE IInv'
  OBVIOUS
<1>1. CASE UNCHANGED vars
  BY <1>1 DEF vars, streamVars, frameVars, IInv, TypeOK, RefsAccounted, ObusInv,
              ModeInv, LiveInv, CurInv, WaitsInv, FlushInv, HasMSDO, Context, ContextRefs
<1>2. CASE Next
  BY <1>2, StartUnitInv, KeyFlushInv, AssignBufferInv, AssignFailsInv, ReadOBUInv,
     ReadMSDOInv, ReadFrameInv, ReadHeaderInv, UpdateInv, FailInv, FlushInvKept DEF Next
<1> QED
  BY <1>1, <1>2

\* Every step of the decoder keeps the invariant.
THEOREM Inductive == Spec => []IInv
BY InitInv, StepInv, PTL DEF Spec

\* In every state the variables have values of their C types, the counts among
\* them: no count becomes negative.
THEOREM TypeCorrect == Spec => []TypeOK
BY Inductive, PTL DEF IInv

\* However the OBUs of the streams follow each other, the count of a buffer is
\* the number of slots of all streams that hold it, with the current frame, the
\* queue and what multi-stream decoder operations have discarded.
THEOREM ReferencesAccounted == Spec => []RefsAccounted
BY Inductive, PTL DEF IInv

-----------------------------------------------------------------------------
(* The streams are decoded as by decoders of their own                      *)

Restarts == IF msdos = 0 THEN 0 ELSE msdos - 1
StreamRefs == [s \in Streams |-> Refs(Context(s))]

\* Before the first multi-stream decoder operation no stream has references.
LEMMA NothingBefore ==
  ASSUME TypeOK, ModeInv, msdos = 0, pc = "obu"
  PROVE  \A s \in Streams : Refs(Context(s)) = {}
<1>1. ~mode /\ ~msdo
  BY DEF ModeInv, TypeOK
<1>2. map = EmptyMap /\ \A s \in Streams : stored[s] = EmptyMap
  BY <1>1 DEF ModeInv
<1>3. \A s \in Streams : Context(s) = EmptyMap
  BY <1>2 DEF Context
<1> QED
  BY <1>3, EmptyRefs

\* A refresh leaves its stream some of its references and the new frame.
LEMMA UpdateDecodes ==
  ASSUME IInv, NEW flags \in SUBSET Slots,
         NEW output \in {"hidden", "implicit", "shown"}, Update(flags, output)
  PROVE  \E kept \in SUBSET Refs(Context(unit.stream)),
            new \in {{}} \cup {{b} : b \in Buffers \ UNION {StreamRefs[s] : s \in Streams}} :
           StreamRefs' = [StreamRefs EXCEPT ![unit.stream] = kept \cup new]
<1>0. TypeOK /\ LiveInv /\ CurInv
  BY DEF IInv
<1>1. pc = "update"
  BY DEF Update
<1>2. PICK out \in SUBSET Buffers : Refreshed(flags, out)
  BY Refresh
<1>3. live = unit.stream /\ live \in Streams
  BY <1>0, <1>1, <1>2 DEF LiveInv, Refreshed
<1>4. /\ Context(live) = map
      /\ \A s \in Streams : Context(s)' = IF s = live THEN map' ELSE Context(s)
      /\ \A i \in Slots \ flags : map'[i] = map[i]
      /\ \A i \in flags : map'[i] \in {cur, NoBuf}
  BY <1>2 DEF Refreshed
<1>5. cur \in Buffers /\ \A s \in Streams : cur \notin Refs(Context(s))
  BY <1>0, <1>1 DEF CurInv, FramePCs, TypeOK
<1>6. cur \in Buffers \ UNION {StreamRefs[s] : s \in Streams}
  BY <1>5 DEF StreamRefs
<1> DEFINE kept == Refs(map') \ {cur}
           new == Refs(map') \cap {cur}
<1>7. kept \in SUBSET Refs(map)
  BY <1>4 DEF Refs
<1>8. new \in {{}} \cup {{b} : b \in Buffers \ UNION {StreamRefs[s] : s \in Streams}}
  <2>1. new = {} \/ new = {cur}
    OBVIOUS
  <2> HIDE DEF new
  <2> QED
    BY <1>6, <2>1
<1>9. \A s \in Streams : Refs(Context(s))' = IF s = live THEN kept \cup new
                                            ELSE Refs(Context(s))
  <2>1. \A s \in Streams : Refs(Context(s))' = Refs(Context(s)')
    BY DEF Refs
  <2> QED
    BY <1>4, <2>1
<1>10. StreamRefs' = [StreamRefs EXCEPT ![unit.stream] = kept \cup new]
  BY <1>3, <1>9 DEF StreamRefs
<1> HIDE DEF kept, new
<1> QED
  BY <1>3, <1>4, <1>7, <1>8, <1>10

\* Where the contexts stay, so do the references of the streams.
LEMMA StreamRefsStay ==
  ASSUME \A s \in Streams : Context(s)' = Context(s)
  PROVE  StreamRefs' = StreamRefs
<1>1. \A s \in Streams : Refs(Context(s))' = Refs(Context(s)')
  BY DEF Refs
<1> QED
  BY <1>1 DEF StreamRefs

LEMMA StepDecodes ==
  ASSUME IInv, [Next]_vars
  PROVE  [Decoders!Next]_(Decoders!vars)
<1>0. /\ TypeOK /\ ObusInv /\ ModeInv /\ LiveInv /\ CurInv
  BY DEF IInv
<1>1. CASE UNCHANGED vars
  BY <1>1 DEF vars, Decoders!vars, streamVars, frameVars, Context
<1>2. SUFFICES ASSUME Next PROVE [Decoders!Next]_(Decoders!vars)
  BY <1>1
<1>3. ASSUME \A s \in Streams : Context(s)' = Context(s), unit' = unit, msdos' = msdos
      PROVE  UNCHANGED Decoders!vars
  BY <1>3, StreamRefsStay DEF Decoders!vars, StreamRefs
<1>4. ASSUME NEW s \in Streams, NEW kind \in {"CLK", "INTER"}, StartUnit(s, kind)
      PROVE  Decoders!Begin(s)
  <2>1. unit'.stream = s /\ UNCHANGED <<live, map, stored, msdos>>
    BY <1>4 DEF StartUnit, streamVars
  <2>2. StreamRefs' = StreamRefs
    BY <2>1, ContextsStay, StreamRefsStay
  <2> QED
    BY <2>1, <2>2 DEF Decoders!Begin, StreamRefs
<1>5. CASE KeyFlush \/ AssignBuffer \/ AssignFails \/ Fail \/ Flush
  <2>1. UNCHANGED <<unit, live, map, stored, msdos>>
    BY <1>5 DEF KeyFlush, AssignBuffer, AssignFails, Fail, Flush, UnitFails, streamVars
  <2> QED
    BY <1>3, <2>1, ContextsStay
<1>6. CASE ReadOBU
  <2>1. pc = "obu" /\ Switch(NextOBU.layer) /\ UNCHANGED <<unit, msdos>>
        /\ NextOBU.type # "FRAME"
    BY <1>6 DEF ReadOBU
  <2>2. NextOBU.layer \in XLayers
    BY <1>0, <2>1, TailShape DEF OBURecord
  <2> QED
    BY <1>0, <1>3, <2>1, <2>2, ContextsKept
<1>7. CASE ReadFrame
  <2>1. pc = "obu" /\ Switch(NextOBU.layer) /\ UNCHANGED <<unit, msdos>>
        /\ NextOBU.type = "FRAME"
    BY <1>7 DEF ReadFrame
  <2>2. NextOBU.layer \in XLayers
    BY <1>0, <2>1, FrameLast DEF XLayers
  <2> QED
    BY <1>0, <1>3, <2>1, <2>2, ContextsKept
<1>8. CASE ReadMSDO
  <2>1. pc = "obu" /\ unit' = unit /\ msdos' = msdos + 1
    BY <1>8 DEF ReadMSDO
  <2>2. StreamRefs' = [s \in Streams |-> {}]
    <3>1. \A s \in Streams : Refs(Context(s))' = Refs(Context(s)')
      BY DEF Refs
    <3> QED
      BY <1>8, <3>1, NoContexts, EmptyRefs DEF StreamRefs
  <2>3. CASE msdos = 0
    <3>1. StreamRefs = [s \in Streams |-> {}]
      BY <1>0, <2>1, <2>3, NothingBefore DEF StreamRefs
    <3> QED
      BY <2>1, <2>2, <2>3, <3>1 DEF Decoders!vars, StreamRefs
  <2>4. CASE msdos # 0
    <3>1. Restarts' = Restarts + 1
      BY <1>0, <2>1, <2>4 DEF Restarts, TypeOK
    <3> QED
      BY <2>1, <2>2, <3>1 DEF Decoders!Restart, Decoders!Next, StreamRefs, Restarts
  <2> QED
    BY <2>3, <2>4
<1>9. CASE ReadHeader
  <2>1. pc = "header" /\ UNCHANGED <<unit, live, stored, msdos>>
    BY <1>9 DEF ReadHeader, streamVars
  <2>2. CASE unit.kind = "CLK"
    <3>1. /\ live \in Streams
          /\ \A s \in Streams : Context(s)' = IF s = live THEN EmptyMap ELSE Context(s)
      BY <1>9, <2>2, KeyHeader
    <3>2. live = unit.stream
      BY <1>0, <2>1 DEF LiveInv
    <3>3. \A s \in Streams : Refs(Context(s))' = Refs(Context(s)')
      BY DEF Refs
    <3>4. StreamRefs' = [StreamRefs EXCEPT ![unit.stream] = {} \cup {}]
      BY <3>1, <3>2, <3>3, EmptyRefs DEF StreamRefs
    <3>5. Decoders!Decode
      BY <2>1, <3>4, Zenon DEF Decoders!Decode, StreamRefs
    <3> QED
      BY <3>5 DEF Decoders!Next
  <2>3. CASE unit.kind # "CLK"
    <3>1. map' = map
      BY <1>9, <2>3 DEF ReadHeader
    <3> QED
      BY <1>3, <2>1, <3>1, ContextsStay
  <2> QED
    BY <2>2, <2>3
<1>10. ASSUME NEW flags \in SUBSET Slots, NEW output \in {"hidden", "implicit", "shown"},
              Update(flags, output)
       PROVE  Decoders!Decode
  <2>1. UNCHANGED <<unit, msdos>>
    BY <1>10 DEF Update, streamVars
  <2>2. PICK kept \in SUBSET Refs(Context(unit.stream)),
             new \in {{}} \cup {{b} : b \in Buffers
                                          \ UNION {StreamRefs[s] : s \in Streams}} :
          StreamRefs' = [StreamRefs EXCEPT ![unit.stream] = kept \cup new]
    BY <1>10, UpdateDecodes
  <2>3. unit.stream \in Streams
    BY <1>0 DEF TypeOK
  <2>4. kept \in SUBSET StreamRefs[unit.stream]
    BY <2>2, <2>3 DEF StreamRefs
  <2> QED
    BY <2>1, <2>2, <2>4 DEF Decoders!Decode, StreamRefs
<1> QED
  BY <1>2, <1>4, <1>5, <1>6, <1>7, <1>8, <1>9, <1>10 DEF Next, Decoders!Next

\* Whatever the order in which the OBUs store and restore contexts, the streams
\* are decoded as by decoders of their own.
THEOREM RefinesStreams == Spec => ImplementsStreams
<1>1. Init => Decoders!Init
  <2> SUFFICES ASSUME Init PROVE Decoders!Init
    OBVIOUS
  <2>1. \A s \in Streams : Context(s) = EmptyMap
    BY DEF Init, Context
  <2>2. unit.stream \in Streams /\ msdos = 0
    BY DEF Init
  <2> QED
    BY <2>1, <2>2, EmptyRefs DEF Decoders!Init
<1>2. IInv /\ [Next]_vars => [Decoders!Next]_(Decoders!vars)
  BY StepDecodes
<1> QED
  BY <1>1, <1>2, Inductive, PTL DEF Spec, ImplementsStreams, Decoders!Spec

-----------------------------------------------------------------------------
(* Frames that wait are output                                              *)

\* A frame that waits, and whose flag and place a step does not touch, still
\* waits in its stream.
LEMMA PendingStays ==
  ASSUME \A s \in Streams : Context(s)' = Context(s),
         NEW b, IsPending(b), b \in waits'
  PROVE  IsPending(b)'
<1>1. PICK s \in Streams : b \in Refs(Context(s))
  BY DEF IsPending
<1>2. b \in Refs(Context(s)')
  BY <1>1
<1>3. b \in Refs(Context(s))'
  BY <1>2 DEF Refs
<1> QED
  BY <1>3 DEF IsPending

LEMMA StepKeeps ==
  ASSUME IInv, [Next]_vars, NEW b \in Buffers, IsPending(b), ~IsPending(b)'
  PROVE  \/ b \in outputs'
         \/ pc = "obu" /\ NextOBU.type = "MSDO"
         \/ pc = "header" /\ unit.before # unit.stream
<1>0. /\ TypeOK /\ RefsAccounted /\ ObusInv /\ ModeInv /\ LiveInv /\ CurInv
      /\ WaitsInv /\ FlushInv
  BY DEF IInv
<1>1. PICK u \in Streams : b \in Refs(Context(u))
  BY DEF IsPending
<1>2. b \in waits /\ refCount[b] > 0 /\ b \notin outputs /\ b # cur
  BY <1>0 DEF IsPending, WaitsInv
<1>3. ASSUME \A s \in Streams : Context(s)' = Context(s)
      PROVE  b \notin waits'
  BY <1>3, PendingStays
<1>4. CASE UNCHANGED vars
  BY <1>3, <1>4, <1>2, ContextsStay DEF vars, streamVars, frameVars
<1>5. ASSUME NEW s \in Streams, NEW kind \in {"CLK", "INTER"}, StartUnit(s, kind)
      PROVE  FALSE
  <2>1. UNCHANGED <<live, map, stored>> /\ DropRefs(OneRef(outputs), refCount, waits)
    BY <1>5 DEF StartUnit, streamVars
  <2>2. waits \in SUBSET Buffers
    BY <1>0 DEF TypeOK
  <2>3. b \in waits'
    BY <1>0, <1>2, <2>1, <2>2, DropOne
  <2> QED
    BY <1>3, <2>1, <2>3, ContextsStay
<1>6. CASE KeyFlush
  <2>1. UNCHANGED <<live, map, stored>> /\ OutputAll(Waiting)
    BY <1>6 DEF KeyFlush, streamVars
  <2> QED
    BY <1>2, <1>3, <2>1, ContextsStay DEF OutputAll
<1>7. CASE AssignBuffer \/ AssignFails
  <2>1. UNCHANGED <<live, map, stored, waits>>
    BY <1>7 DEF AssignBuffer, AssignFails, streamVars, frameVars
  <2> QED
    BY <1>2, <1>3, <2>1, ContextsStay
<1>8. CASE Fail
  <2>1. UNCHANGED <<live, map, stored>> /\ DropRefs(OneRef({cur}), refCount, waits)
    BY <1>8 DEF Fail, streamVars
  <2>2. waits \in SUBSET Buffers
    BY <1>0 DEF TypeOK
  <2>3. b \in waits'
    BY <1>0, <1>2, <2>1, <2>2, DropOne
  <2> QED
    BY <1>3, <2>1, <2>3, ContextsStay
<1>9. CASE Flush
  <2>1. /\ UNCHANGED <<live, map, stored>> /\ outputs' = Waiting
        /\ DropRefs(OneRef(outputs), refCount, waits \ Waiting)
    BY <1>9 DEF Flush, streamVars
  <2>2. waits \ Waiting \in SUBSET Buffers
    BY <1>0 DEF TypeOK
  <2>3. b \notin Waiting => b \in waits'
    BY <1>0, <1>2, <2>1, <2>2, DropOne
  <2> QED
    BY <1>3, <2>1, <2>3, ContextsStay
<1>10. CASE ReadOBU \/ ReadFrame
  <2>1. pc = "obu" /\ Switch(NextOBU.layer) /\ waits' = waits
    BY <1>10 DEF ReadOBU, ReadFrame, frameVars
  <2>2. NextOBU.layer \in XLayers
    BY <1>0, <2>1, TailShape, FrameLast DEF OBURecord, XLayers
  <2> QED
    BY <1>0, <1>2, <1>3, <2>1, <2>2, ContextsKept
<1>11. CASE ReadMSDO
  BY <1>11 DEF ReadMSDO
<1>12. CASE ReadHeader
  <2>1. pc = "header"
    BY <1>12 DEF ReadHeader
  <2>2. CASE unit.kind = "CLK"
    <3> SUFFICES ASSUME unit.before = unit.stream
                 PROVE  FALSE
      BY <2>1
    <3>1. /\ live \in Streams /\ Context(live) = map
          /\ \A s \in Streams : Context(s)' = IF s = live THEN EmptyMap ELSE Context(s)
          /\ \A c \in waits : SlotRefs(map, Slots)[c] < refCount[c] => c \in waits'
      BY <1>12, <2>2, KeyHeader
    <3>2. live = unit.stream
      BY <1>0, <2>1 DEF LiveInv
    <3>3. b \notin Refs(map)
      BY <1>0, <1>2, <2>1, <2>2, <3>1, <3>2 DEF FlushInv
    <3>4. SlotRefs(map, Slots)[b] = 0
      <4>1. \A i \in Slots : map[i] # b
        BY <3>3, BuffersAssumption DEF Refs
      <4> QED
        BY <4>1, SlotRefsType
    <3>5. b \in waits'
      BY <1>2, <3>1, <3>4
    <3>6. u # live /\ Context(u)' = Context(u)
      BY <1>1, <3>1, <3>3
    <3>7. b \in Refs(Context(u))'
      BY <1>1, <3>6 DEF Refs
    <3> QED
      BY <3>5, <3>7 DEF IsPending
  <2>3. CASE unit.kind # "CLK"
    <3>1. UNCHANGED <<live, map, stored, waits>>
      BY <1>12, <2>3 DEF ReadHeader, streamVars
    <3> QED
      BY <1>2, <1>3, <3>1, ContextsStay
  <2> QED
    BY <2>2, <2>3
<1>13. ASSUME NEW flags \in SUBSET Slots, NEW output \in {"hidden", "implicit", "shown"},
              Update(flags, output)
       PROVE  b \in outputs'
  <2> SUFFICES ASSUME b \notin outputs'
               PROVE  FALSE
    OBVIOUS
  <2>1. PICK out \in SUBSET Buffers : Refreshed(flags, out)
    BY <1>13, Refresh
  <2>2. /\ live \in Streams /\ Context(live) = map
        /\ \A s \in Streams : Context(s)' = IF s = live THEN map' ELSE Context(s)
        /\ \A i \in Slots \ flags : map'[i] = map[i]
        /\ Evicted(flags) \subseteq out /\ outputs' = outputs \cup out
        /\ \A c \in waits \ out : refCount'[c] > 0 => c \in waits'
    BY <2>1 DEF Refreshed
  <2>3. b \notin out
    BY <2>2
  <2>4. \A i \in flags : map[i] # b
    BY <1>2, <2>2, <2>3 DEF Evicted
  <2>5. b \in Refs(Context(u)')
    <3>1. CASE u = live
      <4>1. PICK i \in Slots : map[i] = b
        BY <1>1, <2>2, <3>1 DEF Refs
      <4>2. map'[i] = b
        BY <2>2, <2>4, <4>1
      <4> QED
        BY <2>2, <3>1, <4>2, BuffersAssumption DEF Refs
    <3>2. CASE u # live
      BY <1>1, <2>2, <3>2
    <3> QED
      BY <3>1, <3>2
  <2>6. b \in Refs(Context(u))'
    BY <2>5 DEF Refs
  <2>7. refCount'[b] > 0
    <3>1. Net(flags, b) \in Nat
      <4>1. SlotRefs(map, flags)[b] = 0 /\ SlotRefs(map', flags)[b] \in Nat
        BY <2>4, SlotRefsType
      <4> QED
        BY <4>1 DEF Net
    <3>2. refCount'[b] = refCount[b] + Net(flags, b)
      <4>1. refCount'[b] = refCount[b] + Net(flags, b) + (IF b \in out THEN 1 ELSE 0)
                                      - (IF b = cur THEN 1 ELSE 0)
        BY <2>1 DEF Refreshed
      <4>2. refCount[b] \in Nat
        BY <1>0 DEF TypeOK
      <4> QED
        BY <1>2, <2>3, <3>1, <4>1, <4>2
    <3> QED
      BY <1>0, <1>2, <3>1, <3>2, Counts
  <2>8. b \in waits'
    BY <1>2, <2>2, <2>3, <2>7
  <2> QED
    BY <2>6, <2>8 DEF IsPending
<1> QED
  BY <1>4, <1>5, <1>6, <1>7, <1>8, <1>9, <1>10, <1>11, <1>12, <1>13 DEF Next

\* A frame that waits for output leaves the slots of its stream by being output,
\* but for the two places where the code lets go of it.
THEOREM FramesKept == Spec => PendingKept
<1>1. IInv /\ [Next]_vars =>
        [\A b \in Buffers :
           IsPending(b) /\ ~IsPending(b)' =>
             \/ b \in outputs'
             \/ pc = "obu" /\ NextOBU.type = "MSDO"
             \/ pc = "header" /\ unit.before # unit.stream]_vars
  BY StepKeeps
<1> QED
  BY <1>1, Inductive, PTL DEF Spec, PendingKept

=============================================================================
