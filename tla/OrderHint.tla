------------------------------ MODULE OrderHint ------------------------------
(***************************************************************************)
(* The display order hint of a frame, derived by the decoder from the few  *)
(* low bits the stream signals and the largest display order hint in the   *)
(* reference slots (get_disp_order_hint; get_disp_order_hint_keyobu is the *)
(* same loop).  DPB leaves the derived value open; here it is computed.    *)
(* One layer; a frame header and a show_existing_frame derive alike.       *)
(***************************************************************************)
EXTENDS Integers, TLAPS

CONSTANTS
  Factor, \* display_order_hint_factor, 1 << (order_hint_bits_minus_1 + 1)
  Limit   \* 1 << (DISPLAY_ORDER_HINT_BITS - 1)

VARIABLES
  pc,
  refs,    \* display order hints of the frames in the slots that may be output
  highest, \* max_disp_order_hint
  cur,     \* cur_disp_order_hint
  order    \* history: the place of the frame in the output order of the encoder

vars == <<pc, refs, highest, cur, order>>

Half == Factor \div 2
Distance == IF highest > cur THEN highest - cur ELSE cur - highest

Init == pc = "frame" /\ refs = {} /\ highest = 0 /\ cur = 0 /\ order = 0

\* A CLK empties the slots, an S frame with restricted references bars them all
\* from the derivation: the order hint is taken as it is.
Restart(hint) ==
  /\ pc = "frame"
  /\ order' = hint /\ cur' = hint
  /\ refs' = {}
  /\ pc' = "derived"
  /\ UNCHANGED highest

\* Any other frame: q of its order is not in the stream.  The encoder keeps the
\* frame less than half the range before the largest order hint in the slots, and
\* at most half the range after it.
Signal(q, hint, top) ==
  /\ pc = "frame"
  /\ top \in refs \cup {0}
  /\ \A r \in refs : r <= top
  /\ highest' = top
  /\ cur' = hint
  /\ order' = q * Factor + hint
  /\ top - Half < order' /\ order' <= top + Half
  /\ pc' = "loop"
  /\ UNCHANGED refs

Unwrap ==
  /\ pc = "loop"
  /\ Distance >= Half
  /\ cur <= highest
  /\ cur' = cur + Factor
  /\ UNCHANGED <<pc, refs, highest, order>>

\* the early return, past the check of the range
ReturnBeyond ==
  /\ pc = "loop"
  /\ Distance >= Half
  /\ cur > highest
  /\ pc' = "derived"
  /\ UNCHANGED <<refs, highest, cur, order>>

ReturnNear ==
  /\ pc = "loop"
  /\ Distance < Half
  /\ pc' = IF cur >= Limit THEN "error" ELSE "derived"
  /\ UNCHANGED <<refs, highest, cur, order>>

\* the frame may be stored, others leave the slots
Refresh ==
  /\ pc = "derived"
  /\ refs' \in SUBSET (refs \cup {cur})
  /\ pc' = "frame"
  /\ UNCHANGED <<highest, cur, order>>

Next ==
  \/ \E hint \in 0..(Factor - 1) : Restart(hint)
  \/ \E q \in Nat, hint \in 0..(Factor - 1), top \in refs \cup {0} : Signal(q, hint, top)
  \/ Unwrap \/ ReturnBeyond \/ ReturnNear
  \/ Refresh

Spec == Init /\ [][Next]_vars

-----------------------------------------------------------------------------
\* The decoder derives the order the encoder meant, frame after frame, so that
\* errors never build up in the slots it derives the next one from.
DerivedOrder == pc = "derived" => cur = order

\* The loop adds the missing multiples one by one and never steps over the order.
Unwrapped == \E k \in Nat : order = cur + k * Factor

OrderInv ==
  /\ pc \in {"frame", "loop", "derived", "error"}
  /\ refs \subseteq Nat
  /\ highest \in Nat /\ cur \in Nat /\ order \in Nat
  /\ pc = "loop" => /\ highest - Half < order /\ order <= highest + Half
                    /\ Unwrapped
  /\ DerivedOrder

LEMMA Multiples ==
  ASSUME NEW f \in Nat, f > 0, NEW k \in Nat, k # 0
  PROVE  k - 1 \in Nat /\ k * f = (k - 1) * f + f /\ (k - 1) * f \in Nat
OBVIOUS

\* The order hint is right for every width of the signalled part and every
\* content of the slots, at both ends of the window: a frame half the range after
\* the largest reference is found by the early return, one half the range before
\* it is out of reach.
THEOREM OrderDerived ==
  ASSUME Factor \in Nat, Factor = 2 * Half, Half \in Nat, Half > 0
  PROVE  Spec => []DerivedOrder
<1>1. Init => OrderInv
  BY DEF Init, OrderInv, DerivedOrder
<1>2. OrderInv /\ [Next]_vars => OrderInv'
  <2> SUFFICES ASSUME OrderInv, [Next]_vars PROVE OrderInv'
    OBVIOUS
  <2> USE DEF OrderInv, DerivedOrder
  <2>1. ASSUME NEW hint \in 0..(Factor - 1), Restart(hint) PROVE OrderInv'
    BY <2>1 DEF Restart
  <2>2. ASSUME NEW q \in Nat, NEW hint \in 0..(Factor - 1), NEW top \in refs \cup {0},
               Signal(q, hint, top)
        PROVE  OrderInv'
    <3>1. q * Factor \in Nat /\ hint \in Nat /\ top \in Nat
      OBVIOUS
    <3>2. order' = cur' + q * Factor
      BY <2>2, <3>1 DEF Signal
    <3>3. Unwrapped'
      BY <3>2 DEF Unwrapped
    <3> QED
      BY <2>2, <3>1, <3>3 DEF Signal
  <2>3. ASSUME pc = "loop"
        PROVE  /\ cur <= order
               /\ cur # order => /\ cur + Factor <= order
                                 /\ \E k \in Nat : order = cur + Factor + k * Factor
    <3>1. PICK k \in Nat : order = cur + k * Factor
      BY <2>3 DEF Unwrapped
    <3>2. CASE k = 0
      BY <3>1, <3>2
    <3>3. CASE k # 0
      <4>1. k - 1 \in Nat /\ k * Factor = (k - 1) * Factor + Factor
            /\ (k - 1) * Factor \in Nat
        BY <3>3, Multiples
      <4>2. order = cur + Factor + (k - 1) * Factor
        BY <3>1, <4>1
      <4> QED
        BY <4>1, <4>2
    <3> QED
      BY <3>2, <3>3
  <2>4. CASE Unwrap
    <3>1. highest - cur >= Half /\ pc = "loop" /\ pc' = pc
      BY <2>4 DEF Unwrap, Distance
    <3>2. cur # order
      BY <3>1
    <3>3. PICK k \in Nat : order = cur + Factor + k * Factor
      BY <2>3, <3>1, <3>2
    <3>4. Unwrapped'
      BY <2>4, <3>3 DEF Unwrap, Unwrapped
    <3> QED
      BY <2>4, <3>1, <3>4 DEF Unwrap
  <2>5. CASE ReturnBeyond
    <3>1. cur - highest >= Half /\ pc = "loop"
      BY <2>5 DEF ReturnBeyond, Distance
    <3>2. cur = order
      BY <2>3, <3>1
    <3> QED
      BY <2>5, <3>2 DEF ReturnBeyond
  <2>6. CASE ReturnNear
    <3>1. highest - cur < Half /\ pc = "loop"
      BY <2>6 DEF ReturnNear, Distance
    <3>2. cur = order
      BY <2>3, <3>1
    <3> QED
      BY <2>6, <3>2 DEF ReturnNear
  <2>7. CASE Refresh
    BY <2>7 DEF Refresh
  <2>8. CASE UNCHANGED vars
    BY <2>8 DEF vars, Unwrapped
  <2> QED
    BY <2>1, <2>2, <2>4, <2>5, <2>6, <2>7, <2>8 DEF Next
<1>3. OrderInv => DerivedOrder
  BY DEF OrderInv
<1> QED
  BY <1>1, <1>2, <1>3, PTL DEF Spec
=============================================================================
