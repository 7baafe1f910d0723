--------------------------- MODULE PrimitiveProofs ---------------------------
(***************************************************************************)
(* Proofs about the pieces that the WireGuard endpoint is built from, for  *)
(* every value of their constants: the replay window (set never panics,    *)
(* the ring is exact, the window implements AntiReplay), the TAI64N clock, *)
(* the order of Scheduler's vector, the wake-up it asks for, and the       *)
(* threads that share a scheduler.                                         *)
(*                                                                         *)
(* The window's inductive invariant is IInv; its heart is RingExact, which *)
(* speaks of the whole ring and not only of the usable window: without the *)
(* spare block and the tail of the newest block the bits of a block        *)
(* entered later would be unconstrained.                                   *)
(***************************************************************************)
EXTENDS ReplayWindow, Integers, Tai64nClock, Scheduler, SchedulerRace, WellFoundedInduction, TLAPS

-----------------------------------------------------------------------------
(* Division, remainder and rings of block indices.                         *)

(* A natural number is quotient times divisor plus remainder. *)
LEMMA DivMod ==
    ASSUME NEW a \in Nat, NEW b \in Nat \ {0}
    PROVE  /\ a \div b \in Nat
           /\ a % b \in 0 .. b - 1
           /\ a = b * (a \div b) + (a % b)
  BY SMT

(* Division is monotone. *)
LEMMA DivMonotone ==
    ASSUME NEW a \in Nat, NEW c \in Nat, NEW b \in Nat \ {0}, a <= c
    PROVE  a \div b <= c \div b
  BY SMT

(* The only multiple of n in 0 .. n - 1 is 0. *)
LEMMA SmallMultiple ==
    ASSUME NEW p \in Int, NEW n \in Nat \ {0}, n * p < n, 0 <= n * p
    PROVE  p = 0
  BY SMT

(* Fewer than n apart and on the same ring slot means equal. *)
LEMMA RingDistinct ==
    ASSUME NEW i \in Nat, NEW j \in Nat, NEW n \in Nat \ {0},
           i <= j, j < i + n, i % n = j % n
    PROVE  i = j
  <1>1. PICK qi \in Nat : i = n * qi + (i % n)
    BY Zenon, DivMod
  <1>2. PICK qj \in Nat : j = n * qj + (j % n)
    BY Zenon, DivMod
  <1>3. i % n \in Nat
    BY DivMod
  <1>4. j - i = n * (qj - qi)
    BY <1>1, <1>2, <1>3, SMT
  <1>5. qj - qi = 0
    BY <1>4, SmallMultiple
  <1>6. QED
    BY <1>4, <1>5

-----------------------------------------------------------------------------
(* Blocks and bits of counters.                                            *)

(* block_idx_unbounded and bit_idx are a block number and a bit position,  *)
(* and block_idx a ring slot.                                              *)
LEMMA BlockTypes ==
    ASSUME NEW c \in Nat
    PROVE  /\ block_idx_unbounded(c) \in Nat
           /\ bit_idx(c) \in 0 .. BlockBits - 1
           /\ block_idx(c) \in 0 .. NBlocks - 1
  <1>1. block_idx_unbounded(c) \in Nat /\ bit_idx(c) \in 0 .. BlockBits - 1
    BY Zenon, DivMod, ReplayAssumption DEF block_idx_unbounded, bit_idx
  <1>2. NBlocks \in Nat \ {0}
    BY Zenon, ReplayAssumption
  <1>3. QED
    BY Zenon, <1>1, <1>2, DivMod DEF block_idx

(* A counter is determined by its block and its bit. *)
LEMMA BlockBitInjective ==
    ASSUME NEW c \in Nat, NEW d \in Nat,
           block_idx_unbounded(c) = block_idx_unbounded(d), bit_idx(c) = bit_idx(d)
    PROVE  c = d
  <1>1. c = BlockBits * (c \div BlockBits) + (c % BlockBits)
    BY Zenon, DivMod, ReplayAssumption
  <1>2. d = BlockBits * (d \div BlockBits) + (d % BlockBits)
    BY Zenon, DivMod, ReplayAssumption
  <1>3. QED
    BY Zenon, <1>1, <1>2 DEF block_idx_unbounded, bit_idx

(* Later counters are in later blocks. *)
LEMMA BlockMonotone ==
    ASSUME NEW c \in Nat, NEW d \in Nat, c <= d
    PROVE  block_idx_unbounded(c) <= block_idx_unbounded(d)
  BY Zenon, DivMonotone, ReplayAssumption DEF block_idx_unbounded

(* A counter in the usable window is in one of the ring's blocks: this is  *)
(* what leaving one block unused buys.                                     *)
LEMMA WindowInRing ==
    ASSUME last \in Nat, NEW c \in Nat, c <= last, c >= smallest_valid
    PROVE  /\ block_idx_unbounded(c) <= block_idx_unbounded(last)
           /\ block_idx_unbounded(last) < block_idx_unbounded(c) + NBlocks
  <1>1. block_idx_unbounded(c) <= block_idx_unbounded(last)
    BY Zenon, BlockMonotone
  <1>2. PICK qc \in Nat, rc \in 0 .. BlockBits - 1 :
           qc = block_idx_unbounded(c) /\ c = BlockBits * qc + rc
    BY ZenonT(30), DivMod, ReplayAssumption DEF block_idx_unbounded
  <1>3. PICK ql \in Nat, rl \in 0 .. BlockBits - 1 :
           ql = block_idx_unbounded(last) /\ last = BlockBits * ql + rl
    BY ZenonT(30), DivMod, ReplayAssumption DEF block_idx_unbounded
  <1>4. WINDOW_SIZE = BlockBits * NBlocks - BlockBits /\ WINDOW_SIZE \in Nat
    BY ReplayAssumption DEF WINDOW_SIZE
  <1>5. last < c + WINDOW_SIZE
    BY <1>4 DEF smallest_valid
  <1>6. ASSUME ql >= qc + NBlocks PROVE FALSE
    <2>1. BlockBits * ql >= BlockBits * (qc + NBlocks)
      BY <1>6, ReplayAssumption
    <2>2. BlockBits * (qc + NBlocks) = BlockBits * qc + BlockBits * NBlocks
      BY ReplayAssumption
    <2>3. QED
      BY <2>1, <2>2, <1>2, <1>3, <1>4, <1>5, ReplayAssumption
  <1>7. QED
    BY <1>1, <1>2, <1>3, <1>6, ReplayAssumption

-----------------------------------------------------------------------------
(* The invariant.                                                          *)

IInv ==
    /\ TypeOK
    /\ NeverPanics
    /\ LastIsNewest
    /\ RingExact

(* The counters whose bit the ring holds when top is the newest counter. *)
InRing(d, top) ==
    /\ block_idx_unbounded(d) <= block_idx_unbounded(top)
    /\ block_idx_unbounded(top) < block_idx_unbounded(d) + NBlocks

(* The blocks that AdvanceTo leaves hold exactly the accepted counters in  *)
(* the ring of the new newest counter.                                     *)
LEMMA AdvanceExact ==
    ASSUME IInv, NEW c \in Counters, c > last
    PROVE  /\ AdvanceTo(c) \in [0 .. NBlocks - 1 -> SUBSET (0 .. BlockBits - 1)]
           /\ \A d \in Counters :
                InRing(d, c) => (BitSet(AdvanceTo(c), d) <=> d \in accepted)
  <1> DEFINE K(x) == block_idx_unbounded(x)
  <1>1. /\ last \in Nat /\ c \in Nat /\ K(last) \in Nat /\ K(c) \in Nat
        /\ K(last) <= K(c) /\ NBlocks \in Nat \ {0, 1}
    <2>1. last \in Nat /\ c \in Nat /\ last <= c
      BY ReplayAssumption DEF IInv, TypeOK, Counters
    <2>2. K(last) \in Nat /\ K(c) \in Nat
      BY Zenon, <2>1, BlockTypes
    <2>3. K(last) <= K(c)
      BY Zenon, <2>1, BlockMonotone
    <2>4. QED
      BY Zenon, <2>1, <2>2, <2>3, ReplayAssumption
  <1>2. AdvanceTo(c) \in [0 .. NBlocks - 1 -> SUBSET (0 .. BlockBits - 1)]
    BY Zenon DEF AdvanceTo, IInv, TypeOK
  <1>3. ASSUME NEW d \in Counters, InRing(d, c)
        PROVE  BitSet(AdvanceTo(c), d) <=> d \in accepted
    <2>1. /\ d \in Nat /\ K(d) \in Nat /\ K(d) <= K(c) /\ K(c) < K(d) + NBlocks
          /\ block_idx(d) = K(d) % NBlocks /\ block_idx(d) \in 0 .. NBlocks - 1
      BY <1>3, BlockTypes DEF Counters, InRing, block_idx
    <2>2. ASSUME d \in accepted PROVE K(d) <= K(last)
      BY Zenon, <2>1, <2>2, <1>1, BlockMonotone DEF IInv, LastIsNewest
    <2>3. CASE K(c) - K(last) >= NBlocks
      <3>1. AdvanceTo(c)[block_idx(d)] = {}
        BY Zenon, <2>1, <2>3 DEF AdvanceTo
      <3>2. QED
        BY <3>1, <2>1, <2>2, <2>3, <1>1 DEF BitSet
    <2>4. CASE K(c) - K(last) < NBlocks /\ K(d) > K(last)
      <3>1. /\ K(d) - 1 \in K(last) .. K(c) - 1
            /\ block_idx(d) = ((K(d) - 1) + 1) % NBlocks
        BY <2>1, <2>4, <1>1
      <3>2. AdvanceTo(c)[block_idx(d)] = {}
        BY Zenon, <3>1, <2>1, <2>4, <1>1 DEF AdvanceTo
      <3>3. QED
        BY <3>2, <2>1, <2>2, <2>4, <1>1 DEF BitSet
    <2>5. CASE K(c) - K(last) < NBlocks /\ K(d) <= K(last)
      <3>1. ASSUME NEW j \in K(last) .. K(c) - 1, block_idx(d) = (j + 1) % NBlocks
            PROVE  FALSE
        <4>1. /\ j + 1 \in Nat /\ K(d) < j + 1 /\ j + 1 < K(d) + NBlocks
              /\ K(d) % NBlocks = (j + 1) % NBlocks
          BY <3>1, <2>1, <2>5, <1>1
        <4>2. K(d) \in Nat /\ K(d) <= j + 1 /\ NBlocks \in Nat \ {0}
          BY <4>1, <2>1, <1>1
        <4> HIDE DEF K
        <4>3. K(d) = j + 1
          BY Zenon, <4>1, <4>2, RingDistinct
        <4>4. QED
          BY <4>1, <4>3, <4>2
      <3>2. AdvanceTo(c)[block_idx(d)] = blocks[block_idx(d)]
        BY <3>1, <2>1, <2>5, <1>1 DEF AdvanceTo
      <3>3. BitSet(blocks, d) <=> d \in accepted
        BY <2>1, <2>5, <1>1 DEF IInv, RingExact
      <3>4. QED
        BY Zenon, <3>2, <3>3 DEF BitSet
    <2>6. QED
      BY <2>1, <2>3, <2>4, <2>5, <1>1
  <1>4. QED
    BY Zenon, <1>2, <1>3

(* Setting the bit of a counter in the ring sets no other counter's bit. *)
LEMMA SetBitExact ==
    ASSUME NEW b \in [0 .. NBlocks - 1 -> SUBSET (0 .. BlockBits - 1)],
           NEW c \in Counters, NEW d \in Counters, NEW top \in Counters,
           InRing(c, top), InRing(d, top)
    PROVE  BitSet([b EXCEPT ![block_idx(c)] = @ \cup {bit_idx(c)}], d)
              <=> (d = c \/ BitSet(b, d))
  <1> DEFINE K(x) == block_idx_unbounded(x)
  <1>1. /\ c \in Nat /\ d \in Nat /\ K(c) \in Nat /\ K(d) \in Nat /\ K(top) \in Nat
        /\ block_idx(c) \in 0 .. NBlocks - 1 /\ block_idx(d) \in 0 .. NBlocks - 1
        /\ block_idx(c) = K(c) % NBlocks /\ block_idx(d) = K(d) % NBlocks
        /\ NBlocks \in Nat \ {0}
    BY BlockTypes, ReplayAssumption DEF Counters, block_idx
  <1>2. ASSUME block_idx(c) = block_idx(d) PROVE K(c) = K(d)
    <2>1. CASE K(c) <= K(d)
      <3>1. K(d) < K(c) + NBlocks /\ K(c) % NBlocks = K(d) % NBlocks
        BY <1>1, <1>2, <2>1 DEF InRing
      <3> HIDE DEF K
      <3>2. QED
        BY Zenon, <3>1, <1>1, <2>1, RingDistinct
    <2>2. CASE K(d) <= K(c)
      <3>1. K(c) < K(d) + NBlocks /\ K(d) % NBlocks = K(c) % NBlocks
        BY <1>1, <1>2, <2>2 DEF InRing
      <3> HIDE DEF K
      <3>2. QED
        BY Zenon, <3>1, <1>1, <2>2, RingDistinct
    <2>3. QED
      BY <2>1, <2>2, <1>1
  <1>3. CASE block_idx(c) = block_idx(d)
    <2>1. bit_idx(c) = bit_idx(d) => c = d
      BY Zenon, <1>1, <1>2, <1>3, BlockBitInjective
    <2>2. QED
      BY Zenon, <2>1, <1>1, <1>3 DEF BitSet
  <1>4. CASE block_idx(c) # block_idx(d)
    BY Zenon, <1>1, <1>4 DEF BitSet
  <1>5. QED
    BY Zenon, <1>3, <1>4

(* An accepted packet: set does not panic and keeps the invariant. *)
LEMMA SetPreservesIInv ==
    ASSUME IInv, NEW c \in Counters, check(c), set(c), verdict' \in BOOLEAN
    PROVE  IInv' /\ accepted' = accepted \cup {c}
  <1> DEFINE cleared == IF c > last THEN AdvanceTo(c) ELSE blocks
             top == IF c > last THEN c ELSE last
  <1>1. /\ last \in Counters /\ c \in Nat /\ last \in Nat /\ top \in Counters
        /\ smallest_valid \in Nat /\ smallest_valid <= last /\ WINDOW_SIZE \in Nat
    <2>1. WINDOW_SIZE \in Nat \ {0}
      BY ReplayAssumption DEF WINDOW_SIZE
    <2>2. QED
      BY <2>1 DEF IInv, TypeOK, Counters, smallest_valid
  <1>2. c >= smallest_valid
    BY <1>1 DEF check
  <1>3. InRing(c, top)
    <2>1. CASE c > last
      BY <2>1, <1>1, BlockTypes, ReplayAssumption DEF InRing
    <2>2. CASE c <= last
      BY <2>2, <1>1, <1>2, WindowInRing DEF InRing
    <2>3. QED
      BY <2>1, <2>2, <1>1
  <1>4. /\ cleared \in [0 .. NBlocks - 1 -> SUBSET (0 .. BlockBits - 1)]
        /\ \A d \in Counters : InRing(d, top) => (BitSet(cleared, d) <=> d \in accepted)
    <2>1. CASE c > last
      BY Zenon, <2>1, AdvanceExact
    <2>2. CASE ~(c > last)
      BY Zenon, <2>2 DEF IInv, TypeOK, RingExact, InRing
    <2>3. QED
      BY Zenon, <2>1, <2>2
  <1>5. ~ BitSet(cleared, c)
    <2>1. CASE c > last
      BY <2>1, <1>1, <1>3, <1>4 DEF IInv, LastIsNewest
    <2>2. CASE ~(c > last)
      BY Zenon, <2>2 DEF check
    <2>3. QED
      BY Zenon, <2>1, <2>2
  <1>6. /\ last' = top
        /\ blocks' = [cleared EXCEPT ![block_idx(c)] = @ \cup {bit_idx(c)}]
        /\ accepted' = accepted \cup {c}
        /\ panicked' = panicked
    BY <1>1, <1>2, <1>5 DEF set
  <1>7. block_idx(c) \in 0 .. NBlocks - 1 /\ bit_idx(c) \in 0 .. BlockBits - 1
    BY Zenon, <1>1, BlockTypes
  <1>8. TypeOK' /\ NeverPanics'
    BY Zenon, <1>1, <1>4, <1>6, <1>7 DEF IInv, TypeOK, NeverPanics, Counters
  <1>9. LastIsNewest'
    BY <1>1, <1>6 DEF IInv, TypeOK, LastIsNewest, Counters
  <1>10. RingExact'
    <2>1. ASSUME NEW d \in Counters, InRing(d, top)
          PROVE  BitSet(blocks', d) <=> d \in accepted'
      BY Zenon, <2>1, <1>1, <1>3, <1>4, <1>6, SetBitExact
    <2>2. QED
      BY Zenon, <2>1, <1>6 DEF RingExact, InRing, BitSet, block_idx, block_idx_unbounded, bit_idx
  <1>11. QED
    BY Zenon, <1>6, <1>8, <1>9, <1>10 DEF IInv

-----------------------------------------------------------------------------
(* The theorems.                                                           *)

(* The initial window satisfies the invariant. *)
LEMMA InitIInv == Init => IInv
  <1> SUFFICES ASSUME Init PROVE IInv
    OBVIOUS
  <1>1. TypeOK /\ NeverPanics /\ LastIsNewest
    <2>1. last \in Counters
      BY ReplayAssumption DEF Init, Counters
    <2>2. blocks \in [0 .. NBlocks - 1 -> SUBSET (0 .. BlockBits - 1)]
      BY Zenon DEF Init
    <2>3. panicked = FALSE /\ verdict = FALSE /\ accepted = {} /\ last = 0
      BY Zenon DEF Init
    <2>4. QED
      BY Zenon, <2>1, <2>2, <2>3 DEF TypeOK, NeverPanics, LastIsNewest
  <1>2. ASSUME NEW c \in Counters PROVE ~ BitSet(blocks, c) /\ c \notin accepted
    BY BlockTypes DEF Init, Counters, BitSet
  <1>3. RingExact
    BY Zenon, <1>2 DEF RingExact
  <1>4. QED
    BY Zenon, <1>1, <1>3 DEF IInv

(* Every packet keeps the invariant and is treated as AntiReplay says. *)
LEMMA NextIInv == IInv /\ [Next]_vars => IInv' /\ [AR!Next]_(AR!vars)
  <1> SUFFICES ASSUME IInv, [Next]_vars PROVE IInv' /\ [AR!Next]_(AR!vars)
    OBVIOUS
  <1>1. CASE UNCHANGED vars
    <2>1. IInv'
      BY Zenon, <1>1 DEF vars, IInv, TypeOK, NeverPanics, LastIsNewest, RingExact, BitSet,
                  block_idx, block_idx_unbounded, bit_idx
    <2>2. UNCHANGED AR!vars
      BY Zenon, <1>1 DEF vars, AR!vars
    <2>3. QED
      BY Zenon, <2>1, <2>2
  <1>2. ASSUME NEW c \in Counters, NEW authentic \in BOOLEAN, decrypt_one(c, authentic)
        PROVE  IInv' /\ AR!Receive(c, authentic)
    <2>1. check(c) <=> AR!Fresh(c)
      <3>1. WINDOW_SIZE \in Nat \ {0}
        BY ReplayAssumption DEF WINDOW_SIZE
      <3>2. c \in Nat /\ last \in Nat /\ accepted \subseteq Nat
        BY DEF IInv, TypeOK, Counters
      <3>3. CASE c > last
        BY <3>1, <3>2, <3>3 DEF IInv, LastIsNewest, check, AR!Fresh
      <3>4. CASE c <= last /\ c >= smallest_valid
        <4>1. BitSet(blocks, c) <=> c \in accepted
          BY Zenon, <3>2, <3>4, WindowInRing DEF IInv, RingExact
        <4>2. \A s \in accepted : s < c + WINDOW_SIZE
          BY <3>1, <3>2, <3>4 DEF IInv, LastIsNewest, smallest_valid
        <4>3. QED
          BY <4>1, <4>2, <3>2, <3>4 DEF check, AR!Fresh
      <3>5. CASE c <= last /\ c < smallest_valid
        <4>1. last \in accepted /\ ~(last < c + WINDOW_SIZE)
          BY <3>1, <3>2, <3>5 DEF IInv, LastIsNewest, smallest_valid
        <4>2. QED
          BY <4>1, <3>1, <3>2, <3>5 DEF check, AR!Fresh, smallest_valid
      <3>6. smallest_valid \in Nat
        BY <3>1, <3>2 DEF smallest_valid
      <3>7. QED
        BY <3>2, <3>3, <3>4, <3>5, <3>6
    <2>2. CASE check(c) /\ authentic
      <3>1. set(c) /\ verdict' = TRUE
        BY Zenon, <1>2, <2>2 DEF decrypt_one
      <3>2. IInv' /\ accepted' = accepted \cup {c}
        BY Zenon, <3>1, <2>2, SetPreservesIInv
      <3>3. QED
        BY Zenon, <3>1, <3>2, <2>1, <2>2 DEF AR!Receive
    <2>3. CASE ~(check(c) /\ authentic)
      <3>1. UNCHANGED <<last, blocks, accepted, panicked>> /\ verdict' = FALSE
        BY Zenon, <1>2, <2>3 DEF decrypt_one
      <3>2. IInv'
        BY Zenon, <3>1 DEF IInv, TypeOK, NeverPanics, LastIsNewest, RingExact, BitSet,
                    block_idx, block_idx_unbounded, bit_idx
      <3>3. QED
        BY Zenon, <3>1, <3>2, <2>1, <2>3 DEF AR!Receive
    <2>4. QED
      BY Zenon, <2>2, <2>3
  <1>3. QED
    BY Zenon, <1>1, <1>2 DEF Next, AR!Next, AR!Counters, Counters

(* set never panics when decrypt_one drives it. *)
THEOREM WindowNeverPanics == Spec => []NeverPanics
  <1>1. IInv => NeverPanics
    BY Zenon DEF IInv
  <1>2. QED
    BY <1>1, InitIInv, NextIInv, PTL DEF Spec

(* The ring holds exactly the recent accepted counters, in every state. *)
THEOREM WindowRingExact == Spec => [](TypeOK /\ LastIsNewest /\ RingExact)
  <1>1. IInv => TypeOK /\ LastIsNewest /\ RingExact
    BY Zenon DEF IInv
  <1>2. QED
    BY <1>1, InitIInv, NextIInv, PTL DEF Spec

(* The ring-of-blocks window implements the abstract tracker. *)
THEOREM WindowImplementsAntiReplay == Spec => ImplementsAntiReplay
  <1>1. Init => AR!Init
    BY Zenon DEF Init, AR!Init
  <1>2. QED
    BY <1>1, InitIInv, NextIInv, PTL DEF Spec, ImplementsAntiReplay, AR!Spec

-----------------------------------------------------------------------------
(* The clock *)

(* clamp_after yields a representable timestamp later than the bound. *)
LEMMA ClampLater ==
    ASSUME NEW t \in SystemTimes, NEW m \in [secs : Nat, nanos : 0 .. Steps - 1]
    PROVE  /\ clamp_after(t, m) \in [secs : Nat, nanos : 0 .. Steps - 1]
           /\ Later(clamp_after(t, m), m)
<1>1. t \in [secs : Nat, nanos : 0 .. Steps - 1]
  BY ClockAssumption DEF SystemTimes, TAI64N
<1>2. CASE Later(t, m)
  BY Zenon, <1>1, <1>2 DEF clamp_after
<1>3. CASE ~ Later(t, m) /\ m.nanos + 1 = Steps
  BY <1>1, <1>3, ClockAssumption DEF clamp_after, TAI64N, Later
<1>4. CASE ~ Later(t, m) /\ m.nanos + 1 # Steps
  BY <1>1, <1>4, ClockAssumption DEF clamp_after, TAI64N, Later
<1> QED
  BY Zenon, <1>2, <1>3, <1>4

(* Every timestamp of the clock is representable. *)
THEOREM ClockType == ClockSpec => []ClockTypeOK
<1>1. ClockInit => ClockTypeOK
  BY ClockAssumption DEF ClockInit, ClockTypeOK, TAI64N
<1>2. ClockTypeOK /\ [ClockNext]_clockVars => ClockTypeOK'
  BY ClampLater DEF ClockTypeOK, ClockNext, now, clockVars
<1> QED
  BY <1>1, <1>2, PTL DEF ClockSpec

(* Successive timestamps advance, whatever the system clock reads. *)
THEOREM ClockAdvances == ClockSpec => Advances
<1>1. ClockTypeOK /\ [ClockNext]_clockVars => [Later(latest', latest)]_clockVars
  BY Zenon, ClampLater DEF ClockTypeOK, ClockNext, now, clockVars
<1> QED
  BY <1>1, ClockType, PTL DEF ClockSpec, Advances

-----------------------------------------------------------------------------
(* The threads of a scheduler *)

(* Whatever the threads that cancel, reschedule and dispatch do, and       *)
(* whichever of them holds the lock: an event is pending, in an iterator,  *)
(* returned, cancelled or dropped, and never two of these.                 *)
THEOREM RaceOneFate == RaceSpec => []OneFate
<1>1. RaceInit => OneFate
  BY Zenon DEF RaceInit, OneFate
<1>2. OneFate /\ [RaceNext]_raceVars => OneFate'
  <2> SUFFICES ASSUME OneFate, [RaceNext]_raceVars PROVE OneFate'
    OBVIOUS
  <2>1. CASE /\ ~ unwrap_failed
             /\ \E e \in Handles : \/ cancel_upgrade(e) \/ cancel_drop(e)
                                   \/ reschedule_lock(e) \/ reschedule_insert(e)
    BY Zenon, <2>1 DEF OneFate, cancel_upgrade, cancel_drop, reschedule_lock, reschedule_insert
  <2>2. CASE ~ unwrap_failed /\ \E e \in Handles : cancel_remove(e)
    BY <2>2 DEF OneFate, cancel_remove
  <2>3. CASE ~ unwrap_failed /\ \E e \in Handles : into_inner(e)
    BY Zenon, <2>3 DEF OneFate, into_inner
  <2>4. CASE ~ unwrap_failed /\ \E due \in SUBSET queue : dispatch_split(due)
    BY Zenon, <2>4 DEF OneFate, dispatch_split
  <2>5. CASE ~ unwrap_failed /\ drop_iter
    BY Zenon, <2>5 DEF OneFate, drop_iter
  <2>6. CASE UNCHANGED raceVars
    BY Zenon, <2>6 DEF OneFate, raceVars
  <2> QED
    BY Zenon, <2>1, <2>2, <2>3, <2>4, <2>5, <2>6 DEF RaceNext
<1> QED
  BY <1>1, <1>2, PTL DEF RaceSpec

-----------------------------------------------------------------------------
(* The order of the scheduler's vector *)

Event == [id : Ids, start : Nat, end : Nat, seq : Nat]
Elems(s) == {s[i] : i \in DOMAIN s}

(* e is dispatched before f: it starts earlier, or was scheduled first.    *)
Earlier(e, f) == e.start < f.start \/ (e.start = f.start /\ e.seq < f.seq)
Sorted(evs) == \A i, j \in DOMAIN evs : i < j => Earlier(evs[j], evs[i])
Distinct(evs) == \A i, j \in DOMAIN evs : i < j => evs[i].id # evs[j].id
Valid(evs) == \A i \in DOMAIN evs : evs[i].start <= evs[i].end
Ordered(evs) == evs \in Seq(Event) /\ Sorted(evs) /\ Distinct(evs) /\ Valid(evs)

(* A set of natural numbers that is not empty has a least element. *)
LEMMA LeastElement ==
  ASSUME NEW T, T \subseteq Nat, T # {}
  PROVE  \E x \in T : \A y \in T : x <= y
<1>1. PICK x \in T : \A y \in T : ~(<<y, x>> \in OpToRel(<, Nat))
  BY Zenon, NatLessThanWellFounded, WFMin
<1>2. \A y \in T : ~(y < x)
  BY Zenon, <1>1 DEF OpToRel
<1> QED
  BY <1>2

(* The binary search has an answer, and it splits the vector at t. *)
LEMMA PartitionPoint ==
  ASSUME NEW evs \in Seq(Event), NEW t \in Nat
  PROVE  LET p == partition_point(evs, t)
         IN  /\ p \in 1 .. Len(evs) + 1
             /\ \A j \in 1 .. p - 1 : evs[j].start > t
             /\ p <= Len(evs) => evs[p].start <= t
<1> DEFINE T == {i \in 1 .. Len(evs) + 1 : i = Len(evs) + 1 \/ evs[i].start <= t}
<1>1. PICK p \in T : \A y \in T : p <= y
  <2>1. T \subseteq Nat /\ Len(evs) + 1 \in T
    OBVIOUS
  <2> QED
    BY Zenon, <2>1, LeastElement
<1>2. \A j \in 1 .. Len(evs) : evs[j] \in Event
  OBVIOUS
<1>3. \A j \in 1 .. Len(evs) : evs[j].start \in Nat
  BY Zenon, <1>2 DEF Event
<1>4. \A j \in 1 .. p - 1 : evs[j].start > t
  <2> SUFFICES ASSUME NEW j \in 1 .. p - 1 PROVE evs[j].start > t
    OBVIOUS
  <2>1. j \in 1 .. Len(evs) /\ j \notin T
    BY <1>1
  <2> QED
    BY <2>1, <1>3
<1>5. p \in 1 .. Len(evs) + 1 /\ (p <= Len(evs) => evs[p].start <= t)
  OBVIOUS
<1> QED
  BY Zenon, <1>4, <1>5 DEF partition_point

(* What concatenation yields at each position. *)
LEMMA Concatenated ==
  ASSUME NEW s \in Seq(Event), NEW t \in Seq(Event)
  PROVE  /\ s \o t \in Seq(Event) /\ Len(s \o t) = Len(s) + Len(t)
         /\ \A i \in 1 .. Len(s) : (s \o t)[i] = s[i]
         /\ \A i \in Len(s) + 1 .. Len(s) + Len(t) : (s \o t)[i] = t[i - Len(s)]
<1>1. s \o t \in Seq(Event) /\ Len(s \o t) = Len(s) + Len(t)
  OBVIOUS
<1>2. \A i \in 1 .. Len(s) + Len(t) :
        (s \o t)[i] = IF i <= Len(s) THEN s[i] ELSE t[i - Len(s)]
  OBVIOUS
<1> QED
  BY <1>1, <1>2

(* The fields of an event in a vector. *)
LEMMA Fields ==
  ASSUME NEW evs \in Seq(Event)
  PROVE  \A i \in DOMAIN evs : /\ evs[i].start \in Nat /\ evs[i].end \in Nat
                                /\ evs[i].seq \in Nat /\ evs[i].id \in Ids
<1>1. \A i \in DOMAIN evs : evs[i] \in Event
  OBVIOUS
<1> QED
  BY Zenon, <1>1 DEF Event

(* Insertion at the partition point adds the event and keeps the order: it *)
(* lands behind those that start later, and before its contemporaries,     *)
(* which are dispatched from the other end.                                *)
LEMMA InsertOrdered ==
  ASSUME NEW evs, Ordered(evs), NEW e \in Event, e.start <= e.end,
         \A i \in DOMAIN evs : evs[i].id # e.id /\ evs[i].seq < e.seq
  PROVE  Ordered(Insert(evs, e)) /\ Elems(Insert(evs, e)) = Elems(evs) \cup {e}
<1> DEFINE p == partition_point(evs, e.start)
           new == Insert(evs, e)
<1>0. evs \in Seq(Event) /\ e.start \in Nat /\ Len(evs) \in Nat /\ DOMAIN evs = 1 .. Len(evs)
  BY DEF Ordered, Event
<1>1. /\ p \in 1 .. Len(evs) + 1
      /\ \A j \in 1 .. p - 1 : evs[j].start > e.start
      /\ p <= Len(evs) => evs[p].start <= e.start
  BY Zenon, <1>0, PartitionPoint
<1>2. new = SubSeq(evs, 1, p - 1) \o <<e>> \o SubSeq(evs, p, Len(evs))
  BY Zenon DEF Insert, InsertAt
<1> HIDE DEF p, new
<1>3. /\ SubSeq(evs, 1, p - 1) \in Seq(Event) /\ Len(SubSeq(evs, 1, p - 1)) = p - 1
      /\ \A i \in 1 .. p - 1 : SubSeq(evs, 1, p - 1)[i] = evs[i]
  BY <1>0, <1>1
<1>4. /\ SubSeq(evs, p, Len(evs)) \in Seq(Event)
      /\ Len(SubSeq(evs, p, Len(evs))) = Len(evs) - p + 1
      /\ \A i \in 1 .. Len(evs) - p + 1 : SubSeq(evs, p, Len(evs))[i] = evs[p + i - 1]
  BY <1>0, <1>1
<1>5. /\ new \in Seq(Event) /\ Len(new) = Len(evs) + 1
      /\ \A i \in 1 .. p - 1 : new[i] = evs[i]
      /\ new[p] = e
      /\ \A i \in p + 1 .. Len(evs) + 1 : new[i] = evs[i - 1]
  <2> DEFINE a == SubSeq(evs, 1, p - 1)
             c == SubSeq(evs, p, Len(evs))
             ab == a \o <<e>>
  <2>1. <<e>> \in Seq(Event) /\ Len(<<e>>) = 1 /\ <<e>>[1] = e
    OBVIOUS
  <2>2. a \in Seq(Event) /\ Len(a) = p - 1 /\ c \in Seq(Event) /\ Len(c) = Len(evs) - p + 1
    BY Zenon, <1>3, <1>4
  <2> HIDE DEF a, c
  <2>3. /\ ab \in Seq(Event) /\ Len(ab) = p
        /\ \A i \in 1 .. p - 1 : ab[i] = a[i]
        /\ ab[p] = e
    <3>1. /\ ab \in Seq(Event) /\ Len(ab) = Len(a) + 1
          /\ \A i \in 1 .. Len(a) : ab[i] = a[i]
          /\ \A i \in Len(a) + 1 .. Len(a) + 1 : ab[i] = <<e>>[i - Len(a)]
      BY Zenon, <2>1, <2>2, Concatenated
    <3>2. Len(a) + 1 = p /\ p - Len(a) = 1 /\ p \in Len(a) + 1 .. Len(a) + 1
      BY <1>1, <2>2
    <3> QED
      BY Zenon, <2>1, <2>2, <3>1, <3>2
  <2> HIDE DEF ab
  <2>4. /\ ab \o c \in Seq(Event) /\ Len(ab \o c) = Len(evs) + 1
        /\ \A i \in 1 .. p : (ab \o c)[i] = ab[i]
        /\ \A i \in p + 1 .. Len(evs) + 1 : (ab \o c)[i] = c[i - p]
    <3>1. /\ ab \o c \in Seq(Event) /\ Len(ab \o c) = Len(ab) + Len(c)
          /\ \A i \in 1 .. Len(ab) : (ab \o c)[i] = ab[i]
          /\ \A i \in Len(ab) + 1 .. Len(ab) + Len(c) : (ab \o c)[i] = c[i - Len(ab)]
      BY Zenon, <2>2, <2>3, Concatenated
    <3> QED
      BY <1>0, <1>1, <2>2, <2>3, <3>1
  <2>5. new = ab \o c
    BY Zenon, <1>2 DEF a, ab, c
  <2>6. \A i \in 1 .. p - 1 : i \in 1 .. p /\ new[i] = evs[i]
    BY <1>0, <1>1, <1>3, <2>3, <2>4, <2>5 DEF a
  <2>7. new[p] = e
    BY <1>1, <2>3, <2>4, <2>5
  <2>8. \A i \in p + 1 .. Len(evs) + 1 : new[i] = evs[i - 1]
    <3> SUFFICES ASSUME NEW i \in p + 1 .. Len(evs) + 1 PROVE new[i] = evs[i - 1]
      OBVIOUS
    <3>1. i - p \in 1 .. Len(evs) - p + 1 /\ p + (i - p) - 1 = i - 1
      BY <1>0, <1>1
    <3>2. c[i - p] = evs[p + (i - p) - 1]
      BY Zenon, <1>4, <3>1 DEF c
    <3> QED
      BY Zenon, <2>4, <2>5, <3>1, <3>2
  <2> QED
    BY Zenon, <2>4, <2>5, <2>6, <2>7, <2>8
<1>6. \A i \in DOMAIN new :
        \/ i < p /\ i \in DOMAIN evs /\ new[i] = evs[i]
        \/ i = p /\ new[i] = e
        \/ i > p /\ i - 1 \in DOMAIN evs /\ i - 1 >= p /\ new[i] = evs[i - 1]
  BY <1>0, <1>1, <1>5
<1>7. \A j \in DOMAIN evs : evs[j].start \in Nat /\ evs[j].seq \in Nat
  BY Zenon, <1>0, Fields
<1>8. \A j \in DOMAIN evs : j >= p => Earlier(evs[j], e)
  <2> SUFFICES ASSUME NEW j \in DOMAIN evs, j >= p PROVE Earlier(evs[j], e)
    OBVIOUS
  <2>1. p \in DOMAIN evs /\ evs[p].start <= e.start
    BY <1>0, <1>1
  <2>2. evs[j].start <= evs[p].start
    BY <1>0, <1>1, <1>7, <2>1 DEF Ordered, Sorted, Earlier
  <2> QED
    BY <1>0, <1>7, <2>1, <2>2 DEF Earlier
<1>9. Sorted(new)
  <2> SUFFICES ASSUME NEW i \in DOMAIN new, NEW j \in DOMAIN new, i < j
               PROVE  Earlier(new[j], new[i])
    BY Zenon DEF Sorted
  <2>0. i \in Nat /\ j \in Nat /\ p \in Nat
    BY <1>0, <1>1, <1>5
  <2>1. CASE j < p
    BY <2>0, <2>1, <1>6 DEF Ordered, Sorted
  <2>2. CASE i < p /\ j = p
    BY <2>0, <2>2, <1>0, <1>1, <1>6, <1>7 DEF Earlier
  <2>3. CASE i < p /\ j > p
    BY <2>0, <2>3, <1>6 DEF Ordered, Sorted
  <2>4. CASE i = p /\ j > p
    BY <2>0, <2>4, <1>6, <1>8
  <2>5. CASE i > p
    BY <2>0, <2>5, <1>6 DEF Ordered, Sorted
  <2> QED
    BY <2>0, <2>1, <2>2, <2>3, <2>4, <2>5
<1>10. Distinct(new)
  <2> SUFFICES ASSUME NEW i \in DOMAIN new, NEW j \in DOMAIN new, i < j
               PROVE  new[i].id # new[j].id
    BY Zenon DEF Distinct
  <2>0. i \in Nat /\ j \in Nat /\ p \in Nat
    BY <1>0, <1>1, <1>5
  <2>1. CASE i = p \/ j = p
    BY <2>0, <2>1, <1>6
  <2>2. CASE i # p /\ j # p
    BY <2>0, <2>2, <1>6 DEF Ordered, Distinct
  <2> QED
    BY Zenon, <2>1, <2>2
<1>11. Valid(new)
  BY Zenon, <1>6 DEF Ordered, Valid
<1>12. Elems(new) = Elems(evs) \cup {e}
  <2>1. \A i \in DOMAIN new : new[i] \in Elems(evs) \cup {e}
    BY Zenon, <1>6 DEF Elems
  <2>2. p \in DOMAIN new /\ new[p] = e
    BY <1>0, <1>1, <1>5
  <2>3. \A i \in DOMAIN evs : \E j \in DOMAIN new : new[j] = evs[i]
    <3> SUFFICES ASSUME NEW i \in DOMAIN evs PROVE \E j \in DOMAIN new : new[j] = evs[i]
      OBVIOUS
    <3>1. CASE i < p
      BY <3>1, <1>0, <1>1, <1>5
    <3>2. CASE i >= p
      <4>1. i + 1 \in p + 1 .. Len(evs) + 1 /\ i + 1 \in DOMAIN new /\ (i + 1) - 1 = i
        BY <3>2, <1>0, <1>1, <1>5
      <4> QED
        BY Zenon, <4>1, <1>5
    <3> QED
      BY <3>1, <3>2, <1>0, <1>1
  <2> QED
    BY <2>1, <2>2, <2>3 DEF Elems
<1> QED
  BY Zenon, <1>5, <1>9, <1>10, <1>11, <1>12 DEF Ordered, new

(* Removal takes the one event with its id out and keeps the order. *)
LEMMA RemoveOrdered ==
  ASSUME NEW evs, Ordered(evs), NEW k \in DOMAIN evs
  PROVE  /\ Ordered(RemoveAt(evs, k))
         /\ Elems(RemoveAt(evs, k)) = {e \in Elems(evs) : e.id # evs[k].id}
<1> DEFINE new == RemoveAt(evs, k)
<1>0. evs \in Seq(Event) /\ Len(evs) \in Nat /\ DOMAIN evs = 1 .. Len(evs) /\ k \in 1 .. Len(evs)
  BY DEF Ordered
<1>1. /\ new \in Seq(Event) /\ Len(new) = Len(evs) - 1
      /\ \A i \in 1 .. k - 1 : new[i] = evs[i]
      /\ \A i \in k .. Len(evs) - 1 : new[i] = evs[i + 1]
  <2> DEFINE a == SubSeq(evs, 1, k - 1)
             c == SubSeq(evs, k + 1, Len(evs))
  <2>1. /\ a \in Seq(Event) /\ Len(a) = k - 1 /\ \A i \in 1 .. k - 1 : a[i] = evs[i]
    BY <1>0
  <2>2. /\ c \in Seq(Event) /\ Len(c) = Len(evs) - k
        /\ \A i \in 1 .. Len(evs) - k : c[i] = evs[k + i]
    BY <1>0
  <2>3. new = a \o c
    BY Zenon DEF RemoveAt
  <2> HIDE DEF a, c, new
  <2>4. /\ a \o c \in Seq(Event) /\ Len(a \o c) = Len(a) + Len(c)
        /\ \A i \in 1 .. Len(a) : (a \o c)[i] = a[i]
        /\ \A i \in Len(a) + 1 .. Len(a) + Len(c) : (a \o c)[i] = c[i - Len(a)]
    BY Zenon, <2>1, <2>2, Concatenated
  <2>5. \A i \in 1 .. k - 1 : new[i] = evs[i]
    BY Zenon, <2>1, <2>3, <2>4
  <2>6. \A i \in k .. Len(evs) - 1 : new[i] = evs[i + 1]
    <3> SUFFICES ASSUME NEW i \in k .. Len(evs) - 1 PROVE new[i] = evs[i + 1]
      OBVIOUS
    <3>1. /\ i \in Len(a) + 1 .. Len(a) + Len(c) /\ i - Len(a) \in 1 .. Len(evs) - k
          /\ k + (i - Len(a)) = i + 1
      BY <1>0, <2>1, <2>2
    <3> QED
      BY Zenon, <2>2, <2>3, <2>4, <3>1
  <2> QED
    BY SMTT(20), <1>0, <2>1, <2>2, <2>3, <2>4, <2>5, <2>6
<1> HIDE DEF new
<1>2. \A i \in DOMAIN new :
        \/ i < k /\ i \in DOMAIN evs /\ new[i] = evs[i]
        \/ i >= k /\ i + 1 \in DOMAIN evs /\ new[i] = evs[i + 1]
  BY SMTT(20), <1>0, <1>1
<1>3. Sorted(new) /\ Distinct(new)
  <2> SUFFICES ASSUME NEW i \in DOMAIN new, NEW j \in DOMAIN new, i < j
               PROVE  Earlier(new[j], new[i]) /\ new[i].id # new[j].id
    BY Zenon DEF Sorted, Distinct
  <2>1. i \in Nat /\ j \in Nat
    BY <1>1
  <2> QED
    BY <2>1, <1>0, <1>2 DEF Ordered, Sorted, Distinct
<1>4. Valid(new)
  BY Zenon, <1>2 DEF Ordered, Valid
<1>5. \A i \in DOMAIN new : new[i].id # evs[k].id /\ new[i] \in Elems(evs)
  <2>1. \A i \in DOMAIN new : new[i].id # evs[k].id
    BY <1>0, <1>1, <1>2 DEF Ordered, Distinct
  <2>2. \A i \in DOMAIN new : new[i] \in Elems(evs)
    BY Zenon, <1>2 DEF Elems
  <2> QED
    BY Zenon, <2>1, <2>2
<1>6. \A i \in DOMAIN evs : i # k => \E j \in DOMAIN new : new[j] = evs[i]
  <2> SUFFICES ASSUME NEW i \in DOMAIN evs, i # k PROVE \E j \in DOMAIN new : new[j] = evs[i]
    OBVIOUS
  <2>1. CASE i < k
    BY <2>1, <1>0, <1>1
  <2>2. CASE i > k
    <3>1. i - 1 \in k .. Len(evs) - 1 /\ i - 1 \in DOMAIN new /\ (i - 1) + 1 = i
      BY <2>2, <1>0, <1>1
    <3> QED
      BY Zenon, <3>1, <1>1
  <2> QED
    BY <2>1, <2>2, <1>0
<1>7. Elems(new) = {e \in Elems(evs) : e.id # evs[k].id}
  BY <1>5, <1>6 DEF Elems
<1> QED
  BY Zenon, <1>1, <1>3, <1>4, <1>7 DEF Ordered, new

(* The search of cancel and reschedule finds the event it is given. *)
LEMMA FindFinds ==
  ASSUME NEW evs, Ordered(evs), NEW e \in Elems(evs)
  PROVE  find(evs, e) \in DOMAIN evs /\ evs[find(evs, e)].id = e.id
<1>0. evs \in Seq(Event) /\ Len(evs) \in Nat /\ DOMAIN evs = 1 .. Len(evs)
  BY DEF Ordered
<1>1. \A j \in DOMAIN evs : evs[j].start \in Nat /\ evs[j].seq \in Nat
  BY Zenon, <1>0, Fields
<1>2. PICK k \in DOMAIN evs : evs[k] = e
  BY Zenon DEF Elems
<1> DEFINE p == partition_point(evs, e.start)
           hits == {i \in p .. Len(evs) : /\ evs[i].id = e.id
                                          /\ \A j \in p .. i : evs[j].start = e.start}
<1>3. /\ p \in 1 .. Len(evs) + 1
      /\ \A j \in 1 .. p - 1 : evs[j].start > e.start
      /\ p <= Len(evs) => evs[p].start <= e.start
  BY Zenon, <1>0, <1>1, <1>2, PartitionPoint
<1>4. find(evs, e) = IF hits = {} THEN 0 ELSE CHOOSE i \in hits : TRUE
  BY Zenon DEF find
<1> HIDE DEF p
<1>5. k \in p .. Len(evs)
  BY <1>0, <1>1, <1>2, <1>3
<1>6. \A j \in p .. k : evs[j].start = e.start
  <2> SUFFICES ASSUME NEW j \in p .. k PROVE evs[j].start = e.start
    OBVIOUS
  <2>1. j \in DOMAIN evs /\ p \in DOMAIN evs /\ evs[p].start <= e.start
    BY <1>0, <1>3, <1>5
  <2>2. evs[j].start <= evs[p].start
    BY <1>0, <1>1, <1>3, <2>1 DEF Ordered, Sorted, Earlier
  <2>3. evs[j].start >= evs[k].start
    BY <1>0, <1>1, <1>2, <1>5, <2>1 DEF Ordered, Sorted, Earlier
  <2> QED
    BY <1>1, <1>2, <2>1, <2>2, <2>3
<1>7. k \in hits
  BY Zenon, <1>2, <1>5, <1>6
<1>8. find(evs, e) \in hits
  BY Zenon, <1>4, <1>7
<1>9. \A i \in hits : i \in DOMAIN evs /\ evs[i].id = e.id
  BY <1>0, <1>3
<1> QED
  BY Zenon, <1>8, <1>9

(* The split of dispatch: what starts later stays, in order. *)
LEMMA SplitStays ==
  ASSUME NEW evs, Ordered(evs), NEW t \in Nat
  PROVE  LET stay == SubSeq(evs, 1, partition_point(evs, t) - 1)
         IN  Ordered(stay) /\ Elems(stay) = {e \in Elems(evs) : ~(e.start <= t)}
<1> DEFINE p == partition_point(evs, t)
           stay == SubSeq(evs, 1, p - 1)
<1>0. evs \in Seq(Event) /\ Len(evs) \in Nat /\ DOMAIN evs = 1 .. Len(evs)
  BY DEF Ordered
<1>1. \A j \in DOMAIN evs : evs[j].start \in Nat /\ evs[j].seq \in Nat
  BY Zenon, <1>0, Fields
<1>2. /\ p \in 1 .. Len(evs) + 1
      /\ \A j \in 1 .. p - 1 : evs[j].start > t
      /\ p <= Len(evs) => evs[p].start <= t
  BY Zenon, <1>0, PartitionPoint
<1> HIDE DEF p
<1>3. /\ stay \in Seq(Event) /\ DOMAIN stay = 1 .. p - 1
      /\ \A i \in 1 .. p - 1 : i \in DOMAIN evs /\ stay[i] = evs[i]
  BY <1>0, <1>2
<1> HIDE DEF stay
<1>4. Ordered(stay)
  BY Zenon, <1>3 DEF Ordered, Sorted, Distinct, Valid
<1>5. \A j \in DOMAIN evs : j >= p => evs[j].start <= t
  <2> SUFFICES ASSUME NEW j \in DOMAIN evs, j >= p PROVE evs[j].start <= t
    OBVIOUS
  <2>1. p \in DOMAIN evs /\ evs[p].start <= t
    BY <1>0, <1>2
  <2>2. evs[j].start <= evs[p].start
    BY SMTT(20), <1>0, <1>1, <1>2, <2>1 DEF Ordered, Sorted, Earlier
  <2> QED
    BY <1>1, <2>1, <2>2
<1>6. \A i \in DOMAIN stay : stay[i] \in Elems(evs) /\ ~(stay[i].start <= t)
  <2>1. \A i \in DOMAIN stay : stay[i] \in Elems(evs)
    BY Zenon, <1>3 DEF Elems
  <2>2. \A i \in DOMAIN stay : ~(stay[i].start <= t)
    BY <1>1, <1>2, <1>3
  <2> QED
    BY Zenon, <2>1, <2>2
<1>7. \A j \in DOMAIN evs : ~(evs[j].start <= t) => j \in DOMAIN stay /\ stay[j] = evs[j]
  BY <1>0, <1>2, <1>3, <1>5
<1>8. Elems(stay) = {e \in Elems(evs) : ~(e.start <= t)}
  BY Zenon, <1>6, <1>7 DEF Elems
<1> QED
  BY Zenon, <1>4, <1>8 DEF stay, p

(* The split of dispatch: what is due leaves, earliest first. *)
LEMMA SplitLeaves ==
  ASSUME NEW evs, Ordered(evs), NEW t \in Nat
  PROVE  LET left == Reversed(SubSeq(evs, partition_point(evs, t), Len(evs)))
         IN  /\ Elems(left) = {e \in Elems(evs) : e.start <= t}
             /\ \A i, j \in DOMAIN left : i < j => Earlier(left[i], left[j])
<1> DEFINE p == partition_point(evs, t)
           tail == SubSeq(evs, p, Len(evs))
           left == Reversed(tail)
           n == Len(evs) - p + 1
<1>0. evs \in Seq(Event) /\ Len(evs) \in Nat /\ DOMAIN evs = 1 .. Len(evs)
  BY DEF Ordered
<1>1. \A j \in DOMAIN evs : evs[j].start \in Nat /\ evs[j].seq \in Nat
  BY Zenon, <1>0, Fields
<1>2. /\ p \in 1 .. Len(evs) + 1
      /\ \A j \in 1 .. p - 1 : evs[j].start > t
      /\ p <= Len(evs) => evs[p].start <= t
  BY Zenon, <1>0, PartitionPoint
<1> HIDE DEF p
<1>3. Len(tail) = n /\ \A i \in 1 .. n : tail[i] = evs[p + i - 1]
  BY <1>0, <1>2
<1> HIDE DEF tail
<1>4. DOMAIN left = 1 .. n /\ \A i \in 1 .. n : left[i] = evs[Len(evs) + 1 - i]
  <2>1. left = [i \in 1 .. n |-> tail[n + 1 - i]]
    BY Zenon, <1>3 DEF Reversed
  <2>2. \A i \in 1 .. n : n + 1 - i \in 1 .. n /\ p + (n + 1 - i) - 1 = Len(evs) + 1 - i
    BY <1>0, <1>2
  <2> QED
    BY Zenon, <1>3, <2>1, <2>2
<1> HIDE DEF left
<1>5. \A i \in 1 .. n : Len(evs) + 1 - i \in DOMAIN evs /\ Len(evs) + 1 - i >= p
  BY <1>0, <1>2
<1>6. \A i, j \in DOMAIN left : i < j => Earlier(left[i], left[j])
  <2> SUFFICES ASSUME NEW i \in 1 .. n, NEW j \in 1 .. n, i < j
               PROVE  Earlier(left[i], left[j])
    BY Zenon, <1>4
  <2>1. Len(evs) + 1 - j < Len(evs) + 1 - i
    BY <1>0, <1>2
  <2> QED
    BY Zenon, <1>4, <1>5, <2>1 DEF Ordered, Sorted
<1>7. \A j \in DOMAIN evs : j >= p => evs[j].start <= t
  <2> SUFFICES ASSUME NEW j \in DOMAIN evs, j >= p PROVE evs[j].start <= t
    OBVIOUS
  <2>1. p \in DOMAIN evs /\ evs[p].start <= t
    BY <1>0, <1>2
  <2>2. evs[j].start <= evs[p].start
    BY <1>0, <1>1, <1>2, <2>1 DEF Ordered, Sorted, Earlier
  <2> QED
    BY <1>1, <2>1, <2>2
<1>8. \A i \in DOMAIN left : left[i] \in Elems(evs) /\ left[i].start <= t
  BY Zenon, <1>4, <1>5, <1>7 DEF Elems
<1>9. \A j \in DOMAIN evs : evs[j].start <= t => \E i \in DOMAIN left : left[i] = evs[j]
  <2> SUFFICES ASSUME NEW j \in DOMAIN evs, evs[j].start <= t
               PROVE  \E i \in DOMAIN left : left[i] = evs[j]
    OBVIOUS
  <2>1. j >= p
    BY <1>0, <1>1, <1>2
  <2>2. Len(evs) + 1 - j \in 1 .. n /\ Len(evs) + 1 - (Len(evs) + 1 - j) = j
    BY <1>0, <1>2, <2>1
  <2> QED
    BY Zenon, <1>4, <2>2
<1>10. Elems(left) = {e \in Elems(evs) : e.start <= t}
  BY <1>8, <1>9 DEF Elems
<1> QED
  BY Zenon, <1>6, <1>10 DEF left, tail, p

-----------------------------------------------------------------------------
(* The scheduler implements the set of timed events *)

(* The strengthening SchedulerTypeOK needs: events of equal start lie in   *)
(* the order they were scheduled in, newest first, and all were scheduled  *)
(* before the next one will be.                                            *)
SchedulerInv ==
  /\ time \in Nat /\ seq \in Nat
  /\ Ordered(events)
  /\ \A e \in Elems(events) : e.seq < seq

(* A newly scheduled event is well formed. *)
LEMMA FutureIsEvent ==
  ASSUME time \in Nat, seq \in Nat, NEW id \in Ids, NEW r \in Ranges
  PROVE  /\ FutureEvent(id, r) \in Event
         /\ FutureEvent(id, r).start <= FutureEvent(id, r).end
         /\ FutureEvent(id, r).id = id /\ FutureEvent(id, r).seq = seq
         /\ FutureEvent(id, r) = TQ!Event(id, r)
<1>1. r[1] \in Nat /\ r[2] \in Nat /\ r[1] <= r[2]
  BY Zenon, SchedulerAssumption
<1> QED
  BY <1>1 DEF FutureEvent, Event, TQ!Event

(* The events with a given name. *)
LEMMA PendingElems == ASSUME NEW id PROVE Pending(id) = {e \in Elems(events) : e.id = id}
BY Zenon DEF Pending, Elems

(* Scheduler::add *)
LEMMA AddStep ==
  ASSUME SchedulerInv, NEW id \in Ids, NEW r \in Ranges, add(id, r)
  PROVE  SchedulerInv' /\ TQ!Add(id, r)
<1> DEFINE e == FutureEvent(id, r)
<1>1. /\ e \in Event /\ e.start <= e.end /\ e.id = id /\ e.seq = seq /\ e = TQ!Event(id, r)
  BY Zenon, FutureIsEvent DEF SchedulerInv
<1>2. \A x \in Elems(events) : x.id # id
  BY Zenon, PendingElems DEF add
<1>3. \A i \in DOMAIN events : events[i].id # e.id /\ events[i].seq < e.seq
  BY Zenon, <1>1, <1>2 DEF SchedulerInv, Elems
<1>4. events' = Insert(events, e) /\ seq' = seq + 1 /\ out' = <<>> /\ time' = time /\ seq < MaxSeq
  BY Zenon DEF add
<1> HIDE DEF e
<1>5. Ordered(events') /\ Elems(events') = Elems(events) \cup {e}
  BY Zenon, <1>1, <1>3, <1>4, InsertOrdered DEF SchedulerInv
<1>6. \A x \in Elems(events) : x.seq \in Nat
  BY Zenon, Fields DEF SchedulerInv, Ordered, Elems
<1>7. SchedulerInv'
  BY <1>1, <1>4, <1>5, <1>6 DEF SchedulerInv
<1>8. TQ!Add(id, r)
  BY Zenon, <1>1, <1>2, <1>4, <1>5 DEF TQ!Add, Elems
<1> QED
  BY Zenon, <1>7, <1>8

(* Handle::cancel *)
LEMMA CancelStep ==
  ASSUME SchedulerInv, NEW id \in Ids, cancel(id)
  PROVE  SchedulerInv' /\ TQ!Cancel(id)
<1>1. PICK e \in Elems(events) :
        /\ e.id = id
        /\ events' = IF find(events, e) = 0 THEN events ELSE RemoveAt(events, find(events, e))
  BY Zenon, PendingElems DEF cancel
<1>2. find(events, e) \in DOMAIN events /\ events[find(events, e)].id = id
  BY Zenon, <1>1, FindFinds DEF SchedulerInv
<1>3. find(events, e) # 0
  BY <1>2 DEF SchedulerInv, Ordered
<1>4. Ordered(events') /\ Elems(events') = {x \in Elems(events) : x.id # id}
  BY <1>1, <1>2, <1>3, RemoveOrdered DEF SchedulerInv
<1>5. out' = <<>> /\ time' = time /\ seq' = seq
  BY Zenon DEF cancel
<1>6. SchedulerInv'
  BY Zenon, <1>4, <1>5 DEF SchedulerInv
<1>7. TQ!Cancel(id)
  BY Zenon, <1>4, <1>5 DEF TQ!Cancel, Elems
<1> QED
  BY Zenon, <1>6, <1>7

(* Handle::reschedule *)
LEMMA RescheduleStep ==
  ASSUME SchedulerInv, NEW id \in Ids, NEW r \in Ranges, reschedule(id, r)
  PROVE  SchedulerInv' /\ TQ!Reschedule(id, r)
<1> DEFINE f == FutureEvent(id, r)
<1>1. /\ f \in Event /\ f.start <= f.end /\ f.id = id /\ f.seq = seq /\ f = TQ!Event(id, r)
  BY Zenon, FutureIsEvent DEF SchedulerInv
<1>2. PICK e \in Elems(events) :
        /\ e.id = id
        /\ events' = Insert(RemoveAt(events, find(events, e)), f)
  BY Zenon, PendingElems DEF reschedule
<1> DEFINE rest == RemoveAt(events, find(events, e))
<1>3. find(events, e) \in DOMAIN events /\ events[find(events, e)].id = id
  BY Zenon, <1>2, FindFinds DEF SchedulerInv
<1>4. Ordered(rest) /\ Elems(rest) = {x \in Elems(events) : x.id # id}
  BY <1>3, RemoveOrdered DEF SchedulerInv
<1> HIDE DEF f, rest
<1>5. \A i \in DOMAIN rest : rest[i] \in Elems(rest)
  BY Zenon DEF Elems
<1>6. \A i \in DOMAIN rest : rest[i].id # f.id /\ rest[i].seq < f.seq
  BY Zenon, <1>1, <1>4, <1>5 DEF SchedulerInv
<1>7. Ordered(events') /\ Elems(events') = Elems(rest) \cup {f}
  BY Zenon, <1>1, <1>2, <1>4, <1>6, InsertOrdered DEF rest
<1>8. seq' = seq + 1 /\ out' = <<>> /\ time' = time /\ seq < MaxSeq
  BY Zenon DEF reschedule
<1>9. \A x \in Elems(events) : x.seq \in Nat
  BY Zenon, Fields DEF SchedulerInv, Ordered, Elems
<1>10. SchedulerInv'
  BY <1>1, <1>4, <1>7, <1>8, <1>9 DEF SchedulerInv
<1>11. TQ!Reschedule(id, r)
  BY Zenon, <1>1, <1>2, <1>4, <1>7, <1>8 DEF TQ!Reschedule, Elems
<1> QED
  BY Zenon, <1>10, <1>11

(* Scheduler::dispatch *)
LEMMA DispatchStep ==
  ASSUME SchedulerInv, dispatch
  PROVE  SchedulerInv' /\ TQ!Dispatch
<1>1. /\ events' = SubSeq(events, 1, partition_point(events, time) - 1)
      /\ out' = Reversed(SubSeq(events, partition_point(events, time), Len(events)))
      /\ time' = time /\ seq' = seq
  BY Zenon DEF dispatch
<1>2. Ordered(events') /\ Elems(events') = {e \in Elems(events) : ~(e.start <= time)}
  BY Zenon, <1>1, SplitStays DEF SchedulerInv
<1>3. /\ Elems(out') = {e \in Elems(events) : e.start <= time}
      /\ \A i, j \in DOMAIN out' : i < j => Earlier(out'[i], out'[j])
  BY Zenon, <1>1, SplitLeaves DEF SchedulerInv
<1>4. SchedulerInv'
  BY Zenon, <1>1, <1>2 DEF SchedulerInv
<1>5. TQ!DueEvents = {e \in Elems(events) : e.start <= time}
  BY Zenon DEF TQ!DueEvents, Elems
<1>6. TQ!InOrder(out', TQ!DueEvents)
  BY Zenon, <1>3, <1>5 DEF TQ!InOrder, TQ!Before, Earlier, Elems
<1>7. {events'[i] : i \in DOMAIN events'} = {events[i] : i \in DOMAIN events} \ TQ!DueEvents
  BY Zenon, <1>2, <1>5 DEF Elems
<1>8. TQ!Dispatch
  BY Zenon, <1>1, <1>6, <1>7 DEF TQ!Dispatch
<1> QED
  BY Zenon, <1>4, <1>8

(* Every step keeps the invariant and is a step of the set. *)
LEMMA SchedulerStep ==
  ASSUME SchedulerInv, [SchedulerNext]_schedulerVars
  PROVE  SchedulerInv' /\ [TQ!Next]_(TQ!vars)
<1>1. CASE \E id \in Ids, r \in Ranges : add(id, r)
  BY Zenon, <1>1, AddStep DEF TQ!Next
<1>2. CASE \E id \in Ids, r \in Ranges : reschedule(id, r)
  BY Zenon, <1>2, RescheduleStep DEF TQ!Next
<1>3. CASE \E id \in Ids : cancel(id)
  BY Zenon, <1>3, CancelStep DEF TQ!Next
<1>4. CASE dispatch
  BY Zenon, <1>4, DispatchStep DEF TQ!Next
<1>5. CASE clear
  <2>1. events' = <<>> /\ Elems(events') = {} /\ out' = <<>> /\ time' = time /\ seq' = seq
    BY <1>5 DEF clear, Elems
  <2>2. Ordered(events')
    BY <2>1 DEF Ordered, Sorted, Distinct, Valid
  <2>3. TQ!Clear
    BY Zenon, <2>1 DEF TQ!Clear, Elems
  <2> QED
    BY Zenon, <2>1, <2>2, <2>3 DEF SchedulerInv, TQ!Next
<1>6. CASE Tick
  <2>1. time < MaxTime /\ time' = time + 1 /\ out' = <<>> /\ events' = events /\ seq' = seq
    BY Zenon, <1>6 DEF Tick
  <2>2. TQ!Tick
    BY Zenon, <2>1 DEF TQ!Tick
  <2> QED
    BY <2>1, <2>2 DEF SchedulerInv, TQ!Next
<1>7. CASE UNCHANGED schedulerVars
  BY Zenon, <1>7 DEF schedulerVars, SchedulerInv, TQ!vars
<1> QED
  BY Zenon, <1>1, <1>2, <1>3, <1>4, <1>5, <1>6, <1>7 DEF SchedulerNext

(* The empty vector is the empty set. *)
LEMMA SchedulerStart == SchedulerInit => SchedulerInv /\ TQ!Init
<1> SUFFICES ASSUME SchedulerInit PROVE SchedulerInv /\ TQ!Init
  OBVIOUS
<1>1. Elems(events) = {} /\ Ordered(events)
  BY DEF SchedulerInit, Elems, Ordered, Sorted, Distinct, Valid
<1> QED
  BY Zenon, <1>1 DEF SchedulerInit, SchedulerInv, TQ!Init, Elems

(* The vector stays sorted by descending start under every sequence of     *)
(* add, cancel, reschedule, dispatch and clear, so each binary search of   *)
(* the code answers what a linear one would; ranges stay valid and no      *)
(* event is in the vector twice.                                           *)
THEOREM SchedulerSorted == SchedulerSpec => []SchedulerTypeOK
<1>1. SchedulerInv => SchedulerTypeOK
  <2> SUFFICES ASSUME SchedulerInv PROVE SchedulerTypeOK
    OBVIOUS
  <2>1. \A i \in DOMAIN events : events[i].start \in Nat
    BY Zenon, Fields DEF SchedulerInv, Ordered
  <2> QED
    BY <2>1 DEF SchedulerInv, SchedulerTypeOK, Ordered, Sorted, Distinct, Valid, Earlier
<1> QED
  BY <1>1, SchedulerStart, SchedulerStep, PTL DEF SchedulerSpec

(* The sorted vector implements the set of timed events: dispatch returns  *)
(* exactly the events that are due, earliest first and in the order they   *)
(* were scheduled; cancel and reschedule act on the event of their handle  *)
(* and on no other.                                                        *)
THEOREM SchedulerImplementsTimerQueue == SchedulerSpec => ImplementsTimerQueue
<1>1. SchedulerInv /\ [SchedulerNext]_schedulerVars => SchedulerInv' /\ [TQ!Next]_(TQ!vars)
  BY Zenon, SchedulerStep
<1> QED
  BY <1>1, SchedulerStart, PTL DEF SchedulerSpec, ImplementsTimerQueue, TQ!Spec
-----------------------------------------------------------------------------
(* The wake-up that next_dispatch computes *)

(* One event of the walk, and the walk over the m + 1 earliest events as a *)
(* function of how many events it has passed.                              *)
WalkStep(w, e) ==
  IF w.broke \/ e.start > w.end
  THEN [w EXCEPT !.broke = TRUE]
  ELSE [w EXCEPT !.end = IF e.end < @ THEN e.end ELSE @]

WalkStart == [end |-> events[Len(events)].end, broke |-> FALSE]

Walk(f, m) ==
  f = [k \in 0 .. m |-> IF k = 0 THEN WalkStart ELSE WalkStep(f[k - 1], events[Len(events) - k])]

(* An event that stops the walk leaves its end, any other narrows it. *)
LEMMA WalkStepNarrows ==
  ASSUME NEW w \in [end : Nat, broke : BOOLEAN], NEW e, e.start \in Nat, e.end \in Nat
  PROVE  /\ WalkStep(w, e) \in [end : Nat, broke : BOOLEAN]
         /\ w.broke \/ e.start > w.end => WalkStep(w, e).end = w.end
         /\ ~ (w.broke \/ e.start > w.end) =>
               /\ ~ WalkStep(w, e).broke
               /\ WalkStep(w, e).end <= e.end /\ WalkStep(w, e).end <= w.end
<1>1. w.end \in Nat /\ w.broke \in BOOLEAN
  OBVIOUS
<1>2. CASE w.broke \/ e.start > w.end
  <2>1. WalkStep(w, e) = [w EXCEPT !.broke = TRUE]
    BY Zenon, <1>2 DEF WalkStep
  <2>2. WalkStep(w, e) \in [end : Nat, broke : BOOLEAN] /\ WalkStep(w, e).end = w.end
    BY Zenon, <1>1, <2>1
  <2> QED
    BY Zenon, <1>2, <2>2
<1>3. CASE ~ (w.broke \/ e.start > w.end)
  <2> DEFINE m == IF e.end < w.end THEN e.end ELSE w.end
  <2>1. WalkStep(w, e) = [w EXCEPT !.end = m]
    BY Zenon, <1>3 DEF WalkStep
  <2>2. m \in Nat /\ m <= e.end /\ m <= w.end
    BY <1>1
  <2> HIDE DEF m
  <2>3. WalkStep(w, e) \in [end : Nat, broke : BOOLEAN] /\ WalkStep(w, e).end = m
          /\ WalkStep(w, e).broke = w.broke
    BY <2>1, <2>2
  <2> QED
    BY Zenon, <1>3, <2>2, <2>3
<1> QED
  BY Zenon, <1>2, <1>3

(* The walk is well defined however many events there are. *)
LEMMA WalkExists == \A m \in Nat : \E f : Walk(f, m)
<1> DEFINE T == {m \in Nat : ~ \E f : Walk(f, m)}
<1> SUFFICES ASSUME T # {} PROVE FALSE
  OBVIOUS
<1>1. PICK x \in T : \A y \in T : x <= y
  <2>1. T \subseteq Nat
    OBVIOUS
  <2> QED
    BY Zenon, <2>1, LeastElement
<1>2. CASE x = 0
  <2> DEFINE f == [k \in 0 .. 0 |-> WalkStart]
  <2>1. Walk(f, 0)
    BY DEF Walk
  <2> QED
    BY Zenon, <1>2, <2>1
<1>3. CASE x # 0
  <2>1. x - 1 \in Nat /\ x - 1 \notin T
    BY <1>1, <1>3
  <2>2. PICK g : Walk(g, x - 1)
    BY Zenon, <2>1
  <2> DEFINE f == [k \in 0 .. x |->
                     IF k = x THEN WalkStep(g[x - 1], events[Len(events) - x]) ELSE g[k]]
  <2>3. \A k \in 0 .. x - 1 :
          g[k] = IF k = 0 THEN WalkStart ELSE WalkStep(g[k - 1], events[Len(events) - k])
    BY Zenon, <2>2 DEF Walk
  <2>4. ASSUME NEW k \in 0 .. x
        PROVE  f[k] = IF k = 0 THEN WalkStart ELSE WalkStep(f[k - 1], events[Len(events) - k])
    <3>1. CASE k = x
      <4>1. k # 0 /\ k - 1 \in 0 .. x /\ k - 1 # x /\ x - 1 = k - 1
        BY <1>3, <3>1
      <4> QED
        BY Zenon, <3>1, <4>1
    <3>2. CASE k # x /\ k = 0
      <4>1. 0 \in 0 .. x - 1
        BY <2>1
      <4> QED
        BY Zenon, <2>3, <3>2, <4>1
    <3>3. CASE k # x /\ k # 0
      <4>1. k \in 0 .. x - 1 /\ k - 1 \in 0 .. x /\ k - 1 # x
        BY <1>3, <3>3
      <4> QED
        BY Zenon, <2>3, <3>3, <4>1
    <3> QED
      BY Zenon, <3>1, <3>2, <3>3
  <2> HIDE DEF f
  <2>5. Walk(f, x)
    <3>1. f = [k \in 0 .. x |-> f[k]]
      BY Zenon DEF f
    <3> QED
      BY Zenon, <2>4, <3>1 DEF Walk
  <2> QED
    BY Zenon, <2>5
<1> QED
  BY Zenon, <1>2, <1>3

(* next_dispatch is where the walk over all events ends. *)
LEMMA NextDispatchWalks ==
  ASSUME Len(events) \in Nat \ {0}
  PROVE  \E f : Walk(f, Len(events) - 1) /\ next_dispatch = f[Len(events) - 1].end
<1>1. Len(events) - 1 \in Nat
  OBVIOUS
<1> QED
  BY Zenon, <1>1, WalkExists DEF next_dispatch, Walk, WalkStep, WalkStart

(* No pending event's range ends before next_dispatch: one that the walk   *)
(* passed narrowed it, and those behind the one that stopped it start (and *)
(* so end) later.                                                          *)
LEMMA NextDispatchInTime ==
  ASSUME Ordered(events), events # <<>>
  PROVE  next_dispatch \in Nat /\ \A i \in DOMAIN events : next_dispatch <= events[i].end
<1> DEFINE n == Len(events)
<1>1. n \in Nat \ {0} /\ DOMAIN events = 1 .. n
  BY DEF Ordered
<1>2. \A i \in 1 .. n : events[i].start \in Nat /\ events[i].end \in Nat
                          /\ events[i].start <= events[i].end
  <2>1. \A i \in 1 .. n : events[i] \in Event
    BY DEF Ordered
  <2> QED
    BY Zenon, <1>1, <2>1 DEF Ordered, Valid, Event
<1>3. \A i, j \in 1 .. n : i < j => events[j].start <= events[i].start
  <2> SUFFICES ASSUME NEW i \in 1 .. n, NEW j \in 1 .. n, i < j
               PROVE  events[j].start <= events[i].start
    OBVIOUS
  <2>1. Earlier(events[j], events[i])
    BY Zenon, <1>1 DEF Ordered, Sorted
  <2> QED
    BY <1>2, <2>1 DEF Earlier
<1>4. PICK f : Walk(f, n - 1) /\ next_dispatch = f[n - 1].end
  BY Zenon, <1>1, NextDispatchWalks
<1>5. \A k \in 0 .. n - 1 : f[k] = IF k = 0 THEN WalkStart ELSE WalkStep(f[k - 1], events[n - k])
  BY Zenon, <1>4 DEF Walk
<1> DEFINE Good(k) == /\ f[k] \in [end : Nat, broke : BOOLEAN]
                      /\ \A j \in 0 .. k : f[k].end <= events[n - j].end
                      /\ f[k].broke => \A j \in k .. n - 1 : f[k].end < events[n - j].start
           T == {k \in 0 .. n - 1 : ~ Good(k)}
<1>6. T = {}
  <2> SUFFICES ASSUME T # {} PROVE FALSE
    OBVIOUS
  <2>1. PICK x \in T : \A y \in T : x <= y
    <3>1. T \subseteq Nat
      BY <1>1
    <3> QED
      BY Zenon, <3>1, LeastElement
  <2>2. Good(x)
    <3>1. CASE x = 0
      <4>1. f[0] = WalkStart
        BY Zenon, <1>5, <3>1
      <4> QED
        BY <1>1, <1>2, <3>1, <4>1 DEF WalkStart
    <3>2. CASE x # 0
      <4>1. x \in 0 .. n - 1
        BY Zenon
      <4>2. Good(x - 1)
        <5>1. x - 1 \in 0 .. n - 1 /\ ~ (x <= x - 1)
          BY <1>1, <3>2, <4>1
        <5> QED
          BY Zenon, <2>1, <5>1
      <4> HIDE DEF T
      <4> DEFINE w == f[x - 1]
                 e == events[n - x]
      <4>3. f[x] = WalkStep(w, e)
        BY Zenon, <1>5, <3>2, <4>1
      <4>4. /\ w \in [end : Nat, broke : BOOLEAN]
            /\ \A j \in 0 .. x - 1 : w.end <= events[n - j].end
            /\ w.broke => \A j \in x - 1 .. n - 1 : w.end < events[n - j].start
        BY Zenon, <4>2
      <4>5. \A j \in x .. n - 1 : j \in x - 1 .. n - 1 /\ e.start <= events[n - j].start
        <5> SUFFICES ASSUME NEW j \in x .. n - 1
                     PROVE  j \in x - 1 .. n - 1 /\ e.start <= events[n - j].start
          BY Zenon
        <5>1. n - j \in 1 .. n /\ n - x \in 1 .. n /\ j \in x - 1 .. n - 1 /\ j \in Nat
          BY <1>1, <4>1
        <5>2. n - j < n - x \/ j = x
          BY <1>1, <4>1
        <5>3. events[n - x].start <= events[n - x].start
          BY <1>2, <5>1
        <5> QED
          BY Zenon, <1>3, <5>1, <5>2, <5>3
      <4>6. e.start \in Nat /\ e.end \in Nat /\ e.start <= e.end
        <5>1. n - x \in 1 .. n
          BY <1>1, <4>1
        <5> QED
          BY Zenon, <1>2, <5>1
      <4>7. \A j \in 0 .. x : j \in 0 .. x - 1 \/ j = x
        BY <4>1
      <4>8. \A j \in 0 .. n - 1 : events[n - j].start \in Nat /\ events[n - j].end \in Nat
        <5>1. \A j \in 0 .. n - 1 : n - j \in 1 .. n
          BY <1>1
        <5> QED
          BY Zenon, <1>2, <5>1
      <4>9. CASE w.broke \/ e.start > w.end
        <5>1. f[x] \in [end : Nat, broke : BOOLEAN] /\ f[x].end = w.end
          <6> HIDE DEF w, e
          <6>1. /\ WalkStep(w, e) \in [end : Nat, broke : BOOLEAN]
                /\ w.broke \/ e.start > w.end => WalkStep(w, e).end = w.end
            BY Zenon, <4>4, <4>6, WalkStepNarrows
          <6> QED
            BY Zenon, <4>3, <4>9, <6>1
        <5>2. \A j \in x .. n - 1 : w.end < events[n - j].start
          <6>1. CASE w.broke
            BY Zenon, <4>4, <4>5, <6>1
          <6>2. CASE e.start > w.end
            <7>1. \A j \in x .. n - 1 : events[n - j].start \in Nat
              BY <1>1, <4>1, <4>8
            <7>2. w.end \in Nat
              BY Zenon, <4>4
            <7> HIDE DEF w, e
            <7> QED
              BY <4>5, <4>6, <6>2, <7>1, <7>2
          <6> QED
            BY Zenon, <4>9, <6>1, <6>2
        <5>3. w.end <= events[n - x].end
          <6>1. x \in x .. n - 1
            BY <4>1
          <6>2. w.end < e.start
            BY Zenon, <5>2, <6>1
          <6> QED
            BY <4>4, <4>6, <6>2
        <5> QED
          BY Zenon, <4>4, <4>7, <5>1, <5>2, <5>3
      <4>10. CASE ~ (w.broke \/ e.start > w.end)
        <5>1. /\ f[x] \in [end : Nat, broke : BOOLEAN] /\ ~ f[x].broke
              /\ f[x].end <= e.end /\ f[x].end <= w.end
          BY Zenon, <4>3, <4>4, <4>6, <4>10, WalkStepNarrows
        <5>2. \A j \in 0 .. x - 1 : f[x].end <= events[n - j].end
          <6>1. \A j \in 0 .. x - 1 : j \in 0 .. n - 1
            BY <1>1, <4>1
          <6>2. w.end \in Nat /\ f[x].end \in Nat
            BY Zenon, <4>4, <5>1
          <6> HIDE DEF w
          <6> QED
            BY <4>4, <4>8, <5>1, <6>1, <6>2
        <5> QED
          BY Zenon, <4>7, <5>1, <5>2
      <4> QED
        BY Zenon, <4>9, <4>10
    <3> QED
      BY Zenon, <3>1, <3>2
  <2> QED
    BY Zenon, <2>2
<1>7. Good(n - 1)
  <2>1. n - 1 \in 0 .. n - 1
    BY <1>1
  <2> QED
    BY Zenon, <1>6, <2>1
<1>8. \A i \in 1 .. n : n - i \in 0 .. n - 1 /\ n - (n - i) = i
  BY <1>1
<1> QED
  BY Zenon, <1>1, <1>4, <1>7, <1>8

(* A driver that sleeps until next_dispatch is never late for an event,    *)
(* however many overlapping ranges were folded into that one wake-up.      *)
THEOREM SchedulerOnTime == SchedulerSpec => []OnTime
<1>1. SchedulerInit => OnTime
  BY DEF SchedulerInit, OnTime
<1>2. SchedulerInv /\ OnTime /\ [SchedulerNext]_schedulerVars => OnTime'
  <2> SUFFICES ASSUME SchedulerInv, OnTime, [SchedulerNext]_schedulerVars
               PROVE  OnTime'
    OBVIOUS
  <2>1. OnTime <=> \A e \in Elems(events) : time <= e.end
    BY Zenon DEF OnTime, Elems
  <2>2. OnTime' <=> \A e \in Elems(events') : time' <= e.end
    BY Zenon DEF OnTime, Elems
  <2>3. ASSUME NEW id \in Ids, NEW r \in Ranges
        PROVE  time <= TQ!Event(id, r).end
    <3>1. r[2] \in Nat /\ time \in Nat
      BY Zenon, SchedulerAssumption DEF SchedulerInv
    <3> QED
      BY <3>1 DEF TQ!Event
  <2>4. CASE \E id \in Ids, r \in Ranges : add(id, r)
    <3>1. PICK id \in Ids, r \in Ranges : TQ!Add(id, r)
      BY Zenon, <2>4, AddStep
    <3>2. time' = time /\ Elems(events') = Elems(events) \cup {TQ!Event(id, r)}
      BY Zenon, <3>1 DEF TQ!Add, Elems
    <3> QED
      BY Zenon, <2>1, <2>2, <2>3, <3>2
  <2>5. CASE \E id \in Ids, r \in Ranges : reschedule(id, r)
    <3>1. PICK id \in Ids, r \in Ranges : TQ!Reschedule(id, r)
      BY Zenon, <2>5, RescheduleStep
    <3>2. /\ time' = time
          /\ Elems(events') = {e \in Elems(events) : e.id # id} \cup {TQ!Event(id, r)}
      BY Zenon, <3>1 DEF TQ!Reschedule, Elems
    <3> QED
      BY Zenon, <2>1, <2>2, <2>3, <3>2
  <2>6. CASE \E id \in Ids : cancel(id)
    BY Zenon, <2>1, <2>2, <2>6, CancelStep DEF TQ!Cancel, Elems
  <2>7. CASE dispatch
    BY Zenon, <2>1, <2>2, <2>7, DispatchStep DEF TQ!Dispatch, Elems
  <2>8. CASE clear
    BY <2>8 DEF clear, OnTime
  <2>9. CASE Tick
    <3>1. /\ time \in Nat /\ time' = time + 1 /\ events' = events
          /\ events # <<>> => time < next_dispatch
      BY Zenon, <2>9 DEF Tick, SchedulerInv
    <3>2. CASE events = <<>>
      BY <3>1, <3>2 DEF OnTime
    <3>3. CASE events # <<>>
      <4>1. next_dispatch \in Nat /\ \A i \in DOMAIN events : next_dispatch <= events[i].end
        BY Zenon, <3>3, NextDispatchInTime DEF SchedulerInv
      <4>2. \A i \in DOMAIN events : events[i].end \in Nat
        BY Zenon, Fields DEF SchedulerInv, Ordered
      <4> HIDE DEF next_dispatch
      <4>3. \A i \in DOMAIN events : time + 1 <= events[i].end
        BY <3>1, <3>3, <4>1, <4>2
      <4> QED
        BY Zenon, <3>1, <4>3 DEF OnTime
    <3> QED
      BY Zenon, <3>2, <3>3
  <2>10. CASE UNCHANGED schedulerVars
    BY Zenon, <2>10 DEF schedulerVars, OnTime
  <2> QED
    BY Zenon, <2>4, <2>5, <2>6, <2>7, <2>8, <2>9, <2>10 DEF SchedulerNext
<1> QED
  BY <1>1, <1>2, SchedulerStart, SchedulerStep, PTL DEF SchedulerSpec
=============================================================================
