------------------------ MODULE FrameAllocator_proofs ------------------------
(***************************************************************************)
(* Proofs about FrameAllocator, for every size of the bitmaps, every memory *)
(* map and every bound.  The argument: the reserved frames cover the bits   *)
(* of the frames below 4 GiB (ReqPages * BitsPerPage >= LowPages), so       *)
(* whatever the holders of other frames write, those bits only change in    *)
(* pfa_alloc_low and pfa_free.                                              *)
(***************************************************************************)
EXTENDS FrameAllocator, FiniteSetTheorems, TLAPS

\* Setting and clearing one bit are plain set operations throughout.
USE DEF BitmapSetUsed, BitmapSetFree

\* Before mm_init has run, or when it gave up, nothing is free or held.
IdleUntilUp ==
  phase # "up" => /\ lowFree = {} /\ highFree = {}
                  /\ lowRet = 0
                  /\ registered = {}
                  /\ clears = 0
                  /\ lowFreeCount = 0 /\ highFreeCount = 0
                  /\ \A p \in Frame : holders[p] = 0

\* The reservation lies below 4 GiB and does not start at page 0.
ReservationLow ==
  phase = "up" => placement \in Nat \ {0} /\ placement + ReqPages <= LowPages

\* The inductive invariant.
IInv == /\ TypeOK
        /\ IdleUntilUp
        /\ ReservationLow
        /\ LowExclusive
        /\ ReservedNeverGiven

-----------------------------------------------------------------------------
\* First fit returns a free bit, and no smaller bit is free.
LEMMA FirstFitMin ==
  ASSUME NEW S \in SUBSET Nat, S # {}
  PROVE  FirstFit(S) \in S /\ \A i \in S : FirstFit(S) <= i
<1>1. PICK i \in S : \A j \in S : <<j, i>> \notin OpToRel(<, Nat)
  BY WFMin, NatLessThanWellFounded
<1>2. \A j \in S : ~(j < i)
  BY <1>1 DEF OpToRel
<1>3. \A j \in S : i <= j
  BY <1>2
<1>4. QED
  BY <1>3 DEF FirstFit

LEMMA ConstFacts ==
  /\ MaxPages \in Nat \ {0} /\ LowPages \in 1 .. MaxPages /\ LowPages \in Nat
  /\ BitsPerPage \in Nat \ {0} /\ BitmapPages \in Nat /\ ReqPages \in Nat \ {0}
  /\ ReqPages * BitsPerPage >= LowPages
  /\ CountMax \in Nat /\ CountMax >= LowPages + MaxPages
  /\ HolderCap \in Nat \ {0} /\ TotalCap \in Nat /\ ClearCap \in Nat
BY AllocatorAssumption DEF ConstantsOK

LEMMA FrameFacts ==
  /\ LowFrame \subseteq Index /\ LowFrame \subseteq Frame
  /\ Index \subseteq Nat /\ Frame \subseteq Nat
  /\ 0 \in Index
  /\ \A j \in Index : LowPages + j \in Frame \ LowFrame
BY ConstFacts DEF LowFrame, Index, Frame

\* Counters stay within a machine word.
LEMMA WordSteps ==
  ASSUME NEW c \in 0 .. CountMax
  PROVE  Inc(c) \in 0 .. CountMax /\ Dec(c) \in 0 .. CountMax
BY ConstFacts DEF Inc, Dec

\* A set of bits fits a counter.
LEMMA BitsCounted ==
  ASSUME NEW S \in SUBSET Index
  PROVE  /\ IsFiniteSet(S)
         /\ Cardinality(S) \in 0 .. MaxPages
         /\ Cardinality(S) \in 0 .. CountMax
<1>1. IsFiniteSet(Index) /\ Cardinality(Index) = MaxPages
  BY FS_Interval, ConstFacts DEF Index
<1>2. IsFiniteSet(S) /\ Cardinality(S) <= MaxPages
  BY <1>1, FS_Subset
<1>3. Cardinality(S) \in Nat
  BY <1>2, FS_CardinalityType
<1>4. QED
  BY <1>2, <1>3, ConstFacts

\* The bits beyond the reserved frames are those of no frame below 4 GiB.
LEMMA UnreservedBits ==
  ASSUME NEW k \in Nat, k >= ReqPages
  PROVE  BitsOf(k) \cap LowFrame = {}
<1>1. k * BitsPerPage \in Nat /\ ReqPages * BitsPerPage \in Nat
  BY ConstFacts
<1>2. k * BitsPerPage >= ReqPages * BitsPerPage
  <2>1. PICK d \in Nat : k = ReqPages + d
    <3>1. k - ReqPages \in Nat /\ k = ReqPages + (k - ReqPages)
      BY ConstFacts
    <3>2. QED
      BY <3>1
  <2>2. k * BitsPerPage = ReqPages * BitsPerPage + d * BitsPerPage
    BY <2>1, ConstFacts
  <2>3. d * BitsPerPage \in Nat
    BY ConstFacts
  <2>4. QED
    BY <2>2, <2>3, <1>1
<1>3. \A i \in BitsOf(k) : i >= LowPages
  BY <1>1, <1>2, ConstFacts DEF BitsOf, Index
<1>4. QED
  BY <1>3, ConstFacts DEF LowFrame

-----------------------------------------------------------------------------
LEMMA InitIInv == Init => IInv
BY ConstFacts, FrameFacts
   DEF Init, IInv, TypeOK, IdleUntilUp, ReservationLow, LowExclusive,
       ReservedNeverGiven

LEMMA MmInitStep ==
  ASSUME IInv, NEW m \in MemoryMaps, MmInit(m)
  PROVE  IInv'
<1> DEFINE start == Placement(m)
           low   == Seeded(m, start) \cap LowFrame
           high  == { j \in Index : LowPages + j \in Seeded(m, start) }
<1>1. start \in Nat \ {0} /\ start + ReqPages <= LowPages
  BY AllocatorAssumption DEF MapsOK, MmInit
<1>2. /\ placement' = start
      /\ lowFree' = low /\ highFree' = high
      /\ lowFreeCount' = Cardinality(low) /\ lowTotal' = Cardinality(low)
      /\ highFreeCount' = Cardinality(high) /\ highTotal' = Cardinality(high)
      /\ registered' = Seeded(m, start)
      /\ phase' = "up"
      /\ lowRet' = lowRet /\ holders' = holders /\ clears' = clears
  BY DEF MmInit
<1>3. low \in SUBSET Index /\ high \in SUBSET Index /\ Seeded(m, start) \in SUBSET Frame
  BY FrameFacts DEF Seeded
<1>4. \A p \in Frame : holders[p] = 0
  BY DEF IInv, IdleUntilUp, MmInit
<1>5. TypeOK'
  <2>1. Cardinality(low) \in 0 .. CountMax /\ Cardinality(high) \in 0 .. CountMax
    BY <1>3, BitsCounted
  <2>2. start \in 0 .. LowPages
    BY <1>1, ConstFacts
  <2>3. QED
    BY <1>2, <1>3, <2>1, <2>2 DEF IInv, TypeOK
<1>6. LowExclusive'
  BY <1>2, <1>4, FrameFacts DEF LowExclusive
<1>7. ReservedNeverGiven'
  <2>1. Reserved(start) \subseteq Frame
    BY <1>1, ConstFacts DEF Reserved, Frame
  <2>2. \A p \in {0} \cup Reserved(start) : p \notin low
    BY DEF Seeded
  <2>3. Reserved(placement)' = Reserved(start) /\ 0 \in Frame
    BY <1>2, ConstFacts DEF Reserved, Frame
  <2>4. QED
    BY <1>2, <1>4, <2>1, <2>2, <2>3 DEF ReservedNeverGiven
<1>8. QED
  BY <1>1, <1>2, <1>5, <1>6, <1>7 DEF IInv, IdleUntilUp, ReservationLow

LEMMA MmInitFatalStep ==
  ASSUME IInv, NEW m \in MemoryMaps, MmInitFatal(m)
  PROVE  IInv'
BY DEF MmInitFatal, IInv, TypeOK, IdleUntilUp, ReservationLow, LowExclusive,
       ReservedNeverGiven

LEMMA PfaAllocLowStep ==
  ASSUME IInv, PfaAllocLow
  PROVE  IInv'
<1>1. CASE lowFree = {}
  BY <1>1, FrameFacts DEF PfaAllocLow, IInv, TypeOK, IdleUntilUp, ReservationLow,
     LowExclusive, ReservedNeverGiven
<1>2. CASE lowFree # {}
  <2> DEFINE p == FirstFit(lowFree)
  <2>1. p \in lowFree /\ p \in Index /\ p \in Frame
    <3>1. lowFree \in SUBSET Nat /\ lowFree \subseteq Index
      BY FrameFacts DEF IInv, TypeOK
    <3>2. p \in lowFree
      BY <1>2, <3>1, FirstFitMin
    <3>3. Index \subseteq Frame
      BY ConstFacts DEF Index, Frame
    <3>4. QED
      BY <3>1, <3>2, <3>3
  <2>2. /\ phase = "up" /\ holders[p] < HolderCap
        /\ lowFree' = lowFree \ {p}
        /\ lowFreeCount' = Dec(lowFreeCount)
        /\ lowRet' = p
        /\ holders' = [holders EXCEPT ![p] = @ + 1]
        /\ phase' = phase /\ placement' = placement /\ highFree' = highFree
        /\ lowTotal' = lowTotal /\ highFreeCount' = highFreeCount
        /\ highTotal' = highTotal /\ registered' = registered /\ clears' = clears
    BY <1>2 DEF PfaAllocLow
  <2>3. TypeOK'
    <3>1. holders[p] + 1 \in 0 .. HolderCap
      BY <2>1, <2>2, ConstFacts DEF IInv, TypeOK
    <3>2. holders' \in [Frame -> 0 .. HolderCap]
      BY <2>1, <2>2, <3>1 DEF IInv, TypeOK
    <3>3. Dec(lowFreeCount) \in 0 .. CountMax
      BY WordSteps DEF IInv, TypeOK
    <3>4. QED
      BY <2>1, <2>2, <3>2, <3>3 DEF IInv, TypeOK
  <2>4. LowExclusive'
    <3>1. p \in LowFrame => holders[p] = 0
      <4>1. holders[p] \in 0 .. HolderCap
        BY <2>1 DEF IInv, TypeOK
      <4>2. p \in LowFrame => holders[p] <= 1 /\ holders[p] # 1
        BY <2>1 DEF IInv, LowExclusive
      <4>3. QED
        BY <4>1, <4>2, ConstFacts
    <3>2. QED
      BY <2>1, <2>2, <3>1, FrameFacts DEF IInv, TypeOK, LowExclusive
  <2>5. ReservedNeverGiven'
    BY <2>1, <2>2 DEF IInv, TypeOK, ReservedNeverGiven
  <2>6. QED
    BY <2>2, <2>3, <2>4, <2>5 DEF IInv, IdleUntilUp, ReservationLow
<1>3. QED
  BY <1>1, <1>2

LEMMA PfaAllocStep ==
  ASSUME IInv, PfaAlloc
  PROVE  IInv'
<1> DEFINE j == FirstFit(highFree)
           p == LowPages + j
<1>1. j \in highFree /\ j \in Index /\ p \in Frame \ LowFrame
  BY FirstFitMin, FrameFacts DEF PfaAlloc, IInv, TypeOK
<1>2. /\ phase = "up" /\ holders[p] < HolderCap
      /\ highFree' = highFree \ {j}
      /\ highFreeCount' = Dec(highFreeCount)
      /\ holders' = [holders EXCEPT ![p] = @ + 1]
      /\ phase' = phase /\ placement' = placement /\ lowFree' = lowFree
      /\ lowFreeCount' = lowFreeCount /\ lowTotal' = lowTotal
      /\ highTotal' = highTotal /\ lowRet' = lowRet
      /\ registered' = registered /\ clears' = clears
  BY DEF PfaAlloc
<1>3. TypeOK'
  <2>1. holders[p] + 1 \in 0 .. HolderCap
    BY <1>1, <1>2, ConstFacts DEF IInv, TypeOK
  <2>2. Dec(highFreeCount) \in 0 .. CountMax
    BY WordSteps DEF IInv, TypeOK
  <2>3. QED
    BY <1>1, <1>2, <2>1, <2>2 DEF IInv, TypeOK
<1>4. LowExclusive'
  BY <1>1, <1>2, FrameFacts DEF IInv, TypeOK, LowExclusive
<1>5. ReservedNeverGiven'
  <2>1. \A q \in {0} \cup Reserved(placement) : q \in LowFrame
    BY <1>2, ConstFacts DEF IInv, ReservationLow, Reserved, LowFrame
  <2>2. QED
    BY <1>1, <1>2, <2>1 DEF IInv, TypeOK, ReservedNeverGiven
<1>6. QED
  BY <1>2, <1>3, <1>4, <1>5 DEF IInv, IdleUntilUp, ReservationLow

LEMMA PfaFreeLowStep ==
  ASSUME IInv, NEW p \in LowFrame, PfaFreeLow(p)
  PROVE  IInv'
<1>1. /\ phase = "up" /\ holders[p] > 0 /\ p # 0 /\ p \in Frame /\ p \in Index
      /\ holders' = [holders EXCEPT ![p] = @ - 1]
      /\ phase' = phase /\ placement' = placement /\ highFree' = highFree
      /\ highFreeCount' = highFreeCount /\ highTotal' = highTotal
      /\ lowRet' = lowRet /\ registered' = registered /\ clears' = clears
  BY FrameFacts DEF PfaFreeLow
<1>2. holders[p] = 1 /\ p \notin lowFree
  <2>1. holders[p] \in 0 .. HolderCap
    BY <1>1 DEF IInv, TypeOK
  <2>2. holders[p] <= 1 /\ (holders[p] = 1 => p \notin lowFree)
    BY DEF IInv, LowExclusive
  <2>3. QED
    BY <1>1, <2>1, <2>2, ConstFacts
<1>3. /\ lowFree' = lowFree \cup {p}
      /\ lowFreeCount' = Inc(lowFreeCount) /\ lowTotal' = Inc(lowTotal)
  BY <1>2 DEF PfaFreeLow
<1>4. TypeOK'
  <2>1. holders' \in [Frame -> 0 .. HolderCap]
    BY <1>1, <1>2, ConstFacts DEF IInv, TypeOK
  <2>2. Inc(lowFreeCount) \in 0 .. CountMax /\ Inc(lowTotal) \in 0 .. CountMax
    BY WordSteps DEF IInv, TypeOK
  <2>3. QED
    BY <1>1, <1>3, <2>1, <2>2 DEF IInv, TypeOK
<1>5. LowExclusive'
  BY <1>1, <1>2, <1>3, FrameFacts DEF IInv, TypeOK, LowExclusive
<1>6. p \notin {0} \cup Reserved(placement)
  <2>1. holders[p] # 0
    BY <1>2
  <2>2. QED
    BY <1>1, <2>1, Zenon DEF IInv, ReservedNeverGiven
<1>7. ReservedNeverGiven'
  <2>1. Reserved(placement)' = Reserved(placement)
    BY <1>1 DEF Reserved
  <2>2. QED
    BY <1>1, <1>3, <1>6, <2>1 DEF IInv, TypeOK, ReservedNeverGiven
<1>8. QED
  BY <1>1, <1>4, <1>5, <1>7 DEF IInv, IdleUntilUp, ReservationLow

LEMMA PfaFreeHighStep ==
  ASSUME IInv, NEW j \in Index, PfaFreeHigh(j)
  PROVE  IInv'
<1> DEFINE p == LowPages + j
<1>1. /\ phase = "up" /\ holders[p] > 0 /\ p \in Frame \ LowFrame
      /\ holders' = [holders EXCEPT ![p] = @ - 1]
      /\ phase' = phase /\ placement' = placement /\ lowFree' = lowFree
      /\ lowFreeCount' = lowFreeCount /\ lowTotal' = lowTotal
      /\ lowRet' = lowRet /\ registered' = registered /\ clears' = clears
  BY FrameFacts DEF PfaFreeHigh
<1>2. /\ highFree' \in SUBSET Index
      /\ highFreeCount' \in 0 .. CountMax /\ highTotal' \in 0 .. CountMax
  BY WordSteps DEF PfaFreeHigh, IInv, TypeOK
<1>3. TypeOK'
  <2>1. holders' \in [Frame -> 0 .. HolderCap]
    BY <1>1, ConstFacts DEF IInv, TypeOK
  <2>2. QED
    BY <1>1, <1>2, <2>1 DEF IInv, TypeOK
<1>4. LowExclusive'
  BY <1>1, FrameFacts DEF IInv, TypeOK, LowExclusive
<1>5. ReservedNeverGiven'
  <2>1. \A q \in {0} \cup Reserved(placement) : q \in LowFrame
    BY <1>1, ConstFacts DEF IInv, ReservationLow, Reserved, LowFrame
  <2>2. QED
    BY <1>1, <2>1 DEF IInv, TypeOK, ReservedNeverGiven
<1>6. QED
  BY <1>1, <1>3, <1>4, <1>5 DEF IInv, IdleUntilUp, ReservationLow

\* Clearing a frame under the bitmaps leaves the bits below 4 GiB alone: the
\* frame is held, so it is not reserved, so it stores bits further up.
LEMMA ClearKeepsLowBits ==
  ASSUME IInv, NEW p \in Frame, ClearFrame(p)
  PROVE  lowFree' \cap LowFrame = lowFree \cap LowFrame
<1>1. CASE p \in LowBitmapFrames
  <2>1. placement \in Nat /\ p \in Nat /\ p >= placement
    BY <1>1, FrameFacts, ConstFacts DEF LowBitmapFrames, IInv, TypeOK
  <2>2. p \notin Reserved(placement)
    <3>1. phase = "up" /\ holders[p] # 0
      BY ConstFacts DEF ClearFrame, IInv, TypeOK
    <3>2. QED
      BY <3>1, Zenon DEF IInv, ReservedNeverGiven
  <2>3. p - placement \in Nat /\ p - placement >= ReqPages
    BY <2>1, <2>2, ConstFacts DEF Reserved
  <2>4. BitsOf(p - placement) \cap LowFrame = {}
    BY <2>3, UnreservedBits
  <2>5. lowFree' = lowFree \cup BitsOf(p - placement)
    BY <1>1 DEF ClearFrame
  <2>6. QED
    BY <2>4, <2>5
<1>2. CASE p \notin LowBitmapFrames
  BY <1>2 DEF ClearFrame
<1>3. QED
  BY <1>1, <1>2

LEMMA ClearFrameStep ==
  ASSUME IInv, NEW p \in Frame, ClearFrame(p)
  PROVE  IInv'
<1>1. /\ phase = "up"
      /\ phase' = phase /\ placement' = placement /\ lowFreeCount' = lowFreeCount
      /\ lowTotal' = lowTotal /\ highFreeCount' = highFreeCount
      /\ highTotal' = highTotal /\ lowRet' = lowRet /\ holders' = holders
      /\ registered' = registered /\ clears' = clears + 1 /\ clears < ClearCap
  BY DEF ClearFrame
<1>2. lowFree' \in SUBSET Index /\ highFree' \in SUBSET Index
  BY DEF ClearFrame, BitsOf, IInv, TypeOK
<1>3. lowFree' \cap LowFrame = lowFree \cap LowFrame
  BY ClearKeepsLowBits
<1>4. TypeOK'
  <2>1. clears + 1 \in 0 .. ClearCap
    BY <1>1, ConstFacts DEF IInv, TypeOK
  <2>2. QED
    BY <1>1, <1>2, <2>1 DEF IInv, TypeOK
<1>5. LowExclusive'
  BY <1>1, <1>3 DEF IInv, LowExclusive
<1>6. ReservedNeverGiven'
  <2>1. \A q \in {0} \cup Reserved(placement) : q \in LowFrame
    BY <1>1, ConstFacts DEF IInv, ReservationLow, Reserved, LowFrame
  <2>2. Reserved(placement)' = Reserved(placement)
    BY <1>1 DEF Reserved
  <2>3. QED
    BY <1>1, <1>3, <2>1, <2>2 DEF IInv, ReservedNeverGiven
<1>7. QED
  BY <1>1, <1>4, <1>5, <1>6 DEF IInv, IdleUntilUp, ReservationLow

LEMMA NextIInv == IInv /\ [Next]_vars => IInv'
<1> SUFFICES ASSUME IInv, [Next]_vars
             PROVE  IInv'
  OBVIOUS
<1>1. CASE UNCHANGED vars
  BY <1>1 DEF vars, IInv, TypeOK, IdleUntilUp, ReservationLow, LowExclusive,
     ReservedNeverGiven, Reserved
<1>2. CASE Next
  BY <1>2, MmInitStep, MmInitFatalStep, PfaAllocLowStep, PfaAllocStep,
     PfaFreeLowStep, PfaFreeHighStep, ClearFrameStep DEF Next
<1>3. QED
  BY <1>1, <1>2

LEMMA Inductive == Spec => []IInv
BY InitIInv, NextIInv, PTL DEF Spec

-----------------------------------------------------------------------------
\* The allocator keeps its types: no counter leaves a machine word, no call
\* returns a page outside the bitmaps (pfa_alloc_low, pfa_alloc, pfa_free,
\* mm_init).
THEOREM TypeCorrect == Spec => []TypeOK
<1>1. IInv => TypeOK
  BY DEF IInv
<1>2. QED
  BY Inductive, <1>1, PTL

\* pfa_alloc_low never gives a frame below 4 GiB to two callers, and never
\* keeps a held one in the pool, even when callers overwrite the part of the
\* bitmaps mm_init does not reserve.
THEOREM LowFramesExclusive == Spec => []LowExclusive
<1>1. IInv => LowExclusive
  BY DEF IInv
<1>2. QED
  BY Inductive, <1>1, PTL

\* The frames mm_init does reserve stay out of every caller's hands.
THEOREM ReservationHolds == Spec => []ReservedNeverGiven
<1>1. IInv => ReservedNeverGiven
  BY DEF IInv
<1>2. QED
  BY Inductive, <1>1, PTL

-----------------------------------------------------------------------------
(* The frames below 4 GiB behave as the atomic pool of FramePool.          *)

LEMMA PoolInit == Init => LowPool!Init
<1> SUFFICES ASSUME Init PROVE LowPool!Init
  OBVIOUS
<1>1. \A q \in LowFrame : holders[q] = 0
  BY FrameFacts DEF Init
<1>2. { q \in LowFrame : holders[q] > 0 } = {}
  BY <1>1
<1>3. (phase = "up") = FALSE /\ lowFree = {} /\ lowRet = 0
  BY DEF Init
<1>4. QED
  BY <1>2, <1>3 DEF LowPool!Init

LEMMA PoolFillStep ==
  ASSUME IInv, NEW m \in MemoryMaps, MmInit(m)
  PROVE  LowPool!Next
<1> DEFINE S == Seeded(m, Placement(m)) \cap LowFrame
<1>1. S \in SUBSET (LowFrame \ {0})
  BY DEF Seeded
<1>2. phase = "boot" /\ phase' = "up" /\ lowFree' = S
      /\ holders' = holders /\ lowRet' = lowRet
  BY DEF MmInit
<1>3. LowPool!Fill(S)
  BY <1>1, <1>2 DEF LowPool!Fill
<1>4. QED
  BY <1>1, <1>3 DEF LowPool!Next

LEMMA PoolAllocStep ==
  ASSUME IInv, IInv', PfaAllocLow
  PROVE  LowPool!Next
<1> DEFINE avail == lowFree \cap LowFrame
           inUse == { q \in LowFrame : holders[q] > 0 }
           p == FirstFit(lowFree)
<1>1. CASE avail = {}
  <2>1. lowFree' \cap LowFrame = avail /\ { q \in LowFrame : holders'[q] > 0 } = inUse
    <3>1. CASE lowFree = {}
      BY <3>1 DEF PfaAllocLow
    <3>2. CASE lowFree # {}
      <4>1. lowFree \in SUBSET Nat
        BY FrameFacts DEF IInv, TypeOK
      <4>2. p \in lowFree /\ p \notin LowFrame
        BY <1>1, <3>2, <4>1, FirstFitMin
      <4>3. lowFree' = lowFree \ {p} /\ holders' = [holders EXCEPT ![p] = @ + 1]
        BY <3>2 DEF PfaAllocLow
      <4>4. \A q \in LowFrame : holders'[q] = holders[q]
        BY <4>2, <4>3, FrameFacts DEF IInv, TypeOK
      <4>5. QED
        BY <4>2, <4>3, <4>4
    <3>3. QED
      BY <3>1, <3>2
  <2>2. lowRet' \in {0} \cup (Index \ LowFrame)
    <3>1. CASE lowFree = {}
      BY <3>1 DEF PfaAllocLow
    <3>2. CASE lowFree # {}
      <4>1. lowFree \in SUBSET Nat
        BY FrameFacts DEF IInv, TypeOK
      <4>2. p \in lowFree /\ p \notin LowFrame
        BY <1>1, <3>2, <4>1, FirstFitMin
      <4>3. p \in Index
        BY <4>2 DEF IInv, TypeOK
      <4>4. QED
        BY <3>2, <4>2, <4>3 DEF PfaAllocLow
    <3>3. QED
      BY <3>1, <3>2
  <2>3. LowPool!Exhausted
    BY <1>1, <2>1, <2>2 DEF LowPool!Exhausted, PfaAllocLow
  <2>4. QED
    BY <2>3 DEF LowPool!Next
<1>2. CASE avail # {}
  <2>1. lowFree \in SUBSET Nat /\ lowFree # {}
    BY <1>2, FrameFacts DEF IInv, TypeOK
  <2>2. p \in lowFree /\ \A i \in lowFree : p <= i
    BY <2>1, FirstFitMin
  <2>3. p \in LowFrame
    <3>1. PICK q \in lowFree : q \in LowFrame
      BY <1>2
    <3>2. p <= q /\ p \in Nat /\ q \in Nat
      BY <2>1, <2>2
    <3>3. QED
      BY <3>1, <3>2, ConstFacts DEF LowFrame
  <2>4. /\ lowFree' = lowFree \ {p} /\ lowRet' = p /\ phase = "up" /\ phase' = phase
        /\ holders' = [holders EXCEPT ![p] = @ + 1]
    BY <2>1 DEF PfaAllocLow
  <2>5. p \in Frame /\ holders[p] \in Nat
    <3>1. p \in Frame
      BY <2>3, FrameFacts
    <3>2. holders[p] \in 0 .. HolderCap
      BY <3>1 DEF IInv, TypeOK
    <3>3. QED
      BY <3>1, <3>2, ConstFacts
  <2>6. { q \in LowFrame : holders'[q] > 0 } = inUse \cup {p}
    BY <2>3, <2>4, <2>5, FrameFacts DEF IInv, TypeOK
  <2>7. p \in avail /\ lowFree' \cap LowFrame = avail \ {p}
    BY <2>2, <2>3, <2>4
  <2>8. LowPool!Acquire
    BY <2>3, <2>4, <2>6, <2>7 DEF LowPool!Acquire
  <2>9. QED
    BY <2>8 DEF LowPool!Next
<1>3. QED
  BY <1>1, <1>2

LEMMA PoolFreeStep ==
  ASSUME IInv, NEW p \in LowFrame, PfaFreeLow(p)
  PROVE  LowPool!Next
<1>1. p \in Frame /\ holders[p] \in 0 .. HolderCap /\ holders[p] > 0
  BY FrameFacts DEF PfaFreeLow, IInv, TypeOK
<1>2. holders[p] = 1 /\ p \notin lowFree
  BY <1>1, ConstFacts DEF IInv, LowExclusive
<1>3. /\ lowFree' = lowFree \cup {p} /\ holders' = [holders EXCEPT ![p] = @ - 1]
      /\ phase = "up" /\ phase' = phase /\ lowRet' = lowRet /\ p # 0
  BY <1>2 DEF PfaFreeLow
<1>4. { q \in LowFrame : holders'[q] > 0 } = { q \in LowFrame : holders[q] > 0 } \ {p}
  BY <1>1, <1>2, <1>3, FrameFacts DEF IInv, TypeOK
<1>5. lowFree' \cap LowFrame = (lowFree \cap LowFrame) \cup {p}
  BY <1>3
<1>6. LowPool!Release(p)
  BY <1>1, <1>3, <1>4, <1>5 DEF LowPool!Release
<1>7. QED
  BY <1>3, <1>6 DEF LowPool!Next

\* The steps that leave the low pool alone.
LEMMA PoolStutter ==
  ASSUME IInv,
         \/ \E m \in MemoryMaps : MmInitFatal(m)
         \/ PfaAlloc
         \/ \E j \in Index : PfaFreeHigh(j)
         \/ \E p \in Frame : ClearFrame(p)
         \/ UNCHANGED vars
  PROVE  UNCHANGED LowPool!vars
<1>1. (phase' = "up") = (phase = "up") /\ lowRet' = lowRet
  BY DEF MmInitFatal, PfaAlloc, PfaFreeHigh, ClearFrame, vars
<1>2. lowFree' \cap LowFrame = lowFree \cap LowFrame
  BY ClearKeepsLowBits DEF MmInitFatal, PfaAlloc, PfaFreeHigh, vars
<1>3. \A q \in LowFrame : holders'[q] = holders[q]
  <2>1. CASE PfaAlloc
    <3>1. highFree \in SUBSET Nat /\ highFree # {} /\ highFree \subseteq Index
      BY <2>1, FrameFacts DEF PfaAlloc, IInv, TypeOK
    <3>2. FirstFit(highFree) \in Index
      BY <3>1, FirstFitMin
    <3>3. QED
      BY <2>1, <3>2, FrameFacts DEF PfaAlloc, IInv, TypeOK
  <2>2. CASE \E j \in Index : PfaFreeHigh(j)
    BY <2>2, FrameFacts DEF PfaFreeHigh, IInv, TypeOK
  <2>3. QED
    BY <2>1, <2>2 DEF MmInitFatal, ClearFrame, vars
<1>4. { q \in LowFrame : holders'[q] > 0 } = { q \in LowFrame : holders[q] > 0 }
  BY <1>3
<1>5. QED
  BY <1>1, <1>2, <1>4 DEF LowPool!vars

\* The allocator, with the bitmaps it does not fully reserve and callers that
\* may overwrite them, implements an atomic pool of the frames below 4 GiB:
\* as long as one is left pfa_alloc_low returns one that nobody holds, only
\* then 0 or a frame at or above 4 GiB; pfa_free puts back exactly the frame
\* it is given.
THEOREM LowPoolImplemented == Spec => LowPoolSpec
<1>1. IInv /\ IInv' /\ [Next]_vars => [LowPool!Next]_(LowPool!vars)
  BY PoolFillStep, PoolAllocStep, PoolFreeStep, PoolStutter DEF Next
<1>2. QED
  BY PoolInit, Inductive, <1>1, PTL DEF Spec, LowPoolSpec, LowPool!Spec

-----------------------------------------------------------------------------
(* While no caller has cleared a frame under the bitmaps, the books of both *)
(* bitmaps are exact.                                                       *)

BooksInv == IInv /\ IntactBooks

LEMMA BooksInit == Init => IntactBooks
<1> SUFFICES ASSUME Init PROVE IntactBooks
  OBVIOUS
<1>1. Cardinality({}) = 0
  BY FS_EmptySet
<1>2. \A j \in Index : holders[LowPages + j] = 0
  BY FrameFacts DEF Init
<1>3. lowFree = {} /\ highFree = {} /\ lowFreeCount = 0 /\ highFreeCount = 0 /\ registered = {}
  BY DEF Init
<1>4. QED
  BY <1>1, <1>2, <1>3 DEF IntactBooks

LEMMA BooksMmInit ==
  ASSUME IInv, NEW m \in MemoryMaps, MmInit(m)
  PROVE  IntactBooks'
<1> DEFINE start == Placement(m)
           S     == Seeded(m, start)
           low   == S \cap LowFrame
           high  == { j \in Index : LowPages + j \in S }
<1>1. /\ lowFree' = low /\ highFree' = high
      /\ lowFreeCount' = Cardinality(low)
      /\ highFreeCount' = Cardinality(high)
      /\ registered' = S /\ holders' = holders
  BY DEF MmInit
<1>2. \A j \in Index : holders[LowPages + j] = 0
  BY FrameFacts DEF IInv, IdleUntilUp, MmInit
<1>3. \A p \in S : p \in low \/ p - LowPages \in high
  <2>1. S \subseteq Frame
    BY DEF Seeded
  <2>2. \A p \in Frame \ LowFrame : p - LowPages \in Index /\ LowPages + (p - LowPages) = p
    BY ConstFacts DEF Frame, LowFrame, Index
  <2>3. QED
    BY <2>1, <2>2
<1>4. QED
  BY <1>1, <1>2, <1>3 DEF IntactBooks

LEMMA BooksAllocLow ==
  ASSUME BooksInv, PfaAllocLow
  PROVE  IntactBooks'
<1> SUFFICES ASSUME clears = 0 PROVE IntactBooks'
  BY DEF IntactBooks, PfaAllocLow
<1> DEFINE p == FirstFit(lowFree)
<1>1. CASE lowFree = {}
  BY <1>1 DEF BooksInv, IntactBooks, PfaAllocLow
<1>2. CASE lowFree # {}
  <2>1. p \in lowFree /\ p \in LowFrame /\ p \in Frame /\ lowFree \in SUBSET Index
    <3>1. lowFree \in SUBSET Nat /\ lowFree \in SUBSET Index
      BY FrameFacts DEF BooksInv, IInv, TypeOK
    <3>2. p \in lowFree
      BY <1>2, <3>1, FirstFitMin
    <3>3. QED
      BY <3>1, <3>2, FrameFacts DEF BooksInv, IntactBooks
  <2>2. /\ lowFree' = lowFree \ {p} /\ lowFreeCount' = Dec(lowFreeCount)
        /\ holders' = [holders EXCEPT ![p] = @ + 1]
        /\ highFree' = highFree /\ highFreeCount' = highFreeCount
        /\ registered' = registered
    BY <1>2 DEF PfaAllocLow
  <2>3. holders[p] = 0
    <3>1. holders[p] \in 0 .. HolderCap
      BY <2>1 DEF BooksInv, IInv, TypeOK
    <3>2. holders[p] <= 1 /\ holders[p] # 1
      BY <2>1 DEF BooksInv, IInv, LowExclusive
    <3>3. QED
      BY <3>1, <3>2, ConstFacts
  <2>4. lowFreeCount' = Cardinality(lowFree')
    <3>1. Cardinality(lowFree') = Cardinality(lowFree) - 1
      BY <2>1, <2>2, BitsCounted, FS_RemoveElement
    <3>2. lowFreeCount = Cardinality(lowFree)
      BY DEF BooksInv, IntactBooks
    <3>3. Cardinality(lowFree) # 0
      BY <1>2, <2>1, BitsCounted, FS_EmptySet
    <3>4. QED
      BY <2>2, <3>1, <3>2, <3>3 DEF Dec
  <2>5. holders'[p] = 1 /\ \A q \in Frame \ {p} : holders'[q] = holders[q]
    BY <2>1, <2>2, <2>3 DEF BooksInv, IInv, TypeOK
  <2>6. \A j \in Index : holders'[LowPages + j] = holders[LowPages + j]
    BY <2>1, <2>5, FrameFacts
  <2>7. \A q \in registered : q \in Frame
    BY DEF BooksInv, IInv, TypeOK
  <2>8. QED
    BY <2>2, <2>4, <2>5, <2>6, <2>7 DEF BooksInv, IntactBooks
<1>3. QED
  BY <1>1, <1>2

LEMMA BooksAlloc ==
  ASSUME BooksInv, PfaAlloc
  PROVE  IntactBooks'
<1> SUFFICES ASSUME clears = 0 PROVE IntactBooks'
  BY DEF IntactBooks, PfaAlloc
<1> DEFINE j == FirstFit(highFree)
           p == LowPages + j
<1>1. j \in highFree /\ j \in Index /\ p \in Frame \ LowFrame /\ highFree \in SUBSET Index
  <2>1. highFree \in SUBSET Nat /\ highFree # {} /\ highFree \in SUBSET Index
    BY FrameFacts DEF PfaAlloc, BooksInv, IInv, TypeOK
  <2>2. QED
    BY <2>1, FirstFitMin, FrameFacts
<1>2. /\ highFree' = highFree \ {j} /\ highFreeCount' = Dec(highFreeCount)
      /\ holders' = [holders EXCEPT ![p] = @ + 1]
      /\ lowFree' = lowFree /\ lowFreeCount' = lowFreeCount
      /\ registered' = registered
  BY DEF PfaAlloc
<1>3. holders[p] = 0
  <2>1. holders[p] \in 0 .. HolderCap
    BY <1>1 DEF BooksInv, IInv, TypeOK
  <2>2. holders[p] <= 1 /\ holders[p] # 1
    BY <1>1 DEF BooksInv, IntactBooks
  <2>3. QED
    BY <2>1, <2>2, ConstFacts
<1>4. highFreeCount' = Cardinality(highFree')
  <2>1. Cardinality(highFree') = Cardinality(highFree) - 1
    BY <1>1, <1>2, BitsCounted, FS_RemoveElement
  <2>2. highFreeCount = Cardinality(highFree)
    BY DEF BooksInv, IntactBooks
  <2>3. Cardinality(highFree) # 0
    BY <1>1, BitsCounted, FS_EmptySet
  <2>4. QED
    BY <1>2, <2>1, <2>2, <2>3 DEF Dec
<1>5. holders'[p] = 1 /\ \A q \in Frame \ {p} : holders'[q] = holders[q]
  BY <1>1, <1>2, <1>3 DEF BooksInv, IInv, TypeOK
<1>6. \A i \in Index : i # j => LowPages + i \in Frame \ {p}
  BY <1>1, FrameFacts, ConstFacts DEF Index
<1>7. \A i \in Index : /\ holders'[LowPages + i] <= 1
                       /\ holders'[LowPages + i] = 1 => i \notin highFree'
  BY <1>2, <1>5, <1>6 DEF BooksInv, IntactBooks
<1>8. \A q \in registered : \/ holders'[q] = 1
                            \/ q \in lowFree
                            \/ q - LowPages \in highFree'
  <2> SUFFICES ASSUME NEW q \in registered, q # p, holders[q] # 1, q \notin lowFree
               PROVE  q - LowPages \in highFree'
    BY <1>5 DEF BooksInv, IInv, TypeOK
  <2>1. q \in Frame /\ q \in Nat /\ q - LowPages \in highFree
    BY FrameFacts DEF BooksInv, IInv, TypeOK, IntactBooks
  <2>2. q - LowPages # j
    BY <2>1, <1>1, ConstFacts DEF Index
  <2>3. QED
    BY <1>2, <2>1, <2>2
<1>9. QED
  BY <1>2, <1>4, <1>7, <1>8 DEF BooksInv, IntactBooks

LEMMA BooksFreeLow ==
  ASSUME BooksInv, NEW p \in LowFrame, PfaFreeLow(p)
  PROVE  IntactBooks'
<1> SUFFICES ASSUME clears = 0 PROVE IntactBooks'
  BY DEF IntactBooks, PfaFreeLow
<1>1. holders[p] = 1 /\ p \notin lowFree /\ p \in Frame /\ p \in Index
  <2>1. holders[p] \in 0 .. HolderCap /\ holders[p] > 0 /\ p \in Frame /\ p \in Index
    BY FrameFacts DEF PfaFreeLow, BooksInv, IInv, TypeOK
  <2>2. holders[p] <= 1 /\ (holders[p] = 1 => p \notin lowFree)
    BY DEF BooksInv, IInv, LowExclusive
  <2>3. QED
    BY <2>1, <2>2, ConstFacts
<1>2. /\ lowFree' = lowFree \cup {p} /\ lowFreeCount' = Inc(lowFreeCount)
      /\ holders' = [holders EXCEPT ![p] = @ - 1]
      /\ highFree' = highFree /\ highFreeCount' = highFreeCount
      /\ registered' = registered
  BY <1>1 DEF PfaFreeLow
<1>3. lowFree \in SUBSET Index /\ lowFree' \in SUBSET Index
  BY <1>1, <1>2 DEF BooksInv, IInv, TypeOK
<1>4. lowFreeCount' = Cardinality(lowFree')
  <2>1. Cardinality(lowFree') = Cardinality(lowFree) + 1
    BY <1>1, <1>2, <1>3, BitsCounted, FS_AddElement
  <2>2. lowFreeCount = Cardinality(lowFree)
    BY DEF BooksInv, IntactBooks
  <2>3. Cardinality(lowFree) \in 0 .. MaxPages /\ Cardinality(lowFree) # CountMax
    BY <1>3, BitsCounted, ConstFacts
  <2>4. QED
    BY <1>2, <2>1, <2>2, <2>3 DEF Inc
<1>5. \A q \in Frame \ {p} : holders'[q] = holders[q]
  BY <1>1, <1>2 DEF BooksInv, IInv, TypeOK
<1>6. \A j \in Index : holders'[LowPages + j] = holders[LowPages + j]
  BY <1>5, FrameFacts
<1>7. \A q \in registered : q \in Frame
  BY DEF BooksInv, IInv, TypeOK
<1>8. QED
  BY <1>2, <1>4, <1>5, <1>6, <1>7 DEF BooksInv, IntactBooks

LEMMA BooksFreeHigh ==
  ASSUME BooksInv, NEW j \in Index, PfaFreeHigh(j)
  PROVE  IntactBooks'
<1> SUFFICES ASSUME clears = 0 PROVE IntactBooks'
  BY DEF IntactBooks, PfaFreeHigh
<1> DEFINE p == LowPages + j
<1>1. holders[p] = 1 /\ j \notin highFree /\ p \in Frame \ LowFrame
  <2>1. p \in Frame \ LowFrame
    BY FrameFacts
  <2>2. holders[p] \in 0 .. HolderCap /\ holders[p] > 0
    BY <2>1 DEF PfaFreeHigh, BooksInv, IInv, TypeOK
  <2>3. holders[p] <= 1 /\ (holders[p] = 1 => j \notin highFree)
    BY DEF BooksInv, IntactBooks
  <2>4. QED
    BY <2>1, <2>2, <2>3, ConstFacts
<1>2. /\ highFree' = highFree \cup {j} /\ highFreeCount' = Inc(highFreeCount)
      /\ holders' = [holders EXCEPT ![p] = @ - 1]
      /\ lowFree' = lowFree /\ lowFreeCount' = lowFreeCount
      /\ registered' = registered
  BY <1>1 DEF PfaFreeHigh
<1>3. highFree \in SUBSET Index /\ highFree' \in SUBSET Index
  BY <1>2 DEF BooksInv, IInv, TypeOK
<1>4. highFreeCount' = Cardinality(highFree')
  <2>1. Cardinality(highFree') = Cardinality(highFree) + 1
    BY <1>1, <1>2, <1>3, BitsCounted, FS_AddElement
  <2>2. highFreeCount = Cardinality(highFree)
    BY DEF BooksInv, IntactBooks
  <2>3. Cardinality(highFree) \in 0 .. MaxPages /\ Cardinality(highFree) # CountMax
    BY <1>3, BitsCounted, ConstFacts
  <2>4. QED
    BY <1>2, <2>1, <2>2, <2>3 DEF Inc
<1>5. holders'[p] = 0 /\ \A q \in Frame \ {p} : holders'[q] = holders[q]
  BY <1>1, <1>2 DEF BooksInv, IInv, TypeOK
<1>6. \A i \in Index : i # j => LowPages + i \in Frame \ {p}
  BY <1>1, FrameFacts, ConstFacts DEF Index
<1>7. \A i \in Index : /\ holders'[LowPages + i] <= 1
                       /\ holders'[LowPages + i] = 1 => i \notin highFree'
  BY <1>2, <1>5, <1>6 DEF BooksInv, IntactBooks
<1>8. \A q \in registered : \/ holders'[q] = 1
                            \/ q \in lowFree
                            \/ q - LowPages \in highFree'
  <2>1. \A q \in registered : q \in Frame
    BY DEF BooksInv, IInv, TypeOK
  <2>2. p - LowPages = j
    BY ConstFacts DEF Index
  <2>3. QED
    BY <1>2, <1>5, <2>1, <2>2 DEF BooksInv, IntactBooks
<1>9. QED
  BY <1>2, <1>4, <1>7, <1>8 DEF BooksInv, IntactBooks

LEMMA BooksNext == BooksInv /\ [Next]_vars => BooksInv'
<1> SUFFICES ASSUME BooksInv, [Next]_vars PROVE BooksInv'
  OBVIOUS
<1>1. IInv'
  BY NextIInv DEF BooksInv
<1>2. ASSUME NEW m \in MemoryMaps, MmInitFatal(m) PROVE IntactBooks'
  BY <1>2 DEF MmInitFatal, BooksInv, IntactBooks
<1>3. ASSUME NEW p \in Frame, ClearFrame(p) PROVE IntactBooks'
  <2>1. clears \in Nat /\ clears' = clears + 1
    BY <1>3, ConstFacts DEF ClearFrame, BooksInv, IInv, TypeOK
  <2>2. clears' # 0
    BY <2>1
  <2>3. QED
    BY <2>2 DEF IntactBooks
<1>4. CASE UNCHANGED vars
  BY <1>1, <1>4 DEF vars, BooksInv, IntactBooks
<1>5. IInv
  BY DEF BooksInv
<1>6. QED
  BY <1>1, <1>2, <1>3, <1>4, <1>5, BooksMmInit, BooksAllocLow, BooksAlloc,
     BooksFreeLow, BooksFreeHigh DEF Next, BooksInv

\* Until a frame under the bitmaps is cleared, low_free_count and
\* free_pages_count are exact, nobody holds a frame twice or while it is free,
\* and no registered frame is lost (mm_init, pfa_alloc*, pfa_free).
THEOREM BooksExact == Spec => []IntactBooks
<1>1. Init => BooksInv
  BY InitIInv, BooksInit DEF BooksInv
<1>2. BooksInv => IntactBooks
  BY DEF BooksInv
<1>3. QED
  BY <1>1, <1>2, BooksNext, PTL DEF Spec
=============================================================================
