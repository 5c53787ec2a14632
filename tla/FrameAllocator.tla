---------------------------- MODULE FrameAllocator ----------------------------
(***************************************************************************)
(* The physical frame allocator of src/impl/kernel/core/mm.c: two bitmaps  *)
(* (one for the frames below 4 GiB, one for the frames above), their       *)
(* counters, the seeding done by mm_init, and the callers that hold, clear *)
(* and return frames.                                                      *)
(*                                                                         *)
(* A frame is named by its page number, so the frame of low bit i is i and *)
(* the frame of high bit j is LowPages + j.  The bitmaps themselves live   *)
(* in frames; a caller that clears such a frame clears bits, and a clear   *)
(* bit reads "free".  clears counts how often this has happened.            *)
(***************************************************************************)
EXTENDS Integers, FiniteSets, Sequences

CONSTANTS
  MaxPages,     \* MAX_PAGES: bits in each bitmap (2^21 in the code)
  LowPages,     \* frames below 4 GiB (2^20)
  BitsPerPage,  \* bits of a bitmap held by one frame (2^15)
  BitmapPages,  \* BITMAP_SIZE / PAGE_SIZE: frames under one bitmap (64)
  ReqPages,     \* req_pages: frames mm_init reserves for both bitmaps (32)
  PageSize,     \* PAGE_SIZE, in the unit of the memory map
  CountMax,     \* largest value of a counter (2^64 - 1)
  MemoryMaps,   \* the memory maps the boot loader may hand over
  HolderCap,    \* bound: callers that may hold one frame at a time
  TotalCap,     \* bound: largest value of a *_total_count explored
  ClearCap      \* bound: how many frames under the bitmaps get cleared

Index == 0 .. MaxPages - 1
Frame == 0 .. LowPages + MaxPages - 1
LowFrame == 0 .. LowPages - 1

VARIABLES
  phase,        \* "boot" before mm_init, then "up", or "fatal" if it gave up
  placement,    \* first frame of low_bitmap (bitmap_placement_addr)
  lowFree,      \* clear bits of low_bitmap
  highFree,     \* clear bits of bitmap
  lowFreeCount, lowTotal,    \* low_free_count, low_total_count
  highFreeCount, highTotal,  \* free_pages_count, total_pages_count
  lowRet,       \* value returned by the last pfa_alloc_low (0: none)
  holders,      \* how many callers believe they own each frame
  registered,   \* frames mm_init put into the pool
  clears        \* times a caller has cleared a frame under a bitmap

vars == << phase, placement, lowFree, highFree, lowFreeCount, lowTotal,
           highFreeCount, highTotal, lowRet, holders, registered, clears >>

-----------------------------------------------------------------------------
(* The memory map and what mm_init takes from it.                          *)

FirstPage(e) == (e.base + PageSize - 1) \div PageSize
LastPage(e)  == (e.base + e.length) \div PageSize

\* Entries large enough for the reservation.  An entry that starts at
\* address 0 leaves bitmap_placement_addr at 0, which reads as "not found".
Candidates(m) ==
  { i \in DOMAIN m : /\ m[i].usable
                     /\ LastPage(m[i]) > FirstPage(m[i])
                     /\ LastPage(m[i]) - FirstPage(m[i]) >= ReqPages
                     /\ FirstPage(m[i]) # 0 }

Placement(m) ==
  FirstPage(m[CHOOSE i \in Candidates(m) : \A j \in Candidates(m) : i <= j])

Reserved(start) == start .. start + ReqPages - 1

\* Mutant: the reservation is forgotten.
Seeded_NoReserve(m, start) ==
  { p \in Frame \ {0} :
      \E i \in DOMAIN m : m[i].usable /\ p \in FirstPage(m[i]) .. LastPage(m[i]) - 1 }

\* What the seeding loop gives to pfa_free: usable, not page 0, not reserved.
Seeded(m, start) ==
  { p \in Frame \ ({0} \cup Reserved(start)) :
      \E i \in DOMAIN m : m[i].usable /\ p \in FirstPage(m[i]) .. LastPage(m[i]) - 1 }

\* The boot loader puts a large enough region below 4 GiB first.
ConstantsOK ==
  /\ MaxPages \in Nat \ {0} /\ LowPages \in 1 .. MaxPages
  /\ BitsPerPage \in Nat \ {0} /\ PageSize \in Nat \ {0}
  /\ BitmapPages \in Nat /\ BitmapPages * BitsPerPage = MaxPages
  /\ ReqPages \in Nat \ {0} /\ ReqPages * BitsPerPage >= LowPages
  /\ CountMax \in Nat /\ CountMax >= LowPages + MaxPages
  /\ HolderCap \in Nat \ {0} /\ TotalCap \in Nat /\ ClearCap \in Nat
MapsOK ==
  \A m \in MemoryMaps :
    Candidates(m) # {} => /\ Placement(m) \in Nat \ {0}
                          /\ Placement(m) + ReqPages <= LowPages
ASSUME AllocatorAssumption == ConstantsOK /\ MapsOK

-----------------------------------------------------------------------------
LowBitmapFrames  == placement .. placement + BitmapPages - 1
HighBitmapFrames == placement + BitmapPages .. placement + 2 * BitmapPages - 1
BitmapFrames     == LowBitmapFrames \cup HighBitmapFrames

\* Bits stored in the k-th frame of a bitmap.
BitsOf(k) == { i \in Index : i \in k * BitsPerPage .. k * BitsPerPage + BitsPerPage - 1 }

\* Mutants: a counter that is not updated, a counter that goes negative.
Inc_Lost(c) == c
Dec_NoWrap(c) == c - 1

\* Unsigned 64-bit ++ and --.
Inc(c) == IF c = CountMax THEN 0 ELSE c + 1
Dec(c) == IF c = 0 THEN CountMax ELSE c - 1

\* Mutants: a mask that leaves the bitmap as it was.
BitmapSetUsed_Lost(free, i) == free
BitmapSetFree_Lost(free, i) == free

BitmapSetUsed(free, i) == free \ {i}
BitmapSetFree(free, i) == free \cup {i}

FirstFit(free) == CHOOSE i \in free : \A j \in free : i <= j

Init ==
  /\ phase = "boot"
  /\ placement = 0
  /\ lowFree = {} /\ highFree = {}
  /\ lowFreeCount = 0 /\ lowTotal = 0
  /\ highFreeCount = 0 /\ highTotal = 0
  /\ lowRet = 0
  /\ holders = [p \in Frame |-> 0]
  /\ registered = {}
  /\ clears = 0

\* mm_init, given the map m.
MmInit(m) ==
  /\ phase = "boot"
  /\ Candidates(m) # {}
  /\ LET start == Placement(m)
         low   == Seeded(m, start) \cap LowFrame
         high  == { j \in Index : LowPages + j \in Seeded(m, start) }
     IN /\ placement' = start
        /\ lowFree' = low /\ highFree' = high
        /\ lowFreeCount' = Cardinality(low) /\ lowTotal' = Cardinality(low)
        /\ highFreeCount' = Cardinality(high) /\ highTotal' = Cardinality(high)
        /\ registered' = Seeded(m, start)
  /\ phase' = "up"
  /\ UNCHANGED << lowRet, holders, clears >>

\* mm_init returns early: no region can hold the reservation.
MmInitFatal(m) ==
  /\ phase = "boot"
  /\ Candidates(m) = {}
  /\ phase' = "fatal"
  /\ UNCHANGED << placement, lowFree, highFree, lowFreeCount, lowTotal,
                  highFreeCount, highTotal, lowRet, holders, registered, clears >>

\* pfa_alloc_low: the whole low bitmap is scanned, beyond 4 GiB included.
PfaAllocLow ==
  /\ phase = "up"
  /\ IF lowFree = {}
     THEN /\ lowRet' = 0
          /\ UNCHANGED << lowFree, lowFreeCount, holders >>
     ELSE LET p == FirstFit(lowFree)
          IN /\ holders[p] < HolderCap
             /\ lowFree' = BitmapSetUsed(lowFree, p)
             /\ lowFreeCount' = Dec(lowFreeCount)
             /\ lowRet' = p
             /\ holders' = [holders EXCEPT ![p] = @ + 1]
  /\ UNCHANGED << phase, placement, highFree, lowTotal, highFreeCount,
                  highTotal, registered, clears >>

\* pfa_alloc.  (When nothing is free it returns 0 and changes nothing.)
PfaAlloc ==
  /\ phase = "up"
  /\ highFree # {}
  /\ LET j == FirstFit(highFree)
         p == LowPages + j
     IN /\ holders[p] < HolderCap
        /\ highFree' = BitmapSetUsed(highFree, j)
        /\ highFreeCount' = Dec(highFreeCount)
        /\ holders' = [holders EXCEPT ![p] = @ + 1]
  /\ UNCHANGED << phase, placement, lowFree, lowFreeCount, lowTotal,
                  highTotal, lowRet, registered, clears >>

\* pfa_free of a frame below 4 GiB by a caller that holds it.
PfaFreeLow(p) ==
  /\ phase = "up"
  /\ p \in LowFrame \ {0} /\ holders[p] > 0
  /\ lowTotal < TotalCap
  /\ holders' = [holders EXCEPT ![p] = @ - 1]
  /\ IF p \in lowFree
     THEN UNCHANGED << lowFree, lowFreeCount, lowTotal >>
     ELSE /\ lowFree' = BitmapSetFree(lowFree, p)
          /\ lowFreeCount' = Inc(lowFreeCount)
          /\ lowTotal' = Inc(lowTotal)
  /\ UNCHANGED << phase, placement, highFree, highFreeCount, highTotal,
                  lowRet, registered, clears >>

\* pfa_free of a frame at or above 4 GiB by a caller that holds it.
PfaFreeHigh(j) ==
  /\ phase = "up"
  /\ holders[LowPages + j] > 0
  /\ highTotal < TotalCap
  /\ holders' = [holders EXCEPT ![LowPages + j] = @ - 1]
  /\ IF j \in highFree
     THEN UNCHANGED << highFree, highFreeCount, highTotal >>
     ELSE /\ highFree' = BitmapSetFree(highFree, j)
          /\ highFreeCount' = Inc(highFreeCount)
          /\ highTotal' = Inc(highTotal)
  /\ UNCHANGED << phase, placement, lowFree, lowFreeCount, lowTotal,
                  lowRet, registered, clears >>

\* A caller clears the frame it was given, as map_page does with a new table.
ClearFrame(p) ==
  /\ phase = "up"
  /\ holders[p] > 0
  /\ p \in BitmapFrames
  /\ clears < ClearCap
  /\ IF p \in LowBitmapFrames
     THEN /\ lowFree' = lowFree \cup BitsOf(p - placement)
          /\ UNCHANGED highFree
     ELSE /\ highFree' = highFree \cup BitsOf(p - placement - BitmapPages)
          /\ UNCHANGED lowFree
  /\ clears' = clears + 1
  /\ UNCHANGED << phase, placement, lowFreeCount, lowTotal, highFreeCount,
                  highTotal, lowRet, holders, registered >>

Next ==
  \/ \E m \in MemoryMaps : MmInit(m) \/ MmInitFatal(m)
  \/ PfaAllocLow
  \/ PfaAlloc
  \/ \E p \in LowFrame : PfaFreeLow(p)
  \/ \E j \in Index : PfaFreeHigh(j)
  \/ \E p \in Frame : ClearFrame(p)

Spec == Init /\ [][Next]_vars

-----------------------------------------------------------------------------
(* Properties.                                                             *)

TypeOK ==
  /\ phase \in {"boot", "up", "fatal"}
  /\ placement \in 0 .. LowPages
  /\ lowFree \in SUBSET Index /\ highFree \in SUBSET Index
  /\ lowFreeCount \in 0 .. CountMax /\ lowTotal \in 0 .. CountMax
  /\ highFreeCount \in 0 .. CountMax /\ highTotal \in 0 .. CountMax
  /\ lowRet \in Index
  /\ holders \in [Frame -> 0 .. HolderCap]
  /\ registered \in SUBSET Frame
  /\ clears \in 0 .. ClearCap

\* A frame below 4 GiB is never free while a caller holds it, nor held by two
\* callers, whatever callers do to the frames they were given: the first-fit
\* scan of pfa_alloc_low, the test in pfa_free and the reservation of mm_init
\* together keep it so, even after the unreserved part of the bitmaps has
\* been overwritten.
LowExclusive ==
  \A p \in LowFrame : /\ holders[p] <= 1
                      /\ holders[p] = 1 => p \notin lowFree

\* The frames mm_init reserves, and page 0, are never free and never held,
\* so the bits of the frames below 4 GiB cannot be overwritten by a caller.
ReservedNeverGiven ==
  phase = "up" => \A p \in {0} \cup Reserved(placement) :
                    holders[p] = 0 /\ p \notin lowFree

\* As long as no caller has cleared a frame under the bitmaps, each counter
\* is the number of clear bits of its bitmap, every held or free frame is one
\* mm_init registered, and no frame at all is held twice or held while free.
IntactBooks ==
  clears = 0 =>
    /\ lowFreeCount = Cardinality(lowFree)
    /\ highFreeCount = Cardinality(highFree)
    /\ lowFree \subseteq LowFrame
    /\ \A j \in Index : /\ holders[LowPages + j] <= 1
                        /\ holders[LowPages + j] = 1 => j \notin highFree
    /\ \A p \in registered : \/ holders[p] = 1
                             \/ p \in lowFree
                             \/ p - LowPages \in highFree

\* What pfa_alloc_low, pfa_free and mm_init make of the memory below 4 GiB:
\* an atomic pool.  As long as one is left a call returns a frame below 4 GiB
\* that nobody holds.  The scan goes on through the bits beyond 4 GiB, which
\* are clear once a caller has cleared their frame: with none left below, a
\* call may return such a frame instead of 0.
LowPool == INSTANCE FramePool WITH
  Frames <- LowFrame \ {0},
  Others <- Index \ LowFrame,
  up     <- phase = "up",
  avail  <- lowFree \cap LowFrame,
  inUse  <- { p \in LowFrame : holders[p] > 0 },
  reply  <- lowRet
LowPoolSpec == LowPool!Spec

\* The message of mm_init names the bitmaps' frames as occupied: no caller
\* may be given one of them.
BitmapsNeverGiven == phase = "up" => \A p \in BitmapFrames \cap Frame : holders[p] = 0
=============================================================================
