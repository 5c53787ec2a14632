-------------------------- MODULE MC_FrameAllocator --------------------------
(* Values for the constants of FrameAllocator.  The bounds keep the ratios *)
(* of the code: the reservation is a quarter of the frames under the two   *)
(* bitmaps and covers exactly the bits of the frames below 4 GiB.          *)
EXTENDS FrameAllocator

entry(b, l, u) == [base |-> b, length |-> l, usable |-> u]

MCMaps == {
  \* one region that straddles the 4 GiB line
  << entry(2, 8, TRUE) >>,
  \* a region at address 0, an unaligned one, and memory beyond the bitmaps
  << entry(0, 2, TRUE), entry(3, 4, TRUE), entry(7, 3, FALSE), entry(22, 6, TRUE) >>,
  \* nothing large enough
  << entry(1, 2, TRUE), entry(6, 6, FALSE) >> }
=============================================================================
