------------------------------ MODULE FramePool ------------------------------
(***************************************************************************)
(* What a pool of page frames promises its callers: as long as one is left *)
(* a call returns a frame of the pool that nobody holds, and a frame given *)
(* back by its holder is available again.  Which frame a call returns is   *)
(* left open.  When none is left a call returns 0 or one of Others, which  *)
(* a caller cannot tell from a frame of the pool.                          *)
(***************************************************************************)
CONSTANTS
  Frames,       \* the frames of the pool
  Others        \* what else a call may return once the pool is empty

VARIABLES up, avail, inUse, reply

vars == << up, avail, inUse, reply >>

Init == /\ up = FALSE
        /\ avail = {}
        /\ inUse = {}
        /\ reply = 0

\* The pool is filled once.
Fill(S) ==
  /\ ~up
  /\ up' = TRUE
  /\ avail' = S
  /\ UNCHANGED << inUse, reply >>

Acquire ==
  /\ up
  /\ \E p \in avail : /\ avail' = avail \ {p}
                      /\ inUse' = inUse \cup {p}
                      /\ reply' = p
  /\ UNCHANGED up

\* None is left.
Exhausted ==
  /\ up
  /\ avail = {}
  /\ reply' \in {0} \cup Others
  /\ UNCHANGED << up, avail, inUse >>

Release(p) ==
  /\ up
  /\ p \in inUse
  /\ inUse' = inUse \ {p}
  /\ avail' = avail \cup {p}
  /\ UNCHANGED << up, reply >>

Next == \/ \E S \in SUBSET Frames : Fill(S)
        \/ Acquire
        \/ Exhausted
        \/ \E p \in Frames : Release(p)

Spec == Init /\ [][Next]_vars
=============================================================================
