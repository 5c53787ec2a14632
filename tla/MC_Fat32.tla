------------------------------- MODULE MC_Fat32 -------------------------------
(* A volume of five clusters of three units: the root, full, holds a deleted *)
(* entry, a file of two bytes and the label.  "short" takes one slot, "long" *)
(* two.                                                                      *)
EXTENDS Fat32

MCNeeds(n) == IF n = "long" THEN 2 ELSE 1

\* Within a cluster, across a boundary, a whole cluster and both its neighbours.
MCSpans == { << 1, 1 >>, << 2, 2 >>, << 2, 5 >> }

MCImage ==
  [fat |-> [c \in Cluster |-> IF c \in {2, 3} THEN Eoc ELSE Free],
   disk |-> [c \in Cluster |->
     CASE c = 2 -> << Deleted, Sfn("file", FALSE, 3, 2), Label >>
       [] c = 3 -> << Data(0), Data(0), Stale >>
       [] OTHER -> Junk]]
=============================================================================
