---------------------------- MODULE AddressSpace ----------------------------
(***************************************************************************)
(* What the page tables promise: they are a function from pages to what    *)
(* the pages show, and mapping a page changes that page alone.  The        *)
(* promise ends when the memory that holds the tables is not its own.      *)
(***************************************************************************)
CONSTANTS Pages, Targets, None

VARIABLES space, intact

vars == << space, intact >>

Init == /\ space \in [Pages -> Targets \cup {None}]
        /\ intact = TRUE

\* Page v shows something else; every other page shows what it did.
MapPage(v) ==
  /\ intact
  /\ space'[v] \in Targets \ {space[v]}
  /\ \A u \in Pages \ {v} : space'[u] = space[u]
  /\ UNCHANGED intact

\* The tables are overwritten: nothing is promised any more.
Damage == intact' = FALSE

Next == \/ \E v \in Pages : MapPage(v)
        \/ Damage

Spec == Init /\ [][Next]_vars
=============================================================================
