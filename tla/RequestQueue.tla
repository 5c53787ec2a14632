---------------------------- MODULE RequestQueue ----------------------------
(***************************************************************************)
(* What a block request queue promises: nothing handed in is lost or comes *)
(* back twice, reads go before writes, and within a kind the request with  *)
(* the earliest deadline goes first, the first handed in among equals.     *)
(***************************************************************************)
EXTENDS Naturals

CONSTANTS Requests, Deadlines

VARIABLES waiting,   \* requests handed in: [id, read, deadline, age]
          clock,     \* numbers the requests in the order they come
          answer     \* the id dispatched last, or "none"

vars == << waiting, clock, answer >>

Init == waiting = {} /\ clock = 0 /\ answer = "none"

Submit(id, read, deadline) ==
  /\ \A w \in waiting : w.id # id
  /\ waiting' = waiting \cup
       {[id |-> id, read |-> read, deadline |-> deadline, age |-> clock]}
  /\ clock' = clock + 1
  /\ UNCHANGED answer

Before(v, w) ==
  IF v.read # w.read THEN v.read
  ELSE v.deadline < w.deadline \/ (v.deadline = w.deadline /\ v.age < w.age)

Dispatch ==
  /\ \E w \in waiting :
       /\ \A v \in waiting \ {w} : Before(w, v)
       /\ waiting' = waiting \ {w}
       /\ answer' = w.id
  /\ UNCHANGED clock

Nothing ==
  /\ waiting = {}
  /\ answer' = "none"
  /\ UNCHANGED << waiting, clock >>

Next ==
  \/ \E id \in Requests, read \in BOOLEAN, d \in Deadlines : Submit(id, read, d)
  \/ Dispatch
  \/ Nothing

Spec == Init /\ [][Next]_vars
=============================================================================
