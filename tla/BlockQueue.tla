------------------------------ MODULE BlockQueue ------------------------------
(***************************************************************************)
(* The block layer of src/impl/kernel/core/blk.c: two lists of requests    *)
(* kept in the order of their deadlines (the mq-deadline scheduler, which  *)
(* kyber and bfq also use).  A list is the sequence of the requests found  *)
(* along its next pointers.  A request belongs to its caller until it is   *)
(* submitted and from its dispatch on; it is not submitted twice.          *)
(***************************************************************************)
EXTENDS Integers, Sequences, FiniteSets

CONSTANTS
  Requests,     \* request structures
  Deadlines,    \* deadlines a caller may give
  SubmitCap     \* bound: number of submissions

ASSUME BlockQueueAssumption ==
  Deadlines \subseteq Nat /\ SubmitCap \in Nat /\ "none" \notin Requests

VARIABLES
  readQueue,    \* read_queue
  writeQueue,   \* write_queue
  configured,   \* current_scheduler is set (blk_init has run)
  submitted,    \* requests submitted so far, which numbers them
  dispatched    \* what blk_dispatch returned last, "none" for NULL

bqVars == << readQueue, writeQueue, configured, submitted, dispatched >>

Queued == { readQueue[i].id : i \in DOMAIN readQueue } \cup
          { writeQueue[i].id : i \in DOMAIN writeQueue }

BqInit ==
  /\ readQueue = << >> /\ writeQueue = << >>
  /\ configured = FALSE
  /\ submitted = 0
  /\ dispatched = "none"

BlkInit ==
  /\ ~configured
  /\ configured' = TRUE
  /\ UNCHANGED << readQueue, writeQueue, submitted, dispatched >>

\* Mutant: the walk stops at the first request with the same deadline.
Place_Strict(q, d) ==
  IF q = << >> \/ d < q[1].deadline THEN 1
  ELSE CHOOSE k \in 2 .. Len(q) + 1 :
         /\ k = Len(q) + 1 \/ q[k].deadline >= d
         /\ \A j \in 2 .. k - 1 : q[j].deadline < d

\* Where mq_deadline_add puts a request with deadline d: first if it is
\* earlier than the head, else behind the requests up to deadline d.
Place(q, d) ==
  IF q = << >> \/ d < q[1].deadline THEN 1
  ELSE CHOOSE k \in 2 .. Len(q) + 1 :
         /\ k = Len(q) + 1 \/ q[k].deadline > d
         /\ \A j \in 2 .. k - 1 : q[j].deadline <= d

\* req->next and the pointer to req are set.
Insert(q, r) ==
  LET k == Place(q, r.deadline)
  IN [i \in 1 .. Len(q) + 1 |->
        IF i < k THEN q[i] ELSE IF i = k THEN r ELSE q[i - 1]]

\* blk_submit_request; with no scheduler the request is dropped.
Submit(id, read, d) ==
  /\ id \notin Queued
  /\ submitted < SubmitCap
  /\ configured
  /\ LET r == [id |-> id, deadline |-> d, age |-> submitted]
     IN IF read
        THEN readQueue' = Insert(readQueue, r) /\ UNCHANGED writeQueue
        ELSE writeQueue' = Insert(writeQueue, r) /\ UNCHANGED readQueue
  /\ submitted' = submitted + 1
  /\ UNCHANGED << configured, dispatched >>

\* blk_dispatch: reads first.
Dispatch ==
  /\ configured
  /\ \/ /\ readQueue # << >>
        /\ dispatched' = readQueue[1].id
        /\ readQueue' = Tail(readQueue)
        /\ UNCHANGED writeQueue
     \/ /\ readQueue = << >> /\ writeQueue # << >>
        /\ dispatched' = writeQueue[1].id
        /\ writeQueue' = Tail(writeQueue)
        /\ UNCHANGED readQueue
     \/ /\ readQueue = << >> /\ writeQueue = << >>
        /\ dispatched' = "none"
        /\ UNCHANGED << readQueue, writeQueue >>
  /\ UNCHANGED << configured, submitted >>

BqNext ==
  \/ BlkInit
  \/ \E id \in Requests, read \in BOOLEAN, d \in Deadlines : Submit(id, read, d)
  \/ Dispatch

BqSpec == BqInit /\ [][BqNext]_bqVars

-----------------------------------------------------------------------------
(* Properties.                                                             *)

Request == [id : Requests, deadline : Deadlines, age : Nat]

BqTypeOK ==
  /\ readQueue \in Seq(Request) /\ writeQueue \in Seq(Request)
  /\ configured \in BOOLEAN
  /\ submitted \in Nat
  /\ dispatched \in Requests \cup {"none"}

\* The two sorted lists behave as one set of requests: blk_dispatch returns
\* each request once, reads before writes, the earliest deadline first, and
\* requests with the same deadline in the order they were submitted.
Waiting ==
  { [id |-> readQueue[i].id, read |-> TRUE, deadline |-> readQueue[i].deadline,
     age |-> readQueue[i].age] : i \in DOMAIN readQueue } \cup
  { [id |-> writeQueue[i].id, read |-> FALSE, deadline |-> writeQueue[i].deadline,
     age |-> writeQueue[i].age] : i \in DOMAIN writeQueue }
RQ == INSTANCE RequestQueue WITH
  waiting <- Waiting, clock <- submitted, answer <- dispatched
RequestQueueSpec == RQ!Spec
=============================================================================
