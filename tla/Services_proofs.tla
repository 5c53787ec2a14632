---------------------------- MODULE Services_proofs ----------------------------
(***************************************************************************)
(* Proofs about the services of module Services, one part for each, and    *)
(* about all of them together; those about page mapping have a module of   *)
(* their own.  The names of a service begin as in its module: Bq block     *)
(* requests, Ts tasks, Sh the shell, Tm the timer, Ac ACPI, Cn the console.*)
(***************************************************************************)
EXTENDS Services, PageMap_proofs, SequenceTheorems, WellFoundedInduction, TLAPS

-----------------------------------------------------------------------------
(* Block requests: for every number of requests, every set of deadlines    *)
(* and any number of submissions the two sorted lists implement the        *)
(* abstract RequestQueue.  The argument: a list is sorted by deadline and  *)
(* then by age, so its head is the request the abstract queue must choose; *)
(* a new request is the youngest, so the place behind the last one with    *)
(* its deadline keeps the list sorted.                                     *)

\* Request r goes before request s of the same kind.
Ahead(r, s) == r.deadline < s.deadline \/ (r.deadline = s.deadline /\ r.age < s.age)

Sorted(q) == \A i, j \in 1 .. Len(q) : i < j => Ahead(q[i], q[j])
Aged(q, n) == \A i \in 1 .. Len(q) : q[i].age < n
Unlike(q) == \A i, j \in 1 .. Len(q) : q[i].id = q[j].id => i = j

Lists ==
  /\ Sorted(readQueue) /\ Sorted(writeQueue)
  /\ Aged(readQueue, submitted) /\ Aged(writeQueue, submitted)

\* No request structure is in the lists twice.
OnceListed ==
  /\ Unlike(readQueue) /\ Unlike(writeQueue)
  /\ \A i \in 1 .. Len(readQueue), j \in 1 .. Len(writeQueue) :
       readQueue[i].id # writeQueue[j].id

BqInv == BqTypeOK /\ Lists /\ OnceListed

\* The members of a list, as the abstract queue sees them.
Seen(r, read) == [id |-> r.id, read |-> read, deadline |-> r.deadline, age |-> r.age]
Half(q, read) == { Seen(q[i], read) : i \in 1 .. Len(q) }

LEMMA WaitingHalves ==
  ASSUME BqTypeOK
  PROVE  Waiting = Half(readQueue, TRUE) \cup Half(writeQueue, FALSE)
<1>1. DOMAIN readQueue = 1 .. Len(readQueue) /\ DOMAIN writeQueue = 1 .. Len(writeQueue)
  BY LenProperties DEF BqTypeOK
<1> QED
  BY <1>1 DEF Waiting, Half, Seen

LEMMA DeadlinesAreNumbers == Deadlines \subseteq Nat
BY BlockQueueAssumption

LEMMA ListMembers ==
  ASSUME NEW q \in Seq(Request)
  PROVE  /\ Len(q) \in Nat
         /\ \A i \in 1 .. Len(q) :
              q[i] \in Request /\ q[i].deadline \in Nat /\ q[i].age \in Nat
<1>1. \A i \in 1 .. Len(q) : q[i] \in Request
  BY ElementOfSeq
<1>2. \A r \in Request : r.deadline \in Nat /\ r.age \in Nat
  BY DeadlinesAreNumbers DEF Request
<1> QED
  BY <1>1, <1>2, LenProperties

\* Where a request goes: behind those up to its deadline, before the others.
LEMMA PlaceSplits ==
  ASSUME NEW q \in Seq(Request), Sorted(q), NEW d \in Nat
  PROVE  /\ Place(q, d) \in 1 .. Len(q) + 1
         /\ \A j \in 1 .. Len(q) : j < Place(q, d) => q[j].deadline <= d
         /\ \A j \in 1 .. Len(q) : j >= Place(q, d) => q[j].deadline > d
<1>1. Len(q) \in Nat /\ \A i \in 1 .. Len(q) : q[i].deadline \in Nat
  BY ListMembers
<1>2. \A i, j \in 1 .. Len(q) : i <= j => q[i].deadline <= q[j].deadline
  BY <1>1 DEF Sorted, Ahead
<1>3. CASE q = << >>
  BY <1>3 DEF Place
<1>4. CASE q # << >> /\ d < q[1].deadline
  <2>1. Place(q, d) = 1 /\ 1 \in 1 .. Len(q)
    BY <1>4, EmptySeq DEF Place
  <2> QED
    BY <1>1, <1>2, <1>4, <2>1
<1>5. CASE q # << >> /\ ~(d < q[1].deadline)
  <2>1. 1 \in 1 .. Len(q) /\ q[1].deadline <= d
    BY <1>1, <1>5, EmptySeq
  <2> DEFINE S == { k \in 2 .. Len(q) + 1 : k = Len(q) + 1 \/ q[k].deadline > d }
             P(k) == /\ k = Len(q) + 1 \/ q[k].deadline > d
                     /\ \A j \in 2 .. k - 1 : q[j].deadline <= d
  <2>2. S \subseteq Nat /\ Len(q) + 1 \in S
    BY <1>1, <2>1
  <2>3. PICK k \in S : \A j \in S : << j, k >> \notin OpToRel(<, Nat)
    <3>1. S # {}
      BY <2>2
    <3> HIDE DEF S
    <3> QED
      BY <2>2, <3>1, WFMin, NatLessThanWellFounded, Zenon
  <2>4. \A j \in S : ~(j < k)
    BY <2>2, <2>3 DEF OpToRel
  <2>5. k \in 2 .. Len(q) + 1 /\ P(k)
    <3>1. k \in 2 .. Len(q) + 1 /\ (k = Len(q) + 1 \/ q[k].deadline > d)
      OBVIOUS
    <3>2. ASSUME NEW j \in 2 .. k - 1 PROVE q[j].deadline <= d
      <4>1. j \in 2 .. Len(q) + 1 /\ j < k /\ j # Len(q) + 1 /\ j \in 1 .. Len(q)
        BY <1>1, <3>1
      <4>2. ~(q[j].deadline > d)
        BY <2>4, <4>1
      <4> QED
        BY <1>1, <4>1, <4>2
    <3> QED
      BY <3>1, <3>2
  <2>6. Place(q, d) = CHOOSE i \in 2 .. Len(q) + 1 : P(i)
    BY <1>5 DEF Place
  <2> DEFINE p == Place(q, d)
  <2>7. p \in 2 .. Len(q) + 1 /\ P(p)
    <3> HIDE DEF P
    <3> QED
      BY <2>5, <2>6, Zenon
  <2> HIDE DEF p
  <2>8. \A j \in 1 .. Len(q) : j < p => q[j].deadline <= d
    BY <1>1, <2>1, <2>7
  <2>9. \A j \in 1 .. Len(q) : j >= p => q[j].deadline > d
    <3> SUFFICES ASSUME NEW j \in 1 .. Len(q), j >= p PROVE q[j].deadline > d
      OBVIOUS
    <3>1. p \in 1 .. Len(q) /\ p # Len(q) + 1
      BY <1>1, <2>7
    <3>2. q[p].deadline > d
      BY <2>7, <3>1
    <3>3. q[p].deadline <= q[j].deadline
      BY <1>2, <3>1
    <3>4. q[p].deadline \in Nat /\ q[j].deadline \in Nat
      BY <1>1, <3>1
    <3> HIDE DEF P
    <3> QED
      BY <3>2, <3>3, <3>4
  <2> QED
    BY <1>1, <2>7, <2>8, <2>9 DEF p
<1> QED
  BY <1>3, <1>4, <1>5

\* The list with request r put in its place.
LEMMA InsertSorted ==
  ASSUME NEW q \in Seq(Request), Sorted(q), NEW t \in Nat, Aged(q, t),
         NEW r \in Request, r.age = t
  PROVE  /\ Insert(q, r) \in Seq(Request)
         /\ Len(Insert(q, r)) = Len(q) + 1
         /\ Sorted(Insert(q, r))
         /\ \A i \in 1 .. Len(q) + 1 :
              Insert(q, r)[i] = r \/ \E j \in 1 .. Len(q) : Insert(q, r)[i] = q[j]
         /\ \E i \in 1 .. Len(q) + 1 : Insert(q, r)[i] = r
         /\ \A j \in 1 .. Len(q) : \E i \in 1 .. Len(q) + 1 : Insert(q, r)[i] = q[j]
         /\ (\A i \in 1 .. Len(q) : q[i].id # r.id) /\ Unlike(q) => Unlike(Insert(q, r))
<1> DEFINE k == Place(q, r.deadline)
           n == Len(q)
           s == Insert(q, r)
<1>1. r.deadline \in Nat
  BY DeadlinesAreNumbers DEF Request
<1>2. /\ k \in 1 .. n + 1
      /\ \A j \in 1 .. n : j < k => q[j].deadline <= r.deadline
      /\ \A j \in 1 .. n : j >= k => q[j].deadline > r.deadline
  BY <1>1, PlaceSplits
<1>3. /\ n \in Nat
      /\ \A i \in 1 .. n : q[i] \in Request /\ q[i].deadline \in Nat /\ q[i].age \in Nat
  BY ListMembers
<1>4. s = [i \in 1 .. n + 1 |-> IF i < k THEN q[i] ELSE IF i = k THEN r ELSE q[i - 1]]
  BY DEF Insert
<1> HIDE DEF k, s
<1>5. /\ \A i \in 1 .. n + 1 : i < k => i \in 1 .. n /\ s[i] = q[i]
      /\ s[k] = r
      /\ \A i \in 1 .. n + 1 : i > k => i - 1 \in 1 .. n /\ i - 1 >= k /\ s[i] = q[i - 1]
  BY <1>2, <1>3, <1>4
<1>6. s \in Seq(Request) /\ Len(s) = n + 1
  <2>1. ASSUME NEW i \in 1 .. n + 1 PROVE s[i] \in Request
    <3>1. i < k \/ i = k \/ i > k
      BY <1>2, <1>3
    <3>2. CASE i < k
      BY <1>3, <1>5, <3>2, Zenon
    <3>3. CASE i = k
      BY <1>5, <3>3, Zenon
    <3>4. CASE i > k
      BY <1>3, <1>5, <3>4, Zenon
    <3> QED
      BY <3>1, <3>2, <3>3, <3>4
  <2>2. s \in [1 .. n + 1 -> Request]
    BY <1>4, <2>1
  <2> QED
    BY <1>3, <1>4, <2>2, IsASeq, LenProperties
<1>7. Sorted(s)
  <2> SUFFICES ASSUME NEW i \in 1 .. n + 1, NEW j \in 1 .. n + 1, i < j
               PROVE  Ahead(s[i], s[j])
    BY <1>6 DEF Sorted
  <2>1. CASE j < k
    BY <1>2, <1>3, <1>5, <2>1 DEF Sorted
  <2>2. CASE j = k
    <3>1. i \in 1 .. n /\ s[i] = q[i] /\ q[i].deadline <= r.deadline /\ q[i].age < r.age
      BY <1>2, <1>3, <1>5, <2>2 DEF Aged
    <3> QED
      BY <1>1, <1>3, <1>5, <2>2, <3>1 DEF Ahead
  <2>3. CASE j > k
    <3>1. j - 1 \in 1 .. n /\ j - 1 >= k /\ s[j] = q[j - 1] /\ q[j - 1].deadline > r.deadline
      BY <1>2, <1>5, <2>3
    <3>2. CASE i = k
      BY <1>1, <1>3, <1>5, <3>1, <3>2 DEF Ahead
    <3>3. CASE i < k
      <4>1. i \in 1 .. n /\ s[i] = q[i]
        BY <1>5, <3>3, Zenon
      <4>2. i < j - 1
        BY <1>2, <2>3, <3>3
      <4>3. Ahead(q[i], q[j - 1])
        BY <3>1, <4>1, <4>2, Zenon DEF Sorted
      <4> QED
        BY <3>1, <4>1, <4>3, Zenon
    <3>4. CASE i > k
      <4>1. i - 1 \in 1 .. n /\ s[i] = q[i - 1] /\ i - 1 < j - 1
        BY <1>2, <1>5, <3>4
      <4> QED
        BY <3>1, <4>1 DEF Sorted
    <3> QED
      BY <1>2, <3>2, <3>3, <3>4
  <2> QED
    BY <1>2, <2>1, <2>2, <2>3
<1>8. \A i \in 1 .. n + 1 : s[i] = r \/ \E j \in 1 .. n : s[i] = q[j]
  <2> SUFFICES ASSUME NEW i \in 1 .. n + 1
               PROVE  s[i] = r \/ \E j \in 1 .. n : s[i] = q[j]
    OBVIOUS
  <2>1. i < k \/ i = k \/ i > k
    BY <1>2, <1>3
  <2> QED
    BY <1>5, <2>1, Zenon
<1>9. \A j \in 1 .. n : \E i \in 1 .. n + 1 : s[i] = q[j]
  <2> SUFFICES ASSUME NEW j \in 1 .. n PROVE \E i \in 1 .. n + 1 : s[i] = q[j]
    OBVIOUS
  <2>1. CASE j < k
    BY <1>2, <1>3, <1>5, <2>1
  <2>2. CASE j >= k
    <3>1. j + 1 \in 1 .. n + 1 /\ j + 1 > k /\ (j + 1) - 1 = j
      BY <1>2, <1>3, <2>2
    <3> QED
      BY <1>5, <3>1
  <2> QED
    BY <1>2, <1>3, <2>1, <2>2
<1>10. ASSUME \A i \in 1 .. n : q[i].id # r.id, Unlike(q)
       PROVE  Unlike(s)
  <2> SUFFICES ASSUME NEW i \in 1 .. n + 1, NEW j \in 1 .. n + 1, s[i].id = s[j].id
               PROVE  i = j
    BY <1>6 DEF Unlike
  <2>1. CASE i = k \/ j = k
    <3>1. \A x \in 1 .. n + 1 : x # k => s[x].id # r.id
      <4> SUFFICES ASSUME NEW x \in 1 .. n + 1, x # k PROVE s[x].id # r.id
        OBVIOUS
      <4>1. x < k \/ x > k
        BY <1>2, <1>3
      <4>2. \E y \in 1 .. n : s[x] = q[y]
        BY <1>5, <4>1, Zenon
      <4> QED
        BY <1>10, <4>2
    <3> QED
      BY <1>5, <2>1, <3>1
  <2>2. CASE i # k /\ j # k
    <3> DEFINE o(x) == IF x < k THEN x ELSE x - 1
    \* Where the member at place x of the new list stood in the old one.
    <3>1. ASSUME NEW x \in 1 .. n + 1, x # k
          PROVE  o(x) \in 1 .. n /\ s[x] = q[o(x)]
      <4>1. CASE x < k
        <5>1. o(x) = x
          BY <4>1
        <5> QED
          BY <1>5, <4>1, <5>1, Zenon
      <4>2. CASE x > k
        <5>1. o(x) = x - 1
          BY <1>2, <4>2
        <5> QED
          BY <1>5, <4>2, <5>1, Zenon
      <4> QED
        BY <1>2, <3>1, <4>1, <4>2
    <3> HIDE DEF o
    <3>2. /\ o(i) \in 1 .. n /\ o(j) \in 1 .. n
          /\ s[i] = q[o(i)] /\ s[j] = q[o(j)]
      BY <2>2, <3>1, Zenon
    <3>3. q[o(i)].id = q[o(j)].id
      BY <3>2, Zenon
    <3>4. o(i) = o(j)
      BY <1>10, <3>2, <3>3, Zenon DEF Unlike
    <3> QED
      BY <1>2, <1>3, <2>2, <3>4 DEF o
  <2> QED
    BY <2>1, <2>2
<1> QED
  BY <1>2, <1>5, <1>6, <1>7, <1>8, <1>9, <1>10 DEF s
-----------------------------------------------------------------------------
LEMMA BqInitEstablishes == BqInit => BqInv
<1> SUFFICES ASSUME BqInit PROVE BqInv
  OBVIOUS
<1>1. BqTypeOK
  BY EmptySeq DEF BqInit, BqTypeOK
<1>2. Len(readQueue) = 0 /\ Len(writeQueue) = 0
  BY DEF BqInit
<1> QED
  BY <1>1, <1>2 DEF BqInv, Lists, OnceListed, Sorted, Aged, Unlike

\* A list that takes a new request keeps what the invariant says of it.
LEMMA ListTakes ==
  ASSUME NEW q \in Seq(Request), Sorted(q), Unlike(q), NEW t \in Nat, Aged(q, t),
         NEW r \in Request, r.age = t, \A i \in 1 .. Len(q) : q[i].id # r.id,
         NEW b \in BOOLEAN
  PROVE  /\ Insert(q, r) \in Seq(Request)
         /\ Sorted(Insert(q, r)) /\ Unlike(Insert(q, r)) /\ Aged(Insert(q, r), t + 1)
         /\ Half(Insert(q, r), b) = Half(q, b) \cup {Seen(r, b)}
         /\ \A i \in 1 .. Len(Insert(q, r)) :
              \/ Insert(q, r)[i].id = r.id
              \/ \E j \in 1 .. Len(q) : Insert(q, r)[i].id = q[j].id
<1> DEFINE s == Insert(q, r)
           n == Len(q)
<1>1. /\ s \in Seq(Request) /\ Len(s) = n + 1 /\ Sorted(s) /\ Unlike(s)
      /\ \A i \in 1 .. n + 1 : s[i] = r \/ \E j \in 1 .. n : s[i] = q[j]
      /\ \E i \in 1 .. n + 1 : s[i] = r
      /\ \A j \in 1 .. n : \E i \in 1 .. n + 1 : s[i] = q[j]
  <2>1. /\ Sorted(q) /\ Aged(q, t) /\ r.age = t /\ Unlike(q)
        /\ \A i \in 1 .. Len(q) : q[i].id # r.id
    OBVIOUS
  <2>2. /\ s \in Seq(Request) /\ Len(s) = n + 1 /\ Sorted(s)
        /\ \A i \in 1 .. n + 1 : s[i] = r \/ \E j \in 1 .. n : s[i] = q[j]
        /\ \E i \in 1 .. n + 1 : s[i] = r
        /\ \A j \in 1 .. n : \E i \in 1 .. n + 1 : s[i] = q[j]
        /\ (\A i \in 1 .. n : q[i].id # r.id) /\ Unlike(q) => Unlike(s)
    BY <2>1, InsertSorted
  <2> QED
    BY <2>1, <2>2, Zenon
<1>2. n \in Nat /\ \A i \in 1 .. n : q[i].age \in Nat
  BY ListMembers
<1> HIDE DEF s
<1>3. Aged(s, t + 1)
  <2> SUFFICES ASSUME NEW i \in 1 .. n + 1 PROVE s[i].age < t + 1
    BY <1>1 DEF Aged
  <2>1. CASE s[i] = r
    BY <2>1
  <2>2. CASE \E j \in 1 .. n : s[i] = q[j]
    <3>1. PICK j \in 1 .. n : s[i] = q[j]
      BY <2>2
    <3>2. q[j].age < t /\ q[j].age \in Nat
      BY <1>2 DEF Aged
    <3> QED
      BY <3>1, <3>2
  <2> QED
    BY <1>1, <2>1, <2>2
<1>4. Half(s, b) = Half(q, b) \cup {Seen(r, b)}
  <2>1. Half(s, b) = { Seen(s[i], b) : i \in 1 .. n + 1 }
    BY <1>1 DEF Half
  <2>2. Half(s, b) \subseteq Half(q, b) \cup {Seen(r, b)}
    <3> SUFFICES ASSUME NEW i \in 1 .. n + 1
                 PROVE  Seen(s[i], b) \in Half(q, b) \cup {Seen(r, b)}
      BY <2>1
    <3> QED
      BY <1>1, Zenon DEF Half
  <2>3. Seen(r, b) \in Half(s, b)
    BY <1>1, <2>1, Zenon
  <2>4. ASSUME NEW j \in 1 .. n PROVE Seen(q[j], b) \in Half(s, b)
    BY <1>1, <2>1, Zenon
  <2>5. Half(q, b) \subseteq Half(s, b)
    BY <2>4 DEF Half
  <2> QED
    BY <2>2, <2>3, <2>5
<1>5. \A i \in 1 .. n + 1 : s[i].id = r.id \/ \E j \in 1 .. n : s[i].id = q[j].id
  BY <1>1, Zenon
<1> QED
  BY <1>1, <1>3, <1>4, <1>5 DEF s

\* A submission, whichever list it goes to.
LEMMA SubmitStep ==
  ASSUME BqInv, NEW id \in Requests, NEW read \in BOOLEAN, NEW d \in Deadlines,
         Submit(id, read, d)
  PROVE  /\ BqInv'
         /\ Waiting' = Waiting \cup
              {[id |-> id, read |-> read, deadline |-> d, age |-> submitted]}
         /\ \A w \in Waiting : w.id # id
<1> DEFINE r == [id |-> id, deadline |-> d, age |-> submitted]
           t == submitted
<1>1. /\ r \in Request /\ r.age = t /\ r.id = id
      /\ t \in Nat /\ submitted' = t + 1 /\ UNCHANGED << configured, dispatched >>
      /\ [id |-> id, read |-> read, deadline |-> d, age |-> submitted] = Seen(r, read)
  BY DEF BqInv, BqTypeOK, Request, Submit, Seen
<1>2. /\ \A i \in 1 .. Len(readQueue) : readQueue[i].id # id
      /\ \A i \in 1 .. Len(writeQueue) : writeQueue[i].id # id
  <2>1. DOMAIN readQueue = 1 .. Len(readQueue) /\ DOMAIN writeQueue = 1 .. Len(writeQueue)
    BY LenProperties DEF BqInv, BqTypeOK
  <2> QED
    BY <2>1 DEF Submit, Queued
<1>3. \A w \in Waiting : w.id # id
  BY <1>2, WaitingHalves DEF BqInv, Half, Seen
<1>4. /\ Waiting = Half(readQueue, TRUE) \cup Half(writeQueue, FALSE)
      /\ BqTypeOK' => Waiting' = Half(readQueue', TRUE) \cup Half(writeQueue', FALSE)
  <2>1. BqTypeOK' => Waiting' = Half(readQueue', TRUE) \cup Half(writeQueue', FALSE)
    <3> SUFFICES ASSUME BqTypeOK' PROVE Waiting' = Half(readQueue', TRUE) \cup Half(writeQueue', FALSE)
      OBVIOUS
    <3>1. DOMAIN readQueue' = 1 .. Len(readQueue') /\ DOMAIN writeQueue' = 1 .. Len(writeQueue')
      BY LenProperties DEF BqTypeOK
    <3> QED
      BY <3>1 DEF Waiting, Half, Seen
  <2> QED
    BY <2>1, WaitingHalves DEF BqInv
<1>5. /\ readQueue \in Seq(Request) /\ writeQueue \in Seq(Request)
      /\ Sorted(readQueue) /\ Sorted(writeQueue) /\ Unlike(readQueue) /\ Unlike(writeQueue)
      /\ Aged(readQueue, t) /\ Aged(writeQueue, t)
      /\ \A i \in 1 .. Len(readQueue), j \in 1 .. Len(writeQueue) :
           readQueue[i].id # writeQueue[j].id
  BY DEF BqInv, BqTypeOK, Lists, OnceListed
<1>6. Aged(readQueue, t + 1) /\ Aged(writeQueue, t + 1)
  <2>1. \A q \in Seq(Request) : Aged(q, t) => Aged(q, t + 1)
    <3> SUFFICES ASSUME NEW q \in Seq(Request), Aged(q, t), NEW i \in 1 .. Len(q)
                 PROVE  q[i].age < t + 1
      BY DEF Aged
    <3>1. q[i].age \in Nat /\ q[i].age < t
      BY ListMembers DEF Aged
    <3> QED
      BY <1>1, <3>1
  <2> QED
    BY <1>5, <2>1
<1>7. CASE read
  <2>1. readQueue' = Insert(readQueue, r) /\ writeQueue' = writeQueue
    BY <1>7 DEF Submit
  <2> HIDE DEF r
  <2>2. /\ readQueue' \in Seq(Request) /\ Sorted(readQueue') /\ Unlike(readQueue')
        /\ Aged(readQueue', t + 1)
        /\ Half(readQueue', TRUE) = Half(readQueue, TRUE) \cup {Seen(r, TRUE)}
        /\ \A i \in 1 .. Len(readQueue') :
             \/ readQueue'[i].id = id
             \/ \E j \in 1 .. Len(readQueue) : readQueue'[i].id = readQueue[j].id
    <3>1. /\ r \in Request /\ r.age = submitted /\ r.id = id /\ submitted \in Nat
          /\ \A i \in 1 .. Len(readQueue) : readQueue[i].id # r.id
          /\ readQueue \in Seq(Request) /\ Sorted(readQueue) /\ Unlike(readQueue) /\ Aged(readQueue, submitted)
      BY <1>1, <1>2, <1>5, Zenon
    <3>2. /\ Insert(readQueue, r) \in Seq(Request)
          /\ Sorted(Insert(readQueue, r)) /\ Unlike(Insert(readQueue, r))
          /\ Aged(Insert(readQueue, r), t + 1)
          /\ Half(Insert(readQueue, r), TRUE) = Half(readQueue, TRUE) \cup {Seen(r, TRUE)}
          /\ \A i \in 1 .. Len(Insert(readQueue, r)) :
               \/ Insert(readQueue, r)[i].id = r.id
               \/ \E j \in 1 .. Len(readQueue) : Insert(readQueue, r)[i].id = readQueue[j].id
      BY <3>1, ListTakes
    <3> QED
      BY <2>1, <3>1, <3>2, Zenon
  <2>3. BqTypeOK'
    BY <1>1, <1>5, <2>1, <2>2 DEF BqInv, BqTypeOK
  <2>4. Lists'
    BY <1>1, <1>5, <1>6, <2>1, <2>2 DEF Lists
  <2>5. OnceListed'
    <3>1. ASSUME NEW i \in 1 .. Len(readQueue'), NEW j \in 1 .. Len(writeQueue)
          PROVE  readQueue'[i].id # writeQueue[j].id
      <4>1. CASE readQueue'[i].id = id
        BY <1>2, <4>1, Zenon
      <4>2. CASE \E k \in 1 .. Len(readQueue) : readQueue'[i].id = readQueue[k].id
        BY <1>5, <4>2, Zenon
      <4> QED
        BY <2>2, <4>1, <4>2, Zenon
    <3> QED
      BY <1>5, <2>1, <2>2, <3>1 DEF OnceListed
  <2>6. Waiting' = Waiting \cup {Seen(r, read)}
    BY <1>4, <1>7, <2>1, <2>2, <2>3
  <2> QED
    BY <1>1, <1>3, <2>3, <2>4, <2>5, <2>6 DEF BqInv
<1>8. CASE ~read
  <2>1. writeQueue' = Insert(writeQueue, r) /\ readQueue' = readQueue /\ read = FALSE
    BY <1>8 DEF Submit
  <2> HIDE DEF r
  <2>2. /\ writeQueue' \in Seq(Request) /\ Sorted(writeQueue') /\ Unlike(writeQueue')
        /\ Aged(writeQueue', t + 1)
        /\ Half(writeQueue', FALSE) = Half(writeQueue, FALSE) \cup {Seen(r, FALSE)}
        /\ \A i \in 1 .. Len(writeQueue') :
             \/ writeQueue'[i].id = id
             \/ \E j \in 1 .. Len(writeQueue) : writeQueue'[i].id = writeQueue[j].id
    <3>1. /\ r \in Request /\ r.age = submitted /\ r.id = id /\ submitted \in Nat
          /\ \A i \in 1 .. Len(writeQueue) : writeQueue[i].id # r.id
          /\ writeQueue \in Seq(Request) /\ Sorted(writeQueue) /\ Unlike(writeQueue) /\ Aged(writeQueue, submitted)
      BY <1>1, <1>2, <1>5, Zenon
    <3>2. /\ Insert(writeQueue, r) \in Seq(Request)
          /\ Sorted(Insert(writeQueue, r)) /\ Unlike(Insert(writeQueue, r))
          /\ Aged(Insert(writeQueue, r), t + 1)
          /\ Half(Insert(writeQueue, r), FALSE) = Half(writeQueue, FALSE) \cup {Seen(r, FALSE)}
          /\ \A i \in 1 .. Len(Insert(writeQueue, r)) :
               \/ Insert(writeQueue, r)[i].id = r.id
               \/ \E j \in 1 .. Len(writeQueue) : Insert(writeQueue, r)[i].id = writeQueue[j].id
      BY <3>1, ListTakes
    <3> QED
      BY <2>1, <3>1, <3>2, Zenon
  <2>3. BqTypeOK'
    BY <1>1, <1>5, <2>1, <2>2 DEF BqInv, BqTypeOK
  <2>4. Lists'
    BY <1>1, <1>5, <1>6, <2>1, <2>2 DEF Lists
  <2>5. OnceListed'
    <3>1. ASSUME NEW i \in 1 .. Len(readQueue), NEW j \in 1 .. Len(writeQueue')
          PROVE  readQueue[i].id # writeQueue'[j].id
      <4>1. CASE writeQueue'[j].id = id
        BY <1>2, <4>1, Zenon
      <4>2. CASE \E k \in 1 .. Len(writeQueue) : writeQueue'[j].id = writeQueue[k].id
        BY <1>5, <4>2, Zenon
      <4> QED
        BY <2>2, <4>1, <4>2, Zenon
    <3> QED
      BY <1>5, <2>1, <2>2, <3>1 DEF OnceListed
  <2>6. Waiting' = Waiting \cup {Seen(r, read)}
    BY <1>4, <2>1, <2>2, <2>3
  <2> QED
    BY <1>1, <1>3, <2>3, <2>4, <2>5, <2>6 DEF BqInv
<1> QED
  BY <1>7, <1>8

\* A list that gives up its head: the head goes before every other member.
LEMMA ListGives ==
  ASSUME NEW q \in Seq(Request), q # << >>, Sorted(q), Unlike(q), NEW t, Aged(q, t),
         NEW b \in BOOLEAN
  PROVE  /\ Tail(q) \in Seq(Request)
         /\ Sorted(Tail(q)) /\ Unlike(Tail(q)) /\ Aged(Tail(q), t)
         /\ q[1] \in Request
         /\ Seen(q[1], b) \in Half(q, b)
         /\ Half(Tail(q), b) = Half(q, b) \ {Seen(q[1], b)}
         /\ \A w \in Half(q, b) \ {Seen(q[1], b)} : RQ!Before(Seen(q[1], b), w)
         /\ \A i \in 1 .. Len(Tail(q)) : \E j \in 1 .. Len(q) : Tail(q)[i] = q[j]
<1> DEFINE n == Len(q)
           s == Tail(q)
<1>1. /\ n \in Nat \ {0} /\ s \in Seq(Request) /\ Len(s) = n - 1
      /\ \A i \in 1 .. n - 1 : s[i] = q[i + 1]
  BY HeadTailProperties, EmptySeq
<1> HIDE DEF s
<1>2. /\ 1 \in 1 .. n
      /\ \A i \in 1 .. n - 1 : i + 1 \in 1 .. n /\ s[i] = q[i + 1]
      /\ \A j \in 2 .. n : j - 1 \in 1 .. n - 1 /\ s[j - 1] = q[j] /\ j \in 1 .. n /\ 1 < j
      /\ \A j \in 1 .. n : j = 1 \/ j \in 2 .. n
  <2>1. \A j \in 2 .. n : j - 1 \in 1 .. n - 1 /\ (j - 1) + 1 = j /\ j \in 1 .. n /\ 1 < j
    BY <1>1
  <2>2. \A j \in 2 .. n : s[j - 1] = q[j]
    <3> SUFFICES ASSUME NEW j \in 2 .. n PROVE s[j - 1] = q[j]
      OBVIOUS
    <3>1. s[j - 1] = q[(j - 1) + 1]
      BY <1>1, <2>1, Zenon
    <3> QED
      BY <2>1, <3>1
  <2> QED
    BY <1>1, <2>1, <2>2
<1>3. Sorted(s) /\ Unlike(s) /\ Aged(s, t)
  <2>1. \A i, j \in 1 .. n - 1 : i < j => i + 1 < j + 1
    BY <1>1
  <2>2. \A i, j \in 1 .. n - 1 : i + 1 = j + 1 => i = j
    BY <1>1
  <2>3. Sorted(s)
    BY <1>1, <1>2, <2>1, Zenon DEF Sorted
  <2>4. Unlike(s)
    <3> SUFFICES ASSUME NEW i \in 1 .. n - 1, NEW j \in 1 .. n - 1, s[i].id = s[j].id
                 PROVE  i = j
      BY <1>1 DEF Unlike
    <3>1. i + 1 = j + 1
      <4>1. /\ i + 1 \in 1 .. n /\ s[i] = q[i + 1]
            /\ j + 1 \in 1 .. n /\ s[j] = q[j + 1]
        BY <1>2, Zenon
      <4>2. q[i + 1].id = q[j + 1].id
        BY <4>1
      <4> QED
        BY <4>1, <4>2, Zenon DEF Unlike
    <3> QED
      BY <3>1
  <2>5. Aged(s, t)
    BY <1>1, <1>2, Zenon DEF Aged
  <2> QED
    BY <2>3, <2>4, <2>5
<1>4. q[1] \in Request /\ Seen(q[1], b) \in Half(q, b)
  BY <1>2, ElementOfSeq DEF Half
<1>5. \A j \in 2 .. n : Ahead(q[1], q[j]) /\ Seen(q[j], b) # Seen(q[1], b)
  <2> SUFFICES ASSUME NEW j \in 2 .. n
               PROVE  Ahead(q[1], q[j]) /\ Seen(q[j], b) # Seen(q[1], b)
    OBVIOUS
  <2>1. Ahead(q[1], q[j])
    BY <1>2, Zenon DEF Sorted
  <2>2. q[1].id # q[j].id
    BY <1>2 DEF Unlike
  <2> QED
    BY <2>1, <2>2 DEF Seen
<1>6. Half(s, b) = { Seen(q[j], b) : j \in 2 .. n }
  BY <1>1, <1>2 DEF Half
<1>7. Half(q, b) = { Seen(q[j], b) : j \in 2 .. n } \cup {Seen(q[1], b)}
  BY <1>2 DEF Half
<1>8. Half(s, b) = Half(q, b) \ {Seen(q[1], b)}
  BY <1>5, <1>6, <1>7
<1>9. \A w \in Half(s, b) : RQ!Before(Seen(q[1], b), w)
  BY <1>5, <1>6 DEF Ahead, Seen, RQ!Before
<1>10. \A i \in 1 .. Len(s) : \E j \in 1 .. n : s[i] = q[j]
  BY <1>1, <1>2
<1> QED
  BY <1>1, <1>3, <1>4, <1>8, <1>9, <1>10 DEF s

\* blk_dispatch gives back what the abstract queue gives back.
LEMMA DispatchStep ==
  ASSUME BqInv, Dispatch
  PROVE  BqInv' /\ (RQ!Dispatch \/ RQ!Nothing)
<1> DEFINE R == Half(readQueue, TRUE)
           W == Half(writeQueue, FALSE)
<1>1. /\ readQueue \in Seq(Request) /\ writeQueue \in Seq(Request)
      /\ configured \in BOOLEAN /\ submitted \in Nat
      /\ Sorted(readQueue) /\ Sorted(writeQueue) /\ Unlike(readQueue) /\ Unlike(writeQueue)
      /\ Aged(readQueue, submitted) /\ Aged(writeQueue, submitted)
      /\ \A i \in 1 .. Len(readQueue), j \in 1 .. Len(writeQueue) :
           readQueue[i].id # writeQueue[j].id
      /\ Waiting = R \cup W
  BY WaitingHalves DEF BqInv, BqTypeOK, Lists, OnceListed
<1>2. BqTypeOK' => Waiting' = Half(readQueue', TRUE) \cup Half(writeQueue', FALSE)
  <2> SUFFICES ASSUME BqTypeOK'
               PROVE  Waiting' = Half(readQueue', TRUE) \cup Half(writeQueue', FALSE)
    OBVIOUS
  <2>1. DOMAIN readQueue' = 1 .. Len(readQueue') /\ DOMAIN writeQueue' = 1 .. Len(writeQueue')
    BY LenProperties DEF BqTypeOK
  <2> QED
    BY <2>1 DEF Waiting, Half, Seen
<1>3. \A r \in R : r.read = TRUE
  BY DEF Half, Seen
<1>4. \A w \in W : w.read = FALSE
  BY DEF Half, Seen
<1>5. CASE readQueue # << >>
  <2> DEFINE h == Seen(readQueue[1], TRUE)
  <2>1. /\ dispatched' = readQueue[1].id /\ readQueue' = Tail(readQueue)
        /\ UNCHANGED << writeQueue, configured, submitted >>
    BY <1>5 DEF Dispatch
  <2>2. /\ Tail(readQueue) \in Seq(Request)
        /\ Sorted(Tail(readQueue)) /\ Unlike(Tail(readQueue))
        /\ Aged(Tail(readQueue), submitted)
        /\ readQueue[1] \in Request
        /\ h \in R
        /\ Half(Tail(readQueue), TRUE) = R \ {h}
        /\ \A w \in R \ {h} : RQ!Before(h, w)
        /\ \A i \in 1 .. Len(Tail(readQueue)) :
             \E j \in 1 .. Len(readQueue) : Tail(readQueue)[i] = readQueue[j]
    BY <1>1, <1>5, ListGives
  <2>3. BqTypeOK'
    BY <1>1, <2>1, <2>2 DEF BqTypeOK, Request
  <2>4. Lists'
    BY <1>1, <2>1, <2>2 DEF Lists
  <2>5. OnceListed'
    <3>1. ASSUME NEW i \in 1 .. Len(Tail(readQueue)), NEW j \in 1 .. Len(writeQueue)
          PROVE  Tail(readQueue)[i].id # writeQueue[j].id
      <4>1. PICK k \in 1 .. Len(readQueue) : Tail(readQueue)[i] = readQueue[k]
        BY <2>2, Zenon
      <4> QED
        BY <1>1, <4>1
    <3> QED
      BY <1>1, <2>1, <2>2, <3>1 DEF OnceListed
  <2>6. h.read = TRUE /\ h.id = readQueue[1].id
    BY DEF Seen
  <2> HIDE DEF h, R, W
  <2>7. \A w \in W : RQ!Before(h, w)
    BY <1>4, <2>6 DEF RQ!Before
  <2>8. h \notin W
    BY <1>4, <2>6
  <2>9. Waiting' = Waiting \ {h}
    BY <1>1, <1>2, <2>1, <2>2, <2>3, <2>8 DEF W
  <2>10. /\ h \in Waiting /\ \A v \in Waiting \ {h} : RQ!Before(h, v)
         /\ dispatched' = h.id
    BY <1>1, <2>1, <2>2, <2>6, <2>7
  <2>11. RQ!Dispatch
    BY <2>1, <2>9, <2>10 DEF RQ!Dispatch
  <2> QED
    BY <2>3, <2>4, <2>5, <2>11 DEF BqInv
<1>6. CASE readQueue = << >> /\ writeQueue # << >>
  <2> DEFINE h == Seen(writeQueue[1], FALSE)
  <2>1. /\ dispatched' = writeQueue[1].id /\ writeQueue' = Tail(writeQueue)
        /\ UNCHANGED << readQueue, configured, submitted >>
    BY <1>6 DEF Dispatch
  <2>2. /\ Tail(writeQueue) \in Seq(Request)
        /\ Sorted(Tail(writeQueue)) /\ Unlike(Tail(writeQueue))
        /\ Aged(Tail(writeQueue), submitted)
        /\ writeQueue[1] \in Request
        /\ h \in W
        /\ Half(Tail(writeQueue), FALSE) = W \ {h}
        /\ \A w \in W \ {h} : RQ!Before(h, w)
        /\ \A i \in 1 .. Len(Tail(writeQueue)) :
             \E j \in 1 .. Len(writeQueue) : Tail(writeQueue)[i] = writeQueue[j]
    BY <1>1, <1>6, ListGives
  <2>3. BqTypeOK'
    BY <1>1, <2>1, <2>2 DEF BqTypeOK, Request
  <2>4. Lists'
    BY <1>1, <2>1, <2>2 DEF Lists
  <2>5. OnceListed'
    BY <1>1, <2>1, <2>2, Zenon DEF OnceListed
  <2>6. h.id = writeQueue[1].id
    BY DEF Seen
  <2>7. R = {}
    BY <1>6 DEF Half
  <2> HIDE DEF h, R, W
  <2>8. Waiting' = Waiting \ {h}
    BY <1>1, <1>2, <2>1, <2>2, <2>3, <2>7 DEF R
  <2>9. /\ h \in Waiting /\ \A v \in Waiting \ {h} : RQ!Before(h, v)
        /\ dispatched' = h.id
    BY <1>1, <2>1, <2>2, <2>6, <2>7
  <2>10. RQ!Dispatch
    BY <2>1, <2>8, <2>9 DEF RQ!Dispatch
  <2> QED
    BY <2>3, <2>4, <2>5, <2>10 DEF BqInv
<1>7. CASE readQueue = << >> /\ writeQueue = << >>
  <2>1. dispatched' = "none" /\ UNCHANGED << readQueue, writeQueue, configured, submitted >>
    BY <1>7 DEF Dispatch
  <2>2. BqInv'
    BY <2>1 DEF BqInv, BqTypeOK, Lists, OnceListed, Sorted, Aged, Unlike
  <2>3. R = {} /\ W = {}
    BY <1>7 DEF Half
  <2>4. Waiting = {} /\ Waiting' = Waiting
    BY <1>1, <2>1, <2>3 DEF Waiting
  <2> QED
    BY <2>1, <2>2, <2>4 DEF RQ!Nothing
<1> QED
  BY <1>5, <1>6, <1>7

LEMMA BqStep ==
  BqInv /\ [BqNext]_bqVars => BqInv' /\ [RQ!Next]_(RQ!vars)
<1> SUFFICES ASSUME BqInv, [BqNext]_bqVars PROVE BqInv' /\ [RQ!Next]_(RQ!vars)
  OBVIOUS
<1>1. ASSUME UNCHANGED << readQueue, writeQueue, submitted, dispatched >>,
             configured' \in BOOLEAN
      PROVE  BqInv' /\ UNCHANGED RQ!vars
  BY <1>1 DEF BqInv, BqTypeOK, Lists, OnceListed, Sorted, Aged, Unlike, RQ!vars, Waiting
<1>2. CASE BlkInit
  BY <1>1, <1>2 DEF BlkInit
<1>3. ASSUME NEW id \in Requests, NEW read \in BOOLEAN, NEW d \in Deadlines, Submit(id, read, d)
      PROVE  BqInv' /\ RQ!Next
  <2>1. RQ!Submit(id, read, d)
    BY <1>3, SubmitStep DEF RQ!Submit, Submit
  <2> QED
    BY <1>3, <2>1, SubmitStep DEF RQ!Next
<1>4. CASE Dispatch
  BY <1>4, DispatchStep DEF RQ!Next
<1>5. CASE UNCHANGED bqVars
  BY <1>1, <1>5 DEF bqVars, BqInv, BqTypeOK
<1> QED
  BY <1>2, <1>3, <1>4, <1>5 DEF BqNext

\* Every reachable state of the request lists is well typed.
THEOREM BlockTypeCorrect == BqSpec => []BqTypeOK
<1>1. BqInv => BqTypeOK
  BY DEF BqInv
<1>2. BqInv /\ [BqNext]_bqVars => BqInv'
  BY BqStep
<1> QED
  BY <1>1, <1>2, BqInitEstablishes, PTL DEF BqSpec

\* The sorted lists of blk.c implement the abstract request queue: nothing is
\* lost or dispatched twice, reads go first, then the earliest deadline, and
\* among equals the request that came first.
THEOREM QueueImplemented == BqSpec => RequestQueueSpec
<1>1. BqInit => RQ!Init
  BY DEF BqInit, RQ!Init, Waiting
<1>2. BqInv /\ [BqNext]_bqVars => BqInv' /\ [RQ!Next]_(RQ!vars)
  BY BqStep
<1> QED
  BY <1>1, <1>2, BqInitEstablishes, PTL DEF BqSpec, RequestQueueSpec, RQ!Spec

-----------------------------------------------------------------------------
(* Tasks: the run queues, for every number of tasks and CPUs and whatever  *)
(* ACPI reported.  The argument: only the boot processor is ever online,   *)
(* so every task is in its queue, and the rounds a task has waited plus    *)
(* its position never exceed the number of tasks: a new task moves the     *)
(* others back by one but adds one to the number, a round moves them       *)
(* forward by one and adds one to their wait.                              *)

BootQueue == runQueue[0]

\* Every task is in the boot processor's queue, once, and in no other.
OneQueue ==
  /\ \A c \in Cpu \ {0} : runQueue[c] = << >>
  /\ BootQueue \in Seq(1 .. created)
  /\ Len(BootQueue) = created
  /\ \A i, j \in 1 .. created : BootQueue[i] = BootQueue[j] => i = j
  /\ \A t \in 1 .. created : \E i \in 1 .. created : BootQueue[i] = t

\* Position and wait of a task.
RoundsLeft == \A i \in 1 .. created : wait[BootQueue[i]] + i <= created

TsInv == TsTypeOK /\ OneQueue /\ RoundsLeft

LEMMA TaskConstants ==
  /\ MaxTasks \in Nat /\ MaxCpus \in Nat \ {0} /\ Slice \in Nat \ {0}
  /\ 0 \in Cpu
BY TaskSchedulerAssumption DEF Cpu

\* What putting an element in front of a sequence, and moving its head to the
\* end, do to its elements.
LEMMA InFront ==
  ASSUME NEW S, NEW q \in Seq(S), NEW x \in S
  PROVE  /\ << x >> \o q \in Seq(S)
         /\ Len(<< x >> \o q) = Len(q) + 1
         /\ (<< x >> \o q)[1] = x
         /\ \A i \in 2 .. Len(q) + 1 : (<< x >> \o q)[i] = q[i - 1]
<1>1. << x >> \in Seq(S) /\ Len(<< x >>) = 1 /\ << x >>[1] = x
  OBVIOUS
<1> QED
  BY <1>1, ConcatProperties

LEMMA ToTheEnd ==
  ASSUME NEW S, NEW q \in Seq(S), q # << >>
  PROVE  /\ Rotated(q) \in Seq(S)
         /\ Len(Rotated(q)) = Len(q)
         /\ Rotated(q)[Len(q)] = Head(q)
         /\ Head(q) = q[1] /\ Head(q) \in S /\ Len(q) \in Nat \ {0}
         /\ \A i \in 1 .. Len(q) - 1 : Rotated(q)[i] = q[i + 1]
<1>1. /\ Tail(q) \in Seq(S) /\ Len(Tail(q)) = Len(q) - 1
      /\ \A i \in 1 .. Len(Tail(q)) : Tail(q)[i] = q[i + 1]
      /\ Head(q) \in S /\ Head(q) = q[1] /\ Len(q) \in Nat \ {0}
  BY HeadTailProperties, EmptySeq
<1> QED
  BY <1>1, AppendProperties DEF Rotated

\* Only the boot processor is online, so new tasks go to its queue.
LEMMA TargetIsBoot ==
  ASSUME TsTypeOK
  PROVE  TargetCpu = 0
<1>1. CASE Eligible = {}
  BY <1>1 DEF TargetCpu
<1>2. CASE Eligible # {}
  <2>1. Eligible = {0}
    BY <1>2 DEF Eligible, TsTypeOK
  <2> QED
    BY <2>1 DEF TargetCpu
<1> QED
  BY <1>1, <1>2

-----------------------------------------------------------------------------
LEMMA TsInitEstablishes == TsInit => TsInv
<1> SUFFICES ASSUME TsInit PROVE TsInv
  OBVIOUS
<1>1. TsTypeOK
  BY TaskConstants DEF TsInit, TsTypeOK
<1>2. OneQueue /\ RoundsLeft
  BY TaskConstants DEF TsInit, OneQueue, RoundsLeft, BootQueue
<1> QED
  BY <1>1, <1>2 DEF TsInv

LEMMA SchedInitKeepsInv ==
  ASSUME TsInv, NEW count \in Reported, NEW ids \in ApicIds, SchedInit(count, ids)
  PROVE  TsInv'
<1>1. cpuCount' \in 0 .. MaxCpus
  BY TaskConstants, TaskSchedulerAssumption DEF SchedInit
<1>2. smt' \subseteq Cpu
  BY <1>1, TaskConstants DEF SchedInit, Cpu
<1>3. TsTypeOK'
  BY <1>1, <1>2 DEF TsInv, TsTypeOK, SchedInit
<1>4. OneQueue' /\ RoundsLeft'
  BY DEF TsInv, OneQueue, RoundsLeft, BootQueue, SchedInit
<1> QED
  BY <1>3, <1>4 DEF TsInv

LEMMA CreateTaskKeepsInv ==
  ASSUME TsInv, CreateTask
  PROVE  TsInv'
<1> DEFINE n == created + 1
           q == << n >> \o BootQueue
<1>1. /\ created \in Nat /\ n \in Task /\ created' = n
      /\ runQueue' = [runQueue EXCEPT ![0] = q] /\ BootQueue' = q
  <2>1. created \in Nat /\ n \in Task /\ created' = n
    BY TaskConstants DEF TsInv, TsTypeOK, CreateTask, Task
  <2>2. runQueue' = [runQueue EXCEPT ![0] = q]
    BY TargetIsBoot DEF TsInv, CreateTask, BootQueue
  <2>3. BootQueue' = q
    BY <2>2, TaskConstants DEF TsInv, TsTypeOK, BootQueue
  <2> QED
    BY <2>1, <2>2, <2>3
<1>2. BootQueue \in Seq(1 .. n)
  <2>1. 1 .. created \subseteq 1 .. n
    BY <1>1
  <2> QED
    BY <2>1, SeqMonotonic, Zenon DEF TsInv, OneQueue
<1>3. /\ q \in Seq(1 .. n) /\ Len(q) = n /\ q[1] = n
      /\ \A i \in 2 .. n : q[i] = BootQueue[i - 1]
  BY <1>1, <1>2, InFront DEF TsInv, OneQueue
<1>4. \A i \in 1 .. created : BootQueue[i] \in 1 .. created
  BY ElementOfSeq DEF TsInv, OneQueue
<1> HIDE DEF q
<1>5. \A i \in 2 .. n : i - 1 \in 1 .. created /\ q[i] = BootQueue[i - 1]
  <2>1. \A i \in 2 .. n : i - 1 \in 1 .. created
    BY <1>1
  <2> QED
    BY <1>3, <2>1, Zenon
<1>6. TsTypeOK'
  <2>1. runQueue' \in [Cpu -> Seq(Task)]
    <3>1. 1 .. n \subseteq Task
      BY <1>1, TaskConstants DEF Task
    <3>2. q \in Seq(Task)
      BY <1>3, <3>1, SeqMonotonic, Zenon
    <3> QED
      BY <1>1, <3>2 DEF TsInv, TsTypeOK
  <2>2. slice' \in [Task -> 0 .. Slice] /\ \A t \in 1 .. n : slice'[t] > 0
    BY <1>1, TaskConstants DEF TsInv, TsTypeOK, CreateTask, Task
  <2>3. wait' \in [Task -> Nat]
    BY <1>1 DEF TsInv, TsTypeOK, CreateTask
  <2>4. created' \in 0 .. MaxTasks
    BY <1>1, TaskConstants DEF Task
  <2> QED
    BY <1>1, <2>1, <2>2, <2>3, <2>4 DEF TsInv, TsTypeOK, CreateTask
<1>7. OneQueue'
  <2>1. \A c \in Cpu \ {0} : runQueue'[c] = << >>
    BY <1>1 DEF TsInv, OneQueue, TsTypeOK
  <2>2. \A i, j \in 1 .. n : q[i] = q[j] => i = j
    <3>1. \A i \in 2 .. n : q[i] \in 1 .. created
      BY <1>4, <1>5, Zenon
    <3>2. \A i, j \in 2 .. n : q[i] = q[j] => i = j
      BY <1>1, <1>3 DEF TsInv, OneQueue
    <3> QED
      BY <1>1, <1>3, <3>1, <3>2
  <2>3. \A t \in 1 .. n : \E i \in 1 .. n : q[i] = t
    <3> SUFFICES ASSUME NEW t \in 1 .. n PROVE \E i \in 1 .. n : q[i] = t
      OBVIOUS
    <3>1. CASE t = n
      BY <1>1, <1>3, <3>1
    <3>2. CASE t # n
      <4>1. PICK i \in 1 .. created : BootQueue[i] = t
        BY <1>1, <3>2 DEF TsInv, OneQueue
      <4>2. i + 1 \in 2 .. n /\ q[i + 1] = t
        <5>1. i + 1 \in 2 .. n /\ (i + 1) - 1 = i
          BY <1>1
        <5> QED
          BY <1>3, <4>1, <5>1
      <4> QED
        BY <1>1, <4>2
    <3> QED
      BY <3>1, <3>2
  <2> QED
    BY <1>1, <1>3, <2>1, <2>2, <2>3 DEF OneQueue
<1>8. RoundsLeft'
  <2> SUFFICES ASSUME NEW i \in 1 .. n PROVE wait'[q[i]] + i <= n
    BY <1>1 DEF RoundsLeft
  <2>1. CASE i = 1
    BY <1>1, <1>3, <2>1 DEF TsInv, TsTypeOK, CreateTask
  <2>2. CASE i # 1
    <3>1. i - 1 \in 1 .. created /\ q[i] = BootQueue[i - 1] /\ BootQueue[i - 1] \in 1 .. created
      <4>1. i \in 2 .. n
        BY <1>1, <2>2
      <4> QED
        BY <1>4, <1>5, <4>1, Zenon
    <3>2. wait'[q[i]] = wait[BootQueue[i - 1]] /\ wait[BootQueue[i - 1]] \in Nat
      <4>1. BootQueue[i - 1] \in Task /\ BootQueue[i - 1] # n
        BY <1>1, <3>1, TaskConstants DEF Task
      <4>2. wait' = [wait EXCEPT ![n] = 0]
        BY <1>1 DEF CreateTask
      <4> QED
        BY <3>1, <4>1, <4>2 DEF TsInv, TsTypeOK
    <3> QED
      BY <1>1, <3>1, <3>2 DEF TsInv, RoundsLeft
  <2> QED
    BY <2>1, <2>2
<1> QED
  BY <1>6, <1>7, <1>8 DEF TsInv

LEMMA ScheduleKeepsInv ==
  ASSUME TsInv, Schedule
  PROVE  TsInv'
<1>1. CASE BootQueue = << >>
  <2>1. UNCHANGED << runQueue, wait, created, cpuCount, smt, online, smtAware, slice >>
        /\ current' = [current EXCEPT ![0] = Idle]
    BY <1>1 DEF Schedule, BootQueue
  <2> QED
    BY <2>1 DEF TsInv, TsTypeOK, OneQueue, RoundsLeft, BootQueue
<1>2. CASE BootQueue # << >>
  <2> DEFINE q == Rotated(BootQueue)
             h == BootQueue[1]
  <2>1. /\ created \in Nat \ {0}
        /\ h \in 1 .. created /\ Head(BootQueue) = h
        /\ q \in Seq(1 .. created) /\ Len(q) = created /\ q[created] = h
        /\ \A i \in 1 .. created - 1 : q[i] = BootQueue[i + 1]
    <3>1. BootQueue \in Seq(1 .. created) /\ Len(BootQueue) = created
      BY DEF TsInv, OneQueue
    <3>2. /\ q \in Seq(1 .. created) /\ Len(q) = Len(BootQueue)
          /\ q[Len(BootQueue)] = Head(BootQueue)
          /\ Head(BootQueue) = BootQueue[1] /\ Head(BootQueue) \in 1 .. created
          /\ Len(BootQueue) \in Nat \ {0}
          /\ \A i \in 1 .. Len(BootQueue) - 1 : q[i] = BootQueue[i + 1]
      <4> HIDE DEF q
      <4>1. q = Rotated(BootQueue)
        BY DEF q
      <4> DEFINE S == 1 .. created
      <4>2. BootQueue \in Seq(S)
        BY <3>1
      <4> HIDE DEF S
      <4>3. /\ Rotated(BootQueue) \in Seq(S) /\ Len(Rotated(BootQueue)) = Len(BootQueue)
            /\ Rotated(BootQueue)[Len(BootQueue)] = Head(BootQueue)
            /\ Head(BootQueue) = BootQueue[1] /\ Head(BootQueue) \in S /\ Len(BootQueue) \in Nat \ {0}
            /\ \A i \in 1 .. Len(BootQueue) - 1 : Rotated(BootQueue)[i] = BootQueue[i + 1]
        BY <1>2, <4>2, ToTheEnd
      <4> QED
        BY <4>1, <4>3, Zenon DEF S
    <3> HIDE DEF q
    <3> QED
      BY <3>1, <3>2, Zenon
  <2>2. /\ runQueue' = [runQueue EXCEPT ![0] = q]
        /\ current' = [current EXCEPT ![0] = h]
        /\ wait' = [t \in Task |-> IF t = h \/ t > created THEN 0 ELSE wait[t] + 1]
        /\ UNCHANGED << created, cpuCount, smt, online, smtAware, slice >>
    BY <1>2, <2>1 DEF Schedule, BootQueue
  <2>3. BootQueue' = q
    BY <2>2, TaskConstants DEF TsInv, TsTypeOK, BootQueue
  <2>4. \A i \in 1 .. created : BootQueue[i] \in 1 .. created
    BY ElementOfSeq DEF TsInv, OneQueue
  <2>5. 1 .. created \subseteq Task
    BY TaskConstants DEF TsInv, TsTypeOK, Task
  <2> HIDE DEF q, h
  \* The places before the last show the tasks one place further.
  <2>6. \A i \in 1 .. created : i # created =>
          i + 1 \in 2 .. created /\ i + 1 \in 1 .. created /\ q[i] = BootQueue[i + 1]
    BY <2>1
  <2>7. TsTypeOK'
    <3>1. q \in Seq(Task)
      BY <2>1, <2>5, SeqMonotonic, Zenon
    <3>2. h \in Task
      BY <2>1, <2>5
    <3>3. wait' \in [Task -> Nat]
      BY <2>2 DEF TsInv, TsTypeOK
    <3>4. current' \in [Cpu -> Task \cup {0, Idle}]
      BY <2>2, <3>2 DEF TsInv, TsTypeOK
    <3>5. runQueue' \in [Cpu -> Seq(Task)]
      BY <2>2, <3>1 DEF TsInv, TsTypeOK
    <3> QED
      BY <2>2, <3>3, <3>4, <3>5 DEF TsInv, TsTypeOK
  <2>8. OneQueue'
    <3>1. \A c \in Cpu \ {0} : runQueue'[c] = << >>
      BY <2>2 DEF TsInv, OneQueue, TsTypeOK
    <3>2. \A i, j \in 1 .. created : q[i] = q[j] => i = j
      <4> SUFFICES ASSUME NEW i \in 1 .. created, NEW j \in 1 .. created, q[i] = q[j]
                   PROVE  i = j
        OBVIOUS
      <4>1. \A k \in 2 .. created : BootQueue[k] # h
        BY <2>1 DEF TsInv, OneQueue, h
      <4>2. CASE i = created \/ j = created
        BY <2>1, <2>6, <4>1, <4>2
      <4>3. CASE i # created /\ j # created
        <5>1. i + 1 = j + 1
          BY <2>6, <4>3 DEF TsInv, OneQueue
        <5> QED
          BY <5>1
      <4> QED
        BY <4>2, <4>3
    <3>3. \A t \in 1 .. created : \E i \in 1 .. created : q[i] = t
      <4> SUFFICES ASSUME NEW t \in 1 .. created PROVE \E i \in 1 .. created : q[i] = t
        OBVIOUS
      <4>1. PICK k \in 1 .. created : BootQueue[k] = t
        BY DEF TsInv, OneQueue
      <4>2. CASE k = 1
        BY <2>1, <4>1, <4>2 DEF h
      <4>3. CASE k # 1
        <5>1. k - 1 \in 1 .. created /\ k - 1 # created /\ (k - 1) + 1 = k
          BY <2>1, <4>3
        <5>2. q[k - 1] = BootQueue[k]
          BY <2>6, <5>1
        <5> QED
          BY <4>1, <5>1, <5>2
      <4> QED
        BY <4>2, <4>3
    <3> QED
      BY <2>1, <2>2, <2>3, <3>1, <3>2, <3>3 DEF OneQueue
  <2>9. RoundsLeft'
    <3> SUFFICES ASSUME NEW i \in 1 .. created PROVE wait'[q[i]] + i <= created
      BY <2>2, <2>3 DEF RoundsLeft
    <3>1. CASE i = created
      <4>1. wait'[h] = 0
        BY <2>1, <2>2, <2>5
      <4> QED
        BY <2>1, <3>1, <4>1
    <3>2. CASE i # created
      <4>1. i + 1 \in 1 .. created /\ q[i] = BootQueue[i + 1] /\ BootQueue[i + 1] \in 1 .. created
        BY <2>4, <2>6, <3>2
      <4>2. wait[BootQueue[i + 1]] \in Nat /\ wait[BootQueue[i + 1]] + (i + 1) <= created
        BY <2>5, <4>1 DEF TsInv, TsTypeOK, RoundsLeft
      <4>3. wait'[BootQueue[i + 1]] = 0 \/ wait'[BootQueue[i + 1]] = wait[BootQueue[i + 1]] + 1
        BY <2>2, <2>5, <4>1
      <4> DEFINE before == wait[BootQueue[i + 1]]
                 after  == wait'[BootQueue[i + 1]]
      <4>4. after + i <= created
        <5>1. before \in Nat /\ before + (i + 1) <= created /\ after \in {0, before + 1}
          BY <4>2, <4>3
        <5> HIDE DEF before, after
        <5> QED
          BY <2>1, <5>1
      <4> QED
        BY <4>1, <4>4
    <3> QED
      BY <3>1, <3>2
  <2> QED
    BY <2>7, <2>8, <2>9 DEF TsInv
<1> QED
  BY <1>1, <1>2

LEMMA TickKeepsInv ==
  ASSUME TsInv, SchedTick
  PROVE  TsInv'
<1>1. /\ slice' \in [Task -> 0 .. Slice]
      /\ \A t \in Task : slice[t] > 0 => slice'[t] > 0
  BY TaskConstants DEF TsInv, TsTypeOK, SchedTick, Used
<1>2. 1 .. created \subseteq Task
  BY TaskConstants DEF TsInv, TsTypeOK, Task
<1>3. \A t \in 1 .. created : slice'[t] > 0
  BY <1>1, <1>2 DEF TsInv, TsTypeOK
<1>4. TsTypeOK'
  BY <1>1, <1>3 DEF TsInv, TsTypeOK, SchedTick
<1>5. OneQueue' /\ RoundsLeft'
  BY DEF TsInv, OneQueue, RoundsLeft, BootQueue, SchedTick
<1> QED
  BY <1>4, <1>5 DEF TsInv

LEMMA TsStep == TsInv /\ [TsNext]_tsVars => TsInv'
<1> SUFFICES ASSUME TsInv, [TsNext]_tsVars PROVE TsInv'
  OBVIOUS
<1>1. ASSUME NEW aware \in BOOLEAN, SetSmtAware(aware) PROVE TsInv'
  BY <1>1, Zenon DEF TsInv, TsTypeOK, OneQueue, RoundsLeft, BootQueue, SetSmtAware
<1>2. CASE UNCHANGED tsVars
  BY <1>2 DEF TsInv, TsTypeOK, OneQueue, RoundsLeft, BootQueue, tsVars
<1> QED
  BY <1>1, <1>2, SchedInitKeepsInv, CreateTaskKeepsInv, ScheduleKeepsInv, TickKeepsInv
  DEF TsNext

\* The invariant holds in every reachable state.
THEOREM TsInvHolds == TsSpec => []TsInv
BY TsInitEstablishes, TsStep, PTL DEF TsSpec

-----------------------------------------------------------------------------
\* Every reachable state of the run queues is well typed.
THEOREM SchedulerTypeCorrect == TsSpec => []TsTypeOK
<1>1. TsInv => TsTypeOK
  BY DEF TsInv
<1> QED
  BY <1>1, TsInvHolds, PTL

LEMMA WaitFollows == TsInv => WaitBounded
<1> SUFFICES ASSUME TsInv PROVE WaitBounded
  OBVIOUS
<1>1. ASSUME NEW t \in 1 .. created
      PROVE  (\E i \in 1 .. Len(BootQueue) : BootQueue[i] = t) /\ wait[t] < created
  <2>1. PICK i \in 1 .. created : BootQueue[i] = t
    BY DEF TsInv, OneQueue
  <2>2. t \in Task /\ created \in Nat
    BY TaskConstants DEF TsInv, TsTypeOK, Task
  <2>3. wait[t] \in Nat /\ wait[t] + i <= created
    BY <2>1, <2>2 DEF TsInv, TsTypeOK, RoundsLeft
  <2>4. wait[t] < created
    BY <2>1, <2>2, <2>3
  <2> QED
    BY <2>1, <2>4 DEF TsInv, OneQueue
<1> QED
  BY <1>1 DEF TsInv, OneQueue, WaitBounded, BootQueue

\* Every task is in the one queue that is served, and is picked after fewer
\* rounds of sched_schedule than there are tasks.
THEOREM NoTaskStarves == TsSpec => []WaitBounded
<1> QED
  BY WaitFollows, TsInvHolds, PTL

-----------------------------------------------------------------------------
(* The shell: its calls are calls of Vfs, so what is proved there holds     *)
(* below it; resolve_path always yields a path of names, the one descriptor *)
(* in use is the command's, and the path kept as the current directory      *)
(* leads where `cd` found it because no call changes what a path means.     *)

\* The theorems about Vfs, of the instance in module Shell; the shell may use
\* every absolute path.
VP == INSTANCE Vfs_proofs
        WITH root <- fsRoot, step <- bootStep, Readable <- Texts, Paths <- Seq(V!Component)

\* The constants of the shell are what the theorems ask for.
LEMMA VfsLegal ==
  /\ BootScript \in Seq(VP!BootStep)
  /\ \A k \in DOMAIN BootScript : BootScript[k].op = "root" <=> k = 1
  /\ \A n \in VP!Component : Cut(n) \in VP!Component
  /\ Seq(V!Component) \subseteq Seq(VP!Component)
  /\ VP!Ram \notin Flat /\ "none" \notin Flat /\ Texts \subseteq Flat
  /\ {MaxNodes, MaxChildren, MaxEntries, MaxMounts, Size, Chunk} \subseteq Nat \ {0}
  /\ Fds \subseteq Nat /\ Fds # {}
<1>1. VP!Component = V!Component /\ VP!Ram = V!Ram
  BY DEF VP!Component, V!Component, VP!Empty, V!Empty, VP!Ram, V!Ram
<1>2. VP!BootStep = V!BootStep
  BY <1>1, Zenon DEF VP!BootStep, V!BootStep
<1> QED BY <1>1, <1>2, ShellAssumption

LEMMA SameNames ==
  /\ VP!Component = V!Component /\ VP!Null = V!Null /\ VP!Closed = V!Closed
  /\ VP!Booted <=> V!Booted
  /\ VP!FreeFds = V!FreeFds
  /\ \A d : VP!InUse(d) <=> V!InUse(d)
BY DEF VP!Component, V!Component, VP!Empty, V!Empty, VP!Ram, V!Ram, VP!Null, V!Null,
  VP!Closed, V!Closed, VP!Booted, V!Booted, VP!FreeFds, V!FreeFds, VP!InUse, V!InUse

LEMMA SameResolve == \A path : VP!Resolve(path) = V!Resolve(path)
BY DEF VP!Resolve, V!Resolve, VP!Walk, V!Walk, VP!Null, V!Null, VP!Empty, V!Empty,
  VP!FindDir, V!FindDir, VP!Entered, V!Entered, VP!Matches, V!Matches,
  VP!IsDirectory, V!IsDirectory, VP!Count, V!Count, VP!NameIn, V!NameIn,
  VP!NodeIn, V!NodeIn, VP!Ram, V!Ram

LEMMA SameResolvePrime == (\A path : VP!Resolve(path) = V!Resolve(path))'
BY SameResolve, PTL

LEMMA SameInit == V!Init => VP!Init
BY DEF V!Init, VP!Init, V!RamNode, VP!RamNode, V!Null, VP!Null, V!Closed, VP!Closed

LEMMA SameType == VP!TypeOK => V!TypeOK
BY DEF V!TypeOK, VP!TypeOK, V!RamNode, VP!RamNode, V!Null, VP!Null, V!Node, VP!Node,
  V!Component, VP!Component, V!Empty, VP!Empty, V!Ram, VP!Ram

LEMMA SameBoot == V!Boot => VP!Boot
BY SameResolve, SameNames DEF V!Boot, VP!Boot, V!MountRoot, VP!MountRoot, V!Mount, VP!Mount, V!Mkdir, VP!Mkdir,
   V!AddEntry, VP!AddEntry, V!Create, VP!Create, V!CanCreate, VP!CanCreate,
   V!HasSlot, VP!HasSlot, V!Dirname, VP!Dirname, V!Basename, VP!Basename,
   V!IsDirectory, VP!IsDirectory, V!Ram, VP!Ram, V!Null, VP!Null, V!Empty, VP!Empty,
   V!tree, VP!tree, V!fsys, VP!fsys

LEMMA SameOpened == \A n : V!Opened(n) <=> VP!Opened(n)
BY SameNames DEF V!Opened, VP!Opened, V!OpenedAt, VP!OpenedAt

LEMMA SameCalls ==
  /\ \A path : V!VfsMkdir(path) => VP!VfsMkdir(path)
  /\ \A path : V!VfsOpen(path) => VP!VfsOpen(path)
  /\ \A path : V!VfsOpenCreate(path) => VP!VfsOpenCreate(path)
  /\ \A d : V!VfsClose(d) => VP!VfsClose(d)
  /\ \A d : V!VfsReaddir(d) => VP!VfsReaddir(d)
  /\ \A d : V!VfsRead(d) => VP!VfsRead(d)
<1>1. \A path : V!VfsMkdir(path) => VP!VfsMkdir(path)
  BY SameResolve, SameNames DEF V!VfsMkdir, VP!VfsMkdir, V!Mkdir, VP!Mkdir,
   V!Create, VP!Create, V!CanCreate, VP!CanCreate,
   V!HasSlot, VP!HasSlot, V!Dirname, VP!Dirname, V!Basename, VP!Basename,
   V!Ram, VP!Ram, V!Empty, VP!Empty, V!tree, VP!tree, V!fsys, VP!fsys
<1>2. \A path : V!VfsOpen(path) => VP!VfsOpen(path)
  BY SameResolve, SameNames, SameOpened DEF V!VfsOpen, VP!VfsOpen, V!tree, VP!tree, V!fsys, VP!fsys
<1>4. \A d : V!VfsClose(d) => VP!VfsClose(d)
  BY SameNames DEF V!VfsClose, VP!VfsClose, V!tree, VP!tree, V!fsys, VP!fsys
<1>5. \A d : V!VfsReaddir(d) => VP!VfsReaddir(d)
  BY SameNames DEF V!VfsReaddir, VP!VfsReaddir, V!tree, VP!tree, V!fsys, VP!fsys,
     V!ReadDirIndex, VP!ReadDirIndex, V!NodeIn, VP!NodeIn, V!Ram, VP!Ram,
     V!IsDirectory, VP!IsDirectory, V!Count, VP!Count
<1>6. \A d : V!VfsRead(d) => VP!VfsRead(d)
  BY SameNames DEF V!VfsRead, VP!VfsRead, V!tree, VP!tree, V!fsys, VP!fsys,
     V!ReadCount, VP!ReadCount
<1>3. \A path : V!VfsOpenCreate(path) => VP!VfsOpenCreate(path)
  <2>1. ASSUME NEW path, V!VfsOpenCreate(path) PROVE VP!VfsOpenCreate(path)
    <3>1. V!Opened(V!Resolve(path)')
      BY <2>1 DEF V!VfsOpenCreate
    <3>2. VP!Resolve(path)' = V!Resolve(path)'
      BY SameResolvePrime
    <3>3. V!Opened(VP!Resolve(path)')
      BY <3>1, <3>2
    <3>4. VP!Opened(VP!Resolve(path)')
      BY <3>3, SameOpened
    <3> QED BY <2>1, <3>4, SameResolve, SameNames, SameOpened DEF V!VfsOpenCreate, VP!VfsOpenCreate,
   V!Create, VP!Create, V!CanCreate, VP!CanCreate,
   V!HasSlot, VP!HasSlot, V!Dirname, VP!Dirname, V!Basename, VP!Basename,
   V!Ram, VP!Ram, V!Empty, VP!Empty, V!tree, VP!tree, V!fsys, VP!fsys
  <2> QED BY <2>1
<1> QED BY <1>1, <1>2, <1>3, <1>4, <1>5, <1>6

-----------------------------------------------------------------------------
(* The calls of the shell are calls of Vfs.                                *)

VfsCall == [VP!Next]_(VP!vars)

LEMMA Called ==
  /\ V!Boot => VfsCall
  /\ \A path \in Seq(V!Component) :
       V!VfsMkdir(path) \/ V!VfsOpen(path) \/ V!VfsOpenCreate(path) => VfsCall
  /\ \A d \in Fds : V!VfsClose(d) \/ V!VfsReaddir(d) \/ V!VfsRead(d) => VfsCall
  /\ UNCHANGED fileVars => VfsCall
<1>1. V!Boot => VfsCall
  BY SameBoot, Zenon DEF VfsCall, VP!Next
<1>2. \A path \in Seq(V!Component) :
        V!VfsMkdir(path) \/ V!VfsOpen(path) \/ V!VfsOpenCreate(path) => VfsCall
  BY SameCalls, Zenon DEF VfsCall, VP!Next
<1>3. \A d \in Fds : V!VfsClose(d) \/ V!VfsReaddir(d) \/ V!VfsRead(d) => VfsCall
  BY SameCalls, Zenon DEF VfsCall, VP!Next
<1>4. UNCHANGED fileVars => VfsCall
  BY DEF VfsCall, fileVars, VP!vars, VP!tree, VP!fsys
<1> QED BY <1>1, <1>2, <1>3, <1>4

\* What one call keeps: the invariant of Vfs, the nodes of descriptors, and
\* after the boot sequence what paths mean.
LEMMA CallKeeps ==
  ASSUME VP!VfsInv, VfsCall
  PROVE  /\ VP!VfsInv'
         /\ V!Booted => V!Booted' /\ \A path \in Seq(V!Component) :
              V!Resolve(path) # V!Null => V!Resolve(path)' = V!Resolve(path)
<1>1. VP!VfsInv'
  BY VfsLegal, VP!VfsStep DEF VfsCall
<1>2. VP!TreeInv /\ VP!TreeInv' /\ VP!Grows
  <2>1. VP!TreeInv
    BY DEF VP!VfsInv
  <2> QED BY <2>1, VfsLegal, VP!TreeStep DEF VfsCall
<1>3. ASSUME V!Booted
      PROVE  V!Booted' /\ UNCHANGED << mounts, mountedOn, fsRoot >>
  <2>1. VP!Booted
    BY <1>3, SameNames
  <2>2. bootStep' = bootStep /\ UNCHANGED << mounts, mountedOn, fsRoot >>
    BY <2>1 DEF VfsCall, VP!Next, VP!vars, VP!tree, VP!fsys, VP!Boot, VP!VfsMkdir, VP!VfsOpen,
         VP!VfsOpenAppend, VP!VfsOpenCreate, VP!VfsClose, VP!VfsReaddir, VP!VfsRead
  <2> QED BY <1>3, <2>2 DEF V!Booted
<1>4. ASSUME V!Booted, NEW path \in Seq(V!Component), V!Resolve(path) # V!Null
      PROVE  V!Resolve(path)' = V!Resolve(path)
  <2>1. UNCHANGED << mounts, mountedOn, fsRoot >>
    BY <1>3, <1>4
  <2>2. path \in Seq(VP!Component) /\ VP!Resolve(path) # VP!Null
    BY <1>4, SameNames, SameResolve
  <2>3. VP!Resolve(path)' = VP!Resolve(path)
    BY <1>2, <2>1, <2>2, VfsLegal, VP!PathKept
  <2> QED BY <2>3, SameResolve, SameResolvePrime
<1> QED BY <1>1, <1>3, <1>4

\* vfs_open changes nothing or fills one descriptor that was free.
LEMMA OpensOne ==
  ASSUME VP!VfsInv, NEW n, V!Opened(n), fds' # fds
  PROVE  \E d \in Fds : /\ ~V!InUse(d) /\ n # V!Null
                        /\ fds' = [fds EXCEPT ![d] = [node |-> n, offset |-> 0]]
<1>1. n # V!Null /\ V!FreeFds # {}
  BY DEF V!Opened, V!OpenedAt
<1> DEFINE d == CHOOSE e \in V!FreeFds : \A g \in V!FreeFds : e <= g
<1>2. fds' = [fds EXCEPT ![d] = [node |-> n, offset |-> 0]]
  BY <1>1 DEF V!Opened, V!OpenedAt
<1>3. V!FreeFds \in SUBSET Nat
  BY ShellAssumption DEF V!FreeFds
<1>4. \E e \in V!FreeFds : \A g \in V!FreeFds : e <= g
  BY <1>1, <1>3, VP!Least, VfsLegal
<1>5. d \in V!FreeFds
  BY <1>4
<1> QED BY <1>1, <1>2, <1>5 DEF V!FreeFds

-----------------------------------------------------------------------------
(* resolve_path yields a path of names.                                    *)

\* What holds at first and with k also with k + 1 holds after n turns.
LEMMA EachTurn ==
  ASSUME NEW n \in Nat, NEW T, 0 \in T, \A k \in 0 .. n - 1 : k \in T => k + 1 \in T
  PROVE  n \in T
<1>1. \A k \in 0 .. n : k \in T
  BY VP!UpTo, VfsLegal
<1> QED BY <1>1

\* A loop of n turns over values in S, each a function of its number and of
\* the value before it, has a result after each turn.
LoopEnds(n, S, a, turn) ==
  \E f \in [0 .. n -> S] : f[0] = a /\ \A k \in 1 .. n : f[k] = turn[<< k, f[k - 1] >>]

LEMMA LoopRuns ==
  ASSUME NEW n \in Nat, NEW S, NEW a \in S, NEW turn \in [(1 .. n) \X S -> S]
  PROVE  LoopEnds(n, S, a, turn)
<1> DEFINE Run(f, m) == /\ f \in [0 .. m -> S] /\ f[0] = a
                        /\ \A k \in 1 .. m : f[k] = turn[<< k, f[k - 1] >>]
           T == { m \in 0 .. n : \E f : Run(f, m) }
<1>1. 0 \in T
  <2>1. Run([k \in 0 .. 0 |-> a], 0)
    OBVIOUS
  <2>2. \E f : Run(f, 0)
    BY <2>1
  <2> HIDE DEF Run
  <2> QED BY <2>2
<1>2. ASSUME NEW m \in 0 .. n - 1, m \in T PROVE m + 1 \in T
  <2>1. PICK f : Run(f, m)
    BY <1>2
  <2> DEFINE g == [k \in 0 .. m + 1 |-> IF k = m + 1 THEN turn[<< k, f[m] >>] ELSE f[k]]
  <2>2. m \in 0 .. m /\ m + 1 \in 1 .. n /\ f[m] \in S
    BY <2>1
  <2>3. turn[<< m + 1, f[m] >>] \in S
    BY <2>2
  <2>4. g \in [0 .. m + 1 -> S] /\ g[0] = a
    BY <2>1, <2>3
  <2>5. ASSUME NEW k \in 1 .. m + 1 PROVE g[k] = turn[<< k, g[k - 1] >>]
    <3>1. CASE k = m + 1
      BY <3>1
    <3>2. CASE k # m + 1
      <4>1. k \in 1 .. m /\ k - 1 \in 0 .. m
        BY <3>2
      <4>2. g[k] = f[k] /\ g[k - 1] = f[k - 1]
        BY <4>1
      <4> QED BY <2>1, <4>1, <4>2
    <3> QED BY <3>1, <3>2
  <2> HIDE DEF g
  <2>6. Run(g, m + 1)
    BY <2>4, <2>5
  <2> QED BY <2>2, <2>6
<1> HIDE DEF T
<1>3. n \in T
  BY <1>1, <1>2, EachTurn
<1>4. PICK f : Run(f, n)
  BY <1>3 DEF T
<1> QED BY <1>4 DEF LoopEnds

LEMMA PushTypes ==
  \A path \in Seq(Names), part \in Names \cup {V!Empty, ".", ".."} : Push(path, part) \in Seq(Names)
<1>1. SUFFICES ASSUME NEW path \in Seq(Names), NEW part \in Names \cup {V!Empty, ".", ".."}
               PROVE  Push(path, part) \in Seq(Names)
  OBVIOUS
<1>2. path # <<>> => SubSeq(path, 1, Len(path) - 1) \in Seq(Names)
  <2>1. ASSUME path # <<>> PROVE Len(path) \in Nat \ {0}
    BY <2>1
  <2> QED BY <2>1
<1>3. part \notin {V!Empty, ".", ".."} => Append(path, part) \in Seq(Names)
  OBVIOUS
<1> QED BY <1>1, <1>2, <1>3 DEF Push

LEMMA ResolvedPath ==
  ASSUME cwd \in Seq(Names), NEW arg \in Arguments
  PROVE  ResolvePath(arg) \in Seq(Names)
<1> DEFINE n == Len(arg.parts)
           a == IF arg.absolute THEN <<>> ELSE cwd
           turn == [p \in (1 .. n) \X Seq(Names) |-> Push(p[2], arg.parts[p[1]])]
           Temp(f) == f = [k \in 0 .. n |-> IF k = 0 THEN a ELSE Push(f[k - 1], arg.parts[k])]
           temp == CHOOSE f : Temp(f)
<1>1. n \in Nat /\ \A k \in 1 .. n : arg.parts[k] \in Names \cup {V!Empty, ".", ".."}
  BY ShellAssumption
<1>2. a \in Seq(Names)
  OBVIOUS
<1>3. ResolvePath(arg) = temp[n]
  BY DEF ResolvePath
<1>4. \A k \in 1 .. n, path \in Seq(Names) :
        Push(path, arg.parts[k]) \in Seq(Names) /\ turn[<< k, path >>] = Push(path, arg.parts[k])
  BY <1>1, PushTypes
<1>5. turn \in [(1 .. n) \X Seq(Names) -> Seq(Names)]
  BY <1>4
<1> HIDE DEF n, a, turn
<1>6. PICK f \in [0 .. n -> Seq(Names)] :
        f[0] = a /\ \A k \in 1 .. n : f[k] = turn[<< k, f[k - 1] >>]
  <2>1. n \in Nat
    BY <1>1
  <2>2. LoopEnds(n, Seq(Names), a, turn)
    BY <1>2, <1>5, <2>1, LoopRuns
  <2> QED BY <2>2 DEF LoopEnds
<1>7. Temp(f)
  <2>1. \A k \in 0 .. n : k # 0 => k \in 1 .. n /\ k - 1 \in 0 .. n
    BY <1>1
  <2>2. \A k \in 0 .. n : k # 0 => turn[<< k, f[k - 1] >>] = Push(f[k - 1], arg.parts[k])
    BY <1>4, <1>6, <2>1
  <2>3. \A k \in 0 .. n : f[k] = IF k = 0 THEN a ELSE Push(f[k - 1], arg.parts[k])
    BY <1>6, <2>1, <2>2
  <2>4. f = [k \in 0 .. n |-> f[k]]
    BY <1>6
  <2> QED BY <2>3, <2>4
<1>8. Temp(temp)
  BY <1>7
<1> HIDE DEF temp
<1> DEFINE T == { k \in 0 .. n : temp[k] \in Seq(Names) }
<1>9. 0 \in T
  BY <1>1, <1>2, <1>8
<1>10. ASSUME NEW k \in 0 .. n - 1, k \in T PROVE k + 1 \in T
  <2>1. k + 1 \in 0 .. n /\ k + 1 \in 1 .. n /\ k + 1 # 0 /\ (k + 1) - 1 = k
    BY <1>1
  <2>2. temp[k + 1] = Push(temp[k], arg.parts[k + 1])
    BY <1>8, <2>1
  <2> QED BY <1>4, <1>10, <2>1, <2>2
<1> HIDE DEF T
<1>11. n \in T
  BY <1>1, <1>9, <1>10, EachTurn
<1> QED BY <1>3, <1>11 DEF T

-----------------------------------------------------------------------------
(* The inductive invariant of the shell: what holds between two calls.     *)

Job == [kind : {"cd", "list", "dump", "write"}, path : Seq(Names), fd : Fds]

\* The current directory is a path that leads where `cd` found it.
Somewhere ==
  /\ cwd \in Seq(Names)
  /\ cwdNode = V!Null => cwd = <<>>
  /\ cwdNode # V!Null => V!Resolve(cwd) = cwdNode

\* The command has the only descriptor in use, and `cd` has it for its path.
OneDescriptor ==
  /\ job \in Job \cup {NoJob}
  /\ job # NoJob => V!InUse(job.fd)
  /\ job # NoJob /\ job.kind = "cd" => fds[job.fd].node = V!Resolve(job.path)
  /\ \A d \in Fds : V!InUse(d) => job # NoJob /\ d = job.fd

\* The shell is not started before the file systems are mounted.
Started == ~V!Booted => job = NoJob /\ cwdNode = V!Null

ShInv == VP!VfsInv /\ Somewhere /\ OneDescriptor /\ Started

LEMMA NamesArePaths ==
  /\ Seq(Names) \subseteq Seq(V!Component)
  /\ <<>> \in Seq(Names)
  /\ \A j \in Job : j # NoJob /\ j.fd \in Fds /\ j.path \in Seq(V!Component)
<1>1. Names \subseteq V!Component
  BY DEF V!Component
<1>2. Seq(Names) \subseteq Seq(V!Component)
  BY <1>1
<1>3. \A j \in Job : j # NoJob /\ j.fd \in Fds /\ j.path \in Seq(Names)
  BY DEF Job, NoJob
<1> QED BY <1>2, <1>3

LEMMA ShInitEstablishes == ShInit => ShInv
<1>1. SUFFICES ASSUME ShInit PROVE ShInv
  OBVIOUS
<1>2. VP!VfsInv
  BY <1>1, SameInit, VP!VfsInit, VfsLegal DEF ShInit
<1>3. Somewhere /\ Started
  BY <1>1 DEF ShInit, Somewhere, Started
<1>4. \A d \in Fds : ~V!InUse(d)
  BY <1>1 DEF ShInit, V!Init, V!InUse, V!Closed
<1>5. OneDescriptor
  BY <1>1, <1>4 DEF ShInit, OneDescriptor
<1> QED BY <1>2, <1>3, <1>5 DEF ShInv

\* A call that leaves the shell where it is and the descriptors in use.
LEMMA SameDescriptors ==
  ASSUME ShInv, VfsCall, UNCHANGED shellVars, V!Booted,
         \A d \in Fds : fds'[d].node = fds[d].node
  PROVE  ShInv'
<1>1. /\ VP!VfsInv' /\ V!Booted'
      /\ \A path \in Seq(V!Component) :
           V!Resolve(path) # V!Null => V!Resolve(path)' = V!Resolve(path)
  BY CallKeeps DEF ShInv
<1>2. UNCHANGED << cwd, cwdNode, job >>
  BY DEF shellVars
<1>3. Somewhere'
  BY <1>1, <1>2, NamesArePaths DEF ShInv, Somewhere, V!Null
<1>4. Started'
  BY <1>1 DEF Started
<1>5. \A d \in Fds : V!InUse(d)' <=> V!InUse(d)
  BY DEF V!InUse, V!Null
<1>6. job # NoJob => job \in Job /\ job.fd \in Fds /\ job.path \in Seq(V!Component)
  BY NamesArePaths DEF ShInv, OneDescriptor
<1>7. job # NoJob /\ job.kind = "cd" => fds'[job.fd].node = V!Resolve(job.path)'
  <2>1. SUFFICES ASSUME job # NoJob, job.kind = "cd"
                 PROVE  fds'[job.fd].node = V!Resolve(job.path)'
    OBVIOUS
  <2>2. V!InUse(job.fd) /\ fds[job.fd].node = V!Resolve(job.path)
    BY <2>1 DEF ShInv, OneDescriptor
  <2>3. PICK path \in Seq(V!Component) : path = job.path
    BY <1>6, <2>1
  <2>4. V!Resolve(path) # V!Null /\ fds[job.fd].node = V!Resolve(path)
    BY <2>2, <2>3 DEF V!InUse
  <2>5. fds'[job.fd].node = V!Resolve(path)'
    BY <1>1, <1>6, <2>1, <2>4
  <2> QED BY <1>2, <2>3, <2>5
<1>8. OneDescriptor'
  BY <1>2, <1>5, <1>6, <1>7 DEF ShInv, OneDescriptor, NoJob, Job
<1> QED BY <1>1, <1>3, <1>4, <1>8 DEF ShInv

\* The boot sequence uses no descriptor.
LEMMA ShBootKeeps == ASSUME ShInv, ShBoot PROVE ShInv'
<1>1. VfsCall /\ UNCHANGED fds /\ ~V!Booted
  BY Called DEF ShBoot, V!Boot
<1>2. VP!VfsInv'
  BY <1>1, CallKeeps DEF ShInv
<1>3. UNCHANGED << cwd, cwdNode, job >>
  BY DEF ShBoot, shellVars
<1>4. job = NoJob /\ cwdNode = V!Null
  BY <1>1 DEF ShInv, Started
<1>5. cwdNode' = V!Null /\ job' = NoJob
  BY <1>3, <1>4 DEF NoJob, V!Null
<1>6. Somewhere'
  BY <1>3, <1>4, <1>5 DEF ShInv, Somewhere, V!Null
<1>7. \A d \in Fds : V!InUse(d)' <=> V!InUse(d)
  BY <1>1 DEF V!InUse, V!Null
<1>8. OneDescriptor'
  BY <1>3, <1>4, <1>7 DEF ShInv, OneDescriptor, NoJob, Job
<1>9. Started'
  BY <1>5 DEF Started, NoJob, V!Null
<1> QED BY <1>2, <1>6, <1>8, <1>9 DEF ShInv

LEMMA MkdirKeeps == ASSUME ShInv, NEW arg \in Arguments, MkdirCommand(arg) PROVE ShInv'
<1>1. ResolvePath(arg) \in Seq(V!Component)
  BY ResolvedPath, NamesArePaths DEF ShInv, Somewhere
<1>2. V!VfsMkdir(ResolvePath(arg)) /\ UNCHANGED shellVars /\ V!Booted
  BY DEF MkdirCommand, Prompted
<1>3. VfsCall
  BY <1>1, <1>2, Called
<1>4. UNCHANGED fds
  BY <1>2 DEF V!VfsMkdir
<1> QED BY <1>2, <1>3, <1>4, SameDescriptors

\* cdl and dump read on through their descriptor.
LEMMA ReadOnKeeps == ASSUME ShInv, ListEntry \/ DumpText PROVE ShInv'
<1>1. /\ V!VfsReaddir(job.fd) \/ V!VfsRead(job.fd)
      /\ UNCHANGED shellVars
      /\ job.kind \in {"list", "dump"}
  BY DEF ListEntry, DumpText, MoreToList, MoreToRead
<1>2. job # NoJob /\ job.fd \in Fds
  BY <1>1, NamesArePaths DEF ShInv, OneDescriptor, NoJob
<1>3. VfsCall
  BY <1>1, <1>2, Called
<1>4. V!Booted
  BY <1>2 DEF ShInv, Started
<1>5. fds \in [Fds -> [node : VP!Live \cup {VP!Null}, offset : Nat]]
  BY DEF ShInv, VP!VfsInv, VP!Descriptors, VP!Entry
<1>6. \A d \in Fds : fds'[d].node = fds[d].node
  <2>1. PICK o : fds' = [fds EXCEPT ![job.fd].offset = o]
    BY <1>1 DEF V!VfsReaddir, V!VfsRead
  <2> QED BY <1>2, <1>5, <2>1
<1> QED BY <1>1, <1>3, <1>4, <1>6, SameDescriptors

\* vfs_close: what `cd` found becomes the current directory.
LEMMA EndKeeps == ASSUME ShInv, EndCommand PROVE ShInv'
<1>1. job # NoJob /\ V!VfsClose(job.fd) /\ job' = NoJob
  BY DEF EndCommand
<1>2. job \in Job /\ job.fd \in Fds /\ job.path \in Seq(Names) /\ job.path \in Seq(V!Component)
  BY <1>1, NamesArePaths DEF ShInv, OneDescriptor, Job
<1>3. VfsCall /\ V!Booted
  BY <1>1, <1>2, Called DEF ShInv, Started
<1>4. /\ VP!VfsInv' /\ V!Booted'
      /\ \A path \in Seq(V!Component) :
           V!Resolve(path) # V!Null => V!Resolve(path)' = V!Resolve(path)
  BY <1>3, CallKeeps DEF ShInv
<1>5. Started'
  BY <1>4 DEF Started
<1>6. Somewhere'
  <2>1. CASE job.kind = "cd"
    <3>1. cwd' = job.path /\ cwdNode' = fds[job.fd].node
      BY <2>1 DEF EndCommand
    <3>2. PICK path \in Seq(V!Component) : path = job.path
      BY <1>2
    <3>3. V!Resolve(path) = cwdNode' /\ cwdNode' # V!Null
      BY <1>1, <2>1, <3>1, <3>2 DEF ShInv, OneDescriptor, V!InUse
    <3>4. V!Resolve(path)' = cwdNode' /\ cwdNode' # V!Null /\ cwd' = path /\ path \in Seq(Names)
      BY <1>2, <1>4, <3>1, <3>2, <3>3
    <3> QED BY <3>4 DEF Somewhere, V!Null
  <2>2. CASE job.kind # "cd"
    <3>1. UNCHANGED << cwd, cwdNode >>
      BY <2>2 DEF EndCommand
    <3> QED BY <1>4, <3>1, NamesArePaths DEF ShInv, Somewhere, V!Null
  <2> QED BY <2>1, <2>2
<1>7. \A d \in Fds : ~V!InUse(d)'
  <2>1. fds' = [fds EXCEPT ![job.fd] = V!Closed]
    BY <1>1 DEF V!VfsClose
  <2>2. fds \in [Fds -> [node : VP!Live \cup {VP!Null}, offset : Nat]]
    BY DEF ShInv, VP!VfsInv, VP!Descriptors, VP!Entry
  <2>3. \A d \in Fds : d # job.fd => fds[d].node = V!Null
    BY DEF ShInv, OneDescriptor, V!InUse
  <2>4. \A d \in Fds : fds'[d].node = V!Null
    BY <2>1, <2>2, <2>3 DEF V!Closed
  <2> QED BY <2>4 DEF V!InUse, V!Null
<1>8. OneDescriptor'
  BY <1>1, <1>7 DEF OneDescriptor, NoJob, Job
<1> QED BY <1>4, <1>5, <1>6, <1>8 DEF ShInv

\* vfs_open: the one descriptor in use is the one it returned.
LEMMA OpenKeeps ==
  ASSUME ShInv, NEW arg \in Arguments, NEW what \in {"cd", "list", "dump", "write"},
         OpenCommand(what, arg)
  PROVE  ShInv'
<1>1. PICK path \in {ResolvePath(arg)} :
        /\ OpenPath(what, path)
        /\ job' = IF fds' = fds THEN NoJob
                  ELSE [kind |-> what, path |-> path, fd |-> NewFd]
  BY DEF OpenCommand
<1>2. V!Booted /\ job = NoJob /\ UNCHANGED << cwd, cwdNode >>
  BY DEF OpenCommand, Prompted
<1>3. path \in Seq(Names) /\ path \in Seq(V!Component)
  BY ResolvedPath, NamesArePaths DEF ShInv, Somewhere
<1>4. V!VfsOpen(path) \/ (what = "write" /\ V!VfsOpenCreate(path))
  BY <1>1 DEF OpenPath
<1>5. VfsCall
  BY <1>3, <1>4, Called
<1>6. /\ VP!VfsInv' /\ V!Booted'
      /\ \A p \in Seq(V!Component) :
           V!Resolve(p) # V!Null => V!Resolve(p)' = V!Resolve(p)
  BY <1>2, <1>5, CallKeeps DEF ShInv
<1>7. Started'
  BY <1>6 DEF Started
<1>8. Somewhere'
  BY <1>2, <1>6, NamesArePaths DEF ShInv, Somewhere, V!Null
<1>9. \A d \in Fds : ~V!InUse(d)
  BY <1>2 DEF ShInv, OneDescriptor
<1>10. OneDescriptor'
  <2>1. CASE fds' = fds
    <3>1. job' = NoJob
      BY <1>1, <2>1
    <3>2. \A d \in Fds : ~V!InUse(d)'
      BY <1>9, <2>1 DEF V!InUse, V!Null
    <3> QED BY <3>1, <3>2 DEF OneDescriptor, NoJob, Job
  <2>2. CASE fds' # fds
    <3>1. PICK n : V!Opened(n) /\ (what = "cd" => n = V!Resolve(path))
      BY <1>4 DEF V!VfsOpen, V!VfsOpenCreate
    <3>2. PICK d \in Fds : /\ n # V!Null
                           /\ fds' = [fds EXCEPT ![d] = [node |-> n, offset |-> 0]]
      BY <2>2, <3>1, OpensOne DEF ShInv
    <3>3. fds \in [Fds -> [node : VP!Live \cup {VP!Null}, offset : Nat]]
      BY DEF ShInv, VP!VfsInv, VP!Descriptors, VP!Entry
    <3>4. fds'[d].node = n /\ \A e \in Fds : e # d => fds'[e] = fds[e]
      BY <3>2, <3>3
    <3>5. fds'[d] # fds[d]
      BY <1>9, <3>2, <3>4 DEF V!InUse
    <3>6. NewFd = d
      BY <3>4, <3>5 DEF NewFd
    <3>7. job' = [kind |-> what, path |-> path, fd |-> d]
      BY <1>1, <2>2, <3>6
    <3>8. job' \in Job /\ job'.fd = d /\ job'.kind = what /\ job'.path = path
      BY <1>3, <3>7 DEF Job
    <3>9. what = "cd" => fds'[d].node = V!Resolve(path)'
      BY <1>3, <1>6, <3>1, <3>2, <3>4
    <3>10. \A e \in Fds : V!InUse(e)' <=> e = d
      BY <1>9, <3>2, <3>4 DEF V!InUse, V!Null
    <3>11. job' # NoJob
      BY <3>8, NamesArePaths
    <3> QED BY <3>8, <3>9, <3>10, <3>11 DEF OneDescriptor, NoJob, Job
  <2> QED BY <2>1, <2>2
<1> QED BY <1>6, <1>7, <1>8, <1>10 DEF ShInv

LEMMA ShStep == ShInv /\ [ShNext]_shVars => ShInv'
<1>1. SUFFICES ASSUME ShInv, [ShNext]_shVars PROVE ShInv'
  OBVIOUS
<1>2. CASE UNCHANGED shVars
  <2>1. UNCHANGED fileVars /\ UNCHANGED shellVars
    BY <1>2 DEF shVars
  <2>2. UNCHANGED << cwd, cwdNode, job, bootStep, fds >>
    BY <2>1 DEF fileVars, shellVars
  <2>3. VfsCall
    BY <2>1, Called
  <2>4. CASE V!Booted
    BY <1>1, <2>1, <2>2, <2>3, <2>4, SameDescriptors
  <2>5. CASE ~V!Booted
    <3>1. VP!VfsInv'
      BY <1>1, <2>3, CallKeeps DEF ShInv
    <3>2. job = NoJob /\ cwdNode = V!Null
      BY <1>1, <2>5 DEF ShInv, Started
    <3>3. Somewhere' /\ Started'
      BY <1>1, <2>2, <3>2 DEF ShInv, Somewhere, Started, NoJob, V!Null
    <3>4. \A d \in Fds : V!InUse(d)' <=> V!InUse(d)
      BY <2>2 DEF V!InUse, V!Null
    <3>5. OneDescriptor'
      BY <1>1, <2>2, <3>2, <3>4 DEF ShInv, OneDescriptor, NoJob, Job
    <3> QED BY <3>1, <3>3, <3>5 DEF ShInv
  <2> QED BY <2>4, <2>5
<1> QED
  BY <1>1, <1>2, ShBootKeeps, MkdirKeeps, OpenKeeps, ReadOnKeeps, EndKeeps DEF ShNext

LEMMA ShInvariant == ShSpec => []ShInv
BY ShInitEstablishes, ShStep, PTL DEF ShSpec

\* What the shell promises follows.
LEMMA ShTypesFollow == ShInv => ShTypeOK
<1>1. SUFFICES ASSUME ShInv PROVE ShTypeOK
  OBVIOUS
<1>2. V!TypeOK
  BY <1>1, VfsLegal, VP!TypesFollow, SameType DEF ShInv
<1>3. cwdNode \in V!Node \cup {V!Null}
  <2>1. VP!Live \subseteq VP!Node
    BY <1>1, VfsLegal, VP!LiveNodes DEF ShInv, VP!VfsInv, VP!TreeInv
  <2>2. CASE cwdNode # V!Null
    <3>1. cwd \in Seq(VP!Component) /\ VP!Resolve(cwd) = cwdNode
      BY <1>1, <2>2, SameNames, SameResolve, NamesArePaths DEF ShInv, Somewhere
    <3>2. cwdNode \in VP!Live \cup {VP!Null}
      BY <1>1, <3>1, VfsLegal, VP!ResolveLive DEF ShInv, VP!VfsInv
    <3> QED BY <2>1, <3>2, SameNames DEF V!Node, VP!Node, V!Ram, VP!Ram, V!RamNode, VP!RamNode
  <2> QED BY <2>2
<1>4. job = NoJob \/ (job.fd \in Fds /\ V!InUse(job.fd))
  BY <1>1, NamesArePaths DEF ShInv, OneDescriptor
<1> QED BY <1>1, <1>2, <1>3, <1>4 DEF ShTypeOK, ShInv, Somewhere

LEMMA RootResolves == ASSUME ShInv, V!Booted PROVE V!Resolve(<<>>) # V!Null
<1>1. bootStep > 1
  <2>1. Len(BootScript) \in Nat \ {0}
    BY ShellAssumption
  <2>2. bootStep \in Nat /\ bootStep > Len(BootScript)
    BY DEF ShInv, VP!VfsInv, VP!TreeInv, VP!TreeTypes, V!Booted
  <2> QED BY <2>1, <2>2
<1>2. fsRoot = << VP!Ram, 1 >>
  BY <1>1 DEF ShInv, VP!VfsInv, VP!TreeInv, VP!RootFirst
<1>3. fsRoot # VP!Null
  BY <1>2 DEF VP!Null, VP!Ram
<1>4. <<>> \in Seq(VP!Component) /\ Len(<<>>) = 0
  OBVIOUS
<1>5. PICK f : /\ VP!WalksTo(f, <<>>, 0)
               /\ VP!Resolve(<<>>) = IF f[0] = {} THEN VP!Null
                                     ELSE CHOOSE n \in f[0] : TRUE
  <2>1. PICK path \in Seq(VP!Component) : path = <<>> /\ Len(path) = 0
    BY <1>4
  <2>2. \E f : /\ VP!WalksTo(f, path, Len(path))
               /\ VP!Resolve(path) = IF f[Len(path)] = {} THEN VP!Null
                                     ELSE CHOOSE n \in f[Len(path)] : TRUE
    BY VfsLegal, VP!ResolveWalks
  <2> QED BY <2>1, <2>2
<1>6. f[0] = {fsRoot}
  BY <1>3, <1>5 DEF VP!WalksTo
<1> QED BY <1>3, <1>5, <1>6, SameNames, SameResolve

LEMMA PromptFollows == ShInv => PromptIsSound
<1>1. SUFFICES ASSUME ShInv, Prompted PROVE PromptIsSound
  BY DEF PromptIsSound
<1>2. V!Resolve(cwd) # V!Null
  <2>1. CASE cwdNode = V!Null
    <3>1. cwd = <<>>
      BY <1>1, <2>1 DEF ShInv, Somewhere
    <3> QED BY <1>1, <3>1, RootResolves DEF Prompted
  <2>2. CASE cwdNode # V!Null
    BY <1>1, <2>2 DEF ShInv, Somewhere
  <2> QED BY <2>1, <2>2
<1>3. \A k \in 0 .. Len(cwd) : V!Resolve(SubSeq(cwd, 1, k)) # V!Null
  <2>1. cwd \in Seq(VP!Component) /\ VP!Resolve(cwd) # VP!Null
    BY <1>1, <1>2, SameNames, SameResolve, NamesArePaths DEF ShInv, Somewhere
  <2>2. VP!TreeInv
    BY <1>1 DEF ShInv, VP!VfsInv
  <2>3. \A k \in 0 .. Len(cwd) : VP!Resolve(SubSeq(cwd, 1, k)) # VP!Null
    BY <2>1, <2>2, VfsLegal, VP!PrefixResolves
  <2> QED BY <2>3, SameNames, SameResolve
<1>4. V!FreeFds = Fds
  BY <1>1 DEF Prompted, ShInv, OneDescriptor, V!FreeFds
<1> QED BY <1>1, <1>3, <1>4 DEF PromptIsSound, ShInv, Somewhere

\* The types of the shell's state and of the file systems below it.
THEOREM ShellTypeCorrect == ShSpec => []ShTypeOK
BY ShInvariant, ShTypesFollow, PTL

\* At every prompt the current directory leads to the node `cd` opened, every
\* path on the way there resolves, and no descriptor was left open.
THEOREM PromptSound == ShSpec => []PromptIsSound
BY ShInvariant, PromptFollows, PTL

\* Whatever the shell does is a behaviour of Vfs in which callers use any
\* path: what is proved of vfs.c holds below the shell.
THEOREM ShellUsesVfs == ShSpec => VP!Spec
<1>1. ShInit => VP!Init
  BY SameInit DEF ShInit
<1>2. ShInv /\ [ShNext]_shVars => [VP!Next]_(VP!vars)
  <2>1. SUFFICES ASSUME ShInv, [ShNext]_shVars PROVE VfsCall
    BY DEF VfsCall
  <2>2. \A arg \in Arguments : ResolvePath(arg) \in Seq(V!Component)
    BY <2>1, ResolvedPath, NamesArePaths DEF ShInv, Somewhere
  <2>3. CASE ShBoot
    BY <2>3, Called DEF ShBoot
  <2>4. ASSUME NEW arg \in Arguments, MkdirCommand(arg) PROVE VfsCall
    BY <2>2, <2>4, Called DEF MkdirCommand
  <2>5. ASSUME NEW arg \in Arguments, NEW what, OpenCommand(what, arg) PROVE VfsCall
    BY <2>2, <2>5, Called DEF OpenCommand, OpenPath
  <2>6. CASE ListEntry \/ DumpText \/ EndCommand
    <3>1. job # NoJob
      BY <2>6 DEF ListEntry, DumpText, EndCommand, MoreToList, MoreToRead, NoJob
    <3>2. job.fd \in Fds
      BY <2>1, <3>1, NamesArePaths DEF ShInv, OneDescriptor
    <3> QED BY <2>6, <3>2, Called DEF ListEntry, DumpText, EndCommand
  <2>7. CASE UNCHANGED shVars
    BY <2>7, Called DEF shVars
  <2> QED BY <2>1, <2>3, <2>4, <2>5, <2>6, <2>7 DEF ShNext
<1> QED BY <1>1, <1>2, ShInvariant, PTL DEF ShSpec, VP!Spec

-----------------------------------------------------------------------------
(* The timer.                                                              *)

LEMMA TmStep == TmTypeOK /\ [TmNext]_tmVars => TmTypeOK'
<1>1. SUFFICES ASSUME TmTypeOK, [TmNext]_tmVars PROVE TmTypeOK'
  OBVIOUS
<1>2. ASSUME NEW hz \in Frequencies, PitInit(hz) PROVE TmTypeOK'
  <2> DEFINE hertz == IF hz = 0 \/ hz > PitBase THEN DefaultHz ELSE hz
             wide == PitBase \div hertz
             least == PitBase \div DivisorMax
  <2>1. hertz \in Nat \ {0} /\ PitBase \in Nat /\ DivisorMax \in Nat \ {0}
    BY TimerAssumption
  <2>2. wide \in Nat /\ least \in Nat
    BY <2>1, Quotient
  <2>3. /\ divisor' = IF wide > DivisorMax THEN DivisorMax ELSE wide
        /\ frequency' = IF wide > DivisorMax THEN least ELSE hertz
        /\ UNCHANGED << ticks, sleeper, target, sleeps >>
    BY <1>2 DEF PitInit
  <2> HIDE DEF hertz, wide, least
  <2>4. divisor' \in 0 .. DivisorMax /\ frequency' \in Nat
    BY <2>1, <2>2, <2>3
  <2> QED BY <1>1, <2>3, <2>4 DEF TmTypeOK
<1>3. ASSUME NEW ms \in Sleeps, TimerSleep(ms) PROVE TmTypeOK'
  <2>1. ms \in Nat /\ frequency \in Nat /\ SecondMs \in Nat /\ SecondMs > 0
    BY <1>1, TimerAssumption DEF TmTypeOK
  <2>2. ms * frequency \in Nat
    BY <2>1, Product
  <2>3. TicksOf(ms) \in Nat
    BY <2>1, <2>2, Quotient DEF TicksOf
  <2> QED BY <1>1, <1>3, <2>3, TimerAssumption DEF TmTypeOK, TimerSleep
<1>4. ASSUME TestTicks \/ Halt \/ TimerIrq \/ OtherIrq PROVE TmTypeOK'
  BY <1>1, <1>4, TimerAssumption DEF TmTypeOK, TestTicks, Halt, TimerIrq, OtherIrq, Woken
<1>5. CASE UNCHANGED tmVars
  BY <1>1, <1>5 DEF TmTypeOK, tmVars
<1> QED BY <1>1, <1>2, <1>3, <1>4, <1>5 DEF TmNext

LEMMA TmInitial == TmInit => TmTypeOK
BY TimerAssumption DEF TmInit, TmTypeOK

\* Types of Timer: the divisor fits the PIT and the bounds are kept.
THEOREM TimerTypeCorrect == TmSpec => []TmTypeOK
<1> QED BY TmInitial, TmStep, PTL DEF TmSpec

-----------------------------------------------------------------------------
(* ACPI: a machine that declares its soft-off types is told them, and      *)
(* nothing else.  The argument follows the code: until the types are        *)
(* written nothing was asked of PM1, guesses are made only without a        *)
(* package, and when PM1a's type was written and the machine is still on    *)
(* there is a PM1b, whose type turns it off.                                *)

Reg == {"a", "b"}
SoftOff(reg) == machine.types["S5"][reg]
Declares == HasFadt /\ Packages # {}

\* Nothing is asked before the sleep types are written.
AskedLate ==
  /\ pc \notin {"s5b", "guessA", "guessB", "apm", "halted"} => asked = {}
  /\ pc \in {"boot", "madt", "idle"} => power = "on" /\ command = "none"

AsDeclared ==
  /\ pc \notin {"guessA", "guessB", "apm"}
  /\ asked \subseteq { << r, SoftOff(r) >> : r \in Reg }
  /\ power # "asleep"
  /\ pc = "s5b" /\ Fadt.pm1["a"] =>
       << "a", SoftOff("a") >> \in asked /\ (power = "on" => Fadt.pm1["b"])
  /\ pc = "halted" /\ command = "shutdown" /\ (\E r \in Reg : Fadt.pm1[r]) => power = "off"

\* The FADT is used where there is one.
FadtUsed ==
  /\ pc \in {"enable", "port604", "portB004", "dsdt"} => HasFadt
  /\ pc \in {"s5a", "s5b"} => Declares

Resets == {"resetRegister", "pulse", "cf9", "tripleFault"}
RebootOnly == pc \in Resets => command = "reboot"

AcInv == AcTypeOK /\ AskedLate /\ FadtUsed /\ RebootOnly /\ (Declares => AsDeclared)

LEMMA LeastIn == ASSUME NEW S \in SUBSET Nat, S # {} PROVE Min(S) \in S
<1>1. PICK m \in S : \A k \in S : m <= k
  BY VP!Least, VfsLegal
<1> QED BY <1>1 DEF Min

LEMMA TablesGood ==
  ASSUME AcTypeOK
  PROVE  /\ MachineOK(machine)
         /\ DOMAIN Tables \subseteq Nat /\ \A i \in DOMAIN Tables : TableOK(machine, Tables[i])
<1>1. MachineOK(machine) /\ root \in {"none", "xsdt", "rsdt"}
  BY AcpiAssumption DEF AcTypeOK
<1>2. CASE root = "none"
  <2>1. Tables = << >>
    BY <1>2 DEF Tables
  <2> QED BY <1>1, <2>1
<1>3. CASE root = "xsdt"
  BY <1>1, <1>3 DEF Tables, MachineOK
<1>4. CASE root = "rsdt"
  BY <1>1, <1>4 DEF Tables, MachineOK
<1> QED BY <1>1, <1>2, <1>3, <1>4

LEMMA TableFound ==
  ASSUME AcTypeOK, NEW sig, Found(sig) # {}
  PROVE  \E t : t.sig = sig /\ t.body = Body(sig) /\ TableOK(machine, t)
<1>1. Found(sig) \in SUBSET Nat
  BY TablesGood DEF Found
<1>2. Min(Found(sig)) \in Found(sig)
  BY <1>1, LeastIn
<1> QED BY <1>2, TablesGood DEF Found, Body

\* What the scan of the DSDT gives is what turns the machine off.
LEMMA DeclaredIs ==
  ASSUME AcTypeOK, Declares, NEW reg \in Reg
  PROVE  Declared(reg) = SoftOff(reg) /\ SoftOff(reg) \in 0 .. 7
<1>1. PICK t : t.sig = "FACP" /\ t.body = Fadt /\ TableOK(machine, t)
  BY TableFound DEF Declares, HasFadt, Fadt
<1>2. Packages \in SUBSET Nat
  BY <1>1 DEF Packages, TableOK
<1>3. Min(Packages) \in Packages
  BY <1>2, LeastIn DEF Declares
<1>4. LET s == Fadt.dsdt[Min(Packages)]
      IN Value(s.a) = SoftOff("a") /\ Value(s.b) = SoftOff("b")
  BY <1>1, <1>3 DEF Packages, TableOK, SoftOff
<1>5. SoftOff(reg) \in 0 .. 7
  BY TablesGood DEF MachineOK, Reg, SoftOff
<1> QED BY <1>4, <1>5 DEF Declared, Reg

LEMMA AcInitial == AcInit => AcInv
<1>1. SUFFICES ASSUME AcInit PROVE AcInv
  OBVIOUS
<1>2. AcTypeOK
  <2>1. << >> \in Seq(Nat) /\ Len(<< >>) = 0 /\ MaxIds \in Nat
    BY AcpiAssumption
  <2>2. apicIds = << >> /\ apicCount = 0 /\ tries = 0 /\ asked = {}
    BY <1>1 DEF AcInit
  <2>3. apicIds \in Seq(Nat) /\ Len(apicIds) <= MaxIds /\ apicCount >= Len(apicIds)
    BY <2>1, <2>2
  <2>4. asked \subseteq {"a", "b"} \X (0 .. 7) /\ tries \in Nat
    BY <2>2
  <2>5. /\ machine \in Machines /\ root = "none" /\ enabled = FALSE /\ command = "none"
        /\ power = "on"
    BY <1>1 DEF AcInit
  <2> QED BY <2>3, <2>4, <2>5 DEF AcTypeOK
<1>3. AskedLate /\ AsDeclared /\ FadtUsed /\ RebootOnly
  BY <1>1 DEF AcInit, AskedLate, AsDeclared, FadtUsed, RebootOnly, Resets
<1> QED BY <1>2, <1>3 DEF AcInv

\* acpi_parse_madt.
CpuLists == { c \in [ids : Seq(Nat), count : Nat] :
              Len(c.ids) <= MaxIds /\ Len(c.ids) <= c.count }

LEMMA CountedTypes ==
  ASSUME NEW c \in CpuLists, NEW e \in [type : STRING, on : BOOLEAN, id : Nat]
  PROVE  Counted(c, e) \in CpuLists
<1>1. MaxIds \in Nat /\ c.ids \in Seq(Nat) /\ Len(c.ids) \in Nat /\ c.count \in Nat
      /\ Len(c.ids) <= MaxIds /\ Len(c.ids) <= c.count /\ e.id \in Nat
  BY AcpiAssumption DEF CpuLists
<1>2. Append(c.ids, e.id) \in Seq(Nat) /\ Len(Append(c.ids, e.id)) = Len(c.ids) + 1
  BY <1>1
<1> DEFINE ids == IF c.count < MaxIds THEN Append(c.ids, e.id) ELSE c.ids
<1>3. ids \in Seq(Nat) /\ Len(ids) <= MaxIds /\ Len(ids) <= c.count + 1
  BY <1>1, <1>2
<1>4. [ids |-> ids, count |-> c.count + 1] \in CpuLists
  <2> HIDE DEF ids
  <2> QED BY <1>1, <1>3 DEF CpuLists
<1> QED BY <1>4 DEF Counted

LEMMA MadtListed ==
  ASSUME AcTypeOK, ParseMadt
  PROVE  apicIds' \in Seq(Nat) /\ Len(apicIds') <= MaxIds /\ apicCount' >= Len(apicIds')
<1> DEFINE E == [type : STRING, on : BOOLEAN, id : Nat]
           found == IF Found("APIC") = {} THEN << >> ELSE Body("APIC")
           n == Len(found)
           a == [ids |-> << >>, count |-> 0]
           Run(f) == f = [k \in 0 .. n |-> IF k = 0 THEN a ELSE Counted(f[k - 1], found[k])]
           cpus == CHOOSE f : Run(f)
           turn == [p \in (1 .. n) \X CpuLists |-> Counted(p[2], found[p[1]])]
<1>1. found \in Seq(E)
  <2>1. CASE Found("APIC") = {}
    BY <2>1
  <2>2. CASE Found("APIC") # {}
    <3>1. PICK t : t.sig = "APIC" /\ t.body = Body("APIC") /\ TableOK(machine, t)
      BY <2>2, TableFound
    <3> QED BY <2>2, <3>1 DEF TableOK
  <2> QED BY <2>1, <2>2
<1>2. apicIds' = cpus[n].ids /\ apicCount' = cpus[n].count
  BY DEF ParseMadt
<1> HIDE DEF found
<1>3. n \in Nat /\ \A k \in 1 .. n : found[k] \in E
  <2> HIDE DEF E
  <2> QED BY <1>1
<1>4. a \in CpuLists
  BY AcpiAssumption DEF CpuLists
<1>5. \A k \in 1 .. n, c \in CpuLists :
        Counted(c, found[k]) \in CpuLists /\ turn[<< k, c >>] = Counted(c, found[k])
  BY <1>3, CountedTypes
<1>6. turn \in [(1 .. n) \X CpuLists -> CpuLists]
  BY <1>5
<1> HIDE DEF n, a, turn
<1>7. PICK f \in [0 .. n -> CpuLists] :
        f[0] = a /\ \A k \in 1 .. n : f[k] = turn[<< k, f[k - 1] >>]
  <2>1. LoopEnds(n, CpuLists, a, turn)
    BY <1>3, <1>4, <1>6, LoopRuns
  <2> QED BY <2>1 DEF LoopEnds
<1>8. Run(f)
  <2>1. \A k \in 0 .. n : k # 0 => k \in 1 .. n /\ k - 1 \in 0 .. n
    BY <1>3
  <2>2. \A k \in 0 .. n : k # 0 => turn[<< k, f[k - 1] >>] = Counted(f[k - 1], found[k])
    BY <1>5, <1>7, <2>1
  <2>3. \A k \in 0 .. n : f[k] = IF k = 0 THEN a ELSE Counted(f[k - 1], found[k])
    BY <1>7, <2>1, <2>2
  <2>4. f = [k \in 0 .. n |-> f[k]]
    BY <1>7
  <2> QED BY <2>3, <2>4
<1>9. Run(cpus)
  BY <1>8
<1> HIDE DEF cpus
<1> DEFINE T == { k \in 0 .. n : cpus[k] \in CpuLists }
<1>10. 0 \in T
  BY <1>3, <1>4, <1>9
<1>11. ASSUME NEW k \in 0 .. n - 1, k \in T PROVE k + 1 \in T
  <2>1. k + 1 \in 0 .. n /\ k + 1 \in 1 .. n /\ k + 1 # 0 /\ (k + 1) - 1 = k
    BY <1>3
  <2>2. cpus[k + 1] = Counted(cpus[k], found[k + 1])
    BY <1>9, <2>1
  <2> QED BY <1>5, <1>11, <2>1, <2>2
<1> HIDE DEF T
<1>12. n \in T
  BY <1>3, <1>10, <1>11, EachTurn
<1>13. cpus[n] \in CpuLists
  BY <1>12 DEF T
<1> QED BY <1>2, <1>13 DEF CpuLists

\* The machine does not change, and its tables stay where they were found.
LEMMA SameMachine ==
  ASSUME UNCHANGED << machine, root >>
  PROVE  /\ Fadt' = Fadt /\ HasFadt' = HasFadt /\ Packages' = Packages
         /\ Declares' = Declares /\ \A r \in Reg : SoftOff(r)' = SoftOff(r)
<1>1. machine' = machine /\ root' = root
  OBVIOUS
<1>2. Tables' = Tables
  BY <1>1 DEF Tables
<1>3. Found("FACP")' = Found("FACP")
  BY <1>2 DEF Found
<1>4. HasFadt' = HasFadt
  BY <1>3 DEF HasFadt
<1>5. Fadt' = Fadt
  BY <1>2, <1>3 DEF Fadt, Body
<1>6. Packages' = Packages
  BY <1>5 DEF Packages
<1>7. \A r \in Reg : SoftOff(r)' = SoftOff(r)
  BY <1>1 DEF SoftOff
<1> QED BY <1>4, <1>5, <1>6, <1>7 DEF Declares

\* Steps that leave the tables, and what was asked, alone.
LEMMA QuietStep ==
  ASSUME AcInv, UNCHANGED << machine, root, apicIds, apicCount, asked >>,
         enabled' \in BOOLEAN, command' \in {"none", "shutdown", "reboot"}, tries' \in Nat,
         power' \in {"off", "reset"} \/ power' = power,
         pc' \notin {"boot", "madt", "idle", "s5b"},
         pc' \notin {"guessA", "guessB", "apm", "halted"} => asked = {},
         Declares => /\ pc' \notin {"guessA", "guessB", "apm"}
                     /\ pc' = "halted" => command' # "shutdown",
         pc' \in {"enable", "port604", "portB004", "dsdt"} => HasFadt,
         pc' # "s5a" \/ Declares, pc' \in Resets => command' = "reboot"
  PROVE  AcInv'
<1>1. AcTypeOK'
  BY DEF AcInv, AcTypeOK
<1>2. AskedLate'
  BY DEF AskedLate
<1>3. /\ Declares' = Declares /\ HasFadt' = HasFadt
      /\ \A r \in Reg : SoftOff(r)' = SoftOff(r)
  BY SameMachine
<1>4. FadtUsed' /\ RebootOnly'
  BY <1>3 DEF FadtUsed, RebootOnly, Resets
<1>5. ASSUME Declares PROVE AsDeclared'
  <2>1. asked' = asked /\ asked \subseteq { << r, SoftOff(r) >> : r \in Reg } /\ power # "asleep"
    BY <1>5 DEF AcInv, AsDeclared
  <2>2. asked' \subseteq { << r, SoftOff(r)' >> : r \in Reg }
    BY <1>3, <2>1
  <2> QED BY <1>5, <2>1, <2>2 DEF AsDeclared
<1> QED BY <1>1, <1>2, <1>3, <1>5, <1>4 DEF AcInv

Tried(from, result, to) ==
  /\ pc = from /\ pc' = to /\ tries' = 0
  /\ UNCHANGED << machine, root, apicIds, apicCount, asked >>
  /\ enabled' = enabled /\ command' = command
  /\ power' \in {result, power}

LEMMA AttemptStep ==
  ASSUME AcInv, NEW from, NEW result \in {"off", "reset"}, NEW to,
         Tried(from, result, to), from \notin {"s5b", "guessA", "guessB", "halted"},
         to \notin {"boot", "madt", "idle", "s5a", "s5b", "guessA", "guessB", "apm"},
         to \in {"portB004", "dsdt"} => from \in {"port604", "portB004"},
         to \notin {"enable", "port604"},
         from = "apm" => to = "halted",
         to \in Resets \/ (to = "halted" /\ from # "apm") => from \in Resets
  PROVE  AcInv'
<1>1. /\ pc = from /\ pc' = to /\ tries' = 0
      /\ UNCHANGED << machine, root, apicIds, apicCount, asked >>
      /\ enabled' = enabled /\ command' = command
      /\ power' \in {result, power}
  BY DEF Tried
<1>2. Declares => from # "apm"
  BY <1>1 DEF AcInv, AsDeclared
<1>3. from # "apm" => asked = {}
  BY <1>1 DEF AcInv, AskedLate
<1>4. enabled \in BOOLEAN /\ command \in {"none", "shutdown", "reboot"}
  BY DEF AcInv, AcTypeOK
<1>5. to \in {"portB004", "dsdt"} => HasFadt
  BY <1>1 DEF AcInv, FadtUsed
<1>6. from \in Resets => command = "reboot"
  BY <1>1 DEF AcInv, RebootOnly
<1> QED BY <1>1, <1>2, <1>3, <1>4, <1>5, <1>6, QuietStep

LEMMA Pm1Types ==
  ASSUME AcTypeOK, NEW reg \in Reg, NEW v \in Nat, WritePm1(reg, v)
  PROVE  /\ asked' \subseteq {"a", "b"} \X (0 .. 7)
         /\ power' \in {"on", "off", "asleep", "reset"}
<1>1. v % 8 \in 0 .. 7
  OBVIOUS
<1>2. asked \subseteq {"a", "b"} \X (0 .. 7) /\ power \in {"on", "off", "asleep", "reset"}
  BY DEF AcTypeOK
<1>3. << reg, v % 8 >> \in {"a", "b"} \X (0 .. 7)
  BY <1>1 DEF Reg
<1>4. asked' = asked \cup {<< reg, v % 8 >>} \/ asked' = asked
  BY DEF WritePm1
<1>5. power' \in {"off", "asleep", power}
  BY DEF WritePm1
<1> QED BY <1>2, <1>3, <1>4, <1>5

LEMMA GuessStep ==
  ASSUME AcInv, NEW reg \in Reg, NEW here \in {"guessA", "guessB"},
         NEW next \in {"guessB", "apm"}, Guess(reg, here, next)
  PROVE  AcInv'
<1>1. AcTypeOK /\ pc = here /\ UNCHANGED << machine, root, apicIds, apicCount, enabled, command >>
  BY DEF AcInv, Guess, fixed
<1>2. ~ Declares
  BY <1>1 DEF AcInv, AsDeclared
<1>3. ~ Declares'
  BY <1>1, <1>2, SameMachine
<1>4. pc' \in {"guessA", "guessB", "apm"} /\ tries' \in Nat
  <2>1. tries \in Nat
    BY <1>1 DEF AcTypeOK
  <2>2. (tries' = tries + 1 /\ pc' = pc) \/ (pc' = next /\ tries' = 0)
    BY DEF Guess, Goto
  <2>3. tries' \in Nat
    BY <2>1, <2>2
  <2>4. pc' = here \/ pc' = next
    BY <1>1, <2>2
  <2> QED BY <2>3, <2>4
<1>5. /\ asked' \subseteq {"a", "b"} \X (0 .. 7)
      /\ power' \in {"on", "off", "asleep", "reset"}
  <2>1. CASE Fadt.pm1[reg] /\ tries < Len(Guesses)
    <3>1. tries \in Nat /\ Guesses \in Seq(Nat)
      BY <1>1, AcpiAssumption DEF AcTypeOK
    <3>2. tries < Len(Guesses)
      BY <2>1, Zenon
    <3>3. tries + 1 \in 1 .. Len(Guesses)
      BY <3>1, <3>2
    <3>4. Guesses[tries + 1] \in Nat
      BY <3>1, <3>3, ElementOfSeq
    <3>5. WritePm1(reg, Guesses[tries + 1])
      BY <2>1 DEF Guess
    <3> QED BY <1>1, <3>4, <3>5, Pm1Types
  <2>2. CASE ~ (Fadt.pm1[reg] /\ tries < Len(Guesses))
    <3>1. UNCHANGED << asked, power >>
      BY <2>2 DEF Guess
    <3> QED BY <1>1, <3>1 DEF AcTypeOK
  <2> QED BY <2>1, <2>2
<1>6. AcTypeOK'
  BY <1>1, <1>4, <1>5 DEF AcTypeOK
<1>7. AskedLate' /\ FadtUsed' /\ RebootOnly'
  BY <1>4 DEF AskedLate, FadtUsed, RebootOnly, Resets
<1> QED BY <1>3, <1>6, <1>7 DEF AcInv

LEMMA WriteS5Step == ASSUME AcInv, WriteS5 PROVE AcInv'
<1>1. PICK reg \in Reg :
        /\ pc = IF reg = "a" THEN "s5a" ELSE "s5b"
        /\ pc' = IF reg = "a" THEN "s5b" ELSE "halted"
        /\ WritePm1(reg, Declared(reg)) /\ tries' = 0
  BY DEF WriteS5, Goto, Reg
<1>2. AcTypeOK /\ power = "on" /\ UNCHANGED << machine, root, apicIds, apicCount, enabled, command >>
  BY DEF AcInv, WriteS5, fixed
<1>3. Declares' = Declares /\ Fadt' = Fadt /\ \A r \in Reg : SoftOff(r)' = SoftOff(r)
  BY <1>2, SameMachine
<1>4. AskedLate'
  BY <1>1 DEF AskedLate
<1>5. Declares /\ AsDeclared
  BY <1>1 DEF AcInv, FadtUsed, Reg
<1>6. FadtUsed' /\ RebootOnly'
  BY <1>1, <1>3, <1>5 DEF FadtUsed, RebootOnly, Resets
<1>7. Declared(reg) = SoftOff(reg) /\ SoftOff(reg) \in 0 .. 7
  BY <1>2, <1>5, DeclaredIs
<1>8. AcTypeOK'
  <2>1. /\ asked' \subseteq {"a", "b"} \X (0 .. 7)
        /\ power' \in {"on", "off", "asleep", "reset"}
    BY <1>1, <1>2, <1>7, Pm1Types
  <2> QED BY <1>1, <1>2, <2>1 DEF AcTypeOK
<1>9. SoftOff(reg) % 8 = SoftOff(reg)
  BY <1>7
<1>10. /\ asked' = IF Fadt.pm1[reg] THEN asked \cup {<< reg, SoftOff(reg) >>} ELSE asked
       /\ power' = IF Told(reg, SoftOff(reg), "S5") THEN "off"
                   ELSE IF Told(reg, SoftOff(reg), "S3") THEN "asleep" ELSE power
  BY <1>1, <1>7, <1>9 DEF WritePm1
<1>11. asked' \subseteq { << r, SoftOff(r) >> : r \in Reg }
  BY <1>5, <1>10 DEF AsDeclared
<1>12. \A v, state : Told(reg, v, state) =>
         /\ Fadt.pm1[reg]
         /\ \A r \in Reg : r # reg /\ Fadt.pm1[r] => << r, machine.types[state][r] >> \in asked
  BY DEF Told, Reg
<1>13. /\ Fadt.pm1[reg]
       /\ \A r \in Reg : r # reg /\ Fadt.pm1[r] => << r, SoftOff(r) >> \in asked
       => Told(reg, SoftOff(reg), "S5")
  BY <1>9 DEF Told, Reg, SoftOff
<1>14. CASE reg = "a"
  <2>1. asked = {}
    BY <1>1, <1>14 DEF AcInv, AskedLate
  <2>2. power' \in {"on", "off"} /\ (Fadt.pm1["a"] /\ power' = "on" => Fadt.pm1["b"])
    <3>1. CASE ~ Fadt.pm1["a"]
      BY <1>2, <1>10, <1>12, <1>14, <3>1
    <3>2. CASE Fadt.pm1["a"] /\ Fadt.pm1["b"]
      <4>1. \A v, state : ~ Told(reg, v, state)
        BY <1>12, <1>14, <2>1, <3>2 DEF Reg
      <4> QED BY <1>2, <1>10, <3>2, <4>1
    <3>3. CASE Fadt.pm1["a"] /\ ~ Fadt.pm1["b"]
      <4>1. Told(reg, SoftOff(reg), "S5")
        BY <1>13, <1>14, <3>3 DEF Reg
      <4> QED BY <1>10, <4>1
    <3> QED BY <3>1, <3>2, <3>3
  <2>3. Fadt.pm1["a"] => << "a", SoftOff("a") >> \in asked'
    BY <1>10, <1>14
  <2>4. pc' = "s5b"
    BY <1>1, <1>14
  <2>5. AsDeclared'
    BY <1>3, <1>11, <2>2, <2>3, <2>4 DEF AsDeclared, Reg
  <2> QED BY <1>4, <1>6, <1>8, <2>5 DEF AcInv
<1>15. CASE reg = "b"
  <2>1. Fadt.pm1["a"] => << "a", SoftOff("a") >> \in asked /\ Fadt.pm1["b"]
    BY <1>1, <1>2, <1>5, <1>15 DEF AsDeclared
  <2>2. power' \in {"on", "off"} /\ ((\E r \in Reg : Fadt.pm1[r]) => power' = "off")
    <3>1. CASE ~ Fadt.pm1["b"]
      BY <1>2, <1>10, <1>12, <1>15, <2>1, <3>1 DEF Reg
    <3>2. CASE Fadt.pm1["b"]
      <4>1. Told(reg, SoftOff(reg), "S5")
        BY <1>13, <1>15, <2>1, <3>2 DEF Reg
      <4> QED BY <1>10, <4>1
    <3> QED BY <3>1, <3>2
  <2>3. pc' = "halted"
    BY <1>1, <1>15
  <2>4. AsDeclared'
    BY <1>3, <1>11, <2>2, <2>3 DEF AsDeclared, Reg
  <2> QED BY <1>4, <1>6, <1>8, <2>4 DEF AcInv
<1> QED BY <1>14, <1>15 DEF Reg

LEMMA AcStep == AcInv /\ [AcNext]_acVars => AcInv'
<1>1. SUFFICES ASSUME AcInv, [AcNext]_acVars PROVE AcInv'
  OBVIOUS
<1>2. /\ AcTypeOK /\ enabled \in BOOLEAN /\ command \in {"none", "shutdown", "reboot"}
      /\ tries \in Nat
  BY <1>1 DEF AcInv, AcTypeOK
<1>3. CASE AcpiInit
  <2>1. /\ pc = "boot" /\ pc' = "madt" /\ root' \in {"none", "xsdt", "rsdt"}
        /\ UNCHANGED << machine, enabled, apicIds, apicCount, command, tries, asked, power >>
    BY <1>3 DEF AcpiInit
  <2>2. asked = {} /\ power = "on" /\ command = "none"
    BY <1>1, <2>1 DEF AcInv, AskedLate
  <2>3. AcTypeOK'
    BY <1>2, <2>1 DEF AcTypeOK
  <2>4. AskedLate' /\ AsDeclared' /\ FadtUsed' /\ RebootOnly'
    BY <2>1, <2>2 DEF AskedLate, AsDeclared, FadtUsed, RebootOnly, Resets
  <2> QED BY <2>3, <2>4 DEF AcInv
<1>4. CASE ParseMadt
  <2>1. /\ pc = "madt" /\ pc' = "idle"
        /\ UNCHANGED << machine, root, enabled, command, tries, asked, power >>
    BY <1>4 DEF ParseMadt
  <2>2. asked = {} /\ power = "on" /\ command = "none"
    BY <1>1, <2>1 DEF AcInv, AskedLate
  <2>3. AcTypeOK'
    BY <1>2, <1>4, <2>1, MadtListed DEF AcTypeOK
  <2>4. AskedLate' /\ AsDeclared' /\ FadtUsed' /\ RebootOnly'
    BY <2>1, <2>2 DEF AskedLate, AsDeclared, FadtUsed, RebootOnly, Resets
  <2> QED BY <2>3, <2>4 DEF AcInv
<1>5. CASE AcpiShutdown
  <2>1. /\ pc = "idle" /\ command' = "shutdown" /\ tries' = 0
        /\ UNCHANGED << machine, root, apicIds, apicCount, asked, power >>
        /\ enabled' \in BOOLEAN
        /\ IF HasFadt THEN pc' \in {"port604", "enable"} ELSE pc' = "halted"
    BY <1>2, <1>5 DEF AcpiShutdown, Goto, fixed
  <2>2. asked = {}
    BY <1>1, <2>1 DEF AcInv, AskedLate
  <2>3. Declares => HasFadt
    BY DEF Declares
  <2> QED BY <1>1, <2>1, <2>2, <2>3, QuietStep DEF Resets
<1>6. CASE AcpiReboot
  <2>1. /\ pc = "idle" /\ command' = "reboot" /\ tries' = 0
        /\ UNCHANGED << machine, root, apicIds, apicCount, enabled, asked, power >>
        /\ pc' \in {"resetRegister", "pulse"}
    BY <1>6 DEF AcpiReboot, Goto, fixed
  <2>2. asked = {}
    BY <1>1, <2>1 DEF AcInv, AskedLate
  <2> QED BY <1>1, <1>2, <2>1, <2>2, QuietStep DEF Resets
<1>7. CASE EnablePoll
  <2>1. /\ pc = "enable" /\ pc' \in {"port604", "enable"} /\ enabled' \in BOOLEAN
        /\ UNCHANGED << machine, root, apicIds, apicCount, command, asked, power >>
        /\ tries' \in Nat
    <3>1. (tries + 1) % (PollCap + 1) \in Nat
      BY <1>2, AcpiAssumption
    <3>2. (pc' = "port604" /\ tries' = 0) \/ (pc' = pc /\ tries' = (tries + 1) % (PollCap + 1))
      BY <1>7 DEF EnablePoll, Goto
    <3>3. pc = "enable" /\ (enabled' = TRUE \/ enabled' = enabled)
          /\ UNCHANGED << machine, root, apicIds, apicCount, command, asked, power >>
      BY <1>7 DEF EnablePoll, fixed
    <3>4. enabled' \in BOOLEAN
      BY <1>2, <3>3, Zenon
    <3>5. tries' \in Nat /\ pc' \in {"port604", "enable"}
      BY <1>2, <3>1, <3>2, <3>3
    <3> QED BY <3>3, <3>4, <3>5
  <2>2. asked = {} /\ HasFadt
    BY <1>1, <2>1 DEF AcInv, AskedLate, FadtUsed
  <2> QED BY <1>1, <1>2, <2>1, <2>2, QuietStep DEF Resets
<1>8. CASE ScanDsdt
  <2>1. /\ pc = "dsdt" /\ pc' = (IF Packages # {} THEN "s5a" ELSE "guessA") /\ tries' = 0
        /\ UNCHANGED << machine, root, apicIds, apicCount, enabled, command, asked, power >>
    BY <1>8 DEF ScanDsdt, Goto, fixed
  <2>2. asked = {} /\ HasFadt
    BY <1>1, <2>1 DEF AcInv, AskedLate, FadtUsed
  <2>3. Declares <=> Packages # {}
    BY <2>2 DEF Declares
  <2> QED BY <1>1, <1>2, <2>1, <2>2, <2>3, QuietStep DEF Resets
<1>9. CASE QemuPorts
  <2>1. Tried("port604", "off", "portB004") \/ Tried("portB004", "off", "dsdt")
    BY <1>9 DEF QemuPorts, Attempt, Goto, Tried, fixed
  <2> QED BY <1>1, <2>1, AttemptStep DEF Resets
<1>10. CASE Apm
  <2>1. Tried("apm", "off", "halted")
    BY <1>10 DEF Apm, Attempt, Goto, Tried, fixed
  <2> QED BY <1>1, <2>1, AttemptStep DEF Resets
<1>11. CASE ResetSteps
  <2>1. \/ Tried("resetRegister", "reset", "pulse") \/ Tried("pulse", "reset", "cf9")
        \/ Tried("cf9", "reset", "tripleFault") \/ Tried("tripleFault", "reset", "halted")
    BY <1>11 DEF ResetSteps, Attempt, Goto, Tried, fixed
  <2> QED BY <1>1, <2>1, AttemptStep DEF Resets
<1>12. CASE WriteS5
  BY <1>1, <1>12, WriteS5Step
<1>13. CASE GuessTypes
  BY <1>1, <1>13, GuessStep DEF GuessTypes, Reg
<1>14. CASE UNCHANGED acVars
  <2>1. UNCHANGED << machine, root, apicIds, apicCount, enabled, command, asked, power, pc, tries >>
    BY <1>14 DEF acVars
  <2>2. AcTypeOK'
    BY <1>2, <2>1 DEF AcTypeOK
  <2>3. Declares' = Declares /\ HasFadt' = HasFadt /\ Fadt' = Fadt
        /\ \A r \in Reg : SoftOff(r)' = SoftOff(r)
    BY <2>1, SameMachine
  <2> QED BY <1>1, <2>1, <2>2, <2>3 DEF AcInv, AskedLate, AsDeclared, FadtUsed, RebootOnly
<1> QED
  BY <1>1, <1>3, <1>4, <1>5, <1>6, <1>7, <1>8, <1>9, <1>10, <1>11, <1>12, <1>13, <1>14
  DEF AcNext, PowerStep

\* Types of Acpi: the CPU list of acpi_parse_madt keeps its size, however many
\* entries are found, and what goes to PM1 is a sleep type of three bits.
THEOREM AcpiTypeCorrect == AcSpec => []AcTypeOK
<1>1. AcInv => AcTypeOK
  BY DEF AcInv
<1> QED BY <1>1, AcInitial, AcStep, PTL DEF AcSpec

LEMMA SleepsFollow == AcInv => SleepsAsDeclared
BY DEF AcInv, AsDeclared, SleepsAsDeclared, Declares, SoftOff, Reg

\* On a machine whose DSDT declares \_S5, acpi_shutdown writes the declared
\* types only, never puts it to sleep instead, and does not halt before it is
\* off when there is a PM1 register to write to.
THEOREM SleepTypesDeclared == AcSpec => []SleepsAsDeclared
<1> QED BY SleepsFollow, AcInitial, AcStep, PTL DEF AcSpec

-----------------------------------------------------------------------------
(* The console.                                                            *)

ScreenCell == [ink : SUBSET Glyph, inverted : BOOLEAN]
PenType == [cells : ScreenCells, spare : BOOLEAN, dirty : BOOLEAN, x : Col, y : Nat]

\* In the rows to be seen nothing is drawn behind the cursor of a pen; and
\* nothing under it.
After(p, r, c) == r > p.y \/ (r = p.y /\ c > p.x)
Beyond(p) == \A r \in InView(p), c \in Col : After(p, r, c) => p.cells[r][c] = Blank
Plain(p) == p.y \in InView(p) => p.cells[p.y][p.x] = Blank

\* What the editor prints is what it was asked for.
Editing == step \in {"hide", "print"}
Doing ==
  /\ op.kind = "prompt" => op.text = Prompt /\ (Editing => buf = << >>)
  /\ op.kind = "key" /\ Editing => buf # << >> /\ op.text = << buf[Len(buf)] >>
  /\ op.kind = "enter" => op.text = << NL >>
  /\ op.kind = "output" => op.text \in Outputs
  /\ step = "poll" => op.kind \in {"prompt", "key", "erase"}
  /\ step = "command" => op.kind = "enter"
  /\ step = "done" => op.kind = "output"

\* The cell of the cursor and those behind it are empty, and what is saved
\* of the cell is an empty cell.
CursorKept ==
  /\ saved = Blank
  /\ quiet => ~ visible
  /\ step \in {"print", "show"} => ~ visible
  /\ step \in {"command", "done"} => visible \/ quiet
  /\ cy \in InView(Pen) => back[cy][cx].ink = {}
  /\ ~ visible => Plain(Pen)
  /\ Beyond(Pen)

\* What is drawn can be seen, but for the kernel's own lines before the next
\* flush, and for the cursor.
SameInk == \A r \in Band, c \in Col : vram[r][c].ink = back[r][c].ink
Logged == visible /\ (\/ step \in {"command", "done"}
                      \/ step = "hide" /\ op.kind \in {"prompt", "output"})
Flushed ==
  /\ ~ buffered => vram = back
  /\ buffered /\ ~ dirty => SameInk
  /\ buffered /\ dirty => Logged

\* A command's output and the prompt after it start a line.
Starting ==
  \/ step \in {"command", "done"}
  \/ step = "show" /\ op.kind \in {"enter", "output"}
  \/ Editing /\ op.kind \in {"prompt", "output"}
AtStart == cx = 0 /\ cy \in InView(Pen)
LineStart == Starting => AtStart

\* The line so far is on the screen: without the key that is to be printed,
\* or with the one that is to be erased.
Echoing ==
  \/ step = "poll"
  \/ step = "show" /\ op.kind \in {"prompt", "key", "erase"}
  \/ Editing /\ op.kind \in {"key", "erase"}
Written ==
  IF Editing /\ op.kind = "key" THEN Len(Line) - 1
  ELSE IF Editing /\ op.kind = "erase" THEN Len(Line) + 1 ELSE Len(Line)

\* The place of the character after n others of a line that starts in row t,
\* and the number of the character at a place.
At(t, n) == << t + (n \div (Cols - 1)), n % (Cols - 1) >>
Nth(t, r, c) == (r - t) * (Cols - 1) + c + 1
Spelled(cells, t, text, n) ==
  \A r \in Row, c \in 0 .. Cols - 2 :
    r >= t /\ Nth(t, r, c) <= n /\ Nth(t, r, c) <= Len(text) =>
      cells[r][c] = [ink |-> {text[Nth(t, r, c)]}, inverted |-> FALSE]
EchoAt(n) ==
  /\ cy \in Row /\ cy = At(top, n)[1] /\ cx = At(top, n)[2]
  /\ Spelled(back, top, Line, n) /\ Spelled(vram, top, Line, n)
Echo == Echoing /\ ~ torn => EchoAt(Written)

CnInv == CnTypeOK /\ Doing /\ CursorKept /\ Flushed /\ LineStart /\ Echo

LEMMA ScreenSize ==
  /\ Cols \in Nat /\ Cols >= 2 /\ Rows \in Nat /\ Rows > 0
  /\ 0 \in Col /\ Cols - 1 \in Col /\ 0 \in Row /\ Rows - 1 \in Row
BY ConsoleAssumption DEF Col, Row

\* The rows to be seen: the whole ones, and the spare one while it is in reach.
LEMMA InViewIs ==
  ASSUME NEW partial \in BOOLEAN
  PROVE  /\ Row \subseteq 0 .. LastRow(partial) /\ 0 .. LastRow(partial) \subseteq Band
         /\ LastRow(partial) \in 0 .. LastRow(partial)
         /\ LastRow(partial) \in Nat /\ LastRow(partial) \in {Rows - 1, Rows}
         /\ partial = FALSE => LastRow(partial) = Rows - 1 /\ 0 .. LastRow(partial) = Row
<1>1. Rows \in Nat /\ Rows > 0
  BY ScreenSize
<1>2. CASE partial = TRUE
  <2>1. LastRow(partial) = Rows
    BY <1>2 DEF LastRow
  <2> QED BY <1>1, <1>2, <2>1 DEF Band, Row
<1>3. CASE partial = FALSE
  <2>1. LastRow(partial) = Rows - 1
    BY <1>3 DEF LastRow
  <2> QED BY <1>1, <1>3, <2>1 DEF Band, Row
<1> QED BY <1>2, <1>3

LEMMA PenHere ==
  ASSUME spare \in BOOLEAN
  PROVE  /\ Pen.cells = back /\ Pen.spare = spare /\ Pen.dirty = dirty /\ Pen.x = cx /\ Pen.y = cy
         /\ InView(Pen) = 0 .. LastRow(spare)
         /\ Row \subseteq InView(Pen) /\ InView(Pen) \subseteq Band
<1>1. /\ Pen.cells = back /\ Pen.spare = spare /\ Pen.dirty = dirty /\ Pen.x = cx /\ Pen.y = cy
  BY DEF Pen
<1>2. InView(Pen) = 0 .. LastRow(spare)
  BY <1>1 DEF InView
<1> QED BY <1>1, <1>2, InViewIs

LEMMA ScreenSets == ScreenCells = [Band -> [Col -> ScreenCell]]
BY DEF ScreenCell, ScreenCells

LEMMA BlankCell ==
  /\ Blank \in ScreenCell /\ BlankRow \in [Col -> ScreenCell]
  /\ Blank.ink = {} /\ Blank.inverted = FALSE
BY DEF Blank, BlankRow, ScreenCell

\* A cell of a screen is replaced.
With(cells, r, c, cell) == [cells EXCEPT ![r][c] = cell]

LEMMA CellReplaced ==
  ASSUME NEW cells \in ScreenCells, NEW r \in Band, NEW c \in Col, NEW cell \in ScreenCell
  PROVE  /\ With(cells, r, c, cell) \in ScreenCells
         /\ \A i \in Band, j \in Col :
              With(cells, r, c, cell)[i][j] = IF i = r /\ j = c THEN cell ELSE cells[i][j]
<1> DEFINE after == With(cells, r, c, cell)
<1>1. cells \in [Band -> [Col -> ScreenCell]]
  BY ScreenSets
<1>2. cells[r] \in [Col -> ScreenCell]
  BY <1>1
<1>3. after = [cells EXCEPT ![r] = [cells[r] EXCEPT ![c] = cell]]
  BY DEF With
<1> HIDE DEF after
<1>4. [cells[r] EXCEPT ![c] = cell] \in [Col -> ScreenCell]
  BY <1>2
<1>5. after \in [Band -> [Col -> ScreenCell]]
  BY <1>1, <1>3, <1>4
<1>6. \A i \in Band : after[i] = IF i = r THEN [cells[r] EXCEPT ![c] = cell] ELSE cells[i]
  BY <1>1, <1>3
<1>7. \A j \in Col : [cells[r] EXCEPT ![c] = cell][j] = IF j = c THEN cell ELSE cells[r][j]
  BY <1>2
<1> QED BY <1>5, <1>6, <1>7, ScreenSets DEF after

LEMMA CellsAre ==
  ASSUME NEW cells \in ScreenCells, NEW r \in Band, NEW c \in Col
  PROVE  cells[r][c] \in ScreenCell
BY ScreenSets

\* A cell of a pen is replaced and the pen moves.
LEMMA PenIs ==
  ASSUME NEW p \in PenType
  PROVE  /\ p.cells \in ScreenCells /\ p.dirty \in BOOLEAN /\ p.x \in Col /\ p.y \in Nat
         /\ p.x \in Nat /\ p.x < Cols /\ p.spare \in BOOLEAN
BY ScreenSize DEF PenType, Col

Moved(p, i, j) == [p EXCEPT !.x = i, !.y = j]

LEMMA PenMoved ==
  ASSUME NEW p \in PenType, NEW i \in Col, NEW j \in Nat
  PROVE  /\ Moved(p, i, j) \in PenType
         /\ Moved(p, i, j).cells = p.cells /\ Moved(p, i, j).dirty = p.dirty
         /\ Moved(p, i, j).spare = p.spare
         /\ Moved(p, i, j).x = i /\ Moved(p, i, j).y = j
BY DEF PenType, Moved

LEMMA DrawKeeps ==
  ASSUME NEW p \in PenType, NEW ch \in Glyph
  PROVE  LET q == Drawn(p, ch)
         IN  /\ q \in PenType /\ q.x = p.x /\ q.y = p.y /\ q.spare = p.spare
             /\ p.y \in InView(p) => q.dirty = TRUE
             /\ p.y \notin InView(p) => q = p
             /\ p.y \in InView(p) => q.cells[p.y][p.x] = [p.cells[p.y][p.x] EXCEPT !.ink = @ \cup {ch}]
             /\ \A r \in Band, c \in Col :
                  ~ (r = p.y /\ c = p.x) => q.cells[r][c] = p.cells[r][c]
<1> DEFINE q == Drawn(p, ch)
           cell == [p.cells[p.y][p.x] EXCEPT !.ink = @ \cup {ch}]
           after == With(p.cells, p.y, p.x, cell)
<1>1. p.cells \in ScreenCells /\ p.x \in Col /\ p.y \in Nat /\ InView(p) \subseteq Band
  BY PenIs, InViewIs DEF InView
<1>2. CASE p.y \in InView(p)
  <2>1. p.cells[p.y][p.x] \in ScreenCell
    BY <1>1, <1>2, CellsAre
  <2>2. cell \in ScreenCell
    BY <2>1 DEF ScreenCell
  <2>3. q = [p EXCEPT !.cells = after, !.dirty = TRUE]
    BY <1>1, <1>2 DEF Drawn, Painted, With
  <2> HIDE DEF cell
  <2>4. /\ after \in ScreenCells
        /\ \A i \in Band, j \in Col :
             after[i][j] = IF i = p.y /\ j = p.x THEN cell ELSE p.cells[i][j]
    BY <1>1, <1>2, <2>2, CellReplaced
  <2> HIDE DEF after, q
  <2>5. q \in PenType /\ q.x = p.x /\ q.y = p.y /\ q.spare = p.spare /\ q.dirty = TRUE /\ q.cells = after
    BY <2>3, <2>4 DEF PenType
  <2>6. q.cells[p.y][p.x] = cell
    BY <1>1, <1>2, <2>4, <2>5
  <2>7. \A r \in Band, c \in Col : ~ (r = p.y /\ c = p.x) => q.cells[r][c] = p.cells[r][c]
    BY <2>4, <2>5
  <2>8. q = Drawn(p, ch) /\ cell = [p.cells[p.y][p.x] EXCEPT !.ink = @ \cup {ch}]
    BY DEF q, cell
  <2> HIDE DEF cell, q
  <2> QED BY <1>2, <2>5, <2>6, <2>7, <2>8
<1>3. CASE p.y \notin InView(p)
  BY <1>1, <1>3 DEF Drawn
<1> QED BY <1>2, <1>3

LEMMA AdvanceKeeps ==
  ASSUME NEW p \in PenType
  PROVE  LET q == Advanced(p)
         IN  /\ q \in PenType /\ q.cells = p.cells /\ q.dirty = p.dirty /\ q.spare = p.spare
             /\ \/ p.x >= Cols - 2 /\ q.x = 0 /\ q.y = p.y + 1
                \/ p.x < Cols - 2 /\ q.x = p.x + 1 /\ q.y = p.y
<1>1. /\ p.cells \in ScreenCells /\ p.dirty \in BOOLEAN /\ p.x \in Nat /\ p.y \in Nat
      /\ Cols \in Nat /\ Cols >= 2
  BY PenIs, ScreenSize
<1>2. CASE p.x + 1 >= Cols - 1
  <2>1. Advanced(p) = Moved(p, 0, p.y + 1)
    BY <1>2 DEF Advanced, Moved
  <2>2. p.x >= Cols - 2 /\ 0 \in Col /\ p.y + 1 \in Nat
    BY <1>1, <1>2, ScreenSize
  <2> QED BY <2>1, <2>2, PenMoved
<1>3. CASE ~ (p.x + 1 >= Cols - 1)
  <2>1. Advanced(p) = Moved(p, p.x + 1, p.y)
    BY <1>3 DEF Advanced, PenType, Moved
  <2>2. p.x + 1 \in Col /\ p.x < Cols - 2
    BY <1>1, <1>3 DEF Col
  <2> DEFINE i == p.x + 1
             q == Moved(p, i, p.y)
  <2>3. i \in Col /\ p.y \in Nat /\ Advanced(p) = q
    BY <1>1, <2>1, <2>2
  <2> HIDE DEF i
  <2>4. q \in PenType /\ q.cells = p.cells /\ q.dirty = p.dirty /\ q.spare = p.spare /\ q.x = i /\ q.y = p.y
    BY <2>3, PenMoved
  <2> HIDE DEF q
  <2>5. q.x = p.x + 1
    BY <2>4 DEF i
  <2> QED BY <2>2, <2>3, <2>4, <2>5
<1> QED BY <1>2, <1>3

LEMMA ScrollKeeps ==
  ASSUME NEW cells \in ScreenCells, NEW partial \in BOOLEAN
  PROVE  /\ Scrolled(cells, partial) \in ScreenCells
         /\ \A c \in Col : Scrolled(cells, partial)[Rows - 1][c] = Blank
<1>1. Rows \in Nat /\ Rows > 0 /\ Rows - 1 \in Band
  BY ScreenSize DEF Band
<1>2. \A r \in Band : ~ (r >= Rows - 1) => r + 1 \in Band /\ r + 2 \in Band
  BY <1>1 DEF Band
<1>3. \A r \in Band : ~ (r >= Rows - 1) =>
        cells[r + 1] \in [Col -> ScreenCell] /\ cells[r + 2] \in [Col -> ScreenCell]
  BY <1>2, ScreenSets
<1>4. \A a, b \in ScreenCell : Pieces(a, b) \in ScreenCell
  BY DEF Pieces, ScreenCell
<1>5. \A a, b \in [Col -> ScreenCell] :
        [c \in Col |-> Pieces(a[c], b[c])] \in [Col -> ScreenCell]
  BY <1>4
<1> DEFINE row(r) ==
      IF r >= Rows - 1 THEN BlankRow
      ELSE IF partial THEN [c \in Col |-> Pieces(cells[r + 1][c], cells[r + 2][c])]
      ELSE cells[r + 1]
<1>6. ASSUME NEW r \in Band PROVE row(r) \in [Col -> ScreenCell]
  BY <1>3, <1>5, BlankCell
<1>7. Scrolled(cells, partial) = [r \in Band |-> row(r)]
  BY DEF Scrolled
<1>8. Rows - 1 >= Rows - 1 => row(Rows - 1) = BlankRow
  BY Zenon
<1> HIDE DEF row
<1>9. Scrolled(cells, partial) \in ScreenCells
  BY <1>6, <1>7, ScreenSets
<1>10. \A c \in Col : Scrolled(cells, partial)[Rows - 1][c] = Blank
  BY <1>1, <1>7, <1>8 DEF BlankRow
<1> QED BY <1>9, <1>10

LEMMA NewLineKeeps ==
  ASSUME NEW p \in PenType, Beyond(p)
  PROVE  LET q == NewLine(p)
         IN  /\ q \in PenType /\ Beyond(q) /\ Plain(q) /\ q.x = 0 /\ q.y \in InView(q)
             /\ \/ q.dirty = TRUE
                \/ q.dirty = p.dirty /\ q.cells = p.cells
<1> DEFINE q == NewLine(p)
           last == LastRow(p.spare)
<1>1. /\ p.cells \in ScreenCells /\ p.dirty \in BOOLEAN /\ p.x \in Col /\ p.y \in Nat
      /\ p.spare \in BOOLEAN /\ Rows \in Nat /\ Rows > 0
  BY PenIs, ScreenSize
<1>2. InView(p) = 0 .. last /\ last \in Nat
  BY <1>1, InViewIs DEF InView
<1>3. CASE p.y < last
  <2>1. q = Moved(p, 0, p.y + 1)
    BY <1>3 DEF NewLine, Moved
  <2>2. /\ q \in PenType /\ q.cells = p.cells /\ q.dirty = p.dirty /\ q.spare = p.spare
        /\ q.x = 0 /\ q.y = p.y + 1
    <3>1. 0 \in Col /\ p.y + 1 \in Nat
      BY <1>1, ScreenSize
    <3> QED BY <2>1, <3>1, PenMoved
  <2> HIDE DEF q
  <2>3. InView(q) = InView(p)
    BY <2>2 DEF InView
  <2> HIDE DEF last
  <2>4. \A r \in InView(p), c \in Col : r >= q.y => p.cells[r][c] = Blank
    BY <1>1, <1>2, <2>2 DEF Beyond, After
  <2>5. q.y \in InView(q)
    BY <1>1, <1>2, <1>3, <2>2, <2>3
  <2>6. Beyond(q) /\ Plain(q)
    BY <1>1, <1>2, <2>2, <2>3, <2>4, ScreenSize DEF Beyond, Plain, After
  <2> QED BY <2>2, <2>5, <2>6 DEF q
<1>4. CASE ~ (p.y < last)
  <2> DEFINE cells == Scrolled(p.cells, p.spare)
  <2>1. q = [cells |-> cells, spare |-> FALSE, dirty |-> TRUE, x |-> 0, y |-> Rows - 1]
    BY <1>4 DEF NewLine
  <2>2. cells \in ScreenCells /\ \A c \in Col : cells[Rows - 1][c] = Blank
    BY <1>1, ScrollKeeps
  <2> HIDE DEF cells
  <2>3. /\ q \in PenType /\ q.x = 0 /\ q.y = Rows - 1 /\ q.dirty = TRUE /\ q.cells = cells
        /\ q.spare = FALSE
    BY <1>1, <2>1, <2>2, ScreenSize DEF PenType
  <2> HIDE DEF q
  <2>4. InView(q) = Row
    BY <2>3, InViewIs DEF InView
  <2>5. \A r \in Row : r <= Rows - 1 /\ r \in Nat
    BY <1>1 DEF Row
  <2>6. Beyond(q) /\ Plain(q)
    BY <1>1, <2>2, <2>3, <2>4, <2>5, ScreenSize DEF Beyond, Plain, After
  <2>7. q.y \in InView(q)
    BY <2>3, <2>4, ScreenSize
  <2> QED BY <2>3, <2>6, <2>7 DEF q
<1> QED BY <1>3, <1>4

\* What a character may be: it ends the line or is drawn.
Symbol == Glyph \cup {NL}

LEMMA PutKeeps ==
  ASSUME NEW p \in PenType, Beyond(p), NEW ch \in Symbol
  PROVE  LET q == PutChar(p, ch)
         IN  /\ q \in PenType /\ Beyond(q) /\ Plain(q)
             /\ \/ q.dirty = TRUE
                \/ q.dirty = p.dirty /\ q.cells = p.cells
             /\ ch = NL => q.x = 0 /\ q.y \in InView(q)
<1>1. CASE ch = NL
  BY <1>1, NewLineKeeps DEF PutChar
<1>2. CASE ch # NL
  <2> DEFINE d == Drawn(p, ch)
             q == Advanced(d)
  <2>1. PutChar(p, ch) = q
    BY <1>2 DEF PutChar
  <2>2. ch \in Glyph
    BY <1>2 DEF Symbol
  <2>3. /\ d \in PenType /\ d.x = p.x /\ d.y = p.y /\ d.spare = p.spare
        /\ p.y \in InView(p) => d.dirty = TRUE
        /\ p.y \notin InView(p) => d = p
        /\ \A r \in Band, c \in Col : ~ (r = p.y /\ c = p.x) => d.cells[r][c] = p.cells[r][c]
    BY <2>2, DrawKeeps
  <2> HIDE DEF d
  <2>4. /\ q \in PenType /\ q.cells = d.cells /\ q.dirty = d.dirty /\ q.spare = d.spare
        /\ \/ p.x >= Cols - 2 /\ q.x = 0 /\ q.y = p.y + 1
           \/ p.x < Cols - 2 /\ q.x = p.x + 1 /\ q.y = p.y
    BY <2>3, AdvanceKeeps
  <2> HIDE DEF q
  <2>5. /\ p.x \in Nat /\ p.y \in Nat /\ q.x \in Nat /\ q.y \in Nat /\ q.x \in Col
        /\ Cols \in Nat /\ Rows \in Nat
        /\ InView(q) = InView(p) /\ InView(q) \subseteq Band
    BY <2>3, <2>4, PenIs, InViewIs, ScreenSize DEF InView
  <2>6. \A r \in Band, c \in Col :
          After(q, r, c) \/ (r = q.y /\ c = q.x) => After(p, r, c) /\ ~ (r = p.y /\ c = p.x)
    BY <2>4, <2>5 DEF After, Band, Col
  <2>7. Beyond(q) /\ Plain(q)
    BY <2>3, <2>4, <2>5, <2>6 DEF Beyond, Plain
  <2>8. q.dirty = TRUE \/ (q.dirty = p.dirty /\ q.cells = p.cells)
    BY <2>3, <2>4
  <2> QED BY <1>2, <2>1, <2>4, <2>7, <2>8
<1> QED BY <1>1, <1>2

\* fb_backspace.
LEMMA EraseKeeps ==
  ASSUME NEW p \in PenType, Beyond(p), Plain(p)
  PROVE  LET q == Erased(p)
         IN  /\ q \in PenType /\ q.spare = p.spare /\ Beyond(q) /\ Plain(q)
             /\ \/ q.dirty = TRUE
                \/ q.dirty = p.dirty /\ q.cells = p.cells
             /\ p.x > 0 => /\ q.x = p.x - 1 /\ q.y = p.y
                           /\ p.y \in InView(p) => q.dirty = TRUE
                           /\ \A r \in Band, c \in Col :
                                ~ (r = q.y /\ c = q.x) => q.cells[r][c] = p.cells[r][c]
<1>1. /\ p.cells \in ScreenCells /\ p.dirty \in BOOLEAN /\ p.x \in Nat /\ p.y \in Nat /\ p.x < Cols
      /\ Cols \in Nat /\ Cols >= 2 /\ InView(p) \subseteq Band
  BY PenIs, InViewIs, ScreenSize DEF InView
<1>2. CASE p.x = 0 /\ p.y = 0
  <2>1. Erased(p) = p
    BY <1>1, <1>2 DEF Erased
  <2> QED BY <1>2, <2>1
<1>3. CASE ~ (p.x = 0 /\ p.y = 0)
  <2> DEFINE m == IF p.x > 0 THEN [p EXCEPT !.x = p.x - 1] ELSE [p EXCEPT !.x = Cols - 1, !.y = p.y - 1]
             q == Painted(m, Blank)
             after == With(m.cells, m.y, m.x, Blank)
  <2>1. Erased(p) = q
    BY <1>1, <1>3 DEF Erased
  <2>2. /\ m \in PenType /\ m.cells = p.cells /\ m.dirty = p.dirty /\ m.spare = p.spare
        /\ \/ p.x > 0 /\ m.x = p.x - 1 /\ m.y = p.y
           \/ p.x = 0 /\ m.x = Cols - 1 /\ m.y = p.y - 1
    <3>1. CASE p.x > 0
      <4>1. p.x - 1 \in Col
        BY <1>1, <3>1 DEF Col
      <4>2. [p EXCEPT !.x = p.x - 1] = Moved(p, p.x - 1, p.y)
        BY DEF PenType, Moved
      <4>3. m = Moved(p, p.x - 1, p.y)
        BY <3>1, <4>2
      <4> HIDE DEF m
      <4>4. m \in PenType /\ m.cells = p.cells /\ m.dirty = p.dirty /\ m.spare = p.spare /\ m.x = p.x - 1 /\ m.y = p.y
        BY <1>1, <4>1, <4>3, PenMoved
      <4> QED BY <3>1, <4>4
    <3>2. CASE p.x = 0
      <4>1. Cols - 1 \in Col /\ p.y - 1 \in Nat
        BY <1>1, <1>3, <3>2, ScreenSize
      <4>2. m = Moved(p, Cols - 1, p.y - 1)
        BY <1>1, <3>2 DEF Moved
      <4> HIDE DEF m
      <4> QED BY <3>2, <4>1, <4>2, PenMoved
    <3> HIDE DEF m
    <3> QED BY <1>1, <3>1, <3>2
  <2> HIDE DEF m
  <2>3. m.x \in Col /\ m.cells \in ScreenCells /\ InView(m) = InView(p) /\ InView(m) \subseteq Band
    BY <1>1, <2>2, PenIs DEF InView
  <2>4. \A r \in InView(m), c \in Col :
          After(m, r, c) => After(p, r, c) \/ (r = p.y /\ c = p.x)
    BY <1>1, <2>2, <2>3 DEF After, Band, Col
  <2>5. \A r \in InView(m), c \in Col : After(m, r, c) => m.cells[r][c] = Blank
    BY <2>2, <2>3, <2>4 DEF Beyond, Plain
  <2>6. CASE m.y \in InView(m)
    <3>1. q = [m EXCEPT !.cells = after, !.dirty = TRUE]
      BY <2>3, <2>6 DEF Painted, With
    <3>2. /\ after \in ScreenCells
          /\ \A i \in Band, j \in Col :
               after[i][j] = IF i = m.y /\ j = m.x THEN Blank ELSE m.cells[i][j]
      <4>1. Blank \in ScreenCell
        BY BlankCell
      <4> QED BY <2>3, <2>6, <4>1, CellReplaced
    <3> HIDE DEF after, q
    <3>3. q \in PenType /\ q.x = m.x /\ q.y = m.y /\ q.spare = m.spare /\ q.dirty = TRUE /\ q.cells = after
      BY <2>2, <3>1, <3>2 DEF PenType
    <3>4. Beyond(q) /\ Plain(q)
      <4>1. InView(q) = InView(m)
        BY <3>3 DEF InView
      <4>2. \A r, c : After(q, r, c) <=> After(m, r, c)
        BY <3>3 DEF After
      <4>3. \A r \in InView(q), c \in Col : After(q, r, c) => q.cells[r][c] = Blank
        BY <2>3, <2>5, <3>2, <3>3, <4>1, <4>2
      <4>4. q.cells[q.y][q.x] = Blank
        BY <2>3, <2>6, <3>2, <3>3
      <4> QED BY <4>3, <4>4 DEF Beyond, Plain
    <3>5. \A r \in Band, c \in Col : ~ (r = q.y /\ c = q.x) => q.cells[r][c] = p.cells[r][c]
      BY <2>2, <3>2, <3>3
    <3> QED BY <2>1, <2>2, <3>3, <3>4, <3>5
  <2>7. CASE m.y \notin InView(m)
    <3>1. q = m
      BY <2>7 DEF Painted
    <3> HIDE DEF q
    <3>2. Beyond(q) /\ Plain(q)
      <4>1. q.cells = m.cells /\ q.x = m.x /\ q.y = m.y /\ q.spare = m.spare
        BY <3>1
      <4>2. InView(q) = InView(m)
        BY <4>1 DEF InView
      <4>3. \A r, c : After(q, r, c) <=> After(m, r, c)
        BY <4>1 DEF After
      <4>4. \A r \in InView(q), c \in Col : After(q, r, c) => q.cells[r][c] = Blank
        BY <2>5, <4>1, <4>2, <4>3
      <4>5. q.y \notin InView(q)
        BY <2>7, <4>1, <4>2
      <4> QED BY <4>4, <4>5 DEF Beyond, Plain
    <3>3. /\ q \in PenType /\ q.cells = p.cells /\ q.dirty = p.dirty /\ q.spare = p.spare
          /\ p.x > 0 => q.x = p.x - 1 /\ q.y = p.y
      BY <1>1, <2>2, <3>1
    <3>4. p.x > 0 => p.y \notin InView(p)
      BY <1>1, <2>2, <2>3, <2>7
    <3> QED BY <2>1, <3>2, <3>3, <3>4
  <2> QED BY <2>6, <2>7
<1> QED BY <1>2, <1>3

Printable == Outputs \cup {LockText, LogText, Prompt, << NL >>} \cup { << ch >> : ch \in Typed }

LEMMA PrintableSymbols == ASSUME NEW text \in Printable PROVE text \in Seq(Symbol) /\ Len(text) \in Nat
<1>1. ASSUME NEW t \in Seq(STRING), \A i \in DOMAIN t : t[i] \in Glyph PROVE t \in Seq(Symbol)
  <2>1. Len(t) \in Nat /\ t = [i \in 1 .. Len(t) |-> t[i]] /\ DOMAIN t = 1 .. Len(t)
    BY <1>1
  <2>2. \A i \in 1 .. Len(t) : t[i] \in Symbol
    BY <1>1, <2>1 DEF Symbol
  <2> QED BY <2>1, <2>2, SeqDef
<1>2. CASE text \in Outputs \cup {LockText, LogText}
  <2>1. text = << >> \/ text \in Seq(STRING)
    BY <1>2, ConsoleAssumption
  <2>2. { text[i] : i \in DOMAIN text } \subseteq Glyph
    BY <1>2 DEF Glyph
  <2>3. CASE text = << >>
    BY <2>3
  <2>4. CASE text \in Seq(STRING)
    BY <1>1, <2>2, <2>4
  <2> QED BY <2>1, <2>3, <2>4
<1>3. CASE text = Prompt
  <2>1. text \in Seq(STRING) /\ \A i \in DOMAIN text : text[i] \in Glyph
    BY <1>3, ConsoleAssumption DEF Glyph
  <2> QED BY <1>1, <2>1
<1>4. CASE text = << NL >>
  BY <1>4 DEF Symbol
<1>5. CASE text \in { << ch >> : ch \in Typed }
  <2>1. Typed \subseteq Symbol
    BY DEF Symbol, Glyph
  <2>2. PICK ch \in Typed : text = << ch >>
    BY <1>5
  <2>3. ch \in Symbol
    BY <2>1
  <2>4. text = << ch >> /\ << ch >> \in Seq(Symbol)
    BY <2>2, <2>3
  <2> QED BY <2>4
<1>6. text \in Seq(Symbol)
  BY <1>2, <1>3, <1>4, <1>5 DEF Printable
<1> QED BY <1>6

\* The pens of a text, one after another.
CleanPen == { p \in PenType : Beyond(p) }

LEMMA PensRun ==
  ASSUME NEW p \in CleanPen, NEW text \in Seq(Symbol)
  PROVE  /\ Pens(p, text)[0] = p
         /\ \A k \in 0 .. Len(text) : Pens(p, text)[k] \in CleanPen
         /\ \A k \in 1 .. Len(text) : Pens(p, text)[k] = PutChar(Pens(p, text)[k - 1], text[k])
<1> DEFINE n == Len(text)
           turn == [a \in (1 .. n) \X CleanPen |-> PutChar(a[2], text[a[1]])]
           Run(f) == f = [k \in 0 .. n |-> IF k = 0 THEN p ELSE PutChar(f[k - 1], text[k])]
           pens == CHOOSE f : Run(f)
<1>1. n \in Nat /\ \A k \in 1 .. n : text[k] \in Symbol
  OBVIOUS
<1>2. Pens(p, text) = pens
  BY DEF Pens
<1>3. \A k \in 1 .. n, q \in CleanPen :
        PutChar(q, text[k]) \in CleanPen /\ turn[<< k, q >>] = PutChar(q, text[k])
  BY <1>1, PutKeeps DEF CleanPen
<1>4. turn \in [(1 .. n) \X CleanPen -> CleanPen]
  BY <1>3
<1> HIDE DEF n, turn
<1>5. PICK f \in [0 .. n -> CleanPen] :
        f[0] = p /\ \A k \in 1 .. n : f[k] = turn[<< k, f[k - 1] >>]
  <2>1. LoopEnds(n, CleanPen, p, turn)
    BY <1>1, <1>4, LoopRuns
  <2> QED BY <2>1 DEF LoopEnds
<1>6. Run(f)
  <2>1. \A k \in 0 .. n : k # 0 => k \in 1 .. n /\ k - 1 \in 0 .. n
    BY <1>1
  <2>2. \A k \in 0 .. n : k # 0 => turn[<< k, f[k - 1] >>] = PutChar(f[k - 1], text[k])
    BY <1>3, <1>5, <2>1
  <2>3. \A k \in 0 .. n : f[k] = IF k = 0 THEN p ELSE PutChar(f[k - 1], text[k])
    BY <1>5, <2>1, <2>2
  <2>4. f = [k \in 0 .. n |-> f[k]]
    BY <1>5
  <2> QED BY <2>3, <2>4
<1>7. Run(pens)
  BY <1>6
<1> HIDE DEF pens
<1>8. pens[0] = p /\ \A k \in 1 .. n : pens[k] = PutChar(pens[k - 1], text[k])
  <2>1. \A k \in 1 .. n : k \in 0 .. n /\ k # 0
    BY <1>1
  <2> QED BY <1>1, <1>7, <2>1
<1> DEFINE T == { m \in 0 .. n : pens[m] \in CleanPen }
<1>9. 0 \in T
  BY <1>1, <1>8
<1>10. ASSUME NEW m \in 0 .. n - 1, m \in T PROVE m + 1 \in T
  <2>1. m + 1 \in 0 .. n /\ m + 1 \in 1 .. n /\ (m + 1) - 1 = m
    BY <1>1
  <2>2. pens[m] \in CleanPen
    BY <1>10
  <2>3. pens[m + 1] = PutChar(pens[m], text[m + 1])
    BY <1>8, <2>1
  <2>4. PutChar(pens[m], text[m + 1]) \in CleanPen
    BY <1>3, <2>1, <2>2
  <2> QED BY <2>1, <2>3, <2>4
<1> HIDE DEF T
<1>11. ASSUME NEW k \in 0 .. n PROVE pens[k] \in CleanPen
  <2>1. k \in Nat /\ \A m \in 0 .. k - 1 : m \in 0 .. n - 1
    BY <1>1
  <2>2. k \in T
    BY <1>9, <1>10, <2>1, EachTurn
  <2> QED BY <2>2 DEF T
<1> QED BY <1>2, <1>8, <1>11 DEF n

\* What a text leaves: its pen is clean, what it changed is marked dirty, and
\* at the end of a line the pen is at the start of one, on the screen.
LEMMA TextKeeps ==
  ASSUME NEW p \in CleanPen, NEW text \in Seq(Symbol)
  PROVE  LET q == Kprint(p, text)
         IN  /\ q \in CleanPen
             /\ text # << >> => Plain(q)
             /\ text = << >> => q = p
             /\ q.dirty = TRUE \/ (q.dirty = p.dirty /\ q.cells = p.cells)
             /\ EndsLine(text) => q.x = 0 /\ q.y \in InView(q)
<1> DEFINE n == Len(text)
           P == Pens(p, text)
<1>1. n \in Nat /\ n \in 0 .. n /\ Kprint(p, text) = P[n] /\ (text = << >> <=> n = 0)
  BY DEF Kprint
<1>2. \A k \in 1 .. n : text[k] \in Symbol
  OBVIOUS
<1>3. /\ P[0] = p /\ \A k \in 0 .. n : P[k] \in CleanPen
      /\ \A k \in 1 .. n : P[k] = PutChar(P[k - 1], text[k])
  BY PensRun
<1> HIDE DEF P
<1>4. ASSUME NEW k \in 1 .. n
      PROVE  /\ Plain(P[k])
             /\ P[k].dirty = TRUE \/ (P[k].dirty = P[k - 1].dirty /\ P[k].cells = P[k - 1].cells)
             /\ text[k] = NL => P[k].x = 0 /\ P[k].y \in InView(P[k])
  <2>1. k - 1 \in 0 .. n
    BY <1>1
  <2>2. P[k - 1] \in PenType /\ Beyond(P[k - 1])
    BY <1>3, <2>1 DEF CleanPen
  <2>3. P[k] = PutChar(P[k - 1], text[k])
    BY <1>3
  <2>4. text[k] \in Symbol
    BY <1>2
  <2> HIDE DEF n
  <2> DEFINE o == P[k - 1]
             ch == text[k]
             after == PutChar(o, ch)
  <2>5. o \in PenType /\ Beyond(o) /\ ch \in Symbol /\ P[k] = after
    BY <2>2, <2>3, <2>4
  <2> HIDE DEF o, ch
  <2>6. /\ after \in PenType /\ Plain(after)
        /\ after.dirty = TRUE \/ (after.dirty = o.dirty /\ after.cells = o.cells)
        /\ ch = NL => after.x = 0 /\ after.y \in InView(after)
    BY <2>5, PutKeeps
  <2> HIDE DEF after
  <2> QED BY <2>5, <2>6 DEF o, ch
<1> DEFINE T == { m \in 0 .. n : P[m].dirty = TRUE \/ (P[m].dirty = p.dirty /\ P[m].cells = p.cells) }
<1>5. 0 \in T
  BY <1>1, <1>3
<1>6. ASSUME NEW m \in 0 .. n - 1, m \in T PROVE m + 1 \in T
  <2>1. m + 1 \in 0 .. n /\ m + 1 \in 1 .. n /\ (m + 1) - 1 = m
    BY <1>1
  <2>2. P[m + 1].dirty = TRUE \/ (P[m + 1].dirty = P[m].dirty /\ P[m + 1].cells = P[m].cells)
    BY <1>4, <2>1
  <2> QED BY <1>6, <2>1, <2>2
<1> HIDE DEF T
<1>7. n \in T
  BY <1>1, <1>5, <1>6, EachTurn
<1>8. P[n].dirty = TRUE \/ (P[n].dirty = p.dirty /\ P[n].cells = p.cells)
  BY <1>7 DEF T
<1>9. n # 0 => Plain(P[n]) /\ (text[n] = NL => P[n].x = 0 /\ P[n].y \in InView(P[n]))
  <2>1. n # 0 => n \in 1 .. n
    BY <1>1
  <2> QED BY <1>4, <2>1
<1>10. EndsLine(text) => n # 0 /\ text[n] = NL
  BY <1>1 DEF EndsLine
<1> QED BY <1>1, <1>3, <1>8, <1>9, <1>10

LEMMA PlaceNumbers ==
  ASSUME NEW n \in Nat
  PROVE  \E w \in Nat \ {0}, a \in Nat, b \in Nat :
           w = Cols - 1 /\ b \in 0 .. w - 1 /\ a = n \div w /\ b = n % w /\ n = w * a + b
<1>1. PICK w \in Nat \ {0} : w = Cols - 1
  BY ScreenSize
<1>2. PICK a \in Nat : a = n \div w
  BY Quotient
<1>3. PICK b \in 0 .. w - 1 : b = n % w
  BY Rest
<1>4. n = w * a + b
  BY <1>2, <1>3, Division
<1> QED BY <1>1, <1>2, <1>3, <1>4

LEMMA NextPlace ==
  ASSUME NEW t \in Nat, NEW n \in Nat
  PROVE  /\ At(t, n)[1] \in Nat /\ At(t, n)[2] \in 0 .. Cols - 2
         /\ IF At(t, n)[2] >= Cols - 2 THEN At(t, n + 1) = << At(t, n)[1] + 1, 0 >>
            ELSE At(t, n + 1) = << At(t, n)[1], At(t, n)[2] + 1 >>
<1>1. PICK w \in Nat \ {0}, a \in Nat, b \in Nat :
           w = Cols - 1 /\ b \in 0 .. w - 1 /\ a = n \div w /\ b = n % w /\ n = w * a + b
  BY PlaceNumbers
<1>2. At(t, n) = << t + a, b >> /\ At(t, n + 1) = << t + ((n + 1) \div w), (n + 1) % w >>
  BY <1>1 DEF At
<1>3. Cols - 2 = w - 1 /\ b \in 0 .. w - 1
  BY <1>1, ScreenSize
<1>4. At(t, n)[1] = t + a /\ At(t, n)[2] = b
  BY <1>2
<1>5. At(t, n)[1] \in Nat /\ At(t, n)[2] \in 0 .. Cols - 2
  BY <1>3, <1>4
<1>6. CASE b = w - 1
  <2>1. n + 1 = w * (a + 1) + 0
    <3>1. w * (a + 1) = w * a + w * 1
      BY Spread
    <3> QED BY <1>1, <1>6, <3>1
  <2>2. (n + 1) \div w = a + 1
    BY <2>1, QuotientIs
  <2>3. PICK m \in 0 .. w - 1 : m = (n + 1) % w
    BY Rest
  <2>4. n + 1 = w * (a + 1) + m
    BY <2>2, <2>3, Division
  <2>5. m = 0
    BY <2>1, <2>4
  <2>6. At(t, n + 1) = << t + a + 1, 0 >>
    BY <1>2, <2>2, <2>3, <2>5
  <2>7. At(t, n)[2] >= Cols - 2
    BY <1>3, <1>6, <1>4
  <2> QED BY <1>4, <1>5, <2>6, <2>7
<1>7. CASE b # w - 1
  <2>1. n + 1 = w * a + (b + 1) /\ b + 1 \in 0 .. w - 1
    <3>1. w * a \in Nat
      BY Product
    <3>2. b \in 0 .. w - 1
      BY <1>1
    <3>3. b + 1 \in 0 .. w - 1
      BY <1>7, <3>2
    <3> QED BY <1>1, <3>1, <3>3
  <2>2. (n + 1) \div w = a
    BY <2>1, QuotientIs
  <2>3. PICK m \in 0 .. w - 1 : m = (n + 1) % w
    BY Rest
  <2>4. n + 1 = w * a + m
    BY <2>2, <2>3, Division
  <2>5. m = b + 1
    BY <2>1, <2>4
  <2>6. ~ (b >= w - 1)
    BY <1>3, <1>7
  <2>7. At(t, n + 1) = << t + a, b + 1 >>
    BY <1>2, <2>2, <2>3, <2>5
  <2>8. ~ (At(t, n)[2] >= Cols - 2)
    BY <1>3, <1>4, <2>6
  <2> QED BY <1>4, <1>5, <2>7, <2>8
<1> QED BY <1>6, <1>7

\* A cell comes before the place of n, is it, or comes after it.
LEMMA Places ==
  ASSUME NEW t \in Nat, NEW n \in Nat, NEW r \in Nat, r >= t, NEW c \in 0 .. Cols - 2
  PROVE  LET y == At(t, n)[1] x == At(t, n)[2]
         IN  /\ Nth(t, r, c) \in Nat /\ Nth(t, r, c) > 0
             /\ r = y /\ c = x => Nth(t, r, c) = n + 1
             /\ r > y \/ (r = y /\ c > x) => Nth(t, r, c) > n + 1
             /\ r < y \/ (r = y /\ c < x) => Nth(t, r, c) <= n
<1>1. PICK w \in Nat \ {0}, a \in Nat, b \in Nat :
           w = Cols - 1 /\ b \in 0 .. w - 1 /\ a = n \div w /\ b = n % w /\ n = w * a + b
  BY PlaceNumbers
<1>2. PICK d \in Nat : d = r - t
  OBVIOUS
<1>3. w * d \in Nat /\ w * a \in Nat /\ w * d = d * w
  BY Product
<1>4. c \in 0 .. w - 1
  BY <1>1, ScreenSize
<1>5. Nth(t, r, c) = w * d + c + 1
  BY <1>1, <1>2, <1>3 DEF Nth
<1>6. At(t, n)[1] = t + a /\ At(t, n)[2] = b
  BY <1>1 DEF At
<1>7. ASSUME d > a PROVE w * d + c + 1 > n + 1
  <2>1. w * (a + 1) <= w * d
    BY <1>7, Grows
  <2>2. w * (a + 1) = w * a + w * 1
    BY Spread
  <2> QED BY <1>1, <1>3, <1>4, <2>1, <2>2
<1>8. ASSUME d < a PROVE w * d + c + 1 <= n
  <2>1. w * (d + 1) <= w * a
    BY <1>8, Grows
  <2>2. w * (d + 1) = w * d + w * 1
    BY Spread
  <2> QED BY <1>1, <1>3, <1>4, <2>1, <2>2
<1> DEFINE y == At(t, n)[1]
           x == At(t, n)[2]
           i == Nth(t, r, c)
<1>9. i \in Nat /\ i > 0
  BY <1>3, <1>4, <1>5
<1>10. b \in Nat /\ y = t + a /\ x = b /\ r = t + d
  BY <1>1, <1>2, <1>6
<1>11. r = y => w * d = w * a
  <2>1. r = y => d = a
    BY <1>10
  <2> QED BY <2>1
<1>12. n = w * a + b
  BY <1>1
<1> HIDE DEF y, x, i
<1>13. i = w * d + c + 1
  BY <1>5 DEF i
<1>14. r = y /\ c = x => i = n + 1
  BY <1>3, <1>4, <1>10, <1>11, <1>12, <1>13
<1>15. r > y \/ (r = y /\ c > x) => i > n + 1
  <2>1. CASE r > y
    BY <1>7, <1>10, <1>13, <2>1
  <2>2. CASE r = y /\ c > x
    BY <1>3, <1>4, <1>10, <1>11, <1>12, <1>13, <2>2
  <2> QED BY <2>1, <2>2
<1>16. r < y \/ (r = y /\ c < x) => i <= n
  <2>1. CASE r < y
    BY <1>8, <1>10, <1>13, <2>1
  <2>2. CASE r = y /\ c < x
    BY <1>3, <1>4, <1>10, <1>11, <1>12, <1>13, <2>2
  <2> QED BY <2>1, <2>2
<1> QED BY <1>9, <1>14, <1>15, <1>16 DEF y, x, i

\* A pen has written n characters of a line.
PenSpells(p, t, text, n) ==
  p.y = At(t, n)[1] /\ p.x = At(t, n)[2] /\ Spelled(p.cells, t, text, n)

\* One more character of a line is printed on the screen.
LEMMA PutSpells ==
  ASSUME NEW p \in CleanPen, Plain(p), p.y \in Row, NEW t \in Nat, NEW n \in Nat,
         NEW text \in Seq(Symbol), NEW k \in 1 .. Len(text), k = n + 1, text[k] # NL,
         PenSpells(p, t, text, n), NEW after, after = PutChar(p, text[k])
  PROVE  after.dirty = TRUE /\ PenSpells(after, t, text, k)
<1> DEFINE ch == text[k]
           d == Drawn(p, ch)
           q == Advanced(d)
<1>1. p.y = At(t, n)[1] /\ p.x = At(t, n)[2] /\ Spelled(p.cells, t, text, n)
  BY DEF PenSpells
<1>2. ch \in Glyph /\ ch # NL
  <2>1. text[k] \in Symbol
    BY ElementOfSeq
  <2> QED BY <2>1 DEF Symbol
<1>3. after = q
  BY <1>2 DEF PutChar
<1> HIDE DEF ch
<1>4. p \in PenType /\ p.x \in Nat /\ p.y \in Nat /\ p.x \in Col /\ p.cells \in ScreenCells
  BY PenIs DEF CleanPen
<1>5. /\ d \in PenType /\ d.x = p.x /\ d.y = p.y /\ d.dirty = TRUE /\ p.y \in InView(p)
      /\ d.cells[p.y][p.x] = [p.cells[p.y][p.x] EXCEPT !.ink = @ \cup {ch}]
      /\ \A r \in Band, c \in Col : ~ (r = p.y /\ c = p.x) => d.cells[r][c] = p.cells[r][c]
  <2>1. p.y \in InView(p)
    BY <1>4, PenIs, InViewIs DEF InView
  <2> QED BY <1>2, <1>4, <2>1, DrawKeeps
<1> HIDE DEF d
<1>6. /\ q.cells = d.cells /\ q.dirty = d.dirty
      /\ \/ p.x >= Cols - 2 /\ q.x = 0 /\ q.y = p.y + 1
         \/ p.x < Cols - 2 /\ q.x = p.x + 1 /\ q.y = p.y
  BY <1>5, AdvanceKeeps
<1> HIDE DEF q
<1>7. /\ At(t, n)[1] \in Nat /\ At(t, n)[2] \in 0 .. Cols - 2
      /\ IF p.x >= Cols - 2 THEN At(t, k) = << p.y + 1, 0 >>
         ELSE At(t, k) = << p.y, p.x + 1 >>
  BY <1>1, NextPlace
<1>8. q.y = At(t, k)[1] /\ q.x = At(t, k)[2]
  <2>1. CASE p.x >= Cols - 2
    <3>1. At(t, k) = << p.y + 1, 0 >>
      BY <1>7, <2>1
    <3>2. q.x = 0 /\ q.y = p.y + 1
      BY <1>4, <1>6, <2>1, ScreenSize
    <3> QED BY <3>1, <3>2
  <2>2. CASE ~ (p.x >= Cols - 2)
    <3>1. At(t, k) = << p.y, p.x + 1 >>
      BY <1>7, <2>2
    <3>2. q.x = p.x + 1 /\ q.y = p.y
      BY <1>4, <1>6, <2>2, ScreenSize
    <3> QED BY <3>1, <3>2
  <2> QED BY <2>1, <2>2
<1>9. ASSUME NEW r \in Row, NEW c \in 0 .. Cols - 2, r >= t, Nth(t, r, c) <= k
      PROVE  q.cells[r][c] = [ink |-> {text[Nth(t, r, c)]}, inverted |-> FALSE]
  <2>1. r \in Nat /\ r \in Band /\ c \in Col /\ c \in Nat
    BY ScreenSize DEF Row, Band, Col
  <2>2. /\ Nth(t, r, c) \in Nat
        /\ r = p.y /\ c = p.x => Nth(t, r, c) = n + 1
        /\ r > p.y \/ (r = p.y /\ c > p.x) => Nth(t, r, c) > n + 1
        /\ r < p.y \/ (r = p.y /\ c < p.x) => Nth(t, r, c) <= n
    BY <1>1, <1>9, <2>1, Places
  <2>3. CASE r = p.y /\ c = p.x
    <3>1. Nth(t, r, c) = k
      BY <2>2, <2>3
    <3>2. p.cells[p.y][p.x] = Blank
      BY <1>5 DEF Plain
    <3>3. q.cells[r][c] = [Blank EXCEPT !.ink = @ \cup {ch}]
      BY <1>5, <1>6, <2>3, <3>2
    <3>4. q.cells[r][c] = [ink |-> {ch}, inverted |-> FALSE]
      BY <3>3 DEF Blank
    <3> QED BY <3>1, <3>4 DEF ch
  <2>4. CASE ~ (r = p.y /\ c = p.x)
    <3>1. Nth(t, r, c) <= n
      BY <1>4, <1>9, <2>1, <2>2, <2>4
    <3>2. Nth(t, r, c) <= Len(text)
      BY <2>2, <3>1
    <3>3. q.cells[r][c] = p.cells[r][c]
      BY <1>5, <1>6, <2>1, <2>4
    <3> QED BY <1>1, <1>9, <3>1, <3>2, <3>3 DEF Spelled
  <2> QED BY <2>3, <2>4
<1>10. Spelled(q.cells, t, text, k)
  BY <1>9 DEF Spelled
<1> QED BY <1>3, <1>5, <1>6, <1>8, <1>10 DEF PenSpells

\* The prompt is printed at the start of a line and stays on the screen.
LEMMA PromptSpells ==
  ASSUME NEW p \in CleanPen, Plain(p), p.x = 0, p.y \in Row, ~ Falls(p, Prompt)
  PROVE  LET q == Kprint(p, Prompt) n == Len(Prompt)
         IN  q.y \in Row /\ (n > 0 => q.dirty = TRUE) /\ PenSpells(q, p.y, Prompt, n)
<1> DEFINE n == Len(Prompt)
           P == Pens(p, Prompt)
<1>1. n \in Nat /\ Prompt \in Seq(Symbol) /\ Kprint(p, Prompt) = P[n]
  BY PrintableSymbols DEF Printable, Kprint
<1>2. \A k \in 1 .. n : Prompt[k] # NL
  BY ConsoleAssumption
<1>3. /\ P[0] = p /\ \A k \in 0 .. n : P[k] \in CleanPen
      /\ \A k \in 1 .. n : P[k] = PutChar(P[k - 1], Prompt[k])
  BY <1>1, PensRun
<1>4. \A k \in 1 .. n : ~ (P[k].y >= Rows)
  BY DEF Falls
<1> HIDE DEF P
<1> DEFINE Good(k) == /\ P[k].y \in Row /\ Plain(P[k])
                      /\ k > 0 => P[k].dirty = TRUE
                      /\ PenSpells(P[k], p.y, Prompt, k)
           T == { k \in 0 .. n : Good(k) }
<1>5. p.y \in Nat
  BY DEF Row
<1>6. 0 \in T
  <2>1. At(p.y, 0) = << p.y, 0 >>
    <3>1. PICK w \in Nat \ {0} : w = Cols - 1
      BY ScreenSize
    <3>2. 0 \div w = 0
      BY QuotientIs
    <3>3. 0 % w = 0
      <4>1. PICK m \in 0 .. w - 1 : m = 0 % w
        BY Rest
      <4>2. 0 = w * 0 + m
        BY <3>2, <4>1, Division
      <4> QED BY <4>1, <4>2
    <3> QED BY <1>5, <3>1, <3>2, <3>3 DEF At
  <2>2. Spelled(p.cells, p.y, Prompt, 0)
    <3>1. ASSUME NEW r \in Row, NEW c \in 0 .. Cols - 2, r >= p.y PROVE ~ (Nth(p.y, r, c) <= 0)
      <4>1. r \in Nat
        BY DEF Row
      <4>2. Nth(p.y, r, c) \in Nat /\ Nth(p.y, r, c) > 0
        BY <1>5, <3>1, <4>1, Places
      <4> QED BY <4>2
    <3> QED BY <3>1 DEF Spelled
  <2>3. P[0].y = At(p.y, 0)[1] /\ P[0].x = At(p.y, 0)[2]
    BY <1>3, <2>1
  <2>4. Good(0)
    BY <1>3, <2>2, <2>3 DEF PenSpells
  <2> HIDE DEF Good
  <2> QED BY <1>1, <2>4
<1>7. ASSUME NEW k \in 0 .. n - 1, k \in T PROVE k + 1 \in T
  <2>1. k \in Nat /\ k \in 0 .. n /\ k + 1 \in 1 .. n /\ k + 1 \in 0 .. n /\ (k + 1) - 1 = k /\ k + 1 <= n
    BY <1>1
  <2>2. Good(k)
    BY <1>7
  <2>3. P[k] \in CleanPen /\ P[k + 1] \in CleanPen /\ P[k + 1] = PutChar(P[k], Prompt[k + 1])
    BY <1>3, <2>1
  <2>4. Prompt[k + 1] # NL /\ ~ (P[k + 1].y >= Rows)
    BY <1>2, <1>4, <2>1
  <2>5. P[k + 1].dirty = TRUE /\ PenSpells(P[k + 1], p.y, Prompt, k + 1)
    <3>1. Plain(P[k]) /\ P[k].y \in Row /\ PenSpells(P[k], p.y, Prompt, k)
      BY <2>2
    <3>2. Prompt \in Seq(Symbol) /\ k + 1 \in 1 .. Len(Prompt)
      BY <1>1, <2>1
    <3> HIDE DEF n
    <3> QED BY <1>5, <2>1, <2>3, <2>4, <3>1, <3>2, PutSpells
  <2>6. Prompt[k + 1] \in Symbol
    BY <1>1, <2>1, ElementOfSeq
  <2>7. Plain(P[k + 1])
    BY <2>3, <2>6, PutKeeps DEF CleanPen
  <2>8. P[k + 1].y \in Row
    <3>1. P[k + 1].y \in Nat
      BY <2>3, PenIs DEF CleanPen
    <3> QED BY <2>4, <3>1, ScreenSize DEF Row
  <2>9. Good(k + 1)
    BY <2>5, <2>7, <2>8
  <2> HIDE DEF Good
  <2> QED BY <2>1, <2>9
<1> HIDE DEF T
<1>8. n \in T
  BY <1>1, <1>6, <1>7, EachTurn
<1>9. Good(n)
  BY <1>8 DEF T
<1> QED BY <1>1, <1>9

LEMMA PenClean == ASSUME CnTypeOK, CursorKept PROVE Pen \in CleanPen /\ Pen.cells = back /\ Pen.dirty = dirty /\ Pen.x = cx /\ Pen.y = cy /\ Pen.spare = spare
BY DEF CnTypeOK, CursorKept, CleanPen, PenType, Pen

\* The pen is put down: what is drawn and not marked dirty can be seen.
LEMMA Finished ==
  ASSUME CnTypeOK, Flushed, NEW p \in PenType, NEW flush \in BOOLEAN, Finish(p, flush),
         buffered' = buffered,
         p.dirty = TRUE \/ (/\ p.dirty = dirty
                            /\ \A r \in Band, c \in Col : p.cells[r][c].ink = back[r][c].ink)
  PROVE  /\ back' \in ScreenCells /\ vram' \in ScreenCells /\ dirty' \in BOOLEAN
         /\ back' = p.cells /\ cx' = p.x /\ cy' = p.y /\ cx' \in Col /\ cy' \in Nat
         /\ spare' = p.spare /\ spare' \in BOOLEAN
         /\ ~ buffered' => vram' = back'
         /\ buffered' /\ ~ dirty' => SameInk'
         /\ flush = TRUE /\ buffered => dirty' = FALSE
         /\ vram' = back' \/ (vram' = vram /\ ~ (flush = TRUE /\ p.dirty = TRUE))
<1>1. p.cells \in ScreenCells /\ p.dirty \in BOOLEAN /\ p.x \in Col /\ p.y \in Nat /\ p.spare \in BOOLEAN
  BY PenIs
<1>2. vram \in ScreenCells /\ buffered \in BOOLEAN /\ dirty \in BOOLEAN
  BY DEF CnTypeOK
<1>3. back' = p.cells /\ cx' = p.x /\ cy' = p.y /\ spare' = p.spare
  BY DEF Finish
<1>4. CASE buffered = FALSE
  <2>1. vram' = p.cells /\ dirty' = p.dirty
    BY <1>4 DEF Finish
  <2> QED BY <1>1, <1>3, <1>4, <2>1
<1>5. CASE buffered = TRUE /\ flush = TRUE /\ p.dirty = TRUE
  <2>1. vram' = p.cells /\ dirty' = FALSE
    BY <1>5 DEF Finish
  <2>2. SameInk'
    BY <1>3, <2>1 DEF SameInk
  <2> QED BY <1>1, <1>3, <1>5, <2>1, <2>2
<1>6. CASE buffered = TRUE /\ ~ (flush = TRUE /\ p.dirty = TRUE)
  <2>1. vram' = vram /\ dirty' = p.dirty
    BY <1>1, <1>6 DEF Finish
  <2>2. flush = TRUE => p.dirty = FALSE
    BY <1>1, <1>6
  <2>3. ASSUME p.dirty = FALSE PROVE SameInk'
    <3>1. dirty = FALSE /\ \A r \in Band, c \in Col : back'[r][c].ink = back[r][c].ink
      BY <1>3, <2>3
    <3>2. SameInk
      BY <1>6, <3>1 DEF Flushed
    <3> QED BY <2>1, <3>1, <3>2 DEF SameInk
  <2> QED BY <1>1, <1>2, <1>3, <1>6, <2>1, <2>2, <2>3
<1> QED BY <1>1, <1>2, <1>4, <1>5, <1>6

LEMMA PenLeft ==
  ASSUME NEW p, back' = p.cells, cx' = p.x, cy' = p.y, spare' = p.spare
  PROVE  /\ Beyond(p) => Beyond(Pen)'
         /\ Plain(p) => Plain(Pen)'
         /\ p.x = 0 /\ p.y \in InView(p) => AtStart'
BY DEF Beyond, Plain, After, Pen, InView, AtStart

\* What a text printed by the editor, a lock key or the kernel leaves.
ScreenKept ==
  /\ back \in ScreenCells /\ vram \in ScreenCells /\ {spare, dirty} \subseteq BOOLEAN
  /\ cx \in Col /\ cy \in Nat
  /\ cy \in InView(Pen) => back[cy][cx].ink = {}
  /\ ~ visible => Plain(Pen)
  /\ Beyond(Pen)
  /\ ~ buffered => vram = back
  /\ buffered /\ ~ dirty => SameInk

LEMMA Printed ==
  ASSUME CnTypeOK, CursorKept, Flushed, NEW text \in Printable, NEW flush \in BOOLEAN,
         Finish(Kprint(Pen, text), flush), UNCHANGED << buffered, visible >>
  PROVE  /\ ScreenKept'
         /\ flush = TRUE /\ buffered => dirty' = FALSE
         /\ EndsLine(text) => AtStart'
         /\ text = << >> => (AtStart => AtStart')
<1> DEFINE q == Kprint(Pen, text)
<1>1. Pen \in CleanPen /\ Pen.cells = back /\ Pen.dirty = dirty /\ Pen.x = cx /\ Pen.y = cy
      /\ Pen.spare = spare
  BY PenClean
<1>2. text \in Seq(Symbol)
  BY PrintableSymbols
<1>3. /\ q \in CleanPen
      /\ text # << >> => Plain(q)
      /\ text = << >> => q = Pen
      /\ q.dirty = TRUE \/ (q.dirty = Pen.dirty /\ q.cells = Pen.cells)
      /\ EndsLine(text) => q.x = 0 /\ q.y \in InView(q)
  BY <1>1, <1>2, TextKeeps
<1> HIDE DEF q
<1>4. q \in PenType /\ Beyond(q)
  BY <1>3 DEF CleanPen
<1>5. q.dirty = TRUE \/ (/\ q.dirty = dirty
                         /\ \A r \in Band, c \in Col : q.cells[r][c].ink = back[r][c].ink)
  BY <1>1, <1>3
<1>6. Finish(q, flush) /\ buffered' = buffered /\ visible' = visible
  BY DEF q
<1>7. /\ back' \in ScreenCells /\ vram' \in ScreenCells /\ dirty' \in BOOLEAN
      /\ back' = q.cells /\ cx' = q.x /\ cy' = q.y /\ cx' \in Col /\ cy' \in Nat
      /\ spare' = q.spare /\ spare' \in BOOLEAN
      /\ ~ buffered' => vram' = back'
      /\ buffered' /\ ~ dirty' => SameInk'
      /\ flush = TRUE /\ buffered => dirty' = FALSE
  BY <1>4, <1>5, <1>6, Finished
<1>8. Beyond(Pen)' /\ (Plain(q) => Plain(Pen)') /\ (q.x = 0 /\ q.y \in InView(q) => AtStart')
  BY <1>4, <1>7, PenLeft
<1>9. (cy' \in InView(Pen)' => back'[cy'][cx'].ink = {}) /\ (~ visible' => Plain(Pen)')
  <2>1. CASE text # << >>
    <3>1. Plain(Pen)' /\ Plain(q)
      BY <1>3, <1>8, <2>1
    <3>2. q.y \in InView(q) => q.cells[q.y][q.x].ink = {}
      BY <3>1, BlankCell DEF Plain
    <3>3. InView(Pen)' = InView(q)
      BY <1>7 DEF InView, Pen
    <3> QED BY <1>7, <3>1, <3>2, <3>3
  <2>2. CASE text = << >>
    <3>1. q = Pen
      BY <1>3, <2>2
    <3>2. back' = back /\ cx' = cx /\ cy' = cy /\ InView(Pen)' = InView(Pen)
      BY <1>1, <1>7, <3>1 DEF InView, Pen
    <3>3. ~ visible' => Plain(q)
      BY <1>6, <3>1 DEF CursorKept
    <3> QED BY <1>8, <3>2, <3>3 DEF CursorKept
  <2> QED BY <2>1, <2>2
<1>10. ScreenKept'
  BY <1>7, <1>8, <1>9 DEF ScreenKept
<1>11. EndsLine(text) => AtStart'
  BY <1>3, <1>8
<1>12. text = << >> => (AtStart => AtStart')
  BY <1>1, <1>3, <1>8 DEF AtStart
<1> QED BY <1>7, <1>10, <1>11, <1>12

\* fb_cursor_show and fb_cursor_hide change the cursor's cell and no other.
LEMMA CellSet ==
  ASSUME CnTypeOK, CursorKept, Flushed, NEW cell \in ScreenCell, cell.ink = {}, SetCell(cell),
         buffered' = buffered, visible' = FALSE => cell = Blank
  PROVE  /\ ScreenKept' /\ cx' = cx /\ cy' = cy /\ spare' = spare
         /\ buffered => dirty' = FALSE
         /\ \A r \in Band, c \in Col : ~ (r = cy /\ c = cx) => back'[r][c] = back[r][c]
         /\ vram' = vram \/ vram' = back'
<1> DEFINE after == IF OnScreen THEN With(back, cy, cx, cell) ELSE back
           p == [Pen EXCEPT !.cells = after]
<1>1. back \in ScreenCells /\ cx \in Col /\ cy \in Nat /\ dirty \in BOOLEAN /\ spare \in BOOLEAN
      /\ Pen.spare = spare
  BY DEF CnTypeOK, Pen
<1>2. Finish(p, TRUE)
  BY DEF SetCell, With
<1>3. OnScreen <=> cy \in InView(Pen)
  BY <1>1 DEF OnScreen
<1>4. /\ after \in ScreenCells
      /\ IF cy \in InView(Pen) THEN after[cy][cx] = cell ELSE after = back
      /\ \A r \in Band, c \in Col : ~ (r = cy /\ c = cx) => after[r][c] = back[r][c]
  <2>1. CASE cy \in InView(Pen)
    <3>1. cy \in Band
      BY <1>1, <2>1, PenHere
    <3>2. after = With(back, cy, cx, cell)
      BY <1>3, <2>1
    <3> HIDE DEF after
    <3> QED BY <1>1, <2>1, <3>1, <3>2, CellReplaced
  <2>2. CASE cy \notin InView(Pen)
    BY <1>1, <1>3, <2>2
  <2> QED BY <2>1, <2>2
<1> HIDE DEF after
<1>5. p = [cells |-> after, spare |-> spare, dirty |-> dirty, x |-> cx, y |-> cy]
  BY DEF Pen
<1> HIDE DEF p
<1>6. p \in PenType /\ p.cells = after /\ p.dirty = dirty /\ p.x = cx /\ p.y = cy
      /\ p.spare = spare /\ InView(p) = InView(Pen)
  <2>1. /\ p.cells = after /\ p.dirty = dirty /\ p.x = cx /\ p.y = cy /\ p.spare = spare
    BY <1>5
  <2>2. p \in PenType
    BY <1>1, <1>4, <1>5 DEF PenType
  <2>3. InView(p) = InView(Pen)
    BY <1>1, <2>1 DEF InView
  <2> QED BY <2>1, <2>2, <2>3
<1>7. \A r \in Band, c \in Col : p.cells[r][c].ink = back[r][c].ink
  <2>1. cy \in InView(Pen) => back[cy][cx].ink = {}
    BY DEF CursorKept
  <2>2. ASSUME NEW r \in Band, NEW c \in Col
        PROVE  after[r][c].ink = back[r][c].ink
    <3>1. CASE r = cy /\ c = cx
      BY <1>4, <2>1, <3>1
    <3>2. CASE ~ (r = cy /\ c = cx)
      BY <1>4, <2>2, <3>2
    <3> QED BY <3>1, <3>2
  <2> QED BY <1>6, <2>2
<1>8. /\ back' \in ScreenCells /\ vram' \in ScreenCells /\ dirty' \in BOOLEAN
      /\ back' = p.cells /\ cx' = p.x /\ cy' = p.y /\ cx' \in Col /\ cy' \in Nat
      /\ spare' = p.spare /\ spare' \in BOOLEAN /\ InView(Pen)' = InView(p)
      /\ ~ buffered' => vram' = back'
      /\ buffered' /\ ~ dirty' => SameInk'
      /\ TRUE = TRUE /\ buffered => dirty' = FALSE
      /\ vram' = back' \/ (vram' = vram /\ ~ (TRUE = TRUE /\ p.dirty = TRUE))
  BY <1>2, <1>6, <1>7, Finished DEF InView, Pen
<1>9. Beyond(p)
  <2>1. \A r \in InView(Pen), c \in Col : After(p, r, c) => After(Pen, r, c) /\ ~ (r = cy /\ c = cx)
    BY <1>1, <1>6, ScreenSize DEF After, Pen, Col
  <2>2. \A r \in InView(Pen), c \in Col : After(Pen, r, c) => back[r][c] = Blank
    BY DEF CursorKept, Beyond, Pen
  <2>3. InView(Pen) \subseteq Band
    BY <1>1, PenHere
  <2> QED BY <1>4, <1>6, <2>1, <2>2, <2>3 DEF Beyond
<1>10. Beyond(Pen)' /\ (Plain(p) => Plain(Pen)')
  BY <1>8, <1>9, PenLeft
<1>11. visible' = FALSE => Plain(p)
  BY <1>4, <1>6 DEF Plain
<1>12. ScreenKept'
  <2>1. cy' \in InView(Pen)' => back'[cy'][cx'].ink = {}
    BY <1>4, <1>6, <1>8
  <2>2. ~ visible' => Plain(Pen)'
    BY <1>10, <1>11
  <2> QED BY <1>8, <1>10, <2>1, <2>2 DEF ScreenKept
<1> QED BY <1>4, <1>6, <1>8, <1>12

EditorTypes ==
  /\ buffered \in BOOLEAN /\ quiet \in BOOLEAN /\ visible \in BOOLEAN
  /\ buf \in Seq(Typed) /\ Len(buf) < BufSize
  /\ step \in {"hide", "print", "show", "poll", "command", "done"}
  /\ op.kind \in {"prompt", "key", "erase", "enter", "output"}
  /\ blink \in BOOLEAN /\ torn \in BOOLEAN
  /\ top \in Nat /\ strokes \in 0 .. StrokeCap /\ noise \in 0 .. NoiseCap

LEMMA CnParts ==
  ASSUME CnInv
  PROVE  /\ CnTypeOK /\ Doing /\ CursorKept /\ Flushed /\ LineStart /\ Echo
         /\ EditorTypes /\ ScreenKept
BY DEF CnInv, EditorTypes, ScreenKept, CursorKept, Flushed, CnTypeOK

LEMMA Assembled ==
  ASSUME ScreenKept', EditorTypes', Doing', LineStart', Echo',
         saved' = Blank, quiet' => ~ visible', step' \in {"print", "show"} => ~ visible',
         step' \in {"command", "done"} => visible' \/ quiet',
         buffered' /\ dirty' => Logged'
  PROVE  CnInv'
<1>1. CnTypeOK'
  BY DEF CnTypeOK, ScreenKept, EditorTypes
<1>2. CursorKept' /\ Flushed'
  BY DEF CursorKept, Flushed, ScreenKept
<1> QED BY <1>1, <1>2 DEF CnInv

LEMMA Showed ==
  ASSUME CnInv, CursorShow, UNCHANGED << buffered, quiet >>
  PROVE  /\ ScreenKept' /\ cx' = cx /\ cy' = cy /\ spare' = spare
         /\ saved' = Blank /\ visible' \in BOOLEAN /\ (visible' \/ quiet) /\ (quiet => ~ visible')
         /\ buffered /\ dirty = FALSE => dirty' = FALSE
         /\ \A r \in Band, c \in Col : ~ (r = cy /\ c = cx) => back'[r][c] = back[r][c]
         /\ vram' = vram \/ vram' = back'
<1>1. CnTypeOK /\ CursorKept /\ Flushed /\ ScreenKept /\ EditorTypes
  BY CnParts
<1>2. quiet \in BOOLEAN /\ visible \in BOOLEAN /\ cx \in Col /\ cy \in Nat
  BY <1>1 DEF EditorTypes, CnTypeOK
<1>3. CASE quiet \/ visible
  <2>1. UNCHANGED << back, vram, spare, dirty, cx, cy, saved, visible >>
    BY <1>3 DEF CursorShow
  <2>2. ScreenKept'
    BY <1>1, <2>1 DEF ScreenKept, Plain, Beyond, After, Pen, InView, SameInk
  <2> QED BY <1>1, <1>2, <1>3, <2>1, <2>2 DEF CursorKept
<1>4. CASE ~ (quiet \/ visible)
  <2> DEFINE cell == [Cell EXCEPT !.inverted = ~ @]
  <2>1. SetCell(cell) /\ saved' = Cell /\ visible' = TRUE
    BY <1>4 DEF CursorShow
  <2>2. Cell = Blank
    <3>1. OnScreen => cy \in InView(Pen)
      BY DEF OnScreen
    <3>2. OnScreen => back[cy][cx] = Blank
      BY <1>1, <1>4, <3>1 DEF CursorKept, Plain, Pen
    <3> QED BY <3>2 DEF Cell
  <2>3. cell \in ScreenCell /\ cell.ink = {}
    BY <2>2 DEF Blank, ScreenCell
  <2> HIDE DEF cell
  <2>4. /\ ScreenKept' /\ cx' = cx /\ cy' = cy /\ spare' = spare
        /\ buffered => dirty' = FALSE
        /\ \A r \in Band, c \in Col : ~ (r = cy /\ c = cx) => back'[r][c] = back[r][c]
        /\ vram' = vram \/ vram' = back'
    BY <1>1, <2>1, <2>3, CellSet
  <2> QED BY <1>2, <1>4, <2>1, <2>2, <2>4
<1> QED BY <1>3, <1>4

LEMMA Hid ==
  ASSUME CnInv, CursorHide, UNCHANGED << buffered, quiet >>
  PROVE  /\ ScreenKept' /\ cx' = cx /\ cy' = cy /\ spare' = spare
         /\ saved' = Blank /\ visible' = FALSE
         /\ buffered => dirty' = FALSE
         /\ \A r \in Band, c \in Col : ~ (r = cy /\ c = cx) => back'[r][c] = back[r][c]
         /\ vram' = vram \/ vram' = back'
<1>1. CnTypeOK /\ CursorKept /\ Flushed /\ ScreenKept /\ EditorTypes
  BY CnParts
<1>2. quiet \in BOOLEAN /\ visible \in BOOLEAN /\ buffered \in BOOLEAN /\ dirty \in BOOLEAN
  BY <1>1 DEF EditorTypes, ScreenKept
<1>3. CASE quiet \/ ~ visible
  <2>1. UNCHANGED << back, vram, spare, dirty, cx, cy, saved, visible >>
    BY <1>3 DEF CursorHide
  <2>2. ScreenKept'
    BY <1>1, <2>1 DEF ScreenKept, Plain, Beyond, After, Pen, InView, SameInk
  <2>3. visible = FALSE
    BY <1>1, <1>2, <1>3 DEF CursorKept
  <2>4. buffered => dirty = FALSE
    BY <1>1, <1>2, <2>3 DEF Flushed, Logged
  <2> QED BY <1>1, <2>1, <2>2, <2>3, <2>4 DEF CursorKept
<1>4. CASE ~ (quiet \/ ~ visible)
  <2>1. SetCell(Blank) /\ saved' = Blank /\ visible' = FALSE
    BY <1>1, <1>4 DEF CursorHide, CursorKept
  <2>2. Blank \in ScreenCell /\ Blank.ink = {}
    BY BlankCell
  <2>3. /\ ScreenKept' /\ cx' = cx /\ cy' = cy /\ spare' = spare
        /\ buffered => dirty' = FALSE
        /\ \A r \in Band, c \in Col : ~ (r = cy /\ c = cx) => back'[r][c] = back[r][c]
        /\ vram' = vram \/ vram' = back'
    BY <1>1, <2>1, <2>2, CellSet
  <2> QED BY <2>1, <2>3
<1> QED BY <1>3, <1>4

-----------------------------------------------------------------------------
(* The line and its echo.                                                  *)

LEMMA LineIs ==
  ASSUME CnTypeOK
  PROVE  /\ Line \in Seq(Symbol) /\ Len(Line) \in Nat /\ Len(buf) \in Nat
         /\ Len(Line) = Len(Prompt) + Len(buf)
         /\ \A i \in 1 .. Len(Prompt) : Line[i] = Prompt[i]
         /\ \A i \in 1 .. Len(buf) : Line[Len(Prompt) + i] = buf[i]
<1>1. Prompt \in Seq(Symbol) /\ Len(Prompt) \in Nat
  BY PrintableSymbols DEF Printable
<1>2. buf \in Seq(Symbol) /\ Len(buf) \in Nat
  <2>1. Typed \subseteq Symbol
    BY DEF Symbol, Glyph
  <2>2. buf \in Seq(Typed)
    BY DEF CnTypeOK
  <2>3. buf \in Seq(Symbol)
    BY <2>1, <2>2, SeqMonotonic
  <2> QED BY <2>3
<1> QED BY <1>1, <1>2 DEF Line

LEMMA WrittenIs ==
  ASSUME CnTypeOK, Doing
  PROVE  Written \in Nat
<1>1. Len(Line) \in Nat /\ Len(buf) \in Nat /\ Len(Line) = Len(Prompt) + Len(buf)
      /\ Len(Prompt) \in Nat
  BY LineIs, PrintableSymbols DEF Printable
<1>2. Editing /\ op.kind = "key" => Len(buf) > 0
  <2>1. buf # << >> => Len(buf) > 0
    BY <1>1 DEF CnTypeOK
  <2> QED BY <2>1 DEF Doing
<1> QED BY <1>1, <1>2 DEF Written

LEMMA SpelledNone == ASSUME NEW t \in Nat, NEW cells, NEW text PROVE Spelled(cells, t, text, 0)
<1>1. ASSUME NEW r \in Row, NEW c \in 0 .. Cols - 2, r >= t PROVE ~ (Nth(t, r, c) <= 0)
  <2>1. r \in Nat
    BY DEF Row
  <2>2. Nth(t, r, c) \in Nat /\ Nth(t, r, c) > 0
    BY <1>1, <2>1, Places
  <2> QED BY <2>2
<1> QED BY <1>1 DEF Spelled

\* What was written of one text is written of another that begins like it.
LEMMA SpelledSame ==
  ASSUME NEW t \in Nat, NEW n \in Nat, NEW cells, NEW text, NEW other,
         Len(text) \in Nat, n <= Len(text),
         \A i \in 1 .. n : i <= Len(other) => other[i] = text[i],
         Spelled(cells, t, text, n)
  PROVE  Spelled(cells, t, other, n)
<1>1. ASSUME NEW r \in Row, NEW c \in 0 .. Cols - 2, r >= t,
             Nth(t, r, c) <= n, Nth(t, r, c) <= Len(other)
      PROVE  cells[r][c] = [ink |-> {other[Nth(t, r, c)]}, inverted |-> FALSE]
  <2>1. r \in Nat
    BY DEF Row
  <2>2. Nth(t, r, c) \in Nat /\ Nth(t, r, c) > 0
    BY <1>1, <2>1, Places
  <2>3. Nth(t, r, c) \in 1 .. n /\ Nth(t, r, c) <= Len(text)
    BY <1>1, <2>2
  <2>4. other[Nth(t, r, c)] = text[Nth(t, r, c)]
    BY <1>1, <2>3
  <2> QED BY <1>1, <2>3, <2>4 DEF Spelled
<1> QED BY <1>1 DEF Spelled

\* What changes at the place of n is not among the first n.
LEMMA SpelledBefore ==
  ASSUME NEW t \in Nat, NEW n \in Nat, NEW y, NEW x, y = At(t, n)[1], x = At(t, n)[2],
         NEW cells, NEW after, NEW text,
         \A r \in Band, c \in Col : ~ (r = y /\ c = x) => after[r][c] = cells[r][c],
         Spelled(cells, t, text, n)
  PROVE  Spelled(after, t, text, n)
<1>1. ASSUME NEW r \in Row, NEW c \in 0 .. Cols - 2, r >= t,
             Nth(t, r, c) <= n, Nth(t, r, c) <= Len(text)
      PROVE  after[r][c] = [ink |-> {text[Nth(t, r, c)]}, inverted |-> FALSE]
  <2>1. r \in Nat /\ r \in Band /\ c \in Col
    BY ScreenSize DEF Row, Band, Col
  <2>2. /\ Nth(t, r, c) \in Nat
        /\ r = At(t, n)[1] /\ c = At(t, n)[2] => Nth(t, r, c) = n + 1
    BY <1>1, <2>1, Places
  <2>3. ~ (r = y /\ c = x)
    BY <1>1, <2>2
  <2> QED BY <1>1, <2>1, <2>3 DEF Spelled
<1> QED BY <1>1 DEF Spelled

\* The cursor comes or goes behind what is written.
LEMMA EchoUnderCursor ==
  ASSUME CnTypeOK, NEW n \in Nat, EchoAt(n), UNCHANGED << top, buf >>, cx' = cx, cy' = cy,
         \A r \in Band, c \in Col : ~ (r = cy /\ c = cx) => back'[r][c] = back[r][c],
         vram' = vram \/ vram' = back'
  PROVE  EchoAt(n)'
<1>1. top \in Nat /\ cy \in Row /\ cy = At(top, n)[1] /\ cx = At(top, n)[2]
  BY DEF CnTypeOK, EchoAt
<1>2. Spelled(back', top, Line, n)
  BY <1>1, SpelledBefore DEF EchoAt
<1>3. Spelled(vram', top, Line, n)
  BY <1>2 DEF EchoAt
<1>4. top' = top /\ Line' = Line
  BY DEF Line
<1> QED BY <1>1, <1>2, <1>3, <1>4 DEF EchoAt

LEMMA CnInitial == CnInit => CnInv
<1>1. SUFFICES ASSUME CnInit PROVE CnInv
  OBVIOUS
<1>2. /\ back = [r \in Band |-> BlankRow] /\ vram = back /\ dirty = FALSE /\ cx = 0 /\ cy \in InView(Pen) /\ spare \in BOOLEAN
      /\ saved = Blank /\ visible = FALSE /\ buf = << >> /\ step = "hide"
      /\ op = [kind |-> "prompt", text |-> Prompt]
      /\ buffered \in BOOLEAN /\ quiet \in BOOLEAN /\ blink = FALSE /\ strokes = 0 /\ noise = 0
      /\ top = cy /\ torn = FALSE
  BY <1>1 DEF CnInit, InView, Pen
<1>3. cy \in Nat /\ InView(Pen) \subseteq Band
  <2>1. cy \in Band
    BY <1>2, PenHere
  <2> QED BY <1>2, <2>1, PenHere DEF Band
<1>4. back \in ScreenCells /\ vram \in ScreenCells
  BY <1>2, BlankCell, ScreenSets
<1>5. \A r \in Band, c \in Col : back[r][c] = Blank
  BY <1>2 DEF BlankRow
<1>6. CnTypeOK
  <2>1. buf \in Seq(Typed) /\ Len(buf) < BufSize
    BY <1>2, ConsoleAssumption
  <2>2. strokes \in 0 .. StrokeCap /\ noise \in 0 .. NoiseCap
    BY <1>2, ConsoleAssumption
  <2>3. op.kind = "prompt"
    BY <1>2
  <2> QED BY <1>2, <1>3, <1>4, <2>1, <2>2, <2>3, ScreenSize DEF CnTypeOK
<1>7. Doing
  BY <1>2 DEF Doing
<1>8. CursorKept
  BY <1>2, <1>3, <1>5, BlankCell, ScreenSize DEF CursorKept, Plain, Beyond, Pen
<1>9. Flushed /\ LineStart
  BY <1>2, <1>3 DEF Flushed, LineStart, AtStart, SameInk
<1>10. Echo
  BY <1>2 DEF Echo, Echoing
<1> QED BY <1>6, <1>7, <1>8, <1>9, <1>10 DEF CnInv

-----------------------------------------------------------------------------
(* The cursor.                                                             *)

LEMMA HideStep == ASSUME CnInv, Hide PROVE CnInv'
<1>1. /\ step = "hide" /\ CursorHide /\ step' = "print"
      /\ UNCHANGED << buffered, quiet, strokes, noise, buf, op, blink, top, torn >>
  BY DEF Hide, still, config
<1>2. CnTypeOK /\ Doing /\ LineStart /\ Echo /\ EditorTypes
  BY CnParts
<1>3. /\ ScreenKept' /\ cx' = cx /\ cy' = cy /\ spare' = spare
      /\ saved' = Blank /\ visible' = FALSE
      /\ buffered => dirty' = FALSE
      /\ \A r \in Band, c \in Col : ~ (r = cy /\ c = cx) => back'[r][c] = back[r][c]
      /\ vram' = vram \/ vram' = back'
  BY <1>1, Hid
<1>4. EditorTypes'
  BY <1>1, <1>2, <1>3 DEF EditorTypes
<1>5. Doing'
  BY <1>1, <1>2 DEF Doing, Editing
<1>6. LineStart'
  BY <1>1, <1>2, <1>3 DEF LineStart, Starting, Editing, AtStart, InView, Pen
<1>7. Echo'
  <2>1. PICK n \in Nat : n = Written
    BY <1>2, WrittenIs
  <2>2. Written' = n
    BY <1>1, <2>1 DEF Written, Editing, Line
  <2>3. Echoing' /\ ~ torn' => EchoAt(n)
    BY <1>1, <1>2, <2>1 DEF Echo, Echoing, Editing
  <2>4. EchoAt(n) => EchoAt(n)'
    BY <1>1, <1>2, <1>3, EchoUnderCursor
  <2> QED BY <2>2, <2>3, <2>4 DEF Echo, EchoAt
<1> QED BY <1>1, <1>3, <1>4, <1>5, <1>6, <1>7, Assembled

LEMMA ShowStep == ASSUME CnInv, Show PROVE CnInv'
<1>1. /\ step = "show" /\ CursorShow
      /\ UNCHANGED << buffered, quiet, strokes, noise, buf, op, blink, top, torn >>
  BY DEF Show, still, config
<1>2. CnTypeOK /\ Doing /\ LineStart /\ Echo /\ EditorTypes /\ Flushed /\ CursorKept
  BY CnParts
<1>3. /\ ScreenKept' /\ cx' = cx /\ cy' = cy /\ spare' = spare
      /\ saved' = Blank /\ visible' \in BOOLEAN /\ (visible' \/ quiet) /\ (quiet => ~ visible')
      /\ buffered /\ dirty = FALSE => dirty' = FALSE
      /\ \A r \in Band, c \in Col : ~ (r = cy /\ c = cx) => back'[r][c] = back[r][c]
      /\ vram' = vram \/ vram' = back'
  BY <1>1, Showed
<1>4. /\ op.kind \in {"prompt", "key", "erase"} => step' = "poll"
      /\ op.kind = "enter" => step' = "command"
      /\ op.kind = "output" => step' = "done"
      /\ op.kind \in {"prompt", "key", "erase", "enter", "output"}
  BY <1>2 DEF Show, EditorTypes
<1>5. step' \in {"poll", "command", "done"} /\ ~ Editing /\ ~ Editing'
  BY <1>1, <1>4 DEF Editing
<1>6. EditorTypes'
  BY <1>1, <1>2, <1>3, <1>5 DEF EditorTypes
<1>7. Doing'
  BY <1>1, <1>2, <1>4, <1>5 DEF Doing
<1>8. LineStart'
  BY <1>1, <1>2, <1>3, <1>4, <1>5 DEF LineStart, Starting, AtStart, InView, Pen
<1>9. buffered' => dirty' = FALSE
  BY <1>1, <1>2, <1>3 DEF Flushed, Logged, EditorTypes, CnTypeOK
<1>10. Echo'
  <2>1. PICK n \in Nat : n = Written
    BY <1>2, WrittenIs
  <2>2. Written' = n
    BY <1>1, <1>5, <2>1 DEF Written, Line
  <2>3. Echoing' /\ ~ torn' => EchoAt(n)
    BY <1>1, <1>2, <1>4, <1>5, <2>1 DEF Echo, Echoing
  <2>4. EchoAt(n) => EchoAt(n)'
    BY <1>1, <1>2, <1>3, EchoUnderCursor
  <2> QED BY <2>2, <2>3, <2>4 DEF Echo, EchoAt
<1> QED BY <1>1, <1>3, <1>5, <1>6, <1>7, <1>8, <1>9, <1>10, Assembled

LEMMA BlinkStep == ASSUME CnInv, Blink PROVE CnInv'
<1>1. /\ step = "poll" /\ step' = "poll" /\ (CursorShow \/ CursorHide)
      /\ UNCHANGED << buffered, quiet, strokes, noise, buf, op, top, torn >>
  BY DEF Blink, still, config
<1>2. CnTypeOK /\ Doing /\ LineStart /\ Echo /\ EditorTypes /\ Flushed /\ CursorKept
  BY CnParts
<1>3. blink' \in BOOLEAN
  BY DEF Blink
<1>4. buffered => dirty = FALSE
  BY <1>1, <1>2 DEF Flushed, Logged, EditorTypes, CnTypeOK
<1>5. /\ ScreenKept' /\ cx' = cx /\ cy' = cy /\ spare' = spare
      /\ saved' = Blank /\ visible' \in BOOLEAN /\ (quiet => ~ visible')
      /\ buffered => dirty' = FALSE
      /\ \A r \in Band, c \in Col : ~ (r = cy /\ c = cx) => back'[r][c] = back[r][c]
      /\ vram' = vram \/ vram' = back'
  <2>1. CASE CursorShow
    BY <1>1, <1>4, <2>1, Showed
  <2>2. CASE CursorHide
    BY <1>1, <2>2, Hid
  <2> QED BY <1>1, <2>1, <2>2
<1>6. EditorTypes'
  BY <1>1, <1>2, <1>3, <1>5 DEF EditorTypes
<1>7. Doing' /\ LineStart'
  BY <1>1, <1>2 DEF Doing, Editing, LineStart, Starting, AtStart, InView, Pen
<1>8. Echo'
  <2>1. PICK n \in Nat : n = Written
    BY <1>2, WrittenIs
  <2>2. Written' = n
    BY <1>1, <2>1 DEF Written, Line, Editing
  <2>3. ~ torn' => EchoAt(n)
    BY <1>1, <1>2, <2>1 DEF Echo, Echoing
  <2>4. EchoAt(n) => EchoAt(n)'
    BY <1>1, <1>2, <1>5, EchoUnderCursor
  <2> QED BY <2>2, <2>3, <2>4 DEF Echo, EchoAt
<1> QED BY <1>1, <1>5, <1>6, <1>7, <1>8, Assembled

-----------------------------------------------------------------------------
(* Keys and commands: the screen stays as it is.                           *)

LEMMA Begins ==
  ASSUME CnInv, step' = "hide", UNCHANGED << buffered, quiet, screen >>,
         EditorTypes', Doing', Echo',
         op'.kind \in {"prompt", "output"} <=> step \in {"command", "done"}, step # "hide"
  PROVE  CnInv'
<1>1. CnTypeOK /\ ScreenKept /\ LineStart /\ Flushed /\ CursorKept
  BY CnParts
<1>2. UNCHANGED << back, vram, spare, dirty, cx, cy, saved, visible >>
  BY DEF screen
<1>3. ScreenKept'
  BY <1>1, <1>2 DEF ScreenKept, Plain, Beyond, After, Pen, InView, SameInk
<1>4. LineStart'
  BY <1>1, <1>2 DEF LineStart, Starting, Editing, AtStart, InView, Pen
<1>5. saved' = Blank /\ (quiet' => ~ visible')
  BY <1>1, <1>2 DEF CursorKept
<1>6. buffered' /\ dirty' => Logged'
  BY <1>1, <1>2 DEF Flushed, Logged
<1> QED BY <1>3, <1>4, <1>5, <1>6, Assembled

LEMMA KeyStep == ASSUME CnInv, NEW ch \in Typed, Key(ch) PROVE CnInv'
<1>1. /\ step = "poll" /\ step' = "hide" /\ buf' = Append(buf, ch) /\ Len(buf) < BufSize - 1
      /\ op' = [kind |-> "key", text |-> << ch >>] /\ strokes < StrokeCap /\ strokes' = strokes + 1
      /\ UNCHANGED << buffered, quiet, noise, screen, blink, top, torn >>
  BY DEF Key, Begin, Stroke, HasRoom, config
<1>2. CnTypeOK /\ Echo /\ EditorTypes
  BY CnParts
<1>3. buf \in Seq(Typed) /\ Len(buf) \in Nat /\ top \in Nat
  BY <1>2 DEF EditorTypes
<1>4. /\ buf' \in Seq(Typed) /\ Len(buf') = Len(buf) + 1 /\ buf' # << >>
      /\ buf'[Len(buf')] = ch
  BY <1>1, <1>3
<1>5. op'.kind = "key" /\ op'.text = << ch >>
  BY <1>1
<1>6. EditorTypes'
  <2>1. Len(buf') < BufSize
    BY <1>1, <1>3, <1>4, ConsoleAssumption
  <2>2. strokes' \in 0 .. StrokeCap
    BY <1>1, <1>2, ConsoleAssumption DEF EditorTypes
  <2>3. visible' = visible
    BY <1>1 DEF screen
  <2> QED BY <1>1, <1>2, <1>4, <1>5, <2>1, <2>2, <2>3 DEF EditorTypes
<1>7. Doing'
  BY <1>1, <1>4, <1>5 DEF Doing
<1>8. Echo'
  <2>1. PICK n \in Nat : n = Len(Line)
    BY <1>2, LineIs
  <2>2. Line \in Seq(Symbol) /\ Prompt \in Seq(Symbol)
    BY <1>2, LineIs, PrintableSymbols DEF Printable
  <2>3. Line' = Prompt \o Append(buf, ch)
    BY <1>1 DEF Line
  <2>4. Len(Line') = n + 1 /\ \A i \in 1 .. n : Line'[i] = Line[i]
    BY <1>3, <2>1, <2>2, <2>3 DEF Line
  <2>5. Written' = n
    BY <1>1, <1>5, <2>1, <2>4 DEF Written, Editing
  <2>6. ~ torn' => EchoAt(n)
    BY <1>1, <1>2, <2>1 DEF Echo, Echoing, Written, Editing
  <2>7. ASSUME EchoAt(n) PROVE EchoAt(n)'
    <3>1. /\ cy \in Row /\ cy = At(top, n)[1] /\ cx = At(top, n)[2]
          /\ Spelled(back, top, Line, n) /\ Spelled(vram, top, Line, n)
      BY <2>7 DEF EchoAt
    <3>2. Spelled(back, top, Line', n) /\ Spelled(vram, top, Line', n)
      BY <1>3, <2>1, <2>4, <3>1, SpelledSame
    <3>3. UNCHANGED << back, vram, cx, cy, top >>
      BY <1>1 DEF screen
    <3> QED BY <3>1, <3>2, <3>3 DEF EchoAt
  <2> QED BY <2>5, <2>6, <2>7 DEF Echo, EchoAt
<1> QED BY <1>1, <1>5, <1>6, <1>7, <1>8, Begins

LEMMA RuboutStep == ASSUME CnInv, Rubout PROVE CnInv'
<1>1. /\ step = "poll" /\ step' = "hide" /\ buf' = Front(buf) /\ buf # << >>
      /\ op' = [kind |-> "erase", text |-> << >>] /\ strokes < StrokeCap /\ strokes' = strokes + 1
      /\ UNCHANGED << buffered, quiet, noise, screen, blink, top, torn >>
  BY DEF Rubout, Begin, Stroke, config
<1>2. CnTypeOK /\ Echo /\ EditorTypes
  BY CnParts
<1>3. buf \in Seq(Typed) /\ Len(buf) \in Nat /\ top \in Nat /\ Len(buf) < BufSize /\ Len(buf) > 0
  BY <1>1, <1>2 DEF EditorTypes
<1>4. buf' \in Seq(Typed) /\ Len(buf') = Len(buf) - 1 /\ \A i \in 1 .. Len(buf') : buf'[i] = buf[i]
  <2>1. PICK m \in Nat : m = Len(buf) - 1 /\ m <= Len(buf)
    <3>1. Len(buf) - 1 \in Nat /\ Len(buf) - 1 <= Len(buf)
      BY <1>3
    <3> QED BY <3>1, Zenon
  <2>2. buf' = SubSeq(buf, 1, m)
    BY <1>1, <2>1 DEF Front
  <2>3. buf' \in Seq(Typed)
    BY <1>3, <2>1, <2>2
  <2>4. Len(buf') = m
    BY <1>3, <2>1, <2>2
  <2>5. \A i \in 1 .. m : buf'[i] = buf[i]
    BY <1>3, <2>1, <2>2
  <2> QED BY <2>1, <2>3, <2>4, <2>5
<1>5. op'.kind = "erase"
  BY <1>1
<1>6. EditorTypes'
  <2>1. Len(buf') < BufSize
    BY <1>3, <1>4, ConsoleAssumption
  <2>2. strokes' \in 0 .. StrokeCap
    BY <1>1, <1>2, ConsoleAssumption DEF EditorTypes
  <2>3. visible' = visible
    BY <1>1 DEF screen
  <2> QED BY <1>1, <1>2, <1>4, <1>5, <2>1, <2>2, <2>3 DEF EditorTypes
<1>7. Doing'
  BY <1>1, <1>5 DEF Doing
<1>8. Echo'
  <2>1. PICK n \in Nat : n = Len(Line)
    BY <1>2, LineIs
  <2>2. Line \in Seq(Symbol) /\ Prompt \in Seq(Symbol)
    BY <1>2, LineIs, PrintableSymbols DEF Printable
  <2>3. Line' = Prompt \o buf' /\ Line = Prompt \o buf
    BY DEF Line
  <2>4. Len(Line') = n - 1 /\ \A i \in 1 .. n : i <= Len(Line') => Line'[i] = Line[i]
    <3>1. /\ Len(Prompt) \in Nat /\ Len(Line) = Len(Prompt) + Len(buf)
          /\ \A i \in 1 .. Len(Prompt) : Line[i] = Prompt[i]
          /\ \A i \in 1 .. Len(buf) : Line[Len(Prompt) + i] = buf[i]
      BY <1>2, LineIs, PrintableSymbols DEF Printable
    <3>2. /\ Len(Line') = Len(Prompt) + Len(buf')
          /\ \A i \in 1 .. Len(Prompt) : Line'[i] = Prompt[i]
          /\ \A i \in 1 .. Len(buf') : Line'[Len(Prompt) + i] = buf'[i]
      BY <1>4, <2>2, <2>3
    <3>3. ASSUME NEW i \in 1 .. n, i <= Len(Line'), ~ (i <= Len(Prompt)) PROVE Line'[i] = Line[i]
      <4>1. PICK j \in Nat : i = Len(Prompt) + j /\ j > 0
        BY <3>1, <3>3
      <4>2. j \in 1 .. Len(buf') /\ j \in 1 .. Len(buf)
        BY <1>3, <1>4, <3>1, <3>2, <3>3, <4>1
      <4> QED BY <1>4, <3>1, <3>2, <4>1, <4>2
    <3>4. ASSUME NEW i \in 1 .. n, i <= Len(Prompt) PROVE Line'[i] = Line[i]
      BY <3>1, <3>2, <3>4
    <3>5. Len(Line') = n - 1
      BY <1>3, <1>4, <2>1, <3>1, <3>2
    <3> QED BY <3>3, <3>4, <3>5
  <2>5. Written' = n
    BY <1>1, <1>5, <2>1, <2>4 DEF Written, Editing
  <2>6. ~ torn' => EchoAt(n)
    BY <1>1, <1>2, <2>1 DEF Echo, Echoing, Written, Editing
  <2>7. ASSUME EchoAt(n) PROVE EchoAt(n)'
    <3>1. /\ cy \in Row /\ cy = At(top, n)[1] /\ cx = At(top, n)[2]
          /\ Spelled(back, top, Line, n) /\ Spelled(vram, top, Line, n)
      BY <2>7 DEF EchoAt
    <3>2. Spelled(back, top, Line', n) /\ Spelled(vram, top, Line', n)
      BY <1>3, <2>1, <2>4, <3>1, SpelledSame
    <3>3. UNCHANGED << back, vram, cx, cy, top >>
      BY <1>1 DEF screen
    <3> QED BY <3>1, <3>2, <3>3 DEF EchoAt
  <2> QED BY <2>5, <2>6, <2>7 DEF Echo, EchoAt
<1> QED BY <1>1, <1>5, <1>6, <1>7, <1>8, Begins

\* Enter, a command that prints and the next prompt: nothing is echoed.
LEMMA TurnStep ==
  ASSUME CnInv, Enter \/ (\E text \in Outputs : Command(text)) \/ NextLine
  PROVE  CnInv'
<1>1. CnTypeOK /\ EditorTypes
  BY CnParts
<1>2. step' = "hide" /\ UNCHANGED << buffered, quiet, screen, noise, top, torn >> /\ step # "hide"
  BY DEF Enter, Command, NextLine, Begin, config, still
<1>3. /\ op'.kind \in {"enter", "prompt", "output"}
      /\ op'.kind \in {"prompt", "output"} <=> step \in {"command", "done"}
      /\ op'.kind = "prompt" => op'.text = Prompt /\ buf' = << >>
      /\ op'.kind = "enter" => op'.text = << NL >>
      /\ op'.kind = "output" => op'.text \in Outputs
      /\ buf' = buf \/ buf' = << >>
      /\ blink' = blink \/ blink' = FALSE
  BY <1>2 DEF Enter, Command, NextLine, Begin
<1>4. strokes' \in 0 .. StrokeCap
  <2>1. strokes \in 0 .. StrokeCap
    BY <1>1 DEF EditorTypes
  <2>2. strokes' = strokes \/ (strokes < StrokeCap /\ strokes' = strokes + 1)
    BY DEF Enter, Command, NextLine, Stroke, still
  <2> QED BY <2>1, <2>2, ConsoleAssumption
<1>5. EditorTypes'
  <2>1. buf' \in Seq(Typed) /\ Len(buf') < BufSize
    <3>1. buf \in Seq(Typed) /\ Len(buf) < BufSize
      BY <1>1 DEF EditorTypes
    <3>2. << >> \in Seq(Typed) /\ Len(<< >>) = 0 /\ 0 < BufSize
      BY ConsoleAssumption
    <3> QED BY <1>3, <3>1, <3>2
  <2>2. visible' = visible
    BY <1>2 DEF screen
  <2> QED BY <1>1, <1>2, <1>3, <1>4, <2>1, <2>2 DEF EditorTypes
<1>6. Doing'
  BY <1>2, <1>3 DEF Doing
<1>7. Echo'
  BY <1>2, <1>3 DEF Echo, Echoing, Editing
<1> QED BY <1>2, <1>3, <1>5, <1>6, <1>7, Begins

-----------------------------------------------------------------------------
(* Printing.                                                               *)

LEMMA KernelLogStep == ASSUME CnInv, KernelLog PROVE CnInv'
<1>1. /\ step \in {"command", "done"} /\ noise < NoiseCap /\ noise' = noise + 1 /\ ~ quiet
      /\ Finish(Kprint(Pen, LogText), FALSE)
      /\ UNCHANGED << buffered, quiet, strokes, saved, visible, buf, step, op, blink, top, torn >>
  BY DEF KernelLog, config
<1>2. CnTypeOK /\ Doing /\ CursorKept /\ Flushed /\ EditorTypes
  BY CnParts
<1>3. LogText \in Printable /\ EndsLine(LogText)
  BY ConsoleAssumption DEF Printable
<1>4. ScreenKept' /\ AtStart'
  BY <1>1, <1>2, <1>3, Printed
<1>5. noise' \in 0 .. NoiseCap
  BY <1>1, <1>2, ConsoleAssumption DEF EditorTypes
<1>6. EditorTypes' /\ Doing'
  BY <1>1, <1>2, <1>5 DEF EditorTypes, Doing, Editing
<1>7. LineStart' /\ Echo'
  BY <1>1, <1>4 DEF LineStart, Echo, Echoing, Editing
<1>8. saved' = Blank /\ (quiet' => ~ visible') /\ visible' /\ Logged'
  BY <1>1, <1>2 DEF CursorKept, Logged
<1> QED BY <1>1, <1>4, <1>6, <1>7, <1>8, Assembled

LEMMA LockKeyStep == ASSUME CnInv, LockKey PROVE CnInv'
<1>1. /\ noise < NoiseCap /\ noise' = noise + 1 /\ torn' = TRUE
      /\ Finish(Kprint(Pen, LockText), TRUE)
      /\ UNCHANGED << buffered, quiet, strokes, saved, visible, buf, step, op, blink, top >>
  BY DEF LockKey, config
<1>2. CnTypeOK /\ Doing /\ CursorKept /\ Flushed /\ EditorTypes
  BY CnParts
<1>3. LockText \in Printable /\ EndsLine(LockText)
  BY ConsoleAssumption DEF Printable
<1>4. ScreenKept' /\ AtStart' /\ (buffered => dirty' = FALSE)
  BY <1>1, <1>2, <1>3, Printed
<1>5. noise' \in 0 .. NoiseCap
  BY <1>1, <1>2, ConsoleAssumption DEF EditorTypes
<1>6. EditorTypes' /\ Doing'
  BY <1>1, <1>2, <1>5 DEF EditorTypes, Doing, Editing
<1>7. LineStart' /\ Echo'
  BY <1>1, <1>4 DEF LineStart, Echo
<1>8. /\ saved' = Blank /\ (quiet' => ~ visible') /\ (step' \in {"print", "show"} => ~ visible')
      /\ step' \in {"command", "done"} => visible' \/ quiet'
  BY <1>1, <1>2 DEF CursorKept
<1> QED BY <1>1, <1>4, <1>6, <1>7, <1>8, Assembled

\* What the steps of the editor that print have in common.
LEMMA EditorPrints ==
  ASSUME CnInv, step = "print", step' = "show", top' \in Nat, torn' \in BOOLEAN,
         UNCHANGED << buffered, quiet, strokes, noise, saved, visible, buf, op, blink >>,
         ScreenKept', buffered => dirty' = FALSE,
         op.kind \in {"enter", "output"} => AtStart',
         op.kind \in {"prompt", "key", "erase"} /\ ~ torn' => EchoAt(Len(Line))'
  PROVE  CnInv'
<1>1. CnTypeOK /\ Doing /\ CursorKept /\ EditorTypes
  BY CnParts
<1>2. EditorTypes'
  BY <1>1 DEF EditorTypes
<1>3. ~ Editing' /\ op' = op
  BY DEF Editing
<1>4. Doing'
  BY <1>1, <1>3 DEF Doing
<1>5. LineStart'
  BY <1>3 DEF LineStart, Starting, AtStart, InView, Pen
<1>6. Echo'
  <2>1. Written' = Len(Line)'
    BY <1>3 DEF Written
  <2>2. Echoing' => op.kind \in {"prompt", "key", "erase"}
    BY <1>3 DEF Echoing
  <2> QED BY <2>1, <2>2 DEF Echo, EchoAt
<1>7. saved' = Blank /\ ~ visible'
  BY <1>1 DEF CursorKept
<1> QED BY <1>2, <1>4, <1>5, <1>6, <1>7, Assembled

LEMMA BackspaceStep == ASSUME CnInv, Backspace PROVE CnInv'
<1> DEFINE q == Erased(Pen)
<1>1. /\ step = "print" /\ step' = "show" /\ op.kind = "erase" /\ torn' = (torn \/ cx = 0)
      /\ Finish(q, TRUE)
      /\ UNCHANGED << buffered, quiet, strokes, noise, saved, visible, buf, op, blink, top >>
  BY DEF Backspace, still, config
<1>2. CnTypeOK /\ Doing /\ CursorKept /\ Flushed /\ EditorTypes /\ Echo
  BY CnParts
<1>3. Pen \in PenType /\ Beyond(Pen) /\ Plain(Pen) /\ Pen.spare = spare
      /\ Pen.cells = back /\ Pen.dirty = dirty /\ Pen.x = cx /\ Pen.y = cy
  BY <1>1, <1>2, PenClean DEF CleanPen, CursorKept
<1>4. /\ q \in PenType /\ Beyond(q) /\ Plain(q)
      /\ \/ q.dirty = TRUE
         \/ q.dirty = dirty /\ q.cells = back
      /\ cx > 0 => /\ q.x = cx - 1 /\ q.y = cy
                   /\ cy \in InView(Pen) => q.dirty = TRUE
                   /\ \A r \in Band, c \in Col :
                        ~ (r = q.y /\ c = q.x) => q.cells[r][c] = back[r][c]
  BY <1>3, EraseKeeps
<1> HIDE DEF q
<1>5. q.dirty = TRUE \/ (/\ q.dirty = dirty
                         /\ \A r \in Band, c \in Col : q.cells[r][c].ink = back[r][c].ink)
  BY <1>4
<1>6. /\ back' \in ScreenCells /\ vram' \in ScreenCells /\ dirty' \in BOOLEAN
      /\ back' = q.cells /\ cx' = q.x /\ cy' = q.y /\ cx' \in Col /\ cy' \in Nat
      /\ spare' = q.spare /\ spare' \in BOOLEAN
      /\ ~ buffered' => vram' = back'
      /\ buffered' /\ ~ dirty' => SameInk'
      /\ TRUE = TRUE /\ buffered => dirty' = FALSE
      /\ vram' = back' \/ (vram' = vram /\ ~ (TRUE = TRUE /\ q.dirty = TRUE))
  BY <1>1, <1>2, <1>4, <1>5, Finished
<1>7. ScreenKept'
  <2>1. Beyond(Pen)' /\ Plain(Pen)'
    BY <1>4, <1>6, PenLeft
  <2>2. cy' \in InView(Pen)' => back'[cy'][cx'].ink = {}
    BY <1>4, <1>6, BlankCell DEF Plain, InView, Pen
  <2> QED BY <1>6, <2>1, <2>2 DEF ScreenKept
<1>8. torn' \in BOOLEAN /\ top' \in Nat
  BY <1>1, <1>2 DEF EditorTypes
<1>9. ASSUME ~ torn' PROVE EchoAt(Len(Line))'
  <2>1. PICK n \in Nat : n = Len(Line)
    BY <1>2, LineIs
  <2>2. ~ torn /\ cx # 0 /\ top \in Nat /\ cx \in Nat
    <3>1. ~ torn /\ ~ (cx = 0)
      BY <1>1, <1>9, Zenon
    <3>2. top \in Nat /\ cx \in Nat
      BY <1>2, ScreenSize DEF CnTypeOK, Col
    <3> QED BY <3>1, <3>2
  <2>3. Written = n + 1 /\ Echoing
    BY <1>1, <2>1 DEF Written, Editing, Echoing
  <2>4. EchoAt(n + 1)
    BY <1>2, <2>2, <2>3 DEF Echo
  <2>5. /\ cy \in Row /\ cy = At(top, n + 1)[1] /\ cx = At(top, n + 1)[2]
        /\ Spelled(back, top, Line, n + 1)
    BY <2>4 DEF EchoAt
  <2>6. cy = At(top, n)[1] /\ cx - 1 = At(top, n)[2]
    <3>1. /\ At(top, n)[1] \in Nat /\ At(top, n)[2] \in 0 .. Cols - 2
          /\ IF At(top, n)[2] >= Cols - 2 THEN At(top, n + 1) = << At(top, n)[1] + 1, 0 >>
             ELSE At(top, n + 1) = << At(top, n)[1], At(top, n)[2] + 1 >>
      BY <2>2, NextPlace
    <3>2. ~ (At(top, n)[2] >= Cols - 2)
      BY <2>2, <2>5, <3>1
    <3>3. At(top, n + 1) = << At(top, n)[1], At(top, n)[2] + 1 >>
      BY <3>1, <3>2
    <3>4. cy = At(top, n)[1] /\ cx = At(top, n)[2] + 1
      BY <2>5, <3>3
    <3> QED BY <3>1, <3>4, ScreenSize
  <2>7. /\ q.x = cx - 1 /\ q.y = cy /\ q.dirty = TRUE
        /\ \A r \in Band, c \in Col : ~ (r = q.y /\ c = q.x) => q.cells[r][c] = back[r][c]
    <3>1. spare \in BOOLEAN
      BY <1>2 DEF CnTypeOK
    <3>2. cy \in InView(Pen) /\ cx > 0
      BY <1>3, <2>2, <2>5, <2>6, <3>1, PenHere, NextPlace
    <3> QED BY <1>4, <3>2
  <2>8. Spelled(back, top, Line, n)
    <3>1. \A r \in Row, c \in 0 .. Cols - 2 : r >= top /\ Nth(top, r, c) <= n => Nth(top, r, c) <= n + 1
      <4>1. SUFFICES ASSUME NEW r \in Row, NEW c \in 0 .. Cols - 2, r >= top, Nth(top, r, c) <= n
                     PROVE  Nth(top, r, c) <= n + 1
        OBVIOUS
      <4>2. r \in Nat
        BY DEF Row
      <4>3. Nth(top, r, c) \in Nat
        BY <2>2, <4>1, <4>2, Places
      <4> QED BY <4>1, <4>3
    <3> QED BY <2>5, <3>1 DEF Spelled
  <2>9. Spelled(q.cells, top, Line, n)
    BY <2>2, <2>6, <2>7, <2>8, SpelledBefore
  <2>10. vram' = back' /\ back' = q.cells /\ cx' = cx - 1 /\ cy' = cy
    BY <1>6, <2>7
  <2>11. top' = top /\ Line' = Line
    BY <1>1 DEF Line
  <2>12. /\ cy' \in Row /\ cy' = At(top', Len(Line'))[1] /\ cx' = At(top', Len(Line'))[2]
         /\ Spelled(back', top', Line', Len(Line')) /\ Spelled(vram', top', Line', Len(Line'))
    BY <2>1, <2>5, <2>6, <2>9, <2>10, <2>11
  <2> QED BY <2>12 DEF EchoAt
<1> QED BY <1>1, <1>6, <1>7, <1>8, <1>9, EditorPrints

LEMMA EmitPrompt ==
  ASSUME CnInv, Emit, op.kind = "prompt", ~ torn'
  PROVE  EchoAt(Len(Line))'
<1> DEFINE q == Kprint(Pen, Prompt)
           n == Len(Prompt)
<1>1. CnTypeOK /\ Doing /\ CursorKept /\ Flushed /\ LineStart
  BY CnParts
<1>2. /\ step = "print" /\ Finish(q, TRUE) /\ top' = cy /\ ~ Falls(Pen, Prompt) /\ buf = << >>
      /\ UNCHANGED << buffered, buf >>
  <2>1. step = "print" /\ op.text = Prompt /\ buf = << >>
    BY <1>1 DEF Emit, Doing, Editing
  <2> QED BY <2>1 DEF Emit, still, config
<1>3. Pen \in CleanPen /\ Pen.cells = back /\ Pen.dirty = dirty /\ Pen.x = cx /\ Pen.y = cy
  BY <1>1, PenClean
<1>4. Plain(Pen)
  BY <1>1, <1>2 DEF CursorKept
<1>5. cx = 0 /\ cy \in Row
  <2>1. cx = 0
    BY <1>1, <1>2 DEF LineStart, Starting, Editing, AtStart
  <2>2. ~ (cy >= Rows)
    BY <1>2, <1>3 DEF Falls
  <2> QED BY <1>1, <2>1, <2>2, ScreenSize DEF CnTypeOK, Row
<1>6. /\ q.y \in Row /\ q.y = At(cy, n)[1] /\ q.x = At(cy, n)[2]
      /\ n > 0 => q.dirty = TRUE
      /\ Spelled(q.cells, cy, Prompt, n)
  BY <1>2, <1>3, <1>4, <1>5, PromptSpells DEF PenSpells
<1>7. /\ q \in PenType
      /\ q.dirty = TRUE \/ (q.dirty = dirty /\ q.cells = back)
  <2>1. Prompt \in Seq(Symbol)
    BY PrintableSymbols DEF Printable
  <2> QED BY <1>3, <2>1, TextKeeps DEF CleanPen
<1> HIDE DEF q
<1>8. q.dirty = TRUE \/ (/\ q.dirty = dirty
                         /\ \A r \in Band, c \in Col : q.cells[r][c].ink = back[r][c].ink)
  BY <1>7
<1>9. /\ back' = q.cells /\ cx' = q.x /\ cy' = q.y
      /\ vram' = back' \/ (vram' = vram /\ ~ (TRUE = TRUE /\ q.dirty = TRUE))
  BY <1>1, <1>2, <1>7, <1>8, Finished
<1>10. n \in Nat /\ Len(Line) = n /\ Line \in Seq(Symbol) /\ \A i \in 1 .. n : Line[i] = Prompt[i]
  BY <1>1, <1>2, LineIs, PrintableSymbols DEF Printable
<1>11. Line' = Line /\ cy \in Nat
  BY <1>2, <1>5 DEF Line, Row
<1>12. Spelled(back', cy, Line, n)
  <2>1. \A i \in 1 .. n : i <= Len(Line) => Line[i] = Prompt[i]
    BY <1>10
  <2>2. Spelled(back', cy, Prompt, n)
    BY <1>6, <1>9
  <2> QED BY <1>10, <1>11, <2>1, <2>2, SpelledSame
<1>13. Spelled(vram', cy, Line, n)
  <2>1. CASE n = 0
    BY <1>11, <2>1, SpelledNone
  <2>2. CASE n # 0
    <3>1. q.dirty = TRUE
      BY <1>6, <1>10, <2>2
    <3>2. vram' = back'
      BY <1>9, <3>1
    <3> QED BY <1>12, <3>2
  <2> QED BY <2>1, <2>2
<1>14. /\ cy' \in Row /\ cy' = At(top', Len(Line'))[1] /\ cx' = At(top', Len(Line'))[2]
       /\ Spelled(back', top', Line', Len(Line')) /\ Spelled(vram', top', Line', Len(Line'))
  BY <1>2, <1>6, <1>9, <1>10, <1>11, <1>12, <1>13
<1> QED BY <1>14 DEF EchoAt

LEMMA EmitKey ==
  ASSUME CnInv, Emit, op.kind = "key", ~ torn'
  PROVE  EchoAt(Len(Line))'
<1>1. CnTypeOK /\ Doing /\ CursorKept /\ Flushed /\ Echo /\ EditorTypes
  BY CnParts
<1>2. PICK k \in Nat : k = Len(Line)
  BY <1>1, LineIs
<1>3. /\ step = "print" /\ buf # << >> /\ op.text = << buf[Len(buf)] >>
      /\ UNCHANGED << buffered, buf >>
  BY <1>1 DEF Emit, Doing, Editing, still, config
<1>4. Len(buf) \in Nat /\ Len(buf) \in 1 .. Len(buf) /\ buf[Len(buf)] \in Typed
  <2>1. buf \in Seq(Typed) /\ Len(buf) \in Nat /\ Len(buf) > 0
    BY <1>1, <1>3 DEF EditorTypes
  <2> QED BY <2>1, ElementOfSeq
<1>5. k \in 1 .. Len(Line) /\ Line[k] = buf[Len(buf)] /\ Line \in Seq(Symbol)
  <2>1. /\ Line \in Seq(Symbol) /\ Len(Line) = Len(Prompt) + Len(buf)
        /\ \A i \in 1 .. Len(buf) : Line[Len(Prompt) + i] = buf[i]
    BY <1>1, LineIs
  <2>2. Len(Prompt) \in Nat
    BY PrintableSymbols DEF Printable
  <2> QED BY <1>2, <1>4, <2>1, <2>2
<1>6. Line[k] # NL /\ << Line[k] >> \in Printable /\ op.text = << Line[k] >>
  BY <1>3, <1>4, <1>5, ConsoleAssumption DEF Printable
<1>7. /\ Finish(Kprint(Pen, op.text), TRUE) /\ ~ torn /\ ~ Falls(Pen, op.text) /\ top' = top
  BY DEF Emit
<1>8. Pen \in CleanPen /\ Plain(Pen)
      /\ Pen.cells = back /\ Pen.dirty = dirty /\ Pen.x = cx /\ Pen.y = cy
  BY <1>1, <1>3, PenClean DEF CursorKept
<1> DEFINE q == PutChar(Pen, Line[k])
<1>9. Kprint(Pen, op.text) = q /\ ~ (q.y >= Rows)
  <2> DEFINE text == << Line[k] >>
  <2>1. text \in Seq(Symbol)
    BY <1>6, PrintableSymbols
  <2>2. Len(text) = 1 /\ text[1] = Line[k]
    OBVIOUS
  <2> HIDE DEF text
  <2>3. Pens(Pen, text)[0] = Pen /\ \A i \in 1 .. 1 : Pens(Pen, text)[i] = PutChar(Pens(Pen, text)[i - 1], text[i])
    BY <1>8, <2>1, <2>2, PensRun
  <2>4. Pens(Pen, text)[1] = PutChar(Pen, Line[k])
    BY <2>2, <2>3
  <2>5. Kprint(Pen, text) = Pens(Pen, text)[1]
    BY <2>2 DEF Kprint
  <2>6. op.text = text
    BY <1>6 DEF text
  <2>7. ~ (Pens(Pen, text)[1].y >= Rows)
    BY <1>7, <2>2, <2>6 DEF Falls
  <2>8. Pens(Pen, text)[1] = q
    BY <2>4
  <2> HIDE DEF q
  <2>9. ~ (q.y >= Rows)
    BY <2>7, <2>8
  <2> QED BY <2>5, <2>6, <2>8, <2>9
<1>10. PICK n \in Nat : k = n + 1 /\ Written = n /\ EchoAt(n)
  <2>1. k - 1 \in Nat /\ k = (k - 1) + 1
    BY <1>2, <1>5
  <2>2. Written = k - 1 /\ Echoing
    BY <1>2, <1>3 DEF Written, Editing, Echoing
  <2>3. EchoAt(Written)
    BY <1>1, <1>7, <2>2 DEF Echo
  <2>4. PICK n \in Nat : n = k - 1
    BY <2>1, Zenon
  <2> QED BY <2>1, <2>2, <2>3, <2>4
<1>11. /\ cy \in Row /\ cy = At(top, n)[1] /\ cx = At(top, n)[2] /\ top \in Nat
       /\ Spelled(back, top, Line, n)
  BY <1>1, <1>10 DEF EchoAt, EditorTypes
<1>12. /\ q.y = At(top, k)[1] /\ q.x = At(top, k)[2]
       /\ q.dirty = TRUE /\ Spelled(q.cells, top, Line, k)
  <2>1. /\ Pen \in CleanPen /\ Plain(Pen) /\ Pen.y \in Row
        /\ PenSpells(Pen, top, Line, n)
    BY <1>8, <1>11 DEF PenSpells
  <2>2. q = PutChar(Pen, Line[k])
    OBVIOUS
  <2>3. k = n + 1 /\ k \in 1 .. Len(Line) /\ Line \in Seq(Symbol) /\ Line[k] # NL /\ top \in Nat
    BY <1>5, <1>6, <1>10, <1>11
  <2> HIDE DEF q
  <2>4. q.dirty = TRUE
    BY <2>1, <2>2, <2>3, PutSpells
  <2>5. PenSpells(q, top, Line, k)
    BY <2>1, <2>2, <2>3, PutSpells
  <2> QED BY <2>4, <2>5 DEF PenSpells
<1>13. q \in PenType
  <2>1. Line[k] \in Symbol
    BY <1>5, ElementOfSeq
  <2> QED BY <1>8, <2>1, PutKeeps DEF CleanPen
<1> HIDE DEF q
<1>14. Finish(q, TRUE) /\ buffered' = buffered
  BY <1>3, <1>7, <1>9
<1>15. /\ back' = q.cells /\ cx' = q.x /\ cy' = q.y
       /\ vram' = back' \/ (vram' = vram /\ ~ (TRUE = TRUE /\ q.dirty = TRUE))
  BY <1>1, <1>12, <1>13, <1>14, Finished
<1>16. cy' \in Row
  BY <1>9, <1>13, <1>15, PenIs, ScreenSize DEF Row
<1>17. Line' = Line /\ vram' = back'
  BY <1>3, <1>12, <1>15 DEF Line
<1>18. /\ cy' = At(top', Len(Line'))[1] /\ cx' = At(top', Len(Line'))[2]
       /\ Spelled(back', top', Line', Len(Line')) /\ Spelled(vram', top', Line', Len(Line'))
  BY <1>2, <1>7, <1>12, <1>15, <1>17
<1> QED BY <1>16, <1>18 DEF EchoAt

LEMMA EmitStep == ASSUME CnInv, Emit PROVE CnInv'
<1>1. /\ step = "print" /\ step' = "show" /\ op.kind # "erase"
      /\ Finish(Kprint(Pen, op.text), TRUE)
      /\ UNCHANGED << buffered, quiet, strokes, noise, saved, visible, buf, op, blink >>
  BY DEF Emit, still, config
<1>2. CnTypeOK /\ Doing /\ CursorKept /\ Flushed /\ LineStart /\ EditorTypes
  BY CnParts
<1>3. op.text \in Printable
  <2>1. op.kind = "key" => op.text = << buf[Len(buf)] >> /\ buf[Len(buf)] \in Typed
    <3>1. ASSUME buf # << >> PROVE buf[Len(buf)] \in Typed
      <4>1. buf \in Seq(Typed) /\ Len(buf) \in Nat /\ Len(buf) > 0
        BY <1>2, <3>1 DEF EditorTypes
      <4>2. Len(buf) \in 1 .. Len(buf)
        BY <4>1
      <4> QED BY <4>1, <4>2, ElementOfSeq
    <3> QED BY <1>1, <1>2, <3>1 DEF Doing, Editing
  <2>2. op.kind \in {"prompt", "key", "enter", "output"}
    BY <1>1, <1>2 DEF EditorTypes
  <2>3. CASE op.kind = "key"
    BY <2>1, <2>3 DEF Printable
  <2>4. CASE op.kind \in {"prompt", "enter", "output"}
    <3>1. op.text \in Outputs \cup {Prompt, << NL >>}
      BY <1>2, <2>4 DEF Doing
    <3> QED BY <3>1 DEF Printable
  <2> QED BY <2>2, <2>3, <2>4
<1>4. /\ ScreenKept' /\ (buffered => dirty' = FALSE)
      /\ EndsLine(op.text) => AtStart'
      /\ op.text = << >> => (AtStart => AtStart')
  BY <1>1, <1>2, <1>3, Printed
<1>5. op.kind \in {"enter", "output"} => AtStart'
  <2>1. CASE op.kind = "enter"
    <3>1. op.text = << NL >>
      BY <1>2, <2>1 DEF Doing
    <3>2. EndsLine(<< NL >>)
      <4>1. Len(<< NL >>) = 1 /\ << NL >>[1] = NL
        OBVIOUS
      <4> QED BY <4>1 DEF EndsLine
    <3> QED BY <1>4, <3>1, <3>2
  <2>2. CASE op.kind = "output"
    <3>1. op.text = << >> \/ EndsLine(op.text)
      BY <1>2, <2>2, ConsoleAssumption DEF Doing
    <3>2. AtStart
      BY <1>1, <1>2, <2>2 DEF LineStart, Starting, Editing
    <3> QED BY <1>4, <3>1, <3>2
  <2> QED BY <2>1, <2>2
<1>6. torn' \in BOOLEAN /\ top' \in Nat
  <2>1. cy \in Nat /\ top \in Nat /\ torn \in BOOLEAN
    BY <1>2 DEF CnTypeOK
  <2>2. top' \in {cy, top}
    BY DEF Emit
  <2>3. torn' \in {Falls(Pen, op.text), torn \/ Falls(Pen, op.text)}
    BY DEF Emit
  <2>4. Falls(Pen, op.text) \in BOOLEAN
    BY DEF Falls
  <2>5. torn' \in BOOLEAN
    BY <2>1, <2>3, <2>4
  <2> QED BY <2>1, <2>2, <2>5
<1>7. op.kind \in {"prompt", "key", "erase"} /\ ~ torn' => EchoAt(Len(Line))'
  BY <1>1, EmitPrompt, EmitKey
<1> QED BY <1>1, <1>4, <1>5, <1>6, <1>7, EditorPrints

-----------------------------------------------------------------------------

LEMMA CnStep == CnInv /\ [CnNext]_cnVars => CnInv'
<1>1. SUFFICES ASSUME CnInv, [CnNext]_cnVars PROVE CnInv'
  OBVIOUS
<1>2. CASE UNCHANGED cnVars
  <2>1. /\ UNCHANGED << back, vram, buffered, quiet, spare, dirty, cx, cy, saved, visible, buf, step, op >>
        /\ UNCHANGED << blink, strokes, noise, top, torn >>
    BY <1>2 DEF cnVars
  <2>2. CnTypeOK' /\ Doing' /\ CursorKept' /\ Flushed' /\ LineStart'
    <3>1. Pen' = Pen /\ InView(Pen)' = InView(Pen)
      BY <2>1 DEF Pen, InView
    <3>2. CnTypeOK'
      BY <1>1, <2>1 DEF CnInv, CnTypeOK
    <3>3. Doing'
      BY <1>1, <2>1 DEF CnInv, Doing, Editing
    <3>4. CursorKept'
      BY <1>1, <2>1, <3>1 DEF CnInv, CursorKept, Plain, Beyond, After
    <3>5. Flushed'
      BY <1>1, <2>1 DEF CnInv, Flushed, SameInk, Logged
    <3>6. LineStart'
      BY <1>1, <2>1, <3>1 DEF CnInv, LineStart, Starting, Editing, AtStart
    <3> QED BY <3>2, <3>3, <3>4, <3>5, <3>6
  <2>3. Echo'
    BY <1>1, <2>1 DEF CnInv, Echo, Echoing, Editing, EchoAt, Written, Line
  <2> QED BY <2>2, <2>3 DEF CnInv
<1>3. CASE CnNext
  BY <1>1, <1>3, HideStep, EmitStep, BackspaceStep, ShowStep, KeyStep, RuboutStep, TurnStep,
     BlinkStep, KernelLogStep, LockKeyStep DEF CnNext
<1> QED BY <1>1, <1>2, <1>3

LEMMA EchoFollows == CnInv => EchoIsLine
<1>1. SUFFICES ASSUME CnInv, step = "poll", ~ torn
               PROVE  /\ cy < Rows /\ << cy, cx >> = PlaceOf(Len(Line))
                      /\ \A r \in Row, c \in 0 .. Cols - 2 :
                           LET i == (r - top) * (Cols - 1) + c + 1
                           IN r >= top =>
                                IF i <= Len(Line)
                                THEN vram[r][c] = [ink |-> {Line[i]}, inverted |-> FALSE]
                                ELSE vram[r][c].ink = {}
  BY DEF EchoIsLine
<1>2. CnTypeOK /\ CursorKept /\ Flushed /\ Echo /\ ScreenKept
  BY <1>1, CnParts
<1>3. PICK n \in Nat : n = Len(Line)
  BY <1>2, LineIs
<1>4. EchoAt(n)
  BY <1>1, <1>2, <1>3 DEF Echo, Echoing, Written, Editing
<1>5. cy \in Row /\ cy = At(top, n)[1] /\ cx = At(top, n)[2] /\ top \in Nat /\ cy \in Nat /\ cx \in Nat
  BY <1>2, <1>4, ScreenSize DEF EchoAt, CnTypeOK, Col
<1>6. cy < Rows /\ << cy, cx >> = PlaceOf(n)
  <2>1. At(top, n) = PlaceOf(n)
    BY DEF At, PlaceOf
  <2>2. At(top, n) = << At(top, n)[1], At(top, n)[2] >>
    BY DEF At
  <2> QED BY <1>5, <2>1, <2>2, ScreenSize DEF Row
<1>7. SameInk
  <2>1. buffered \in BOOLEAN /\ dirty \in BOOLEAN
    BY <1>2 DEF CnTypeOK
  <2>2. buffered => dirty = FALSE
    BY <1>1, <1>2, <2>1 DEF Flushed, Logged
  <2> QED BY <1>2, <2>1, <2>2 DEF Flushed, SameInk
<1>8. ASSUME NEW r \in Row, NEW c \in 0 .. Cols - 2, r >= top
      PROVE  IF Nth(top, r, c) <= n
             THEN vram[r][c] = [ink |-> {Line[Nth(top, r, c)]}, inverted |-> FALSE]
             ELSE vram[r][c].ink = {}
  <2>1. r \in Nat /\ r \in Band /\ r \in InView(Pen) /\ c \in Col /\ c \in Nat
    <3>1. spare \in BOOLEAN
      BY <1>2 DEF CnTypeOK
    <3>2. r \in InView(Pen) /\ r \in Band
      BY <3>1, PenHere
    <3> QED BY <3>2, ScreenSize DEF Row, Col
  <2>2. /\ Nth(top, r, c) \in Nat
        /\ r < cy \/ (r = cy /\ c < cx) => Nth(top, r, c) <= n
    BY <1>5, <1>8, <2>1, Places
  <2>3. CASE Nth(top, r, c) <= n
    BY <1>3, <1>4, <1>8, <2>3 DEF EchoAt, Spelled
  <2>4. CASE ~ (Nth(top, r, c) <= n)
    <3>1. r > cy \/ (r = cy /\ c > cx) \/ (r = cy /\ c = cx)
      BY <1>5, <2>1, <2>2, <2>4
    <3>2. r > cy \/ (r = cy /\ c > cx) => back[r][c] = Blank
      <4>1. spare \in BOOLEAN /\ Beyond(Pen)
        BY <1>2 DEF CnTypeOK, CursorKept
      <4> QED BY <2>1, <4>1, PenHere DEF Beyond, After
    <3>3. back[r][c].ink = {}
      <4>1. CASE r = cy /\ c = cx
        BY <1>2, <2>1, <4>1 DEF CursorKept
      <4>2. CASE ~ (r = cy /\ c = cx)
        BY <3>1, <3>2, <4>2, BlankCell
      <4> QED BY <4>1, <4>2
    <3> QED BY <1>7, <2>1, <2>4, <3>3 DEF SameInk
  <2> QED BY <2>3, <2>4
<1>9. \A r \in Row, c \in 0 .. Cols - 2 : Nth(top, r, c) = (r - top) * (Cols - 1) + c + 1
  BY DEF Nth
<1> QED BY <1>3, <1>6, <1>8, <1>9

\* Types of Console: the cursor's column, the line buffer and every cell of
\* both screens, whatever is typed, printed and logged (kprint, fb_putc, init.c).
THEOREM ConsoleTypeCorrect == CnSpec => []CnTypeOK
<1>1. CnInv => CnTypeOK
  BY DEF CnInv
<1> QED BY <1>1, CnInitial, CnStep, PTL DEF CnSpec

\* What the user sees is what the editor will run, with any number of columns
\* and whole rows and with or without a spare one: fb_putc, fb_backspace, the
\* cursor and the flushes keep the line of init.c on the screen until
\* something tears it.  A line begun in the spare row is torn from the start.
THEOREM EchoTrue == CnSpec => []EchoIsLine
<1> QED BY EchoFollows, CnInitial, CnStep, PTL DEF CnSpec

-----------------------------------------------------------------------------
(* The services together: as each behaviour follows one of them, the        *)
(* invariant is that of each.                                              *)

SvInv == /\ PmInv /\ BqInv /\ TsInv /\ CnInv /\ ShInv /\ TmTypeOK /\ AcInv
         /\ service \in Service

LEMMA SvInitial == SvInit => SvInv
BY PmInvInit, BqInitEstablishes, TsInitEstablishes, CnInitial, ShInitEstablishes, TmInitial,
   AcInitial DEF SvInit, SvInv

LEMMA SvStep == SvInv /\ [SvNext]_svVars => SvInv'
<1>1. SUFFICES ASSUME SvInv, [SvNext]_svVars PROVE SvInv'
  OBVIOUS
<1>2. /\ [PmNext]_pmVars /\ [BqNext]_bqVars /\ [TsNext]_tsVars /\ [CnNext]_cnVars
      /\ [ShNext]_shVars /\ [TmNext]_tmVars /\ [AcNext]_acVars /\ service' = service
  BY <1>1, Zenon DEF SvNext, svVars, Pages, Blocks, Tasks, Screen, Files, Clock, Power
<1>3. PmInv' /\ BqInv' /\ TsInv' /\ CnInv' /\ ShInv' /\ TmTypeOK' /\ AcInv'
  BY <1>1, <1>2, PmInvStep, BqStep, TsStep, CnStep, ShStep, TmStep, AcStep DEF SvInv
<1> QED BY <1>1, <1>2, <1>3 DEF SvInv

LEMMA SvTypesFollow == SvInv => TypeOK
<1>1. PmInv => PmTypeOK
  BY PmTypesFollow
<1>2. ShInv => ShTypeOK
  BY ShTypesFollow
<1>3. (BqInv => BqTypeOK) /\ (TsInv => TsTypeOK) /\ (CnInv => CnTypeOK) /\ (AcInv => AcTypeOK)
  BY DEF BqInv, TsInv, CnInv, AcInv
<1> QED BY <1>1, <1>2, <1>3 DEF SvInv, TypeOK

\* Types of Services, that is of every service it composes.
THEOREM ServicesTypeCorrect == SvSpec => []TypeOK
<1> QED BY SvTypesFollow, SvInitial, SvStep, PTL DEF SvSpec
=============================================================================
