---------------------------- MODULE AhciPort_proofs ----------------------------
(***************************************************************************)
(* Proofs about the AHCI driver of module AhciPort, for every number of    *)
(* slots, ports, calls and turns of the waiting loops.                     *)
(***************************************************************************)
EXTENDS AhciPort, FiniteSetTheorems, WellFoundedInduction, TLAPS

Inside  == {"slot", "ready", "issue", "wait", "error", "check"}
Chosen  == {"ready", "issue", "wait", "error", "check"}
Issued  == {"wait", "error", "check"}

\* The port is set up before a command is issued.
SetUp ==
  /\ pc = "init" => ~initialized
  /\ pc \in Inside \/ ci # {} => initialized
  /\ initialized => started /\ list \in PortFrames /\ ctba[0] \in PortFrames \ {list}

\* Where the running call stands.
CallState ==
  /\ pc \in Inside => call \in Call
  /\ pc \in Chosen => slot \in Slot
  /\ pc \in {"ready", "issue"} => slot \notin ci
  /\ pc = "ready" => timeout \in 0 .. ReadyTries
  /\ pc = "issue" => timeout \in -1 .. ReadyTries
  /\ pc \in {"wait", "error"} => timeout \in 0 .. DoneTries
  /\ pc = "check" => timeout \in -1 .. DoneTries

\* Whose command the device has, rejected or finished.
Answers ==
  /\ \A s \in ci : owner[s] \in 1 .. call
  /\ failed \subseteq 1 .. call
  /\ call \in failed => tfes
  /\ pc \in Issued => (slot \in ci /\ owner[slot] = call) \/ call \in served
  /\ pc = "check" => timeout = -1 \/ call \in served

Inv == TypeOK /\ SetUp /\ CallState /\ Answers

LEMMA ConstantFacts ==
  /\ Slot \subseteq Nat
  /\ NoPort = -1 /\ Pending = 1
  /\ MaxCalls \in Nat /\ ReadyTries \in Nat \ {0} /\ DoneTries \in Nat \ {0}
  /\ Port \subseteq Nat
  /\ PortFrames \subseteq Nat \ {0}
<1>1. Slot \subseteq Nat
  BY PortAssumption, SMT DEF Slot
<1>2. NoPort = -1 /\ Pending = 1
  BY DEF NoPort, Pending
<1>3. /\ MaxCalls \in Nat /\ ReadyTries \in Nat \ {0} /\ DoneTries \in Nat \ {0}
      /\ Port \subseteq Nat
      /\ PortFrames \subseteq Nat \ {0}
  BY PortAssumption
<1> QED
  BY <1>1, <1>2, <1>3

\* A set of slots that is not empty has a least element.
LEMMA LeastSlot ==
  ASSUME NEW S, S \subseteq Slot, S # {}
  PROVE  \E s \in S : \A t \in S : s <= t
<1>1. S \subseteq Nat
  BY ConstantFacts
<1>2. PICK s \in S : \A t \in S : <<t, s>> \notin OpToRel(<, Nat)
  BY <1>1, WFMin, NatLessThanWellFounded
<1>3. \A t \in S : ~(t < s)
  BY <1>1, <1>2 DEF OpToRel
<1>4. \A t \in S : s <= t
  BY <1>1, <1>3
<1> QED
  BY <1>4

\* find_cmdslot returns a slot with no command in it, or -1.
LEMMA CmdslotIsFree ==
  ASSUME ci \in SUBSET Slot
  PROVE  \/ FindCmdslot = -1
         \/ FindCmdslot \in Slot /\ FindCmdslot \notin ci
<1>1. CASE Slot \subseteq ci
  BY <1>1 DEF FindCmdslot
<1>2. CASE ~(Slot \subseteq ci)
  <2>1. \E s \in Slot \ ci : \A t \in Slot \ ci : s <= t
    BY <1>2, LeastSlot, Zenon
  <2>2. FindCmdslot = CHOOSE s \in Slot \ ci : \A t \in Slot \ ci : s <= t
    BY <1>2 DEF FindCmdslot
  <2>3. FindCmdslot \in Slot \ ci
    BY <2>1, <2>2, Zenon
  <2> QED
    BY <2>3
<1> QED
  BY <1>1, <1>2

\* Nor is the result of find_cmdslot -1 when it is a slot.
LEMMA SlotsAreNumbers == -1 \notin Slot
BY SMT DEF Slot, PortAssumption

\* The port ahci_init chooses is one of the controller's.
LEMMA FirstSataIsPort ==
  ASSUME NEW attached, ~(\A p \in Port : attached[p] # "sata")
  PROVE  FirstSata(attached) \in Port
<1> DEFINE S == { p \in Port : attached[p] = "sata" }
<1>1. S # {} /\ S \subseteq Nat
  BY ConstantFacts
<1>2. PICK p \in S : \A q \in S : <<q, p>> \notin OpToRel(<, Nat)
  BY <1>1, WFMin, NatLessThanWellFounded
<1>3. \A q \in S : ~(q < p)
  BY <1>1, <1>2 DEF OpToRel
<1>4. \A q \in S : p <= q
  BY <1>1, <1>3
<1>5. p \in Port /\ attached[p] = "sata" /\ \A q \in Port : attached[q] = "sata" => p <= q
  BY <1>4
<1> QED
  BY <1>5, Zenon DEF FirstSata

-----------------------------------------------------------------------------
\* Whether three pages are left is a question with an answer.
LEMMA PagesCounted ==
  ASSUME NEW pages \in SUBSET PortFrames
  PROVE  (Cardinality(pages) >= 3) = TRUE \/ (Cardinality(pages) >= 3) = FALSE
<1>1. Cardinality(pages) \in Nat
  BY PortAssumption, FS_Subset, FS_CardinalityType
<1>2. \A n \in Nat : (n >= 3) = TRUE \/ (n >= 3) = FALSE
  BY SMT
<1> QED
  BY <1>1, <1>2, Zenon

\* The type invariant by the parts of the state.
BootType ==
  /\ port \in Port \cup {NoPort}
  /\ list \in Frame /\ ctba \in [Slot -> Frame] /\ started \in BOOLEAN
FlagType == initialized \in BOOLEAN /\ tfes \in BOOLEAN /\ busy \in BOOLEAN /\ halted \in BOOLEAN
DriverType ==
  /\ pc \in {"init", "idle", "slot", "ready", "issue", "wait", "error", "check"}
  /\ call \in 0 .. MaxCalls /\ slot \in Slot \cup {-1}
TimeoutType == timeout \in -1 .. ReadyTries \cup -1 .. DoneTries
CommandType ==
  /\ ci \in SUBSET Slot
  /\ owner \in [Slot -> 0 .. MaxCalls]
  /\ served \in SUBSET Call /\ failed \in SUBSET Call
RetType == ret \in [Call -> {Pending, 0, -1}]

LEMMA TypeParts ==
  TypeOK <=> BootType /\ FlagType /\ DriverType /\ TimeoutType /\ CommandType /\ RetType
BY DEF TypeOK, BootType, FlagType, DriverType, TimeoutType, CommandType, RetType

LEMMA InitEstablishesInv == Init => Inv
<1> SUFFICES ASSUME Init PROVE Inv
  OBVIOUS
<1>1. BootType
  BY ConstantFacts DEF Init, BootType, Frame
<1>2. FlagType
  BY ConstantFacts DEF Init, FlagType
<1>3. DriverType
  BY ConstantFacts DEF Init, DriverType
<1>4. TimeoutType
  BY ConstantFacts DEF Init, TimeoutType
<1>5. CommandType
  BY ConstantFacts DEF Init, CommandType
<1>6. RetType
  BY ConstantFacts DEF Init, RetType
<1>7. SetUp /\ CallState /\ Answers
  BY DEF Init, SetUp, CallState, Answers, Inside, Chosen, Issued
<1> QED
  BY <1>1, <1>2, <1>3, <1>4, <1>5, <1>6, <1>7, TypeParts DEF Inv

LEMMA AhciInitKeepsInv ==
  ASSUME Inv, NEW attached, NEW pages \in SUBSET PortFrames, AhciInit(attached, pages)
  PROVE  Inv'
<1>0. /\ BootType /\ FlagType /\ DriverType /\ TimeoutType /\ CommandType /\ RetType
      /\ TypeOK /\ SetUp /\ CallState /\ Answers
  BY TypeParts DEF Inv
<1>1. port' \in Port \cup {NoPort}
  BY <1>0, FirstSataIsPort DEF BootType, AhciInit, boot
<1>2. TypeOK'
  <2>1. BootType'
    <3>1. started' = started \/ started' = (started \/ Cardinality(pages) >= 3)
      BY DEF AhciInit, boot
    <3>2. started' \in BOOLEAN
      BY <1>0, <3>1, PagesCounted, Zenon DEF BootType
    <3>3. list' \in Frame /\ ctba' \in [Slot -> Frame]
      BY <1>0 DEF BootType, Frame, AhciInit, boot
    <3> QED
      BY <1>1, <3>2, <3>3 DEF BootType
  <2>2. FlagType'
    <3>1. initialized' = initialized \/ initialized' = (Cardinality(pages) >= 3)
      BY DEF AhciInit, boot
    <3>2. initialized' \in BOOLEAN
      BY <1>0, <3>1, PagesCounted, Zenon DEF FlagType
    <3> QED
      BY <1>0, <3>2, Zenon DEF FlagType, AhciInit, device
  <2>3. DriverType'
    BY <1>0, <1>1, ConstantFacts DEF DriverType, CallState, Call,
       AhciInit, boot, device, locals, ghost
  <2>4. TimeoutType'
    BY <1>0, <1>1, ConstantFacts DEF TimeoutType, CallState,
       AhciInit, boot, device, locals, ghost
  <2>5. CommandType'
    BY <1>0, <1>1, ConstantFacts DEF CommandType, DriverType, CallState, Answers, Chosen, Inside, Call,
       AhciInit, boot, device, locals, ghost
  <2>6. RetType'
    BY <1>0, <1>1, ConstantFacts DEF RetType, DriverType, CallState, Inside, Call,
       AhciInit, boot, device, locals, ghost
  <2> QED
    BY <2>1, <2>2, <2>3, <2>4, <2>5, <2>6
    DEF TypeOK, BootType, FlagType, DriverType, TimeoutType, CommandType, RetType
<1>3. SetUp'
  <2>1. CASE UNCHANGED boot
    BY <1>0, <2>1 DEF SetUp, Inside, AhciInit, boot, device
  <2>2. CASE /\ initialized' = TRUE /\ started' = TRUE
             /\ \E l, t \in pages : /\ l # t
                                     /\ list' = l /\ ctba' = [ctba EXCEPT ![0] = t]
    <3>1. pc' = "idle" /\ "idle" \notin Inside
      BY DEF AhciInit, Inside
    <3>2. 0 \in Slot
      BY PortAssumption DEF Slot
    <3>3. initialized' /\ started' /\ list' \in PortFrames /\ ctba'[0] \in PortFrames \ {list'}
      BY <1>0, <2>2, <3>2 DEF BootType
    <3> QED
      BY <3>1, <3>3 DEF SetUp
  <2>3. CASE initialized' = FALSE
    BY <1>0, <2>3 DEF SetUp, Inside, AhciInit, device, BootType
  <2>4. CASE ~UNCHANGED boot
    <3>1. initialized' = (Cardinality(pages) >= 3)
      BY <2>4, Zenon DEF AhciInit
    <3>2. Cardinality(pages) >= 3 =>
            \E l, t \in pages : /\ l # t
                                /\ list' = l /\ ctba' = [ctba EXCEPT ![0] = t]
      BY <2>4, Zenon DEF AhciInit
    <3>3. started' = (started \/ Cardinality(pages) >= 3)
      BY <2>4, Zenon DEF AhciInit
    <3>4. CASE Cardinality(pages) >= 3
      BY <2>2, <3>1, <3>2, <3>3, <3>4, Zenon
    <3>5. CASE ~(Cardinality(pages) >= 3)
      BY <2>3, <3>1, <3>5, PagesCounted, Zenon
    <3> QED
      BY <3>4, <3>5
  <2> QED
    BY <2>1, <2>4, Zenon
<1>4. CallState'
  BY <1>0, <1>1, ConstantFacts DEF CallState, DriverType, CommandType, Inside, Chosen, Call,
     AhciInit, boot, device, locals, ghost
<1>5. Answers'
  BY <1>0, <1>1, ConstantFacts DEF Answers, CallState, DriverType, CommandType, Inside, Chosen, Issued, Call,
     AhciInit, boot, device, locals, ghost
<1> QED
  BY <1>2, <1>3, <1>4, <1>5 DEF Inv

LEMMA BeginCallKeepsInv ==
  ASSUME Inv, BeginCall
  PROVE  Inv'
<1>0. /\ BootType /\ FlagType /\ DriverType /\ TimeoutType /\ CommandType /\ RetType
      /\ TypeOK /\ SetUp /\ CallState /\ Answers
  BY TypeParts DEF Inv
<1>1. TypeOK'
  <2>1. BootType'
    BY <1>0, ConstantFacts DEF BootType, Frame,
       BeginCall, Refused, boot, device, locals, ghost
  <2>2. FlagType'
    BY <1>0, ConstantFacts DEF FlagType,
       BeginCall, Refused, boot, device, locals, ghost
  <2>3. DriverType'
    BY <1>0, ConstantFacts DEF DriverType, CallState, Call,
       BeginCall, Refused, boot, device, locals, ghost
  <2>4. TimeoutType'
    BY <1>0, ConstantFacts DEF TimeoutType, CallState,
       BeginCall, Refused, boot, device, locals, ghost
  <2>5. CommandType'
    BY <1>0, ConstantFacts DEF CommandType, DriverType, CallState, Answers, Chosen, Inside, Call,
       BeginCall, Refused, boot, device, locals, ghost
  <2>6. RetType'
    BY <1>0, ConstantFacts DEF RetType, DriverType, CallState, Inside, Call,
       BeginCall, Refused, boot, device, locals, ghost
  <2> QED
    BY <2>1, <2>2, <2>3, <2>4, <2>5, <2>6
    DEF TypeOK, BootType, FlagType, DriverType, TimeoutType, CommandType, RetType
<1>2. SetUp'
  BY <1>0, ConstantFacts DEF SetUp, Inside, BootType, DriverType,
     BeginCall, Refused, boot, device, locals, ghost
<1>3. CallState'
  BY <1>0, ConstantFacts DEF CallState, DriverType, CommandType, Inside, Chosen, Call,
     BeginCall, Refused, boot, device, locals, ghost
<1>4. Answers'
  BY <1>0, ConstantFacts DEF Answers, CallState, DriverType, CommandType, Inside, Chosen, Issued, Call,
     BeginCall, Refused, boot, device, locals, ghost
<1> QED
  BY <1>1, <1>2, <1>3, <1>4 DEF Inv

LEMMA FillSlotKeepsInv ==
  ASSUME Inv, FillSlot
  PROVE  Inv'
<1>0. /\ BootType /\ FlagType /\ DriverType /\ TimeoutType /\ CommandType /\ RetType
      /\ TypeOK /\ SetUp /\ CallState /\ Answers
  BY TypeParts DEF Inv
<1>1. \/ FindCmdslot = -1
      \/ FindCmdslot \in Slot /\ FindCmdslot \notin ci /\ FindCmdslot # -1
  BY <1>0, CmdslotIsFree, SlotsAreNumbers DEF CommandType
<1>2. TypeOK'
  <2>1. BootType' /\ FlagType'
    BY <1>0 DEF BootType, FlagType, FillSlot, boot, device
  <2>2. DriverType'
    BY <1>0, <1>1 DEF DriverType, FillSlot, Return
  <2>3. TimeoutType'
    BY <1>0, ConstantFacts DEF TimeoutType, FillSlot
  <2>4. CommandType'
    BY <1>0 DEF CommandType, FillSlot, boot, device, ghost
  <2>5. RetType'
    BY <1>0, ConstantFacts DEF RetType, CallState, Inside, FillSlot, Return
  <2> QED
    BY <2>1, <2>2, <2>3, <2>4, <2>5
    DEF TypeOK, BootType, FlagType, DriverType, TimeoutType, CommandType, RetType
<1>3. SetUp'
  BY <1>0, <1>1, ConstantFacts DEF SetUp, Inside, BootType, DriverType,
     FillSlot, Return, boot, device, locals, ghost
<1>4. CallState'
  BY <1>0, <1>1, ConstantFacts DEF CallState, DriverType, CommandType, Inside, Chosen, Call,
     FillSlot, Return, boot, device, locals, ghost
<1>5. Answers'
  BY <1>0, <1>1, ConstantFacts DEF Answers, CallState, DriverType, CommandType, Inside, Chosen, Issued, Call,
     FillSlot, Return, boot, device, locals, ghost
<1> QED
  BY <1>2, <1>3, <1>4, <1>5 DEF Inv

LEMMA PollReadyKeepsInv ==
  ASSUME Inv, PollReady
  PROVE  Inv'
<1>0. /\ BootType /\ FlagType /\ DriverType /\ TimeoutType /\ CommandType /\ RetType
      /\ TypeOK /\ SetUp /\ CallState /\ Answers
  BY TypeParts DEF Inv
<1>1. TypeOK'
  BY <1>0, ConstantFacts DEF TypeOK, CallState, Inside, Chosen, Frame, Call,
     PollReady, boot, device, locals, ghost
<1>2. SetUp'
  BY <1>0, ConstantFacts DEF SetUp, Inside, BootType, DriverType,
     PollReady, boot, device, locals, ghost
<1>3. CallState'
  BY <1>0, ConstantFacts DEF CallState, DriverType, CommandType, Inside, Chosen, Call,
     PollReady, boot, device, locals, ghost
<1>4. Answers'
  BY <1>0, ConstantFacts DEF Answers, CallState, DriverType, CommandType, Inside, Chosen, Issued, Call,
     PollReady, boot, device, locals, ghost
<1> QED
  BY <1>1, <1>2, <1>3, <1>4 DEF Inv

LEMMA IssueKeepsInv ==
  ASSUME Inv, Issue
  PROVE  Inv'
<1>0. /\ BootType /\ FlagType /\ DriverType /\ TimeoutType /\ CommandType /\ RetType
      /\ TypeOK /\ SetUp /\ CallState /\ Answers
  BY TypeParts DEF Inv
<1>1. TypeOK'
  <2>1. BootType'
    BY <1>0, ConstantFacts DEF BootType, Frame,
       Issue, Return, boot, device, locals, ghost
  <2>2. FlagType'
    BY <1>0, ConstantFacts DEF FlagType,
       Issue, Return, boot, device, locals, ghost
  <2>3. DriverType'
    BY <1>0, ConstantFacts DEF DriverType, CallState, Call,
       Issue, Return, boot, device, locals, ghost
  <2>4. TimeoutType'
    BY <1>0, ConstantFacts DEF TimeoutType, CallState,
       Issue, Return, boot, device, locals, ghost
  <2>5. CommandType'
    BY <1>0, ConstantFacts DEF CommandType, DriverType, CallState, Answers, Chosen, Inside, Call,
       Issue, Return, boot, device, locals, ghost
  <2>6. RetType'
    BY <1>0, ConstantFacts DEF RetType, DriverType, CallState, Inside, Call,
       Issue, Return, boot, device, locals, ghost
  <2> QED
    BY <2>1, <2>2, <2>3, <2>4, <2>5, <2>6
    DEF TypeOK, BootType, FlagType, DriverType, TimeoutType, CommandType, RetType
<1>2. SetUp'
  BY <1>0, ConstantFacts DEF SetUp, Inside, BootType, DriverType,
     Issue, Return, boot, device, locals, ghost
<1>3. CallState'
  BY <1>0, ConstantFacts DEF CallState, DriverType, CommandType, Inside, Chosen, Call,
     Issue, Return, boot, device, locals, ghost
<1>4. Answers'
  <2>1. CASE timeout = 0
    BY <1>0, <2>1 DEF Answers, Issued, Issue, Return, boot
  <2>2. CASE timeout # 0
    <3>1. /\ ci' = ci \cup {slot} /\ owner' = [owner EXCEPT ![slot] = call]
          /\ pc' = "wait"
          /\ UNCHANGED << call, slot, tfes, failed, served >>
      BY <2>2 DEF Issue
    <3>2. slot \in Slot /\ call \in 1 .. call
      BY <1>0, ConstantFacts DEF Issue, CallState, Inside, Chosen, Call
    <3> QED
      BY <1>0, <3>1, <3>2 DEF Answers, CommandType, Issued
  <2> QED
    BY <2>1, <2>2
<1> QED
  BY <1>1, <1>2, <1>3, <1>4 DEF Inv

LEMMA PollDoneKeepsInv ==
  ASSUME Inv, PollDone
  PROVE  Inv'
<1>0. /\ BootType /\ FlagType /\ DriverType /\ TimeoutType /\ CommandType /\ RetType
      /\ TypeOK /\ SetUp /\ CallState /\ Answers
  BY TypeParts DEF Inv
<1>1. TypeOK'
  BY <1>0, ConstantFacts DEF TypeOK, CallState, Inside, Chosen, Frame, Call,
     PollDone, boot, device, locals, ghost
<1>2. SetUp'
  BY <1>0, ConstantFacts DEF SetUp, Inside, BootType, DriverType,
     PollDone, boot, device, locals, ghost
<1>3. CallState'
  BY <1>0, ConstantFacts DEF CallState, DriverType, CommandType, Inside, Chosen, Call,
     PollDone, boot, device, locals, ghost
<1>4. Answers'
  BY <1>0, ConstantFacts DEF Answers, CallState, DriverType, CommandType, Inside, Chosen, Issued, Call,
     PollDone, boot, device, locals, ghost
<1> QED
  BY <1>1, <1>2, <1>3, <1>4 DEF Inv

LEMMA PollErrorKeepsInv ==
  ASSUME Inv, PollError
  PROVE  Inv'
<1>0. /\ BootType /\ FlagType /\ DriverType /\ TimeoutType /\ CommandType /\ RetType
      /\ TypeOK /\ SetUp /\ CallState /\ Answers
  BY TypeParts DEF Inv
<1>1. TypeOK'
  BY <1>0, ConstantFacts DEF TypeOK, CallState, Inside, Chosen, Frame, Call,
     PollError, Return, boot, device, locals, ghost
<1>2. SetUp'
  BY <1>0, ConstantFacts DEF SetUp, Inside, BootType, DriverType,
     PollError, Return, boot, device, locals, ghost
<1>3. CallState'
  BY <1>0, ConstantFacts DEF CallState, DriverType, CommandType, Inside, Chosen, Call,
     PollError, Return, boot, device, locals, ghost
<1>4. Answers'
  BY <1>0, ConstantFacts DEF Answers, CallState, DriverType, CommandType, Inside, Chosen, Issued, Call,
     PollError, Return, boot, device, locals, ghost
<1> QED
  BY <1>1, <1>2, <1>3, <1>4 DEF Inv

LEMMA CheckResultKeepsInv ==
  ASSUME Inv, CheckResult
  PROVE  Inv'
<1>0. /\ BootType /\ FlagType /\ DriverType /\ TimeoutType /\ CommandType /\ RetType
      /\ TypeOK /\ SetUp /\ CallState /\ Answers
  BY TypeParts DEF Inv
<1>1. TypeOK'
  BY <1>0, ConstantFacts DEF TypeOK, CallState, Inside, Chosen, Frame, Call,
     CheckResult, Return, boot, device, locals, ghost
<1>2. SetUp'
  BY <1>0, ConstantFacts DEF SetUp, Inside, BootType, DriverType,
     CheckResult, Return, boot, device, locals, ghost
<1>3. CallState'
  BY <1>0, ConstantFacts DEF CallState, DriverType, CommandType, Inside, Chosen, Call,
     CheckResult, Return, boot, device, locals, ghost
<1>4. Answers'
  BY <1>0, ConstantFacts DEF Answers, CallState, DriverType, CommandType, Inside, Chosen, Issued, Call,
     CheckResult, Return, boot, device, locals, ghost
<1> QED
  BY <1>1, <1>2, <1>3, <1>4 DEF Inv

LEMMA FinishKeepsInv ==
  ASSUME Inv, NEW s \in Slot, Finish(s)
  PROVE  Inv'
<1>0. /\ BootType /\ FlagType /\ DriverType /\ TimeoutType /\ CommandType /\ RetType
      /\ TypeOK /\ SetUp /\ CallState /\ Answers
  BY TypeParts DEF Inv
<1>1. TypeOK'
  <2>1. BootType'
    BY <1>0, ConstantFacts DEF BootType, Frame,
       Finish, boot, device, locals, ghost
  <2>2. FlagType'
    BY <1>0, ConstantFacts DEF FlagType,
       Finish, boot, device, locals, ghost
  <2>3. DriverType'
    BY <1>0, ConstantFacts DEF DriverType, CallState, Call,
       Finish, boot, device, locals, ghost
  <2>4. TimeoutType'
    BY <1>0, ConstantFacts DEF TimeoutType, CallState,
       Finish, boot, device, locals, ghost
  <2>5. CommandType'
    <3>1. owner[s] \in Call
      BY <1>0, ConstantFacts DEF Answers, DriverType, Call, Finish
    <3> QED
      BY <1>0, <3>1 DEF CommandType, Finish
  <2>6. RetType'
    BY <1>0, ConstantFacts DEF RetType, DriverType, CallState, Inside, Call,
       Finish, boot, device, locals, ghost
  <2> QED
    BY <2>1, <2>2, <2>3, <2>4, <2>5, <2>6
    DEF TypeOK, BootType, FlagType, DriverType, TimeoutType, CommandType, RetType
<1>2. SetUp'
  BY <1>0, ConstantFacts DEF SetUp, Inside, BootType, DriverType,
     Finish, boot, device, locals, ghost
<1>3. CallState'
  BY <1>0, ConstantFacts DEF CallState, DriverType, CommandType, Inside, Chosen, Call,
     Finish, boot, device, locals, ghost
<1>4. Answers'
  BY <1>0, ConstantFacts DEF Answers, CallState, DriverType, CommandType, Inside, Chosen, Issued, Call,
     Finish, boot, device, locals, ghost
<1> QED
  BY <1>1, <1>2, <1>3, <1>4 DEF Inv

LEMMA RejectKeepsInv ==
  ASSUME Inv, NEW s \in Slot, Reject(s)
  PROVE  Inv'
<1>0. /\ BootType /\ FlagType /\ DriverType /\ TimeoutType /\ CommandType /\ RetType
      /\ TypeOK /\ SetUp /\ CallState /\ Answers
  BY TypeParts DEF Inv
<1>1. TypeOK'
  <2>1. BootType'
    BY <1>0, ConstantFacts DEF BootType, Frame,
       Reject, boot, device, locals, ghost
  <2>2. FlagType'
    BY <1>0, ConstantFacts DEF FlagType,
       Reject, boot, device, locals, ghost
  <2>3. DriverType'
    BY <1>0, ConstantFacts DEF DriverType, CallState, Call,
       Reject, boot, device, locals, ghost
  <2>4. TimeoutType'
    BY <1>0, ConstantFacts DEF TimeoutType, CallState,
       Reject, boot, device, locals, ghost
  <2>5. CommandType'
    <3>1. owner[s] \in Call
      BY <1>0, ConstantFacts DEF Answers, DriverType, Call, Reject
    <3> QED
      BY <1>0, <3>1 DEF CommandType, Reject
  <2>6. RetType'
    BY <1>0, ConstantFacts DEF RetType, DriverType, CallState, Inside, Call,
       Reject, boot, device, locals, ghost
  <2> QED
    BY <2>1, <2>2, <2>3, <2>4, <2>5, <2>6
    DEF TypeOK, BootType, FlagType, DriverType, TimeoutType, CommandType, RetType
<1>2. SetUp'
  BY <1>0, ConstantFacts DEF SetUp, Inside, BootType, DriverType,
     Reject, boot, device, locals, ghost
<1>3. CallState'
  BY <1>0, ConstantFacts DEF CallState, DriverType, CommandType, Inside, Chosen, Call,
     Reject, boot, device, locals, ghost
<1>4. Answers'
  BY <1>0, ConstantFacts DEF Answers, CallState, DriverType, CommandType, Inside, Chosen, Issued, Call,
     Reject, boot, device, locals, ghost
<1> QED
  BY <1>1, <1>2, <1>3, <1>4 DEF Inv

LEMMA ChangeBusyKeepsInv ==
  ASSUME Inv, ChangeBusy
  PROVE  Inv'
<1>0. /\ BootType /\ FlagType /\ DriverType /\ TimeoutType /\ CommandType /\ RetType
      /\ TypeOK /\ SetUp /\ CallState /\ Answers
  BY TypeParts DEF Inv
<1>1. TypeOK'
  BY <1>0, ConstantFacts DEF TypeOK, CallState, Inside, Chosen, Frame, Call,
     ChangeBusy, boot, device, locals, ghost
<1>2. SetUp'
  BY <1>0, ConstantFacts DEF SetUp, Inside, BootType, DriverType,
     ChangeBusy, boot, device, locals, ghost
<1>3. CallState'
  BY <1>0, ConstantFacts DEF CallState, DriverType, CommandType, Inside, Chosen, Call,
     ChangeBusy, boot, device, locals, ghost
<1>4. Answers'
  BY <1>0, ConstantFacts DEF Answers, CallState, DriverType, CommandType, Inside, Chosen, Issued, Call,
     ChangeBusy, boot, device, locals, ghost
<1> QED
  BY <1>1, <1>2, <1>3, <1>4 DEF Inv

LEMMA StutterKeepsInv ==
  ASSUME Inv, UNCHANGED vars
  PROVE  Inv'
<1>0. /\ BootType /\ FlagType /\ DriverType /\ TimeoutType /\ CommandType /\ RetType
      /\ TypeOK /\ SetUp /\ CallState /\ Answers
  BY TypeParts DEF Inv
<1>1. TypeOK'
  BY <1>0, ConstantFacts DEF TypeOK, CallState, Inside, Chosen, Frame, Call,
     vars, boot, device, locals, ghost
<1>2. SetUp'
  BY <1>0, ConstantFacts DEF SetUp, Inside, BootType, DriverType,
     vars, boot, device, locals, ghost
<1>3. CallState'
  BY <1>0, ConstantFacts DEF CallState, DriverType, CommandType, Inside, Chosen, Call,
     vars, boot, device, locals, ghost
<1>4. Answers'
  BY <1>0, ConstantFacts DEF Answers, CallState, DriverType, CommandType, Inside, Chosen, Issued, Call,
     vars, boot, device, locals, ghost
<1> QED
  BY <1>1, <1>2, <1>3, <1>4 DEF Inv

LEMMA NextKeepsInv == Inv /\ [Next]_vars => Inv'
<1> SUFFICES ASSUME Inv, [Next]_vars PROVE Inv'
  OBVIOUS
<1>1. CASE \E attached \in DeviceMaps, pages \in SUBSET PortFrames : AhciInit(attached, pages)
  BY <1>1, AhciInitKeepsInv
<1>2. CASE Driver
  BY <1>2, BeginCallKeepsInv, FillSlotKeepsInv, PollReadyKeepsInv, IssueKeepsInv,
     PollDoneKeepsInv, PollErrorKeepsInv, CheckResultKeepsInv DEF Driver
<1>3. CASE Device
  BY <1>3, FinishKeepsInv, RejectKeepsInv, ChangeBusyKeepsInv DEF Device
<1>4. CASE UNCHANGED vars
  BY <1>4, StutterKeepsInv
<1> QED
  BY <1>1, <1>2, <1>3, <1>4 DEF Next

\* The invariant holds in every reachable state.
THEOREM InvHolds == Spec => []Inv
<1>1. Init => Inv
  BY InitEstablishesInv
<1>2. Inv /\ [Next]_vars => Inv'
  BY NextKeepsInv
<1> QED
  BY <1>1, <1>2, PTL DEF Spec

-----------------------------------------------------------------------------
\* Every reachable state of the driver and its port is well typed.
THEOREM AhciTypeCorrect == Spec => []TypeOK
<1>1. Inv => TypeOK
  BY DEF Inv
<1> QED
  BY <1>1, InvHolds, PTL

\* A command is only ever issued to a port whose engine ahci_init started with
\* a command list, although ahci_init chooses the port first; in slot 0 it
\* has the table.
THEOREM SetUpBeforeCommands == Spec => []CommandsNeedSetup
<1>1. Inv => CommandsNeedSetup
  BY DEF Inv, SetUp, CommandsNeedSetup
<1> QED
  BY <1>1, InvHolds, PTL

\* port_read never writes the bit of a slot that still holds a command.
THEOREM SlotStillFree == Spec => SlotNotTaken
<1>1. Inv /\ [Next]_vars => \A s \in Slot : owner'[s] # owner[s] => s \notin ci
  <2> SUFFICES ASSUME Inv, [Next]_vars, NEW s \in Slot, owner'[s] # owner[s]
               PROVE  s \notin ci
    OBVIOUS
  <2>1. CASE Issue
    BY <2>1, SMT DEF Inv, TypeOK, CallState, Issue, Return
  <2>2. CASE owner' = owner
    BY <2>2
  <2>3. Issue \/ owner' = owner
    BY Zenon DEF Next, Driver, Device, vars, ghost, AhciInit, BeginCall, FillSlot, PollReady,
       PollDone, PollError, CheckResult, Finish, Reject, ChangeBusy
  <2> QED
    BY <2>1, <2>2, <2>3
<1> QED
  BY <1>1, InvHolds, PTL DEF Spec, SlotNotTaken

\* What a step may report: only the last step of the running call makes it
\* return 0, and then the device has finished the command or the loop has run
\* out, and the device has not rejected it.
LEMMA ZeroIsEarned ==
  ASSUME Inv, [Next]_vars, NEW c \in Call, Ends(c, 0)
  PROVE  c \notin failed /\ (c \in served \/ timeout = -1)
<1>1. CASE CheckResult
  BY <1>1, SMT DEF Inv, TypeOK, CallState, Answers, CheckResult, Return, Ends, Pending, Call
<1>2. CASE ret' = ret
  BY <1>2, SMT DEF Ends, Pending
<1>3. CASE BeginCall
  <2>1. ret' = ret \/ ret' = [ret EXCEPT ![call + 1] = -1]
    BY <1>3 DEF BeginCall
  <2>2. ret'[c] = ret[c] \/ ret'[c] = -1
    BY <2>1 DEF Inv, TypeOK
  <2> QED
    BY <2>2, SMT DEF Ends, Pending
<1>4. CASE FillSlot \/ Issue \/ PollError
  <2>1. ret' = ret \/ ret' = [ret EXCEPT ![call] = -1]
    BY <1>4 DEF FillSlot, Issue, PollError, Return
  <2>2. ret'[c] = ret[c] \/ ret'[c] = -1
    BY <2>1 DEF Inv, TypeOK
  <2> QED
    BY <2>2, SMT DEF Ends, Pending
<1>5. CheckResult \/ BeginCall \/ FillSlot \/ Issue \/ PollError \/ ret' = ret
  BY Zenon DEF Next, Driver, Device, vars, AhciInit, PollReady, PollDone, Finish, Reject, ChangeBusy
<1> QED
  BY <1>1, <1>2, <1>3, <1>4, <1>5

\* A call whose command the device rejected does not return 0.
THEOREM RejectionNotLost == Spec => RejectionReported
<1>1. Inv /\ [Next]_vars => \A c \in Call : Ends(c, 0) => c \notin failed
  BY ZeroIsEarned
<1> QED
  BY <1>1, InvHolds, PTL DEF Spec, RejectionReported

\* A call returns 0 only after the device finished its command or the whole
\* completion loop was waited for.
THEOREM NoEarlySuccess == Spec => SuccessAfterWait
<1>1. Inv /\ [Next]_vars => \A c \in Call : Ends(c, 0) => c \in served \/ timeout = -1
  BY ZeroIsEarned
<1> QED
  BY <1>1, InvHolds, PTL DEF Spec, SuccessAfterWait
=============================================================================
